CONSTANTS
  own = own  remote = remote  t1 = t1  t2 = t2  short = short  long = long
  Writers = {own, remote}
  LocalWriters = {own}
  Takers = {t1, t2}
  Messages = {short, long}
  Default = short
  KindsOf <- MCKindsOf
  Size <- MCSize
  FieldKinds <- MCFieldKinds
  Depth = 1
  MaxPublished = 2
  MaxGone = 1
  MaxFailures = 1
SPECIFICATION FairSpec
INVARIANTS TypeOK DeliveredOnce NoMixtureTaken BufferHoldsMessage
PROPERTY EverySampleIsTaken

CONSTANTS
  w1 = w1  w2 = w2  g1 = g1  g2 = g2
  sub = sub  service = service  client = client
  x1 = x1  x2 = x2  e1 = e1  e2 = e2  e3 = e3
  deadline = deadline  liveliness = liveliness
  WaitSets = {w1, w2}
  Guards = {g1}
  Reads = {sub}
  Statuses = {x1}
  Kinds = {deadline}
  Events = {e1}
  EventCond <- MCEventCond
  EventKind <- MCEventKind
  Requests <- LiveRequests
  MaxSamples = 1
  MaxFailures = 1
SPECIFICATION FairSpec
PROPERTIES WorkIsSeen DataIsReported ImplementsContract

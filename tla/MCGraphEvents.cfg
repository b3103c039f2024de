CONSTANTS
  pub = pub  sub = sub  p1 = p1  s1 = s1  n1 = n1  t1 = t1
  graph = graph  o1 = o1  o2 = o2
  Listeners = {pub, sub}
  Handles = {p1, s1}
  ListenerOf <- MCListenerOf
  Names = {n1}
  Types = {t1}
  RosNames = {n1}
  MaxAnnounced = 2
  MaxUpdates = 0
  Observers = {o1, o2}
  GraphGuard = graph
SPECIFICATION FairEventSpec
CHECK_DEADLOCK FALSE
INVARIANT ChangesAnnounced
PROPERTY GraphSettles

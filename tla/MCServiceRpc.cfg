CONSTANTS
  c1 = c1  c2 = c2  s1 = s1
  Clients = {c1, c2}
  Servers = {s1}
  Half = 2
  Depth = 1
  MaxRequests <- MCMaxRequests
  MaxStops = 1
  Departures = {s1}
  Unreadable = {c2}
SPECIFICATION FairSpec
CHECK_DEADLOCK FALSE
INVARIANTS TypeOK ResponsesAreOwn
PROPERTIES ImplementsServiceCall AvailableThenAnswered

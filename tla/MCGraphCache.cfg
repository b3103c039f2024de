CONSTANTS
  pub = pub  sub = sub  p1 = p1  p2 = p2  s1 = s1
  plain = plain  request = request  response = response
  t1 = t1  t2 = t2
  Listeners = {pub, sub}
  Handles = {p1, p2, s1}
  ListenerOf <- MCListenerOf
  Names = {plain, request, response}
  Types = {t1, t2}
  RosNames = {plain}
  Services <- MCServices
  NoService = none
  ServiceTypes = {"Scan", "Map"}
  PartsOfName <- MCPartsOfName
  PartsOfType <- MCPartsOfType
  MaxAnnounced = 2
  MaxUpdates = 1
SPECIFICATION CacheSpec
CHECK_DEADLOCK FALSE
INVARIANTS CacheTypeOK CacheConsistent NoBadErase CountsExact TopicsExact LiveEndpointsKnown ServicesCutShort

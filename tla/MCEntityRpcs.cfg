CONSTANTS
  publisher = publisher  subscription = subscription  other = other
  service = service  client = client  t1 = t1  t2 = t2
  Publishers = {}
  Subscriptions = {}
  Services = {service}
  Clients = {client}
  TopicOf <- MCTopicOf
  MaxFailures = 1
SPECIFICATION Spec
INVARIANT RpcsUnroll

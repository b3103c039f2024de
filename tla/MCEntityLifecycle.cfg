CONSTANTS
  publisher = publisher  subscription = subscription  other = other
  service = service  client = client  t1 = t1  t2 = t2
  Publishers = {publisher}
  Subscriptions = {subscription}
  Services = {}
  Clients = {client}
  TopicOf <- MCTopicOf
  MaxFailures = 2
SPECIFICATION FairSpec
INVARIANTS TypeOK PubSubsUnroll FieldsAreValid
PROPERTIES CreationSucceeds DestructionCompletes

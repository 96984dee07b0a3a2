SPECIFICATION FairSpec
CONSTANTS
  r1 = r1
  r2 = r2
  k1 = k1
  k2 = k2
  welcome = welcome
  NoTemplate = notemplate
  Unknown = unknown
  NoKey = nokey
  Names <- MCNames
  Keys <- MCKeys
  Requests <- MCRequests
  Bodies <- MCBodies
  MaxItems = 2
  TemplateRequests <- MCTemplateRequests
  Queries <- MCQueries
  IdOrder <- MCIdOrder
  MaxPage = 2
CHECK_DEADLOCK FALSE
INVARIANTS
  TypeOK
  AcceptedCanBeSent
  ListingComplete
PROPERTIES
  RegistryImplemented
  RequestsAnswered

\* Three tables of edges, two charges and a ring, two connections.
CONSTANTS
  Type <- MCType
  Entity <- MCEntity
  Catalogs <- MCCatalogs
  Linked <- MCLinked
  Fixed <- MCFixed
  Rule <- MCRule
  Request <- MCRequest
  NoTrigger = NoTrigger
  Computable <- MCComputable
  Null = Null
  Session = {s1, s2}
  Movement <- MCMovement
  Arrived <- MCArrived
  Account = "account"
  Window = 2
  Network = "network"
  Instant = {1, 2}
  MaxValues = 2
SPECIFICATION ReadsSpec
INVARIANTS
  RouteDetermined
  NothingLaundered
  OwnEntities
  RereadMovesWithOverlapsOnly
  ExposureOfAnInstant
SYMMETRY Connections
CHECK_DEADLOCK FALSE

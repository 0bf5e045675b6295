CONSTANTS
  RouterOrder <- MCRouterOrder
  Segments <- MCSegments
  VCs <- MCVCs
  vcBucketCount = 3
  TickSeconds = 2
  Steps = {1}
  MaxTicks <- MCMaxTicks
SPECIFICATION FairSpec
INVARIANTS
    Inv
    ViewExact
PROPERTIES
    ImplementsAdmission
    StreamEnds

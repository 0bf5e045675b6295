CONSTANTS
  Conns = {c1, c2, c3}
  maxConcurrentStreams = 2
  Callers = {r1}
  Eps = 1
  maxArtifactBytes = 2
  connectivityCapSample = 1
  Chord <- MCChord
  Launches <- MCLaunches
  NaN = NaN
  IPs = {ip1, ip2}
  ConfigBurst = 2
  Rate = 2
  Unit = 3
  SweepInterval = 1
  IdleTTL = 2
  MaxTime = 5
SPECIFICATION MCSpec
INVARIANTS
    LiveRunsBounded
    LoadedIsTheExport
    IslandsAreComponents
    ExitCodesTell
    WindowBound
PROPERTIES
    ServerEnds
    RetryAfterSuffices
    ImplementsIdeal

CONSTANTS
    IPs = {ip1, ip2}
    ConfigBurst = 2
    Rate = 2
    Unit = 3
    SweepInterval = 1
    IdleTTL = 2
    MaxTime = 6
SPECIFICATION LimiterSpec
INVARIANTS
    SweptBucketIsFull

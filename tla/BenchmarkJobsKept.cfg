CONSTANTS
  c1 = c1
  c2 = c2
  Clients = {c1, c2}
  Requests <- MCRequests
  Names <- MCNames
  RouterOrder <- MCRouterOrder
  DefaultODCount = 2
  maxRequestCount = 3
  maxConcurrentSweeps = 1
  maxJobs = 2
  MaxPosts = 3
SPECIFICATION Spec
INVARIANT AcceptedJobIsKept

\* Expected to be violated: what gateway-chat-pool.ts says of the pool.
SPECIFICATION PoolSpec
CONSTANTS
  Runtimes = {r1}
  Requests = {t1, t2, p1}
  Turns = {t1, t2}
  Clients = {c1, c2, c3, c4}
  NoClient = NoClient
  MaxCandidates = 1
PROPERTY NeverRecycledMidRequest
CHECK_DEADLOCK FALSE

SPECIFICATION ServerSpec
CONSTANTS
\* GatewayPool: two chat turns and one plain request ask for a runtime that has a
\* fallback URL.
  Runtimes = {r1}
  Requests = {t1, t2, p1}
  Turns = {t1, t2}
  Clients = {c1, c2, c3}
  NoClient = NoClient
  MaxCandidates = 2
\* RuntimeCredentials
  Dials = {d1}
  Reauths = {u1}
  Imports = {i1}
  Home = Home
  Nobody = Nobody
  MaxTokens = 2
\* Governance
  Deciders = {x1, x2}
  Editors = {f1, f2}
  Rollbacks = {b1}
\* FindOrCreate
  Ensurers = {w1, w2}
  Resolvers = {s1, s2}
  Retries = 1
  MaxRows = 4
\* SkillSync
  Agents = {a1, a2}
  MaxCalls = 3
  MaxUnderWay = 2
\* AgentRuntime
  LocalCalls = {1, 2, 3}
  NoCall = NoCall
  Viewers = {v1, v2}
  NoViewer = NoViewer
SYMMETRY Symmetry
INVARIANTS PoolSound OneConnectionUnlessOverlap CredentialsAgree HistoryTrue FoundOnce SkillsFollow
  OthersKept ChildrenKept ViewersFollow
PROPERTIES RecycleSparesHeld NothingLost EditsKept
CHECK_DEADLOCK FALSE

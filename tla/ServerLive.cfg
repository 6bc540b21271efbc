SPECIFICATION ServerSpec
CONSTANTS
\* One chat turn and one plain request with two candidate URLs each: they never run
\* out of clients.
  Runtimes = {r1}
  Requests = {t1, p1}
  Turns = {t1}
  Clients = {c1, c2, c3, c4}
  NoClient = NoClient
  MaxCandidates = 2
\* GatewayClient
  Calls = {k1, k2}
  MaxSockets = 3
\* RealtimeConsult
  MaxFinals = 2
\* EventBridge
  Links = {e1, e2, e3}
  NoEnd = NoEnd
  Runs = {w1}
  MaxChanges = 2
  MaxFaults = 2
\* AgentRuntime
  LocalCalls = {1, 2}
  NoCall = NoCall
  Viewers = {v1, v2}
  NoViewer = NoViewer
INVARIANTS SocketsSound ConsultSound BridgeSound
PROPERTIES IsChannel ClientSettles AcquisitionSettles ConsultEnds Mirrored CallsEnd
CHECK_DEADLOCK FALSE

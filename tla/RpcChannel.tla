------------------------------ MODULE RpcChannel -----------------------------
(***************************************************************************)
(* What a gateway client promises the code that calls rpc(): a call ends,  *)
(* by its answer, by its own time limit or because the connection ended,   *)
(* and no call waits on a connection that is gone.                         *)
(***************************************************************************)
CONSTANT Calls

VARIABLES
  up,    \* the client is connected
  call   \* state of each call

vars == <<up, call>>

Init ==
  /\ up = FALSE
  /\ call = [c \in Calls |-> "idle"]

Waiting == {c \in Calls : call[c] = "waiting"}

Comes == ~up /\ up' = TRUE /\ UNCHANGED call

\* The connection ends, and with it every call that waits.
Goes ==
  /\ up /\ up' = FALSE
  /\ call' = [c \in Calls |-> IF c \in Waiting THEN "failed" ELSE call[c]]

Start(c) ==
  /\ call[c] = "idle"
  /\ call' = [call EXCEPT ![c] = IF up THEN "waiting" ELSE "failed"]
  /\ UNCHANGED up

End(c) ==
  /\ c \in Waiting /\ up
  /\ \E result \in {"answered", "failed", "timedout"} : call' = [call EXCEPT ![c] = result]
  /\ UNCHANGED up

Next == Comes \/ Goes \/ \E c \in Calls : Start(c) \/ End(c)

Spec == Init /\ [][Next]_vars /\ \A c \in Calls : WF_vars(End(c))
=============================================================================

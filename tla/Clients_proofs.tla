--------------------------- MODULE Clients_proofs ---------------------------
(***************************************************************************)
(* Theorems about the gateway's clients on the server: GatewayPool, which  *)
(* hands them out, for any set of runtimes, requests, clients and any      *)
(* number of candidate URLs; GatewayClient, for any set of calls and any   *)
(* number of sockets; and the two parts that hold a client of the pool     *)
(* beside the chat turns: RealtimeConsult, for any number of final events, *)
(* and EventBridge, for any clients and timers.                            *)
(*                                                                         *)
(* The pool's invariant adds to the properties what makes them true: a     *)
(* client is referred to by nobody before it is dialled (FreshUnknown) and *)
(* only by its dialler until it is handed out (DialledPrivate).            *)
(*                                                                         *)
(* resetTransportForRetry empties the pending map without rejecting what   *)
(* is in it. That is harmless because it only runs while connect() is      *)
(* under way, when no call of rpc() is pending: QuietConnect. The connect  *)
(* timer needs the same invariant from the other side: only the socket     *)
(* being dialled has one, and whatever ends the dialling clears it.        *)
(*                                                                         *)
(* What holds of a consultation follows from where its route is: AskInv    *)
(* says which timers, listeners and histories go with which await.  What   *)
(* the bridge has copied needs one fact more: while it writes, what it was *)
(* given is the newest, unless something says that it is not (CopyInv).    *)
(***************************************************************************)
EXTENDS GatewayPool, GatewayClient, RealtimeConsult, EventBridge, FiniteSetTheorems, TLAPS

-----------------------------------------------------------------------------
(* The pool.                                                               *)

Dialling == {"connecting", "persisting", "repairing"}

\* Nothing refers to a client that has not been created.
FreshUnknown ==
  \A c \in Clients : conn[c] = "new" => /\ holds[c] = 0
                                        /\ \A u \in Requests : client[u] # c
                                        /\ \A r \in Runtimes : pool[r] # c

\* A client being connected is known to its dialler only.
DialledPrivate ==
  \A u \in Requests : pc[u] \in Dialling =>
    /\ client[u] \in Clients
    /\ home[client[u]] = runtime[u]
    /\ conn[client[u]] # "closed"
    /\ pc[u] # "connecting" => conn[client[u]] \in {"open", "lost"}
    /\ holds[client[u]] = 0
    /\ \A v \in Requests : v # u => client[v] # client[u]
    /\ \A r \in Runtimes : pool[r] # client[u]

\* A request that was answered has a client.
HandedOut == \A u \in Requests : pc[u] \in {"returned", "using"} => client[u] \in Clients

Structure ==
  /\ FreshUnknown
  /\ DialledPrivate
  /\ HandedOut
  /\ PoolEntriesUsable

HoldCounts == HoldsBacked /\ HoldsExact

\* Without an overlap a runtime has one dialler, which finds the pool empty.
SingleFlight ==
  \A r \in Runtimes \ overlapped :
    /\ \A u, v \in Dialers(r) : u = v
    /\ Dialers(r) # {} => pool[r] = NoClient
    /\ \A c \in Clients : conn[c] = "open" /\ home[c] = r
         => \/ c = pool[r]
            \/ \E u \in Dialers(r) : pc[u] \in Dialling /\ client[u] = c

IInv == PoolTypeOK /\ Structure /\ HoldCounts /\ SingleFlight

-----------------------------------------------------------------------------
(* Type correctness.                                                       *)

LEMMA HoldCountsTyped ==
  ASSUME NEW h \in [Clients -> Nat], NEW c \in Clients
  PROVE  Held(h, c) \in [Clients -> Nat] /\ Released(h, c) \in [Clients -> Nat]
  BY DEF Held, Released

LEMMA HoldCountsAt ==
  ASSUME NEW h \in [Clients -> Nat], NEW c \in Clients, NEW d \in Clients
  PROVE  /\ Held(h, c)[d] = IF d = c THEN h[d] + 1 ELSE h[d]
         /\ Released(h, c)[d] = IF d # c THEN h[d]
                                ELSE IF h[d] <= 1 THEN 0 ELSE h[d] - 1
  BY DEF Held, Released

LEMMA StepTypeOK == PoolTypeOK /\ HandedOut /\ [PoolNext]_poolVars => PoolTypeOK'
<1> SUFFICES ASSUME PoolTypeOK, HandedOut, [PoolNext]_poolVars PROVE PoolTypeOK'
  OBVIOUS
<1> USE CandidatesAssumption, HoldCountsTyped
    DEF PoolTypeOK, HandedOut, PCs, Acquiring, poolVars, entryVars, requestVars, ghosts, Goto
<1>1. ASSUME NEW u \in Requests, Start(u) PROVE PoolTypeOK'
  BY <1>1 DEF Start
<1>2. ASSUME NEW u \in Requests, LookupFails(u) \/ SealFails(u) PROVE PoolTypeOK'
  BY <1>2 DEF LookupFails, SealFails
<1>3. ASSUME NEW u \in Requests, Reuse(u) PROVE PoolTypeOK'
  BY <1>3 DEF Reuse, Reusable, RecycleDeferred
<1>4. ASSUME NEW u \in Requests, Recycle(u) PROVE PoolTypeOK'
  BY <1>4 DEF Recycle, Reusable, RecycleDeferred
<1>5. ASSUME NEW u \in Requests, Handshake(u) PROVE PoolTypeOK'
  BY <1>5 DEF Handshake
<1>6. ASSUME NEW u \in Requests, AttemptFails(u) PROVE PoolTypeOK'
  BY <1>6 DEF AttemptFails
<1>7. ASSUME NEW u \in Requests, ConnectResolves(u) PROVE PoolTypeOK'
  BY <1>7 DEF ConnectResolves, Install
<1>8. ASSUME NEW u \in Requests, Repaired(u) PROVE PoolTypeOK'
  BY <1>8 DEF Repaired, Install
<1>9. ASSUME NEW u \in Requests, Hold(u) PROVE PoolTypeOK'
  BY <1>9 DEF Hold
<1>10. ASSUME NEW u \in Requests, Use(u) PROVE PoolTypeOK'
  BY <1>10 DEF Use
<1>11. ASSUME NEW u \in Requests, Abandon(u) PROVE PoolTypeOK'
  BY <1>11 DEF Abandon
<1>12. ASSUME NEW u \in Requests, Finish(u) PROVE PoolTypeOK'
  BY <1>12 DEF Finish
<1>13. ASSUME NEW u \in Requests, Abort(u) PROVE PoolTypeOK'
  BY <1>13 DEF Abort
<1>14. ASSUME NEW u \in Requests, NEW c \in Clients, Dial(u, c) PROVE PoolTypeOK'
  BY <1>14 DEF Dial
<1>15. ASSUME NEW c \in Clients, Drop(c) PROVE PoolTypeOK'
  BY <1>15 DEF Drop
<1>16. ASSUME NEW r \in Runtimes, Age(r) PROVE PoolTypeOK'
  BY <1>16 DEF Age
<1>17. CASE UNCHANGED poolVars
  BY <1>17 DEF poolVars, entryVars
<1>18. QED
  BY <1>1, <1>2, <1>3, <1>4, <1>5, <1>6, <1>7, <1>8, <1>9, <1>10, <1>11,
     <1>12, <1>13, <1>14, <1>15, <1>16, <1>17 DEF PoolNext, Acquire

-----------------------------------------------------------------------------
(* Who may refer to a client.                                              *)

LEMMA StepStructure == PoolTypeOK /\ PoolTypeOK' /\ Structure /\ [PoolNext]_poolVars => Structure'
<1> SUFFICES ASSUME PoolTypeOK, PoolTypeOK', Structure, [PoolNext]_poolVars PROVE Structure'
  OBVIOUS
<1> USE ClientsAssumption, HoldCountsAt
    DEF PoolTypeOK, Structure, FreshUnknown, DialledPrivate, HandedOut, PoolEntriesUsable,
        PCs, Acquiring, Dialling, poolVars, entryVars, requestVars, ghosts, Goto
<1>1. ASSUME NEW u \in Requests, Start(u) PROVE Structure'
  BY <1>1 DEF Start
<1>2. ASSUME NEW u \in Requests, LookupFails(u) \/ SealFails(u) PROVE Structure'
  BY <1>2 DEF LookupFails, SealFails
<1>3. ASSUME NEW u \in Requests, Reuse(u) PROVE Structure'
  BY <1>3 DEF Reuse, Reusable, RecycleDeferred
<1>4. ASSUME NEW u \in Requests, Recycle(u) PROVE Structure'
  BY <1>4 DEF Recycle, Reusable, RecycleDeferred
<1>5. ASSUME NEW u \in Requests, Handshake(u) PROVE Structure'
  BY <1>5 DEF Handshake
<1>6. ASSUME NEW u \in Requests, AttemptFails(u) PROVE Structure'
  BY <1>6 DEF AttemptFails
<1>7. ASSUME NEW u \in Requests, ConnectResolves(u) PROVE Structure'
  BY <1>7 DEF ConnectResolves, Install
<1>8. ASSUME NEW u \in Requests, Repaired(u) PROVE Structure'
  BY <1>8 DEF Repaired, Install
<1>9. ASSUME NEW u \in Requests, Hold(u) PROVE Structure'
  BY <1>9 DEF Hold
<1>10. ASSUME NEW u \in Requests, Use(u) PROVE Structure'
  BY <1>10 DEF Use
<1>11. ASSUME NEW u \in Requests, Abandon(u) PROVE Structure'
  BY <1>11 DEF Abandon
<1>12. ASSUME NEW u \in Requests, Finish(u) PROVE Structure'
  BY <1>12 DEF Finish
<1>13. ASSUME NEW u \in Requests, Abort(u) PROVE Structure'
  BY <1>13 DEF Abort
<1>14. ASSUME NEW u \in Requests, NEW c \in Clients, Dial(u, c) PROVE Structure'
  BY <1>14 DEF Dial
<1>15. ASSUME NEW c \in Clients, Drop(c) PROVE Structure'
  BY <1>15 DEF Drop
<1>16. ASSUME NEW r \in Runtimes, Age(r) PROVE Structure'
  BY <1>16 DEF Age
<1>17. CASE UNCHANGED poolVars
  BY <1>17 DEF poolVars, entryVars
<1>18. QED
  BY <1>1, <1>2, <1>3, <1>4, <1>5, <1>6, <1>7, <1>8, <1>9, <1>10, <1>11,
     <1>12, <1>13, <1>14, <1>15, <1>16, <1>17 DEF PoolNext, Acquire

-----------------------------------------------------------------------------
(* Hold counts.                                                            *)

LEMMA HoldersFinite ==
  ASSUME NEW c
  PROVE  IsFiniteSet(HoldersOf(c)) /\ Cardinality(HoldersOf(c)) \in Nat
<1>1. HoldersOf(c) \in SUBSET Requests
  BY RequestsAssumption DEF HoldersOf
<1>2. QED
  BY <1>1, RequestsAssumption, FS_Subset, FS_CardinalityType

LEMMA OneMore ==
  ASSUME NEW S, NEW T, NEW x, IsFiniteSet(S), x \notin S, T = S \cup {x}
  PROVE  Cardinality(T) = Cardinality(S) + 1
  BY FS_AddElement

LEMMA OneFewer ==
  ASSUME NEW S, NEW T, NEW x, IsFiniteSet(S), x \in S, T = S \ {x}
  PROVE  Cardinality(T) = Cardinality(S) - 1 /\ Cardinality(S) > 0
<1>1. Cardinality(S) \in Nat /\ Cardinality(S) # 0
  BY FS_CardinalityType, FS_EmptySet
<1>2. QED
  BY <1>1, FS_RemoveElement

\* The turns that hold c do not change when u is not one of them.
LEMMA HoldersSame ==
  ASSUME NEW u \in Requests, NEW c,
         u \in Turns => pc[u] # "using" /\ pc'[u] # "using",
         \A v \in Requests \ {u} : pc'[v] = pc[v] /\ client'[v] = client[v]
  PROVE  HoldersOf(c)' = HoldersOf(c)
  BY RequestsAssumption DEF HoldersOf

LEMMA StepHoldCounts ==
  PoolTypeOK /\ PoolTypeOK' /\ Structure /\ HoldCounts /\ [PoolNext]_poolVars => HoldCounts'
<1> SUFFICES ASSUME PoolTypeOK, PoolTypeOK', Structure, HoldCounts, [PoolNext]_poolVars PROVE HoldCounts'
  OBVIOUS
<1> USE RequestsAssumption, ClientsAssumption, HoldersFinite
    DEF PoolTypeOK, HoldCounts, HoldsBacked, HoldsExact, Acquiring, poolVars, entryVars, requestVars,
        ghosts, Goto
<1>1. ASSUME NEW u \in Requests, Start(u) PROVE HoldCounts'
  <2>1. \A c \in Clients : HoldersOf(c)' = HoldersOf(c)
    BY <1>1, HoldersSame DEF Start
  <2>2. QED
    BY <1>1, <2>1 DEF Start
<1>2. ASSUME NEW u \in Requests, LookupFails(u) \/ SealFails(u) PROVE HoldCounts'
  <2>1. \A c \in Clients : HoldersOf(c)' = HoldersOf(c)
    BY <1>2, HoldersSame DEF LookupFails, SealFails
  <2>2. QED
    BY <1>2, <2>1 DEF LookupFails, SealFails
<1>3. ASSUME NEW u \in Requests, Reuse(u) PROVE HoldCounts'
  <2>1. \A c \in Clients : HoldersOf(c)' = HoldersOf(c)
    BY <1>3, HoldersSame DEF Reuse, Reusable, RecycleDeferred
  <2>2. QED
    BY <1>3, <2>1 DEF Reuse, Reusable, RecycleDeferred
<1>4. ASSUME NEW u \in Requests, Recycle(u) PROVE HoldCounts'
  <2>1. \A d \in Clients : HoldersOf(d)' = HoldersOf(d)
    BY <1>4, HoldersSame DEF Recycle, Reusable, RecycleDeferred
  <2>2. QED
    BY <1>4, <2>1 DEF Recycle, Reusable, RecycleDeferred
<1>5. ASSUME NEW u \in Requests, Handshake(u) PROVE HoldCounts'
  <2>1. \A c \in Clients : HoldersOf(c)' = HoldersOf(c)
    BY <1>5, HoldersSame DEF Handshake
  <2>2. client[u] \in Clients /\ holds[client[u]] = 0 /\ HoldersOf(client[u]) = {}
    BY <1>5 DEF Handshake, Structure, DialledPrivate, Dialling, HoldersOf
  <2>3. Cardinality(HoldersOf(client[u])) = 0
    BY <2>2, FS_EmptySet
  <2>4. QED
    BY <1>5, <2>1, <2>2, <2>3 DEF Handshake
<1>6. ASSUME NEW u \in Requests, AttemptFails(u) PROVE HoldCounts'
  <2>1. \A d \in Clients : HoldersOf(d)' = HoldersOf(d)
    BY <1>6, HoldersSame DEF AttemptFails
  <2>2. QED
    BY <1>6, <2>1 DEF AttemptFails
<1>7. ASSUME NEW u \in Requests, ConnectResolves(u) PROVE HoldCounts'
  <2>1. \A c \in Clients : HoldersOf(c)' = HoldersOf(c)
    BY <1>7, HoldersSame DEF ConnectResolves, Install
  <2>2. QED
    BY <1>7, <2>1 DEF ConnectResolves, Install
<1>8. ASSUME NEW u \in Requests, Repaired(u) PROVE HoldCounts'
  <2>1. \A c \in Clients : HoldersOf(c)' = HoldersOf(c)
    BY <1>8, HoldersSame DEF Repaired, Install
  <2>2. QED
    BY <1>8, <2>1 DEF Repaired, Install
<1>9. ASSUME NEW u \in Requests, Hold(u) PROVE HoldCounts'
  <2>1. PICK c \in Clients : c = client[u]
    BY <1>9 DEF Hold, Structure, HandedOut
  <2>2. u \notin HoldersOf(c) /\ HoldersOf(c)' = HoldersOf(c) \cup {u}
    BY <1>9, <2>1 DEF Hold, HoldersOf
  <2>3. Cardinality(HoldersOf(c)') = Cardinality(HoldersOf(c)) + 1
    BY <2>2, OneMore
  <2>4. \A d \in Clients \ {c} : HoldersOf(d)' = HoldersOf(d)
    BY <1>9, <2>1 DEF Hold, HoldersOf
  <2>5. /\ holds'[c] = holds[c] + 1
        /\ \A d \in Clients \ {c} : holds'[d] = holds[d]
    BY <1>9, <2>1 DEF Hold, Held
  <2>6. conn' = conn /\ strayed' = strayed
    BY <1>9 DEF Hold
  <2>7. QED
    BY <2>3, <2>4, <2>5, <2>6
<1>10. ASSUME NEW u \in Requests, Use(u) PROVE HoldCounts'
  <2>1. \A c \in Clients : HoldersOf(c)' = HoldersOf(c)
    BY <1>10, HoldersSame DEF Use
  <2>2. QED
    BY <1>10, <2>1 DEF Use
<1>11. ASSUME NEW u \in Requests, Abandon(u) PROVE HoldCounts'
  <2>1. client[u] \in Clients
    BY <1>11 DEF Abandon, Structure, HandedOut
  <2>2. \A c \in Clients : HoldersOf(c)' = HoldersOf(c)
    BY <1>11, HoldersSame DEF Abandon
  <2>3. /\ \A c \in Clients \ {client[u]} : holds'[c] = holds[c]
        /\ strayed' = strayed \cup {client[u]} /\ conn' = conn
        /\ holds'[client[u]] = IF holds[client[u]] <= 1 THEN 0 ELSE holds[client[u]] - 1
    BY <1>11, <2>1 DEF Abandon, Released
  <2>4. HoldsBacked'
    <3>1. \A c \in Clients : Cardinality(HoldersOf(c)) \in Nat
      BY HoldersFinite, FS_CardinalityType
    <3>2. \A c \in Clients : holds'[c] <= Cardinality(HoldersOf(c))
      BY <3>1, <2>3
    <3>3. QED
      BY <2>2, <3>2
  <2>5. HoldsExact'
    BY <2>1, <2>2, <2>3
  <2>6. QED
    BY <2>4, <2>5
<1>12. ASSUME NEW u \in Requests, Finish(u) PROVE HoldCounts'
  <2>1. CASE u \notin Turns
    <3>1. \A c \in Clients : HoldersOf(c)' = HoldersOf(c)
      BY <1>12, <2>1, HoldersSame DEF Finish
    <3>2. QED
      BY <1>12, <2>1, <3>1 DEF Finish
  <2>2. CASE u \in Turns
    <3>1. PICK c \in Clients : c = client[u]
      BY <1>12 DEF Finish, Structure, HandedOut
    <3>2. u \in HoldersOf(c) /\ HoldersOf(c)' = HoldersOf(c) \ {u}
      BY <1>12, <2>2, <3>1 DEF Finish, HoldersOf
    <3>3. /\ Cardinality(HoldersOf(c)') = Cardinality(HoldersOf(c)) - 1
          /\ Cardinality(HoldersOf(c)) > 0
      BY <3>2, OneFewer
    <3>4. \A d \in Clients \ {c} : HoldersOf(d)' = HoldersOf(d)
      BY <1>12, <3>1 DEF Finish, HoldersOf
    <3>5. /\ holds'[c] = IF holds[c] <= 1 THEN 0 ELSE holds[c] - 1
          /\ \A d \in Clients \ {c} : holds'[d] = holds[d]
      BY <1>12, <2>2, <3>1 DEF Finish, Released
    <3>6. conn' = conn /\ strayed' = strayed
      BY <1>12 DEF Finish
    <3>7. QED
      BY <3>3, <3>4, <3>5, <3>6
  <2>3. QED
    BY <2>1, <2>2
<1>13. ASSUME NEW u \in Requests, Abort(u) PROVE HoldCounts'
  <2>1. \A c \in Clients : HoldersOf(c)' = HoldersOf(c)
    BY <1>13, HoldersSame DEF Abort
  <2>2. QED
    BY <1>13, <2>1 DEF Abort
<1>14. ASSUME NEW u \in Requests, NEW c \in Clients, Dial(u, c) PROVE HoldCounts'
  <2>1. \A d \in Clients : HoldersOf(d)' = HoldersOf(d)
    BY <1>14, HoldersSame DEF Dial
  <2>2. QED
    BY <1>14, <2>1 DEF Dial
<1>15. ASSUME NEW c \in Clients, Drop(c) PROVE HoldCounts'
  <2>1. \A d \in Clients : HoldersOf(d)' = HoldersOf(d)
    BY <1>15 DEF Drop, HoldersOf
  <2>2. QED
    BY <1>15, <2>1 DEF Drop
<1>16. ASSUME NEW r \in Runtimes, Age(r) PROVE HoldCounts'
  <2>1. \A c \in Clients : HoldersOf(c)' = HoldersOf(c)
    BY <1>16 DEF Age, HoldersOf
  <2>2. QED
    BY <1>16, <2>1 DEF Age
<1>17. CASE UNCHANGED poolVars
  BY <1>17 DEF poolVars, HoldersOf
<1>18. QED
  BY <1>1, <1>2, <1>3, <1>4, <1>5, <1>6, <1>7, <1>8, <1>9, <1>10, <1>11,
     <1>12, <1>13, <1>14, <1>15, <1>16, <1>17 DEF PoolNext, Acquire

-----------------------------------------------------------------------------
(* One connection per runtime, as long as dials do not overlap.            *)

LEMMA StepSingleFlight ==
  PoolTypeOK /\ PoolTypeOK' /\ Structure /\ SingleFlight /\ [PoolNext]_poolVars => SingleFlight'
<1> SUFFICES ASSUME PoolTypeOK, PoolTypeOK', Structure, SingleFlight, [PoolNext]_poolVars
             PROVE  SingleFlight'
  OBVIOUS
<1> USE ClientsAssumption
    DEF PoolTypeOK, Structure, FreshUnknown, DialledPrivate, PoolEntriesUsable, SingleFlight,
        Dialers, PCs, Acquiring, Dialling, poolVars, entryVars, requestVars, ghosts, Goto
<1>1. ASSUME NEW u \in Requests, Start(u) PROVE SingleFlight'
  BY <1>1 DEF Start
<1>2. ASSUME NEW u \in Requests, LookupFails(u) \/ SealFails(u) PROVE SingleFlight'
  BY <1>2 DEF LookupFails, SealFails
<1>3. ASSUME NEW u \in Requests, Reuse(u) PROVE SingleFlight'
  BY <1>3 DEF Reuse, Reusable, RecycleDeferred
<1>4. ASSUME NEW u \in Requests, Recycle(u) PROVE SingleFlight'
  BY <1>4 DEF Recycle, Reusable, RecycleDeferred
<1>5. ASSUME NEW u \in Requests, Handshake(u) PROVE SingleFlight'
  BY <1>5 DEF Handshake
<1>6. ASSUME NEW u \in Requests, AttemptFails(u) PROVE SingleFlight'
  <2>1. \A r \in Runtimes : Dialers(r)' \subseteq Dialers(r)
    BY <1>6 DEF AttemptFails
  <2>2. \A c \in Clients : conn'[c] = "open" => conn[c] = "open" /\ c # client[u]
    BY <1>6 DEF AttemptFails
  <2>3. \A v \in Requests \ {u} : pc'[v] = pc[v]
    BY <1>6 DEF AttemptFails
  <2>4. pool' = pool /\ home' = home /\ client' = client /\ overlapped' = overlapped
    BY <1>6 DEF AttemptFails
  <2>5. ASSUME NEW r \in Runtimes \ overlapped, NEW c \in Clients, conn'[c] = "open", home[c] = r
        PROVE  \/ c = pool[r]
               \/ \E v \in Dialers(r)' : pc'[v] \in Dialling /\ client[v] = c
    <3>1. CASE c = pool[r]
      BY <3>1
    <3>2. ASSUME NEW v \in Dialers(r), pc[v] \in Dialling, client[v] = c
          PROVE  v \in Dialers(r)' /\ pc'[v] \in Dialling
      BY <1>6, <2>2, <2>3, <2>5, <3>2 DEF AttemptFails
    <3>. QED
      BY <2>2, <2>5, <3>1, <3>2
  <2>6. \A r \in Runtimes \ overlapped :
          /\ \A v, w \in Dialers(r)' : v = w
          /\ Dialers(r)' # {} => pool[r] = NoClient
    BY <2>1
  <2>. QED
    BY <2>4, <2>5, <2>6
<1>7. ASSUME NEW u \in Requests, ConnectResolves(u) PROVE SingleFlight'
  <2>1. CASE tries[u] = 1
    <3>1. \A r \in Runtimes : Dialers(r)' = Dialers(r) \ {u}
      BY <1>7, <2>1 DEF ConnectResolves, Install
    <3>2. QED
      BY <1>7, <2>1, <3>1 DEF ConnectResolves, Install
  <2>2. CASE tries[u] # 1
    <3>1. /\ \A r \in Runtimes : Dialers(r)' = Dialers(r)
          /\ \A v \in Requests : pc[v] \in Dialling => pc'[v] \in Dialling
      BY <1>7, <2>2 DEF ConnectResolves
    <3>2. QED
      BY <1>7, <2>2, <3>1 DEF ConnectResolves
  <2>3. QED
    BY <2>1, <2>2
<1>8. ASSUME NEW u \in Requests, Repaired(u) PROVE SingleFlight'
  BY <1>8 DEF Repaired, Install
<1>9. ASSUME NEW u \in Requests, Hold(u) PROVE SingleFlight'
  BY <1>9 DEF Hold
<1>10. ASSUME NEW u \in Requests, Use(u) PROVE SingleFlight'
  BY <1>10 DEF Use
<1>11. ASSUME NEW u \in Requests, Abandon(u) PROVE SingleFlight'
  BY <1>11 DEF Abandon
<1>12. ASSUME NEW u \in Requests, Finish(u) PROVE SingleFlight'
  BY <1>12 DEF Finish
<1>13. ASSUME NEW u \in Requests, Abort(u) PROVE SingleFlight'
  BY <1>13 DEF Abort
<1>14. ASSUME NEW u \in Requests, NEW c \in Clients, Dial(u, c) PROVE SingleFlight'
  BY <1>14 DEF Dial
<1>15. ASSUME NEW c \in Clients, Drop(c) PROVE SingleFlight'
  BY <1>15 DEF Drop
<1>16. ASSUME NEW r \in Runtimes, Age(r) PROVE SingleFlight'
  BY <1>16 DEF Age
<1>17. CASE UNCHANGED poolVars
  BY <1>17 DEF poolVars, entryVars
<1>18. QED
  BY <1>1, <1>2, <1>3, <1>4, <1>5, <1>6, <1>7, <1>8, <1>9, <1>10, <1>11,
     <1>12, <1>13, <1>14, <1>15, <1>16, <1>17 DEF PoolNext, Acquire

-----------------------------------------------------------------------------
(* Theorems.                                                               *)

LEMMA InitIInv == PoolInit => IInv
<1> SUFFICES ASSUME PoolInit PROVE IInv
  OBVIOUS
<1>1. PoolTypeOK /\ Structure /\ SingleFlight
  BY CandidatesAssumption, ClientsAssumption
  DEF PoolInit, PoolTypeOK, PCs, Structure, FreshUnknown, DialledPrivate, HandedOut,
      PoolEntriesUsable, SingleFlight, Dialers, Acquiring, Dialling
<1>2. \A c \in Clients : HoldersOf(c) = {} /\ holds[c] = 0
  BY RequestsAssumption DEF PoolInit, HoldersOf
<1>3. HoldCounts
  BY <1>2, FS_EmptySet DEF HoldCounts, HoldsBacked, HoldsExact
<1>4. QED
  BY <1>1, <1>3 DEF IInv

LEMMA StepIInv == IInv /\ [PoolNext]_poolVars => IInv'
  BY StepTypeOK, StepStructure, StepHoldCounts, StepSingleFlight DEF IInv, Structure

LEMMA SpecIInv == PoolSpec => []IInv
  BY InitIInv, StepIInv, PTL DEF PoolSpec

\* The variables of the pool and of its callers keep their types.
THEOREM PoolTypeCorrect == PoolSpec => []PoolTypeOK
  BY SpecIInv, PTL DEF IInv

\* A hold is always backed by a turn that will release it: no turn, whatever
\* the order of aborts, drops and recycling, leaves one behind.
THEOREM NoHoldLeaks == PoolSpec => []HoldsBacked
  BY SpecIInv, PTL DEF IInv, HoldCounts

\* activeClientHolds is exact for every open connection that no aborted turn
\* has released.
THEOREM HoldsAreExact == PoolSpec => []HoldsExact
  BY SpecIInv, PTL DEF IInv, HoldCounts

\* The pool offers only clients it has not closed, of the right runtime.
THEOREM PoolOffersUsableClients == PoolSpec => []PoolEntriesUsable
  BY SpecIInv, PTL DEF IInv, Structure

\* Two open connections to one runtime presuppose two overlapping dials.
THEOREM SecondConnectionNeedsOverlap == PoolSpec => []OneConnectionUnlessOverlap
<1>1. ASSUME IInv, NEW c \in Clients, NEW d \in Clients,
             conn[c] = "open", conn[d] = "open", home[c] = home[d],
             home[c] \notin overlapped
      PROVE  c = d
  <2>1. home[c] \in Runtimes \ overlapped
    BY <1>1 DEF IInv, PoolTypeOK
  <2>2. \A e \in {c, d} :
          \/ e = pool[home[c]]
          \/ \E u \in Dialers(home[c]) : client[u] = e
    BY <1>1, <2>1 DEF IInv, SingleFlight
  <2>3. CASE Dialers(home[c]) = {}
    BY <2>2, <2>3
  <2>4. CASE Dialers(home[c]) # {}
    <3>1. pool[home[c]] = NoClient
      BY <1>1, <2>1, <2>4 DEF IInv, SingleFlight
    <3>2. \A u, v \in Dialers(home[c]) : u = v
      BY <1>1, <2>1 DEF IInv, SingleFlight
    <3>3. QED
      BY <2>2, <3>1, <3>2, ClientsAssumption
  <2>5. QED
    BY <2>3, <2>4
<1>2. IInv => OneConnectionUnlessOverlap
  BY <1>1 DEF OneConnectionUnlessOverlap
<1>3. QED
  BY <1>2, SpecIInv, PTL

\* The step behind RecycleSparesHeld: only Recycle and AttemptFails close an
\* open connection; the first because nobody holds it, the second because
\* nobody but the dialler knows it.
LEMMA CloseSparesHeld ==
  ASSUME IInv, [PoolNext]_poolVars, NEW c \in Clients \ strayed,
         conn[c] = "open", conn'[c] = "closed"
  PROVE  HoldersOf(c) = {}
<1> USE DEF IInv, PoolTypeOK, poolVars, entryVars, requestVars, ghosts, Goto
<1>1. CASE \E u \in Requests : Recycle(u)
  <2>1. PICK u \in Requests : Recycle(u)
    BY <1>1
  <2>2. c = pool[runtime[u]]
    BY <2>1 DEF Recycle
  <2>3. holds[c] = 0
    BY <2>1, <2>2, ClientsAssumption DEF Recycle, RecycleDeferred
  <2>4. Cardinality(HoldersOf(c)) = 0
    BY <2>3 DEF HoldCounts, HoldsExact
  <2>5. QED
    BY <2>4, HoldersFinite, FS_EmptySet
<1>2. CASE \E u \in Requests : AttemptFails(u)
  <2>1. PICK u \in Requests : AttemptFails(u)
    BY <1>2
  <2>2. c = client[u]
    BY <2>1 DEF AttemptFails
  <2>3. QED
    BY <2>1, <2>2, RequestsAssumption
    DEF AttemptFails, Structure, DialledPrivate, Dialling, HoldersOf
<1>3. \/ \E u \in Requests : Recycle(u) \/ AttemptFails(u)
  BY DEF PoolNext, Acquire, poolVars, Start, LookupFails, SealFails, Reuse, Dial, Handshake,
         ConnectResolves, Install, Repaired, Hold, Use, Abandon, Finish, Abort, Drop, Age
<1>4. QED
  BY <1>1, <1>2, <1>3

\* The pool never closes a connection under a turn that holds it, unless an
\* aborted turn released that connection in its place.
THEOREM RecycleSafe == PoolSpec => RecycleSparesHeld
<1>1. IInv /\ [PoolNext]_poolVars =>
        [\A c \in Clients \ strayed :
           conn[c] = "open" /\ conn'[c] = "closed" => HoldersOf(c) = {}]_poolVars
  BY CloseSparesHeld
<1>2. QED
  BY <1>1, SpecIInv, PTL DEF PoolSpec, RecycleSparesHeld

\* For any clients, runtimes and requests, map, connections and hold counts
\* agree.
THEOREM PoolIsSound == PoolSpec => []PoolSound
  BY PoolTypeCorrect, NoHoldLeaks, HoldsAreExact, PoolOffersUsableClients, PTL
  DEF PoolSound

-----------------------------------------------------------------------------
(* The client.                                                             *)

\* Sockets that were not created yet, and room for the retry of a connect().
Fresh ==
  /\ \A s \in Sockets : s > created => socket[s] = "none"
  /\ connect = "dialing" /\ ~retried => created + 1 <= MaxSockets

\* A handshake that can still be answered belongs to the connect() under way.
Dialled ==
  \A s \in Sockets :
    s = ws /\ (socket[s] \in {"connecting", "open"} \/ Answered(s)) => connect = "dialing"

\* No call is pending while connect() is under way.
QuietConnect ==
  /\ connect = "dialing" => ~connected
  /\ connect = "dialing" \/ Persisting => pending = {}

ClientInv ==
  /\ ClientTypeOK
  /\ Fresh
  /\ Dialled
  /\ QuietConnect
  /\ TimerWhileDialing
  /\ NobodyForgotten
  /\ ReplacedSocketClosed

USE MaxSocketsAssumption DEF Sockets, Persisting

-----------------------------------------------------------------------------
(* The helpers.                                                            *)

LEMMA ClosedAtType ==
  ASSUME ClientTypeOK, NEW s
  PROVE  ClosedAt(s) \in [Sockets -> {"none", "connecting", "open", "challenged", "failing", "closed"}]
  BY DEF ClientTypeOK, ClosedAt

LEMMA FailedType ==
  ASSUME ClientTypeOK, NEW C
  PROVE  Failed(C) \in [Calls -> {"idle", "waiting", "answered", "failed", "timedout"}]
  BY DEF ClientTypeOK, Failed

\* Rejecting nothing changes nothing.
LEMMA FailedNone ==
  ASSUME ClientTypeOK
  PROVE  Failed({}) = call
  BY DEF ClientTypeOK, Failed

-----------------------------------------------------------------------------
(* The steps of the invariant, by what they are part of.                   *)

LEMMA InitInv == ClientInit => ClientInv
<1> SUFFICES ASSUME ClientInit PROVE ClientInv
  OBVIOUS
<1>1. ClientTypeOK
  <2>1. {loopback, shared, deviceAuth, retried, connected} \subseteq BOOLEAN
    BY DEF ClientInit
  <2>2. socket \in [Sockets -> {"none", "connecting", "open", "challenged", "failing", "closed"}]
    BY DEF ClientInit
  <2>3. call \in [Calls -> {"idle", "waiting", "answered", "failed", "timedout"}]
    BY DEF ClientInit
  <2>4. 0 \in 0 .. MaxSockets
    OBVIOUS
  <2> QED BY <2>1, <2>2, <2>3, <2>4 DEF ClientInit, ClientTypeOK
<1>2. Fresh /\ Dialled BY DEF ClientInit, Fresh, Dialled, Answered
<1>3. QuietConnect /\ TimerWhileDialing /\ NobodyForgotten /\ ReplacedSocketClosed
  BY DEF ClientInit, QuietConnect, TimerWhileDialing, NobodyForgotten, ReplacedSocketClosed
<1> QED BY <1>1, <1>2, <1>3 DEF ClientInv

LEMMA ConnectInv ==
  ASSUME ClientInv, Connect
  PROVE  ClientInv'
<1> USE DEF ClientInv, Connect, DialSocket
<1>1. ClientTypeOK'
  <2>1. {loopback, shared, deviceAuth, retried, connected}' \subseteq BOOLEAN
    BY DEF ClientTypeOK, credentials
  <2>2. socket' \in [Sockets -> {"none", "connecting", "open", "challenged", "failing", "closed"}]
    BY DEF ClientTypeOK
  <2>3. created' \in 0 .. MaxSockets /\ created' \in Sockets
    BY DEF ClientTypeOK
  <2> QED BY <2>1, <2>2, <2>3 DEF ClientTypeOK
<1>2. created + 1 \in Sockets /\ created + 2 <= MaxSockets
  BY DEF ClientTypeOK
<1>3. Fresh' BY <1>2 DEF ClientTypeOK, Fresh
<1>4. Dialled' BY DEF Dialled
<1>5. QuietConnect' /\ NobodyForgotten'
  BY DEF QuietConnect, NobodyForgotten
<1>6. TimerWhileDialing' BY DEF TimerWhileDialing
<1>7. ReplacedSocketClosed'
  BY <1>2 DEF ReplacedSocketClosed, ClientTypeOK
<1> QED BY <1>1, <1>3, <1>4, <1>5, <1>6, <1>7

LEMMA DialingInv ==
  ASSUME ClientInv, NEW s \in Sockets, Opens(s) \/ Challenge(s) \/ Accepted(s)
  PROVE  ClientInv'
<1>1. CASE Opens(s)
  <2> USE <1>1 DEF ClientInv, Opens
  <2>1. ClientTypeOK' BY DEF ClientTypeOK, credentials
  <2>2. Fresh' /\ Dialled' BY DEF ClientTypeOK, Fresh, Dialled, Answered
  <2>3. QuietConnect' /\ TimerWhileDialing' /\ NobodyForgotten' /\ ReplacedSocketClosed'
    BY DEF ClientTypeOK, QuietConnect, TimerWhileDialing, NobodyForgotten, ReplacedSocketClosed
  <2> QED BY <2>1, <2>2, <2>3
<1>2. CASE Challenge(s)
  <2> USE <1>2 DEF ClientInv, Challenge
  <2>1. ClientTypeOK' BY DEF ClientTypeOK, credentials
  <2>2. Fresh' /\ Dialled' BY DEF ClientTypeOK, Fresh, Dialled, Answered
  <2>3. QuietConnect' /\ TimerWhileDialing' /\ NobodyForgotten' /\ ReplacedSocketClosed'
    BY DEF ClientTypeOK, QuietConnect, TimerWhileDialing, NobodyForgotten, ReplacedSocketClosed
  <2> QED BY <2>1, <2>2, <2>3
<1>3. CASE Accepted(s)
  <2> USE <1>3 DEF ClientInv, Accepted
  <2>0. connect = "dialing" /\ s = ws BY DEF Dialled, Answered
  <2>1. ClientTypeOK' BY DEF ClientTypeOK, credentials
  <2>2. Fresh' /\ Dialled' BY <2>0 DEF ClientTypeOK, Fresh, Dialled, Answered
  <2>3. QuietConnect' /\ TimerWhileDialing' /\ NobodyForgotten' /\ ReplacedSocketClosed'
    BY <2>0 DEF ClientTypeOK, QuietConnect, TimerWhileDialing, NobodyForgotten, ReplacedSocketClosed
  <2> QED BY <2>1, <2>2, <2>3
<1> QED BY <1>1, <1>2, <1>3

LEMMA RefusedInv ==
  ASSUME ClientInv, NEW s \in Sockets, NEW reason, Retry(s, reason) \/ Refused(s, reason)
  PROVE  ClientInv'
<1>1. CASE Retry(s, reason)
  <2> USE <1>1 DEF ClientInv, Retry, DialSocket
  <2>a. connect = "dialing" /\ s = ws
    BY DEF Dialled, Answered
  <2>b. ~retried
    BY DEF CanRetry
  <2>c. created + 1 \in Sockets
    BY <2>a, <2>b DEF Fresh, ClientTypeOK
  <2>0. /\ connect = "dialing" /\ s = ws /\ ~retried
        /\ created + 1 \in Sockets
        /\ pending = {} /\ timer = {ws}
    BY <2>a, <2>b, <2>c DEF QuietConnect, TimerWhileDialing
  <2>1. ClientTypeOK'
    <3>1. {loopback, shared, deviceAuth, retried, connected}' \subseteq BOOLEAN
      BY DEF ClientTypeOK, credentials
    <3>2. socket' \in [Sockets -> {"none", "connecting", "open", "challenged", "failing", "closed"}]
      BY ClosedAtType
    <3>3. timer' \subseteq Sockets /\ created' \in 0 .. MaxSockets /\ ws' \in 0 .. MaxSockets
      BY <2>0 DEF ClientTypeOK
    <3>4. handshake' \subseteq Sockets /\ pending' \subseteq Calls /\ abandoned' \subseteq Sockets
      BY DEF ClientTypeOK
    <3> QED BY <3>1, <3>2, <3>3, <3>4 DEF ClientTypeOK
  <2>2. Fresh' /\ Dialled' BY <2>0 DEF ClientTypeOK, Fresh, Dialled, Answered, ClosedAt
  <2>3. QuietConnect' /\ TimerWhileDialing' /\ NobodyForgotten'
    BY <2>0 DEF ClientTypeOK, QuietConnect, TimerWhileDialing, NobodyForgotten
  <2>4. ReplacedSocketClosed'
    BY <2>0 DEF ClientTypeOK, ReplacedSocketClosed, ClosedAt
  <2> QED BY <2>1, <2>2, <2>3, <2>4
<1>2. CASE Refused(s, reason)
  <2> USE <1>2 DEF ClientInv, Refused
  <2>0. connect = "dialing" /\ s = ws /\ timer = {ws}
    BY DEF Dialled, Answered, TimerWhileDialing
  <2>1. ClientTypeOK' BY DEF ClientTypeOK
  <2>2. Fresh' /\ Dialled' BY <2>0 DEF ClientTypeOK, Fresh, Dialled, Answered
  <2>3. QuietConnect' /\ TimerWhileDialing' /\ NobodyForgotten' /\ ReplacedSocketClosed'
    BY <2>0 DEF ClientTypeOK, QuietConnect, TimerWhileDialing, NobodyForgotten, ReplacedSocketClosed
  <2> QED BY <2>1, <2>2, <2>3
<1> QED BY <1>1, <1>2

LEMMA CredentialInv ==
  ASSUME ClientInv, Persisted \/ PersistFails \/ Invalidated
  PROVE  ClientInv'
<1>1. CASE Persisted
  <2> USE <1>1 DEF ClientInv, Persisted
  <2>1. ClientTypeOK' BY DEF ClientTypeOK
  <2>2. Fresh' /\ Dialled' BY DEF ClientTypeOK, Fresh, Dialled, Answered
  <2>3. QuietConnect' /\ TimerWhileDialing' /\ NobodyForgotten' /\ ReplacedSocketClosed'
    BY DEF QuietConnect, TimerWhileDialing, NobodyForgotten, ReplacedSocketClosed
  <2> QED BY <2>1, <2>2, <2>3
<1>2. CASE PersistFails
  <2> USE <1>2 DEF ClientInv, PersistFails
  <2>0. pending = {} BY DEF QuietConnect
  <2>1. ClientTypeOK'
    <3>1. {loopback, shared, deviceAuth, retried, connected}' \subseteq BOOLEAN
      BY DEF ClientTypeOK, credentials
    <3>2. socket' \in [Sockets -> {"none", "connecting", "open", "challenged", "failing", "closed"}]
      BY ClosedAtType
    <3> QED BY <3>1, <3>2 DEF ClientTypeOK, credentials
  <2>2. Fresh' /\ Dialled' BY DEF ClientTypeOK, Fresh, Dialled, Answered, ClosedAt
  <2>3. QuietConnect' /\ TimerWhileDialing' /\ NobodyForgotten' /\ ReplacedSocketClosed'
    BY <2>0 DEF ClientTypeOK, QuietConnect, TimerWhileDialing, NobodyForgotten, ReplacedSocketClosed, ClosedAt
  <2> QED BY <2>1, <2>2, <2>3
<1>3. CASE Invalidated
  <2> USE <1>3 DEF ClientInv, Invalidated
  <2>1. ClientTypeOK' BY DEF ClientTypeOK, credentials
  <2>2. Fresh' /\ Dialled' BY DEF ClientTypeOK, Fresh, Dialled, Answered
  <2>3. QuietConnect' /\ TimerWhileDialing' /\ NobodyForgotten' /\ ReplacedSocketClosed'
    BY DEF QuietConnect, TimerWhileDialing, NobodyForgotten, ReplacedSocketClosed
  <2> QED BY <2>1, <2>2, <2>3
<1> QED BY <1>1, <1>2, <1>3

LEMMA BreaksInv ==
  ASSUME ClientInv, NEW s \in Sockets, TimerFires(s) \/ Errors(s) \/ Closes(s)
  PROVE  ClientInv'
<1>1. CASE TimerFires(s)
  <2> USE <1>1 DEF ClientInv, TimerFires
  <2>0. connect = "dialing" /\ s = ws /\ timer = {ws} /\ pending = {}
    BY DEF TimerWhileDialing, QuietConnect
  <2>1. ClientTypeOK'
    <3>1. {loopback, shared, deviceAuth, retried, connected}' \subseteq BOOLEAN
      BY DEF ClientTypeOK, credentials
    <3>2. socket' \in [Sockets -> {"none", "connecting", "open", "challenged", "failing", "closed"}]
      BY ClosedAtType
    <3> QED BY <3>1, <3>2 DEF ClientTypeOK, credentials
  <2>2. Fresh' /\ Dialled' BY DEF ClientTypeOK, Fresh, Dialled, Answered, ClosedAt
  <2>3. QuietConnect' /\ TimerWhileDialing' /\ NobodyForgotten' /\ ReplacedSocketClosed'
    BY <2>0 DEF ClientTypeOK, QuietConnect, TimerWhileDialing, NobodyForgotten, ReplacedSocketClosed, ClosedAt
  <2> QED BY <2>1, <2>2, <2>3
<1>2. CASE Errors(s)
  <2> USE <1>2 DEF ClientInv, Errors
  <2>1. ClientTypeOK' BY DEF ClientTypeOK, credentials
  <2>2. Fresh' /\ Dialled' BY DEF ClientTypeOK, Fresh, Dialled, Answered
  <2>3. QuietConnect' /\ TimerWhileDialing' /\ NobodyForgotten' /\ ReplacedSocketClosed'
    BY DEF ClientTypeOK, QuietConnect, TimerWhileDialing, NobodyForgotten, ReplacedSocketClosed
  <2> QED BY <2>1, <2>2, <2>3
<1>3. CASE Closes(s)
  <2> USE <1>3 DEF ClientInv, Closes
  <2>1. ClientTypeOK'
    <3>1. {loopback, shared, deviceAuth, retried, connected}' \subseteq BOOLEAN
      BY DEF ClientTypeOK, credentials
    <3>2. call' \in [Calls -> {"idle", "waiting", "answered", "failed", "timedout"}]
      BY FailedType DEF ClientTypeOK
    <3> QED BY <3>1, <3>2 DEF ClientTypeOK, credentials
  <2>2. Fresh' /\ Dialled' BY DEF ClientTypeOK, Fresh, Dialled, Answered
  <2>3. QuietConnect' /\ TimerWhileDialing' /\ ReplacedSocketClosed'
    BY DEF ClientTypeOK, QuietConnect, TimerWhileDialing, ReplacedSocketClosed
  <2>4. NobodyForgotten'
    BY DEF ClientTypeOK, NobodyForgotten, Failed
  <2> QED BY <2>1, <2>2, <2>3, <2>4
<1> QED BY <1>1, <1>2, <1>3

LEMMA CallsInv ==
  ASSUME ClientInv, NEW c \in Calls, Rpc(c) \/ Response(c) \/ RpcTimeout(c)
  PROVE  ClientInv'
<1> USE DEF ClientInv
<1>1. CASE Rpc(c)
  <2> USE <1>1 DEF Rpc
  <2>1. ClientTypeOK' BY DEF ClientTypeOK, credentials
  <2>2. Fresh' /\ Dialled' BY DEF Fresh, Dialled, Answered
  <2>3. QuietConnect' /\ TimerWhileDialing' /\ NobodyForgotten' /\ ReplacedSocketClosed'
    BY DEF ClientTypeOK, QuietConnect, TimerWhileDialing, NobodyForgotten, ReplacedSocketClosed
  <2> QED BY <2>1, <2>2, <2>3
<1>2. ASSUME NEW result \in {"answered", "failed", "timedout"}, Settle(c, result)
      PROVE  ClientInv'
  <2> USE <1>2 DEF Settle
  <2>1. ClientTypeOK' BY DEF ClientTypeOK, credentials
  <2>2. Fresh' /\ Dialled' BY DEF Fresh, Dialled, Answered
  <2>3. QuietConnect' /\ TimerWhileDialing' /\ NobodyForgotten' /\ ReplacedSocketClosed'
    BY DEF ClientTypeOK, QuietConnect, TimerWhileDialing, NobodyForgotten, ReplacedSocketClosed
  <2> QED BY <2>1, <2>2, <2>3
<1> HIDE DEF ClientInv
<1> QED BY <1>1, <1>2 DEF Response, RpcTimeout

LEMMA CloseInv ==
  ASSUME ClientInv, Close
  PROVE  ClientInv'
<1> USE DEF ClientInv, Close
<1>1. ClientTypeOK'
  <2>1. {loopback, shared, deviceAuth, retried, connected}' \subseteq BOOLEAN
    BY DEF ClientTypeOK, credentials
  <2>2. socket' \in [Sockets -> {"none", "connecting", "open", "challenged", "failing", "closed"}]
    BY ClosedAtType
  <2>3. call' \in [Calls -> {"idle", "waiting", "answered", "failed", "timedout"}]
    BY FailedType
  <2> QED BY <2>1, <2>2, <2>3 DEF ClientTypeOK, credentials
<1>2. Fresh' /\ Dialled' BY DEF ClientTypeOK, Fresh, Dialled, Answered, ClosedAt
<1>3. QuietConnect' /\ TimerWhileDialing' /\ ReplacedSocketClosed'
  BY DEF ClientTypeOK, QuietConnect, TimerWhileDialing, ReplacedSocketClosed, ClosedAt
<1>4. NobodyForgotten'
  BY DEF ClientTypeOK, NobodyForgotten, Failed
<1> QED BY <1>1, <1>2, <1>3, <1>4

LEMMA StepInv == ClientInv /\ [ClientNext]_clientVars => ClientInv'
<1> SUFFICES ASSUME ClientInv, [ClientNext]_clientVars PROVE ClientInv'
  OBVIOUS
<1>1. CASE Connect BY <1>1, ConnectInv
<1>2. CASE Persisted \/ PersistFails \/ Invalidated BY <1>2, CredentialInv
<1>3. CASE Close BY <1>3, CloseInv
<1>4. ASSUME NEW s \in Sockets, Connecting(s) PROVE ClientInv'
  BY <1>4, DialingInv, RefusedInv, BreaksInv DEF Connecting
<1>5. ASSUME NEW c \in Calls, Rpc(c) \/ Response(c) \/ RpcTimeout(c) PROVE ClientInv'
  BY <1>5, CallsInv
<1>6. CASE UNCHANGED clientVars
  BY <1>6 DEF clientVars, credentials, ClientInv, ClientTypeOK, Fresh, Dialled, Answered, QuietConnect,
              TimerWhileDialing, NobodyForgotten, ReplacedSocketClosed
<1> QED BY <1>1, <1>2, <1>3, <1>4, <1>5, <1>6 DEF ClientNext

LEMMA Inductive == ClientSpec => []ClientInv
  BY InitInv, StepInv, PTL DEF ClientSpec

-----------------------------------------------------------------------------
(* Theorems.                                                               *)

\* Sockets, timers, calls and the progress of connect() keep their types.
THEOREM ClientTypeCorrect == ClientSpec => []ClientTypeOK
<1>1. ClientInv => ClientTypeOK BY DEF ClientInv
<1> QED BY Inductive, <1>1, PTL

\* The connect timer of one attempt never ends another, however often
\* connect() is called and its sockets fail, close or are retried.
THEOREM TimerOfItsOwn == ClientSpec => []TimerWhileDialing
<1>1. ClientInv => TimerWhileDialing BY DEF ClientInv
<1> QED BY Inductive, <1>1, PTL

\* Every call that waits is in the pending map of a client that is connected:
\* no way of losing the connection forgets it.
THEOREM NoCallForgotten == ClientSpec => []NobodyForgotten
<1>1. ClientInv => NobodyForgotten BY DEF ClientInv
<1> QED BY Inductive, <1>1, PTL

\* A socket the client replaced is closed, unless connect() was called again
\* after a failure without close().
THEOREM NoSocketBeside == ClientSpec => []ReplacedSocketClosed
<1>1. ClientInv => ReplacedSocketClosed BY DEF ClientInv
<1> QED BY Inductive, <1>1, PTL

LEMMA ChannelInit == ClientInit => Channel!Init
  BY DEF ClientInit, Channel!Init

\* Whatever ends the connection is the step in which every waiting call fails.
LEMMA ConnectionEnds ==
  ASSUME ClientInv, connected' = FALSE, call' = Failed(pending)
  PROVE  [Channel!Next]_(Channel!vars)
<1> USE DEF ClientInv
<1>1. CASE connected
  <2>1. call' = [c \in Calls |-> IF c \in Channel!Waiting THEN "failed" ELSE call[c]]
    BY DEF NobodyForgotten, Failed, Channel!Waiting
  <2> QED BY <1>1, <2>1 DEF Channel!Next, Channel!Goes
<1>2. CASE ~connected
  <2>1. pending = {} BY <1>2 DEF NobodyForgotten
  <2>2. call' = call BY <2>1, FailedNone
  <2>3. connected' = connected BY <1>2 DEF ClientTypeOK
  <2> QED BY <2>2, <2>3 DEF Channel!vars
<1> QED BY <1>1, <1>2

LEMMA ChannelStep == ClientInv /\ [ClientNext]_clientVars => [Channel!Next]_(Channel!vars)
<1> SUFFICES ASSUME ClientInv, [ClientNext]_clientVars PROVE [Channel!Next]_(Channel!vars)
  OBVIOUS
<1> USE DEF Channel!vars
<1>1. CASE Connect \/ Persisted \/ Invalidated
  BY <1>1 DEF Connect, Persisted, Invalidated
<1>2. CASE PersistFails
  <2>1. pending = {} /\ call' = call BY <1>2 DEF ClientInv, QuietConnect, PersistFails
  <2>2. call' = Failed(pending) BY <2>1, FailedNone DEF ClientInv
  <2> QED BY <1>2, <2>2, ConnectionEnds DEF PersistFails
<1>3. CASE Close
  BY <1>3, ConnectionEnds DEF Close
<1>4. ASSUME NEW s \in Sockets, Connecting(s) PROVE [Channel!Next]_(Channel!vars)
  <2>1. CASE Opens(s) \/ Challenge(s) \/ Errors(s)
    BY <2>1 DEF Opens, Challenge, Errors
  <2>2. CASE Accepted(s)
    <3>1. ~connected BY <2>2 DEF ClientInv, Dialled, QuietConnect, Accepted, Answered
    <3> QED BY <2>2, <3>1 DEF Accepted, Channel!Next, Channel!Comes
  <2>3. CASE TimerFires(s)
    <3>1. pending = {} /\ call' = call
      BY <2>3 DEF ClientInv, QuietConnect, TimerWhileDialing, TimerFires
    <3>2. call' = Failed(pending) BY <3>1, FailedNone DEF ClientInv
    <3> QED BY <2>3, <3>2, ConnectionEnds DEF TimerFires
  <2>4. CASE Closes(s)
    BY <2>4, ConnectionEnds DEF Closes
  <2>5. ASSUME NEW reason \in Reasons, Retry(s, reason) PROVE [Channel!Next]_(Channel!vars)
    <3>1. pending = {} /\ call' = call
      BY <2>5 DEF ClientInv, QuietConnect, Dialled, Retry, Answered
    <3>2. call' = Failed(pending) BY <3>1, FailedNone DEF ClientInv
    <3> QED BY <2>5, <3>2, ConnectionEnds DEF Retry
  <2>6. ASSUME NEW reason \in Reasons, Refused(s, reason) PROVE [Channel!Next]_(Channel!vars)
    BY <2>6 DEF Refused
  <2> QED BY <1>4, <2>1, <2>2, <2>3, <2>4, <2>5, <2>6 DEF Connecting
<1>5. ASSUME NEW c \in Calls, Rpc(c) PROVE [Channel!Next]_(Channel!vars)
  <2>1. Channel!Start(c) BY <1>5 DEF Rpc, Channel!Start
  <2> QED BY <2>1 DEF Channel!Next
<1>6. ASSUME NEW c \in Calls, NEW result \in {"answered", "failed", "timedout"}, Settle(c, result)
      PROVE  [Channel!Next]_(Channel!vars)
  <2>1. Channel!End(c)
    BY <1>6 DEF ClientInv, NobodyForgotten, Settle, Channel!End, Channel!Waiting
  <2> QED BY <2>1 DEF Channel!Next
<1>7. CASE UNCHANGED clientVars BY <1>7 DEF clientVars
<1> QED BY <1>1, <1>2, <1>3, <1>4, <1>5, <1>6, <1>7 DEF ClientNext, Response, RpcTimeout

\* The client implements the channel: each of its steps is a step of the
\* channel or none.
THEOREM ImplementsChannel == ClientSpec => IsChannel
  BY Inductive, ChannelInit, InitInv, StepInv, ChannelStep, PTL DEF ClientSpec, IsChannel

-----------------------------------------------------------------------------
(* The consultation.                                                       *)

USE FinalsAssumption, LinksAssumption, RunsAssumption, BridgeBounds

AskInv ==
  /\ held = IF step \in {"idle", "done"} THEN 0 ELSE 1
  /\ listening \/ limit \/ poll => step = "waiting"
  /\ step = "waiting" => ~settled /\ listening
  /\ asking # "nobody" => step = "waiting" \/ settled
  /\ step \in {"idle", "calling", "auditing", "working"} => ~settled
  /\ outcome \in {"timeout", "empty"} => settled

ToldInv ==
  /\ step \notin {"apologising", "done"} => told = 0
  /\ step = "apologising" => told = 0 \/ (told = 1 /\ unsure)
  /\ OneResult

ConsultInv == ConsultTypeOK /\ AskInv /\ ToldInv /\ NothingLeft /\ AnswerNotMissed

\* The promise settles from the wait, with a reason if it is not the answer.
LEMMA SettlesKeeps ==
  ASSUME ConsultInv, step = "waiting",
         NEW result \in {"text", "empty", "error", "timeout"}, Settles(result),
         asking' \in {asking, "nobody"},
         reply' = reply, known' = known,
         result \in {"timeout", "empty"} => cut' \/ broken' \/ ~(reply \/ known),
         {cut', broken'} \subseteq BOOLEAN, finals' \in Nat,
         grace' \in {"none", "running", "over"},
         UNCHANGED <<held, lost, history, told, unsure>>
  PROVE  ConsultInv'
<1>1. /\ settled' = TRUE /\ outcome' = result
      /\ limit' = FALSE /\ listening' = FALSE /\ poll' = FALSE
      /\ step' = IF result \in {"text", "empty"} THEN "answering" ELSE "apologising"
  BY DEF Settles
<1>2. ConsultTypeOK'
  BY <1>1 DEF ConsultInv, ConsultTypeOK
<1>3. AskInv'
  BY <1>1 DEF ConsultInv, AskInv
<1>4. ToldInv'
  <2>1. told' = 0 /\ step' # "done"
    BY <1>1 DEF ConsultInv, ToldInv
  <2>. QED
    BY <2>1 DEF ToldInv, OneResult
<1>5. NothingLeft' /\ AnswerNotMissed'
  BY <1>1 DEF NothingLeft, AnswerNotMissed
<1>. QED
  BY <1>2, <1>3, <1>4, <1>5 DEF ConsultInv

\* The wait goes on, with other timers or another history on its way.
LEMMA WaitsOn ==
  ASSUME ConsultInv, step = "waiting",
         UNCHANGED <<step, held, lost, history, listening, settled, outcome, told, unsure>>,
         {limit', poll', known', reply', cut', broken'} \subseteq BOOLEAN,
         asking' \in {"nobody", "poll", "event", "limit"}, finals' \in Nat,
         grace' \in {"none", "running", "over"}
  PROVE  ConsultInv'
<1>1. ConsultTypeOK'
  BY DEF ConsultInv, ConsultTypeOK
<1>2. AskInv' /\ ToldInv' /\ NothingLeft' /\ AnswerNotMissed'
  BY DEF ConsultInv, AskInv, ToldInv, OneResult, NothingLeft, AnswerNotMissed
<1>. QED
  BY <1>1, <1>2 DEF ConsultInv

\* What the provider was told goes with the steps after the wait.
LEMMA TellsKeeps ==
  ASSUME ConsultInv, UNCHANGED <<gatewayVars, waitVars>>, NEW s, step' = s,
         s \in {"calling", "auditing", "working", "apologising", "done"},
         step \notin {"waiting", "done"},
         s \in {"calling", "auditing", "working"} => ~settled,
         held' = IF s = "done" THEN 0 ELSE 1,
         told' \in Nat, unsure' \in BOOLEAN,
         s \notin {"apologising", "done"} => told' = 0,
         s = "apologising" => told' = 0 \/ (told' = 1 /\ unsure'),
         told' > 1 => unsure'
  PROVE  ConsultInv'
<1>1. UNCHANGED <<lost, finals, history, listening, settled, limit, poll, asking, known, reply,
                  grace, outcome, cut, broken>>
  BY DEF gatewayVars, waitVars
<1>2. ConsultTypeOK'
  BY <1>1 DEF ConsultInv, ConsultTypeOK
<1>3. AskInv'
  BY <1>1 DEF ConsultInv, AskInv
<1>4. ToldInv' /\ NothingLeft' /\ AnswerNotMissed'
  BY <1>1 DEF ConsultInv, ToldInv, OneResult, NothingLeft, AnswerNotMissed
<1>. QED
  BY <1>2, <1>3, <1>4 DEF ConsultInv

\* A history that was read or could not be, while the promise waits.
LEMMA HistoryKeeps ==
  ASSUME ConsultInv, asking # "nobody", asking' = "nobody",
         NEW bad \in BOOLEAN, broken' = (broken \/ bad),
         UNCHANGED <<held, lost, finals, history, known, reply, grace, cut, told, unsure>>,
         \/ settled /\ UNCHANGED <<step, listening, settled, limit, poll, outcome>>
         \/ ~settled /\ Settles("text")
         \/ ~settled /\ (bad \/ ~(reply \/ known)) /\ Settles("empty")
         \/ ~settled /\ (bad \/ ~(reply \/ known)) /\ NotRecovered
  PROVE  ConsultInv'
<1>1. CASE settled /\ UNCHANGED <<step, listening, settled, limit, poll, outcome>>
  <2>1. ConsultTypeOK'
    BY <1>1 DEF ConsultInv, ConsultTypeOK
  <2>2. AskInv' /\ ToldInv' /\ NothingLeft' /\ AnswerNotMissed'
    BY <1>1 DEF ConsultInv, AskInv, ToldInv, OneResult, NothingLeft, AnswerNotMissed
  <2>. QED
    BY <2>1, <2>2 DEF ConsultInv
<1>2. ASSUME NEW result \in {"text", "empty", "timeout"}, ~settled,
             result # "text" => bad \/ ~(reply \/ known), Settles(result)
      PROVE  ConsultInv'
  <2>1. step = "waiting" /\ {cut', broken'} \subseteq BOOLEAN /\ finals' \in Nat
        /\ grace' \in {"none", "running", "over"}
    BY <1>2 DEF ConsultInv, AskInv, ConsultTypeOK
  <2>. QED
    BY <1>2, <2>1, SettlesKeeps
<1>3. CASE ~settled /\ (bad \/ ~(reply \/ known)) /\ NotRecovered /\ ~Settles("timeout")
  <2>1. step = "waiting"
    BY <1>3 DEF ConsultInv, AskInv
  <2>2. poll' = TRUE /\ UNCHANGED <<step, listening, settled, limit, outcome>>
    BY <1>3 DEF NotRecovered
  <2>3. /\ {limit', poll', known', reply', cut', broken'} \subseteq BOOLEAN /\ finals' \in Nat
        /\ grace' \in {"none", "running", "over"}
    BY <2>2 DEF ConsultInv, ConsultTypeOK
  <2>. QED
    BY <2>1, <2>2, <2>3, WaitsOn
<1>. QED
  BY <1>1, <1>2, <1>3

LEMMA ConsultStep ==
  ASSUME ConsultInv, ConsultNext
  PROVE  ConsultInv'
<1>0. /\ {limit, poll, known, reply, cut, broken, history, unsure} \subseteq BOOLEAN
      /\ asking \in {"nobody", "poll", "event", "limit"} /\ finals \in Nat /\ told \in Nat
      /\ grace \in {"none", "running", "over"}
  BY DEF ConsultInv, ConsultTypeOK
<1>1. CASE Ask
  <2>1. step = "idle" /\ held' = 1 /\ ~settled /\ told = 0
    BY <1>1 DEF Ask, ConsultInv, AskInv, ToldInv
  <2>. QED
    BY <1>0, <1>1, <2>1, TellsKeeps DEF Ask
<1>2. CASE Asked
  <2>1. held = 1 /\ ~settled /\ told = 0
    BY <1>2 DEF Asked, ConsultInv, AskInv, ToldInv
  <2>. QED
    BY <1>0, <1>2, <2>1, TellsKeeps DEF Asked
<1>3. CASE AskFails
  <2>1. held = 1 /\ told = 0
    BY <1>3 DEF AskFails, ConsultInv, AskInv, ToldInv
  <2>. QED
    BY <1>0, <1>3, <2>1, TellsKeeps DEF AskFails
<1>4. CASE Waits
  <2>1. ConsultTypeOK'
    BY <1>4 DEF Waits, ConsultInv, ConsultTypeOK, gatewayVars
  <2>2. AskInv' /\ ToldInv' /\ NothingLeft' /\ AnswerNotMissed'
    BY <1>4 DEF Waits, ConsultInv, AskInv, ToldInv, OneResult, NothingLeft, AnswerNotMissed
  <2>. QED
    BY <2>1, <2>2 DEF ConsultInv
<1>5. CASE Answers
  <2>1. step = "answering" /\ held = 1 /\ told = 0
    BY <1>5 DEF Answers, ConsultInv, AskInv, ToldInv
  <2>2. CASE ~lost /\ told' = told + 1 /\ Ends /\ UNCHANGED unsure
    BY <1>0, <1>5, <2>1, <2>2, TellsKeeps DEF Answers, Ends
  <2>3. CASE told' \in {told, told + 1} /\ unsure' = TRUE /\ step' = "apologising" /\ held' = held
    BY <1>0, <1>5, <2>1, <2>3, TellsKeeps DEF Answers
  <2>. QED
    BY <1>5, <2>2, <2>3 DEF Answers
<1>6. CASE Apologises
  <2>1. step = "apologising" /\ held = 1 /\ (told = 0 \/ (told = 1 /\ unsure))
    BY <1>6 DEF Apologises, ConsultInv, AskInv, ToldInv
  <2>2. told' \in {told, told + 1} /\ unsure' = unsure /\ Ends /\ UNCHANGED <<gatewayVars, waitVars>>
    BY <1>6 DEF Apologises
  <2>. QED
    BY <1>0, <2>1, <2>2, TellsKeeps DEF Ends
<1>7. CASE PollDue
  <2>1. step = "waiting" /\ poll' = FALSE
        /\ known' \in BOOLEAN /\ asking' \in {"nobody", "poll", "event", "limit"}
        /\ UNCHANGED <<step, held, lost, finals, history, listening, settled, limit, reply, grace,
                       outcome, cut, broken, told, unsure>>
    BY <1>0, <1>7 DEF PollDue, Recovers, ConsultInv, AskInv, gatewayVars
  <2>. QED
    BY <1>0, <2>1, WaitsOn
<1>8. CASE LimitReached
  <2>1. step = "waiting" /\ UNCHANGED <<held, lost, finals, history, reply, grace, broken, told, unsure>>
    BY <1>8 DEF LimitReached, ConsultInv, AskInv, gatewayVars
  <2>2. CASE asking = "nobody"
    <3>1. /\ limit' = FALSE /\ known' \in BOOLEAN /\ asking' \in {"nobody", "poll", "event", "limit"}
          /\ UNCHANGED <<step, listening, settled, poll, outcome, cut>>
      BY <1>0, <1>8, <2>2 DEF LimitReached, Recovers
    <3>. QED
      BY <1>0, <2>1, <3>1, WaitsOn
  <2>3. CASE asking # "nobody"
    BY <1>0, <1>8, <2>1, <2>3, SettlesKeeps DEF LimitReached
  <2>. QED
    BY <2>2, <2>3
<1>9. CASE HistoryRead
  <2>1. PICK found \in BOOLEAN : (known => found) /\ HistoryGives(found)
    BY <1>9 DEF HistoryRead
  <2>. QED
    BY <1>0, <1>9, <2>1, HistoryKeeps DEF HistoryRead, HistoryGives, gatewayVars
<1>10. CASE HistoryFails
  BY <1>0, <1>10, HistoryKeeps DEF HistoryFails, gatewayVars
<1>11. CASE GraceOver \/ Remembers \/ ConnectionLost
  <2>1. ConsultTypeOK'
    BY <1>11 DEF GraceOver, Remembers, ConnectionLost, ConsultInv, ConsultTypeOK, gatewayVars, waitVars
  <2>2. UNCHANGED <<step, held, listening, settled, limit, poll, asking, known, reply, outcome, cut,
                    broken, told, unsure>>
    BY <1>11 DEF GraceOver, Remembers, ConnectionLost, gatewayVars, waitVars
  <2>3. AskInv' /\ ToldInv' /\ NothingLeft' /\ AnswerNotMissed'
    BY <2>2 DEF ConsultInv, AskInv, ToldInv, OneResult, NothingLeft, AnswerNotMissed
  <2>. QED
    BY <2>1, <2>3 DEF ConsultInv
<1>12. CASE SourceReply
  <2>1. step = "waiting"
    BY <1>12 DEF SourceReply, ConsultInv, AskInv
  <2>. QED
    BY <1>0, <1>12, <2>1, WaitsOn DEF SourceReply, gatewayVars
<1>13. CASE RunFails
  <2>1. step = "waiting"
    BY <1>13 DEF RunFails, ConsultInv, AskInv
  <2>. QED
    BY <1>0, <1>13, <2>1, SettlesKeeps DEF RunFails, gatewayVars
<1>14. ASSUME NEW kind \in {"text", "placeholder", "empty"}, Final(kind) PROVE ConsultInv'
  <2>1. finals' \in Nat /\ UNCHANGED <<held, lost, history, told, unsure>>
    BY <1>0, <1>14 DEF Final
  <2>2. CASE UNCHANGED <<step, waitVars>>
    <3>1. ConsultTypeOK'
      BY <2>1, <2>2 DEF ConsultInv, ConsultTypeOK, waitVars
    <3>2. AskInv' /\ ToldInv' /\ NothingLeft' /\ AnswerNotMissed'
      BY <2>1, <2>2 DEF ConsultInv, AskInv, ToldInv, OneResult, NothingLeft, AnswerNotMissed, waitVars
    <3>. QED
      BY <3>1, <3>2 DEF ConsultInv
  <2>3. CASE listening /\ Settles("text") /\ UNCHANGED <<asking, known, grace, reply, cut, broken>>
    <3>1. step = "waiting"
      BY <2>3 DEF ConsultInv, AskInv
    <3>. QED
      BY <1>0, <2>1, <2>3, <3>1, SettlesKeeps
  <2>4. CASE /\ listening
             /\ grace' = IF grace = "none" THEN "running" ELSE grace
             /\ Recovers("event")
             /\ UNCHANGED <<step, listening, settled, limit, poll, outcome, reply, cut, broken>>
    <3>1. step = "waiting" /\ known' \in BOOLEAN
          /\ asking' \in {"nobody", "poll", "event", "limit"}
          /\ grace' \in {"none", "running", "over"}
      BY <1>0, <2>4 DEF ConsultInv, AskInv, Recovers
    <3>. QED
      BY <1>0, <2>1, <2>4, <3>1, WaitsOn
  <2>. QED
    BY <1>14, <2>2, <2>3, <2>4 DEF Final
<1>. QED
  BY <1>1, <1>2, <1>3, <1>4, <1>5, <1>6, <1>7, <1>8, <1>9, <1>10, <1>11, <1>12, <1>13, <1>14
  DEF ConsultNext

LEMMA ConsultStarts == ConsultInit => ConsultInv
<1> SUFFICES ASSUME ConsultInit PROVE ConsultInv
  OBVIOUS
<1>1. ConsultTypeOK
  BY DEF ConsultInit, ConsultTypeOK
<1>2. AskInv /\ ToldInv /\ NothingLeft /\ AnswerNotMissed
  BY DEF ConsultInit, AskInv, ToldInv, OneResult, NothingLeft, AnswerNotMissed
<1>. QED
  BY <1>1, <1>2 DEF ConsultInv

LEMMA ConsultStutters ==
  ASSUME ConsultInv, UNCHANGED consultVars
  PROVE  ConsultInv'
<1>1. UNCHANGED <<step, held, lost, finals, history, listening, settled, limit, poll, asking, known,
                  reply, grace, outcome, cut, broken, told, unsure>>
  BY DEF consultVars, gatewayVars, waitVars
<1>. QED
  BY <1>1 DEF ConsultInv, ConsultTypeOK, AskInv, ToldInv, OneResult, NothingLeft, AnswerNotMissed

\* Timers, listeners and histories go with the await of the route.
THEOREM ConsultInvariant == ConsultSpec => []ConsultInv
<1>. QED
  BY ConsultStarts, ConsultStep, ConsultStutters, PTL DEF ConsultSpec

\* The variables of a consultation keep their types: held never falls below zero.
THEOREM ConsultTypeCorrect == ConsultSpec => []ConsultTypeOK
<1>1. ConsultInv => ConsultTypeOK
  BY DEF ConsultInv
<1>. QED
  BY <1>1, ConsultInvariant, PTL

\* cleanup of waitForChatFinal leaves nothing armed, and no history that comes back
\* later arms anything again.
THEOREM CleanedUp == ConsultSpec => []NothingLeft
<1>1. ConsultInv => NothingLeft
  BY DEF ConsultInv
<1>. QED
  BY <1>1, ConsultInvariant, PTL

\* However many final events, polls and timers race, the provider gets one final
\* result, unless the gateway did not say whether it had the first.
THEOREM ToldTheProviderOnce == ConsultSpec => []OneResult
<1>1. ConsultInv => OneResult
  BY DEF ConsultInv, ToldInv
<1>. QED
  BY <1>1, ConsultInvariant, PTL

\* The grace period and the time limit do not pass over an answer that was brought.
THEOREM AnswerTaken == ConsultSpec => []AnswerNotMissed
<1>1. ConsultInv => AnswerNotMissed
  BY DEF ConsultInv
<1>. QED
  BY <1>1, ConsultInvariant, PTL

-----------------------------------------------------------------------------
(* The bridge.                                                             *)

CopyInv ==
  /\ RestIsCurrent
  /\ refresh = "writing" /\ ~debounce /\ ~missed => listed = version

BridgeInv == BridgeTypeOK /\ HoldsItsClient /\ CopyInv

LEMMA AttachedHolds ==
  ASSUME BridgeInv, NEW c \in Links
  PROVE  /\ Attached(c) \in [Links -> Nat]
         /\ \A d \in Links : Attached(c)[d] = IF d = c THEN 1 ELSE 0
<1> DEFINE more == [bridgeHolds EXCEPT ![c] = @ + 1]
<1>1. /\ bridgeHolds \in [Links -> Nat] /\ end \in Links \cup {NoEnd}
      /\ \A d \in Links : bridgeHolds[d] = IF d = end THEN 1 ELSE 0
  BY DEF BridgeInv, BridgeTypeOK, HoldsItsClient
<1>2. /\ more \in [Links -> Nat]
      /\ \A d \in Links : more[d] = IF d = c THEN bridgeHolds[d] + 1 ELSE bridgeHolds[d]
  BY <1>1
<1> HIDE DEF more
<1>3. CASE end = NoEnd
  BY <1>1, <1>2, <1>3 DEF Attached, more
<1>4. CASE end \in Links
  <2>1. Attached(c) = [more EXCEPT ![end] = IF more[end] <= 1 THEN 0 ELSE more[end] - 1]
    BY <1>4 DEF Attached, more
  <2>2. more[end] = IF end = c THEN 2 ELSE 1
    BY <1>1, <1>2, <1>4
  <2>3. (IF more[end] <= 1 THEN 0 ELSE more[end] - 1) = IF end = c THEN 1 ELSE 0
    BY <2>2
  <2>4. Attached(c) = [more EXCEPT ![end] = IF end = c THEN 1 ELSE 0]
    BY <2>1, <2>3
  <2>. QED
    BY <1>1, <1>2, <1>4, <2>4
<1>. QED
  BY <1>1, <1>3, <1>4

\* What a call of connect() does when it returns, with the client e.
LEMMA ContinuesKeeps ==
  ASSUME BridgeInv, NEW w \in Callers, NEW e \in Links \cup {NoEnd}, Continues(w, e),
         UNCHANGED <<debounce, listed, mirror, version>>
  PROVE  /\ CopyInv'
         /\ {interval', missed'} \subseteq BOOLEAN
         /\ refresh' \in {"no", "connecting", "listing", "writing"}
<1>1. /\ {interval', missed'} \subseteq BOOLEAN
      /\ refresh' \in {"no", "connecting", "listing", "writing"}
  BY DEF BridgeInv, BridgeTypeOK, Continues
<1>2. CopyInv'
  BY DEF BridgeInv, CopyInv, RestIsCurrent, Continues
<1>. QED
  BY <1>1, <1>2

LEMMA InstallsKeeps ==
  ASSUME BridgeInv, NEW w \in Callers, NEW c \in Links, Installs(w, c), live' \subseteq Links
  PROVE  BridgeInv'
<1>1. /\ CopyInv' /\ {interval', missed'} \subseteq BOOLEAN
      /\ refresh' \in {"no", "connecting", "listing", "writing"}
  BY ContinuesKeeps DEF Installs
<1>2. HoldsItsClient'
  BY AttachedHolds DEF Installs, HoldsItsClient
<1>3. BridgeTypeOK'
  <2>1. dial' \in [Callers -> {"no", "looking", "dialing"}]
    BY DEF Installs, BridgeInv, BridgeTypeOK
  <2>2. bridgeHolds' \in [Links -> Nat] /\ end' \in Links
    BY AttachedHolds DEF Installs
  <2>. QED
    BY <1>1, <2>1, <2>2 DEF Installs, BridgeInv, BridgeTypeOK
<1>. QED
  BY <1>1, <1>2, <1>3 DEF BridgeInv

LEMMA RefreshKeeps ==
  ASSUME BridgeInv, RefreshNow, debounce' \in {debounce, FALSE}, debounce \/ refresh = "no",
         UNCHANGED <<again, begun, interval, live, end, bridgeHolds, listed, mirror, version, faults>>
  PROVE  BridgeInv'
<1>1. BridgeTypeOK'
  BY DEF BridgeInv, BridgeTypeOK, RefreshNow, Callers
<1>2. CopyInv'
  BY DEF BridgeInv, BridgeTypeOK, CopyInv, RestIsCurrent, RefreshNow
<1>3. HoldsItsClient'
  BY DEF BridgeInv, HoldsItsClient
<1>. QED
  BY <1>1, <1>2, <1>3 DEF BridgeInv

LEMMA BridgeStep ==
  ASSUME BridgeInv, BridgeNext
  PROVE  BridgeInv'
<1>1. CASE Begin
  BY <1>1 DEF Begin, BridgeInv, BridgeTypeOK, HoldsItsClient, CopyInv, RestIsCurrent, refreshVars, Callers
<1>2. CASE DebounceOver
  BY <1>2, RefreshKeeps DEF DebounceOver
<1>3. CASE Interval
  BY <1>3, RefreshKeeps DEF Interval
<1>4. CASE Lists
  BY <1>4 DEF Lists, BridgeInv, BridgeTypeOK, HoldsItsClient, CopyInv, RestIsCurrent, dialVars
<1>5. CASE WritesRows
  BY <1>5 DEF WritesRows, BridgeInv, BridgeTypeOK, HoldsItsClient, CopyInv, RestIsCurrent, dialVars
<1>6. CASE RefreshFails
  BY <1>6 DEF RefreshFails, MayFail, BridgeInv, BridgeTypeOK, HoldsItsClient, CopyInv, RestIsCurrent
<1>7. CASE ListLost
  BY <1>7 DEF ListLost, BridgeInv, BridgeTypeOK, HoldsItsClient, CopyInv, RestIsCurrent
<1>8. CASE Change
  <2>1. {debounce', missed'} \subseteq BOOLEAN /\ (debounce' \/ missed')
    BY <1>8 DEF Change, BridgeInv, BridgeTypeOK
  <2>. QED
    BY <1>8, <2>1 DEF Change, BridgeInv, BridgeTypeOK, HoldsItsClient, CopyInv, RestIsCurrent, dialVars
<1>9. ASSUME NEW w \in Callers, FindsNone(w) PROVE BridgeInv'
  BY <1>9 DEF FindsNone, BridgeInv, BridgeTypeOK, HoldsItsClient, CopyInv, RestIsCurrent, refreshVars
<1>10. ASSUME NEW w \in Callers, DialFails(w) PROVE BridgeInv'
  <2>1. /\ CopyInv' /\ {interval', missed'} \subseteq BOOLEAN
        /\ refresh' \in {"no", "connecting", "listing", "writing"}
    BY <1>10, ContinuesKeeps DEF DialFails, BridgeInv, BridgeTypeOK
  <2>2. HoldsItsClient'
    BY <1>10 DEF DialFails, BridgeInv, HoldsItsClient
  <2>3. BridgeTypeOK'
    BY <1>10, <2>1 DEF DialFails, MayFail, BridgeInv, BridgeTypeOK
  <2>. QED
    BY <2>1, <2>2, <2>3 DEF BridgeInv
<1>11. ASSUME NEW w \in Callers, NEW c \in Links, Finds(w, c) \/ DialOpens(w, c) PROVE BridgeInv'
  BY <1>11, InstallsKeeps DEF Finds, DialOpens, BridgeInv, BridgeTypeOK
<1>12. ASSUME NEW w \in Runs, Reconnects(w) PROVE BridgeInv'
  BY <1>12 DEF Reconnects, BridgeInv, BridgeTypeOK, HoldsItsClient, CopyInv, RestIsCurrent, refreshVars, Callers
<1>13. ASSUME NEW c \in Links, Lose(c) PROVE BridgeInv'
  BY <1>13 DEF Lose, MayFail, BridgeInv, BridgeTypeOK, HoldsItsClient, CopyInv, RestIsCurrent, refreshVars, dialVars
<1>. QED
  BY <1>1, <1>2, <1>3, <1>4, <1>5, <1>6, <1>7, <1>8, <1>9, <1>10, <1>11, <1>12, <1>13
  DEF BridgeNext

LEMMA BridgeStarts == BridgeInit => BridgeInv
<1> SUFFICES ASSUME BridgeInit PROVE BridgeInv
  OBVIOUS
<1>1. BridgeTypeOK
  <2>1. {again, begun, interval, debounce, missed} \subseteq BOOLEAN
    BY DEF BridgeInit
  <2>2. {listed, version, mirror, faults} \subseteq Nat
    BY DEF BridgeInit
  <2>. QED
    BY <2>1, <2>2 DEF BridgeInit, BridgeTypeOK
<1>2. HoldsItsClient /\ CopyInv
  BY DEF BridgeInit, HoldsItsClient, CopyInv, RestIsCurrent
<1>. QED
  BY <1>1, <1>2 DEF BridgeInv

LEMMA BridgeStutters ==
  ASSUME BridgeInv, UNCHANGED bridgeVars
  PROVE  BridgeInv'
  BY DEF bridgeVars, dialVars, refreshVars, BridgeInv, BridgeTypeOK, HoldsItsClient, CopyInv,
         RestIsCurrent

\* The bridge's holds, types and copies in one.
THEOREM BridgeInvariant == BridgeSpec => []BridgeInv
<1>. QED
  BY BridgeStarts, BridgeStep, BridgeStutters, PTL DEF BridgeSpec

\* The variables of the bridge keep their types.
THEOREM BridgeTypeCorrect == BridgeSpec => []BridgeTypeOK
<1>1. BridgeInv => BridgeTypeOK
  BY DEF BridgeInv
<1>. QED
  BY <1>1, BridgeInvariant, PTL

\* However many calls of connect() are under way, holdClient and releaseClient leave
\* one hold, on the client whose events are heard.
THEOREM HoldFollowsListeners == BridgeSpec => []HoldsItsClient
<1>1. BridgeInv => HoldsItsClient
  BY DEF BridgeInv
<1>. QED
  BY <1>1, BridgeInvariant, PTL

\* refreshSessions and its merging of calls lose a change only where missed says so.
THEOREM CopyIsCurrent == BridgeSpec => []RestIsCurrent
<1>1. BridgeInv => RestIsCurrent
  BY DEF BridgeInv, CopyInv
<1>. QED
  BY <1>1, BridgeInvariant, PTL

\* For any calls and sockets, timers and pending calls belong to the current
\* socket.
THEOREM SocketsAreSound == ClientSpec => []SocketsSound
  BY ClientTypeCorrect, TimerOfItsOwn, NoCallForgotten, NoSocketBeside, PTL
  DEF SocketsSound

\* A voice tool call has one result, the answer where there is one, and leaves
\* nothing behind.
THEOREM ConsultIsSound == ConsultSpec => []ConsultSound
  BY ConsultTypeCorrect, CleanedUp, ToldTheProviderOnce, AnswerTaken, PTL
  DEF ConsultSound

\* However many callers connect the bridge, it holds what it hears and has copied
\* what it heard.
THEOREM BridgeIsSound == BridgeSpec => []BridgeSound
  BY BridgeTypeCorrect, HoldFollowsListeners, CopyIsCurrent, PTL
  DEF BridgeSound
=============================================================================

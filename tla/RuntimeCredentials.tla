------------------------- MODULE RuntimeCredentials -------------------------
(***************************************************************************)
(* The metadata of one runtime, a single JSON column, with three writers:  *)
(* connections of the pool (connectWithFallback in                         *)
(* src/src/lib/gateway-chat-pool.ts), re-authentication (PATCH of          *)
(* src/src/app/api/runtimes/[id]/route.ts) and the import of agents        *)
(* (src/src/app/api/runtimes/import/route.ts).  Each reads the column,     *)
(* waits, and writes all of it.  src/src/lib/runtime-device-auth.ts says   *)
(* what they put in.                                                       *)
(*                                                                         *)
(* A device is the identity behind a private key, a credential the token   *)
(* the gateway gave a device.  Encryption is the flag sealed.  The shared  *)
(* token, addresses and URLs are left out: see GatewayPool, GatewayClient. *)
(***************************************************************************)
EXTENDS Naturals

CONSTANTS
  Dials,     \* connections of the pool
  Reauths,   \* users that re-authenticate
  Imports,   \* imports of agents
  Home,      \* the device of the key the runtime was created with
  Nobody,    \* no key or credential
  MaxTokens  \* bound: credentials the gateway gives away

Writers == Dials \cup Reauths \cup Imports

ASSUME WritersAssumption ==
  /\ Nobody \notin {Home} \cup Writers /\ Home \notin Writers
  /\ Dials \cap Reauths = {} /\ Dials \cap Imports = {} /\ Reauths \cap Imports = {}
ASSUME TokensAssumption == MaxTokens \in Nat

\* A writer without a stored key makes one: the device of its name.
Devices == {Home} \cup Writers
Credential == [device : Devices, token : Nat]

ASSUME CredentialAssumption == Nobody \notin Credential

Metadata ==
  [key    : Devices \cup {Nobody}, \* devicePrivateKeyPem
   sealed : BOOLEAN,               \* the key is encrypted
   cred   : Credential \cup {Nobody}, \* openclawDeviceAuth
   notes  : SUBSET Imports]        \* what imports have added

VARIABLES
  meta,       \* companyRuntimes.metadata
  at,         \* the await a writer is at
  copy,       \* the metadata it has read
  device,     \* the device it connects as
  auth,       \* deviceAuth: the credential a connection presents
  granted,    \* the credential the gateway gave it, to be stored
  issued,     \* credentials given so far
  cleared,    \* ghost: credentials that were rejected and removed
  stale,      \* ghost: writers that have not seen the last write
  overtaken  \* ghost: one of them has written

credVars == <<meta, at, copy, device, auth, granted, issued, cleared, stale, overtaken>>

Holding == {"sealing", "storing", "clearing", "probing", "importing"}
Steps == {"idle", "unsealed", "dialing", "done"} \cup Holding

CredTypeOK ==
  /\ meta \in Metadata
  /\ at \in [Writers -> Steps]
  /\ copy \in [Writers -> Metadata]
  /\ device \in [Writers -> Devices]
  /\ auth \in [Writers -> Credential \cup {Nobody}]
  /\ granted \in [Writers -> Credential \cup {Nobody}]
  /\ issued \in Nat
  /\ cleared \subseteq Credential
  /\ stale \subseteq Writers
  /\ overtaken \in BOOLEAN

CredInit ==
  /\ \E k \in {Home, Nobody}, s \in BOOLEAN :
       /\ s => k = Home
       /\ meta = [key |-> k, sealed |-> s, cred |-> Nobody, notes |-> {}]
  /\ at = [p \in Writers |-> "idle"]
  /\ copy = [p \in Writers |-> meta]
  /\ device = [p \in Writers |-> p]
  /\ auth = [p \in Writers |-> Nobody]
  /\ granted = [p \in Writers |-> Nobody]
  /\ issued = 0 /\ cleared = {} /\ stale = {} /\ overtaken = FALSE

-----------------------------------------------------------------------------
Goes(p, step) == at' = [at EXCEPT ![p] = step]
Reads(p) == copy' = [copy EXCEPT ![p] = meta] /\ stale' = stale \ {p}

\* The column becomes m.
Writes(p, m) ==
  /\ meta' = m
  /\ stale' = Writers \ {p}
  /\ overtaken' = (overtaken \/ p \in stale)

\* The device of the stored key, or a new one.
KeyOf(m, p) == IF m.key = Nobody THEN p ELSE m.key

\* Mutation: whose credential it is does not matter.
ReadableByAnyone(m, d) == m.cred

\* readRuntimeDeviceAuth.
Readable(m, d) == IF m.cred # Nobody /\ m.cred.device = d THEN m.cred ELSE Nobody

Grant(p) == [device |-> device[p], token |-> issued + 1]
MayGrant == issued < MaxTokens

-----------------------------------------------------------------------------
(* A connection of the pool.                                               *)

DialReads(p) ==
  /\ at[p] = "idle"
  /\ Reads(p)
  /\ device' = [device EXCEPT ![p] = KeyOf(meta, p)]
  /\ IF meta.key # Nobody /\ ~meta.sealed
     THEN Goes(p, "unsealed") /\ UNCHANGED auth
     ELSE Goes(p, "dialing") /\ auth' = [auth EXCEPT ![p] = Readable(meta, device'[p])]
  /\ UNCHANGED <<meta, granted, issued, cleared, overtaken>>

SealReads(p) ==
  /\ at[p] = "unsealed"
  /\ Reads(p) /\ Goes(p, "sealing")
  /\ UNCHANGED <<meta, device, auth, granted, issued, cleared, overtaken>>

\* The key it read first, sealed, goes into what it read last.
SealWrites(p) ==
  /\ at[p] = "sealing"
  /\ Writes(p, [copy[p] EXCEPT !.key = device[p], !.sealed = TRUE])
  /\ auth' = [auth EXCEPT ![p] = Readable(meta', device[p])]
  /\ Goes(p, "dialing")
  /\ UNCHANGED <<copy, device, granted, issued, cleared>>

\* The gateway gives the device a credential; onDeviceAuthUpdated.
Granted(p) ==
  /\ at[p] = "dialing" /\ MayGrant
  /\ granted' = [granted EXCEPT ![p] = Grant(p)]
  /\ issued' = issued + 1
  /\ Reads(p) /\ Goes(p, "storing")
  /\ UNCHANGED <<meta, device, auth, cleared, overtaken>>

Stores(p) ==
  /\ at[p] = "storing"
  /\ Writes(p, [copy[p] EXCEPT !.cred = granted[p]])
  /\ auth' = [auth EXCEPT ![p] = granted[p]]
  /\ Goes(p, "dialing")
  /\ UNCHANGED <<copy, device, granted, issued, cleared>>

\* The gateway refuses the credential; onDeviceAuthInvalid.
Refuses(p) ==
  /\ at[p] = "dialing" /\ auth[p] # Nobody
  /\ Reads(p) /\ Goes(p, "clearing")
  /\ UNCHANGED <<meta, device, auth, granted, issued, cleared, overtaken>>

\* Mutation: the key goes with the credential.
ClearsEverything(p) ==
  /\ at[p] = "clearing"
  /\ Writes(p, [copy[p] EXCEPT !.cred = Nobody, !.key = Nobody])
  /\ cleared' = cleared \cup {auth[p]}
  /\ auth' = [auth EXCEPT ![p] = Nobody]
  /\ Goes(p, "dialing")
  /\ UNCHANGED <<copy, device, granted, issued>>

\* Mutation: the credential is only forgotten.
ClearsMemory(p) ==
  /\ at[p] = "clearing"
  /\ Writes(p, copy[p])
  /\ cleared' = cleared \cup {auth[p]}
  /\ auth' = [auth EXCEPT ![p] = Nobody]
  /\ Goes(p, "dialing")
  /\ UNCHANGED <<copy, device, granted, issued>>

\* Mutation: the next URL is tried with the refused credential.
ClearsRow(p) ==
  /\ at[p] = "clearing"
  /\ Writes(p, [copy[p] EXCEPT !.cred = Nobody])
  /\ cleared' = cleared \cup {auth[p]}
  /\ Goes(p, "dialing")
  /\ UNCHANGED <<copy, device, auth, granted, issued>>

Clears(p) ==
  /\ at[p] = "clearing"
  /\ Writes(p, [copy[p] EXCEPT !.cred = Nobody])
  /\ cleared' = cleared \cup {auth[p]}
  /\ auth' = [auth EXCEPT ![p] = Nobody]
  /\ Goes(p, "dialing")
  /\ UNCHANGED <<copy, device, granted, issued>>

\* The database fails, or the answer of a write is lost; the attempt fails with it, and
\* the next URL is tried.
UpdateFails(p) ==
  /\ at[p] \in {"storing", "clearing"}
  /\ Goes(p, "dialing")
  /\ \/ UNCHANGED <<meta, overtaken>> /\ stale' = stale \cup {p}
     \/ /\ meta' = [copy[p] EXCEPT !.cred = IF at[p] = "storing" THEN granted[p] ELSE Nobody]
        /\ overtaken' = (overtaken \/ p \in stale)
        /\ stale' = Writers
  /\ UNCHANGED <<copy, device, auth, granted, issued, cleared>>

\* Connected, or out of URLs, or the key could not be sealed.
DialEnds(p) ==
  /\ at[p] \in {"unsealed", "sealing", "dialing"}
  /\ Goes(p, "done")
  /\ UNCHANGED <<meta, copy, device, auth, granted, issued, cleared, stale, overtaken>>

-----------------------------------------------------------------------------
(* Re-authentication and import.                                           *)

\* A device that waits for approval comes back with the next attempt.
ReauthReads(p) ==
  /\ at[p] = "idle"
  /\ Reads(p) /\ Goes(p, "probing")
  /\ device' = [device EXCEPT ![p] = KeyOf(meta, p)]
  /\ UNCHANGED <<meta, auth, granted, issued, cleared, overtaken>>

ProbeFails(p) ==
  /\ at[p] = "probing"
  /\ Goes(p, "idle")
  /\ UNCHANGED <<meta, copy, device, auth, granted, issued, cleared, stale, overtaken>>

\* The probe got through, with a credential or without.
ReauthWrites(p) ==
  /\ at[p] = "probing"
  /\ \/ /\ MayGrant
        /\ issued' = issued + 1
        /\ Writes(p, [copy[p] EXCEPT !.key = device[p], !.sealed = TRUE, !.cred = Grant(p)])
     \/ /\ Writes(p, [copy[p] EXCEPT !.key = device[p], !.sealed = TRUE])
        /\ UNCHANGED issued
  /\ Goes(p, "done")
  /\ UNCHANGED <<copy, device, auth, granted, cleared>>

ImportReads(p) ==
  /\ at[p] = "idle"
  /\ Reads(p) /\ Goes(p, "importing")
  /\ UNCHANGED <<meta, device, auth, granted, issued, cleared, overtaken>>

\* Mutation: the import writes its own entries.
ImportWritesOnly(p) ==
  /\ at[p] = "importing"
  /\ Writes(p, [notes |-> {p}])
  /\ Goes(p, "done")
  /\ UNCHANGED <<copy, device, auth, granted, issued, cleared>>

\* With the key of the probe before it, which the page has got sealed (probe/route.ts:20),
\* or without.
ImportWrites(p) ==
  /\ at[p] = "importing"
  /\ \/ Writes(p, [copy[p] EXCEPT !.notes = @ \cup {p}])
     \/ Writes(p, [copy[p] EXCEPT !.notes = @ \cup {p}, !.key = Home, !.sealed = TRUE])
  /\ Goes(p, "done")
  /\ UNCHANGED <<copy, device, auth, granted, issued, cleared>>

-----------------------------------------------------------------------------
CredNext ==
  \/ \E p \in Dials :
       \/ DialReads(p) \/ SealReads(p) \/ SealWrites(p)
       \/ Granted(p) \/ Stores(p) \/ Refuses(p) \/ Clears(p)
       \/ UpdateFails(p) \/ DialEnds(p)
  \/ \E p \in Reauths : ReauthReads(p) \/ ProbeFails(p) \/ ReauthWrites(p)
  \/ \E p \in Imports : ImportReads(p) \/ ImportWrites(p)

CredSpec == CredInit /\ [][CredNext]_credVars

-----------------------------------------------------------------------------
(* Properties.                                                             *)

\* A connection presents only credentials of its own device, whatever the other
\* writers have left in the column.
CredentialOfItsDevice == \A p \in Dials : auth[p] # Nobody => auth[p].device = device[p]

\* Unless a writer missed another one's write, no write loses what others stored:
\* the entries of imports, a key, and that it is sealed.
NothingLost ==
  [][~overtaken' =>
       /\ meta.notes \subseteq meta'.notes
       /\ meta.key # Nobody => meta'.key # Nobody /\ (meta.sealed => meta'.sealed)]_credVars

\* A credential that was rejected does not come back, with the same exception.
RejectedStaysAway == overtaken \/ meta.cred \notin cleared

\* Between two URLs a connection would present what is stored for its device,
\* unless somebody else has written or an update failed.
InStep ==
  \A p \in Dials : at[p] = "dialing" /\ p \notin stale => auth[p] = Readable(meta, device[p])

\* What is stored, what is in memory and what is presented agree: a credential goes
\* with its device, between URLs with the row, and not on after its rejection.
CredentialsAgree ==
  /\ CredTypeOK /\ CredentialOfItsDevice /\ InStep /\ RejectedStaysAway
=============================================================================

---------------------------- MODULE Records_proofs ----------------------------
(***************************************************************************)
(* Theorems about what requests leave behind in shared records:            *)
(* RuntimeCredentials, FindOrCreate, SkillSync, Joining and Governance, in *)
(* this order and for any number of requests.  The models share no         *)
(* variable.                                                               *)
(***************************************************************************)
EXTENDS RuntimeCredentials, SkillSync, FindOrCreate, Governance, Joining, TLAPS

-----------------------------------------------------------------------------
(* The metadata of a runtime.  A writer that is not stale has read what is *)
(* there (ReadInv); a credential is of the device that presents it, and    *)
(* between two URLs it is the one that is stored (DialInv); one that is    *)
(* still to be stored is known to nobody else (TokenInv), so that storing  *)
(* it never brings a rejected one back.                                    *)

ReadInv == \A p \in Writers : at[p] \in Holding /\ p \notin stale => copy[p] = meta

DialInv ==
  \A p \in Dials :
    /\ at[p] = "idle" => auth[p] = Nobody
    /\ auth[p] # Nobody => auth[p].device = device[p]
    /\ at[p] = "storing" => granted[p] \in Credential /\ granted[p].device = device[p]
    /\ at[p] = "clearing" => auth[p] \in Credential
    /\ at[p] = "dialing" /\ p \notin stale => auth[p] = Readable(meta, device[p])

\* A credential that was given away.
Given(x) == x \in Credential => x.token <= issued

TokenInv ==
  /\ Given(meta.cred) /\ \A x \in cleared : Given(x)
  /\ \A q \in Writers : Given(copy[q].cred) /\ Given(auth[q]) /\ Given(granted[q])
  /\ \A p \in Dials : at[p] = "storing" =>
       /\ granted[p] # meta.cred /\ granted[p] \notin cleared
       /\ \A q \in Writers : granted[p] # copy[q].cred /\ granted[p] # auth[q]
       /\ \A q \in Dials \ {p} : at[q] = "storing" => granted[p] # granted[q]

CredInv == CredTypeOK /\ ReadInv /\ DialInv /\ TokenInv /\ RejectedStaysAway

USE WritersAssumption, CredentialAssumption DEF Writers

LEMMA SealedType ==
  ASSUME NEW m \in Metadata, NEW d \in Devices
  PROVE  /\ [m EXCEPT !.key = d, !.sealed = TRUE] \in Metadata
         /\ [m EXCEPT !.key = d, !.sealed = TRUE].cred = m.cred
         /\ [m EXCEPT !.key = d, !.sealed = TRUE].key = d
         /\ [m EXCEPT !.key = d, !.sealed = TRUE].sealed
         /\ [m EXCEPT !.key = d, !.sealed = TRUE].notes = m.notes
  BY DEF Metadata

LEMMA StoredType ==
  ASSUME NEW m \in Metadata, NEW x \in Credential \cup {Nobody}
  PROVE  /\ [m EXCEPT !.cred = x] \in Metadata
         /\ [m EXCEPT !.cred = x].cred = x
         /\ [m EXCEPT !.cred = x].key = m.key
         /\ [m EXCEPT !.cred = x].sealed = m.sealed
         /\ [m EXCEPT !.cred = x].notes = m.notes
  BY DEF Metadata

LEMMA GrantType ==
  ASSUME CredTypeOK, NEW p \in Writers
  PROVE  /\ Grant(p) \in Credential /\ Grant(p).device = device[p]
         /\ Grant(p).token = issued + 1
  BY DEF Grant, Credential, CredTypeOK

LEMMA ReadableType ==
  ASSUME NEW m \in Metadata, NEW d
  PROVE  /\ Readable(m, d) \in {m.cred, Nobody}
         /\ Readable(m, d) \in Credential \cup {Nobody}
         /\ Readable(m, d) # Nobody => Readable(m, d).device = d
  BY DEF Readable, Metadata

\* p writes m and presents a from now on, or what it did before if the answer is lost.
LEMMA WriteKeeps ==
  ASSUME CredInv, NEW p \in Writers, NEW m \in Metadata, NEW to \in {"dialing", "done"},
         NEW a \in Credential \cup {Nobody},
         meta' = m, stale' \in {Writers, Writers \ {p}}, overtaken' = (overtaken \/ p \in stale),
         Goes(p, to), auth' = [auth EXCEPT ![p] = a],
         UNCHANGED <<copy, device, granted>>,
         issued' \in Nat, issued' >= issued,
         cleared' \in {cleared, cleared \cup {auth[p]}}, cleared' \subseteq Credential,
         p \in Dials => /\ to = "dialing"
                        /\ a = Readable(m, device[p]) \/ (a = auth[p] /\ stale' = Writers),
         p \notin Dials => a = auth[p],
         (m.cred \in Credential => m.cred.token <= issued'),
         \A q \in Dials \ {p} : at[q] = "storing" => granted[q] # m.cred,
         RejectedStaysAway'
  PROVE  CredInv'
<1> USE DEF CredInv
<1>1. /\ Writers \ {p} \subseteq stale'
      /\ \A q \in Writers : at'[q] = IF q = p THEN to ELSE at[q]
      /\ \A q \in Writers : auth'[q] = IF q = p THEN a ELSE auth[q]
  BY DEF Goes, CredTypeOK
<1>2. CredTypeOK'
  BY DEF Goes, CredTypeOK, Steps, Holding
<1>3. ReadInv'
  BY <1>1 DEF ReadInv, Holding
<1>4. DialInv'
  <2>1. a # Nobody /\ p \in Dials => a.device = device[p]
    BY ReadableType DEF DialInv
  <2>. QED
    BY <1>1, <2>1 DEF DialInv
<1>5. TokenInv'
  <2>1. \A x \in Credential : x.token <= issued => x.token <= issued'
    BY DEF Credential, CredTypeOK
  <2>2. Given(a)' /\ \A q \in Dials \ {p} : at[q] = "storing" => granted[q] # a
    <3>1. CASE p \in Dials /\ a # auth[p]
      <4>1. a \in {m.cred, Nobody}
        BY <3>1, ReadableType
      <4>2. Given(Nobody)' /\ \A q \in Dials \ {p} : at[q] = "storing" => granted[q] # Nobody
        BY DEF Given, DialInv
      <4>. QED
        BY <4>1, <4>2 DEF Given
    <3>2. CASE a = auth[p]
      BY <2>1, <3>2 DEF TokenInv, Given
    <3>. QED
      BY <3>1, <3>2
  <2>3. \A x \in cleared' : Given(x)'
    BY <2>1 DEF TokenInv, Given
  <2>4. \A q \in Writers : Given(copy[q].cred)' /\ Given(auth[q])' /\ Given(granted[q])'
    BY <1>1, <2>1, <2>2 DEF TokenInv, Given
  <2>5. \A q \in Dials \ {p} : at[q] = "storing" => granted[q] \notin cleared'
    BY DEF TokenInv
  <2>6. ASSUME NEW q \in Dials, at'[q] = "storing"
        PROVE  /\ granted'[q] # meta'.cred /\ granted'[q] \notin cleared'
               /\ \A r \in Writers : granted'[q] # copy'[r].cred /\ granted'[q] # auth'[r]
               /\ \A r \in Dials \ {q} : at'[r] = "storing" => granted'[q] # granted'[r]
    <3>1. q # p /\ at[q] = "storing"
      BY <1>1, <2>6
    <3>. QED
      BY <1>1, <2>2, <2>5, <3>1 DEF TokenInv
  <2>. QED
    BY <1>1, <2>3, <2>4, <2>6 DEF TokenInv, Given
<1>. QED
  BY <1>2, <1>3, <1>4, <1>5

\* p reads the metadata and goes on with device d, credential a and what it was
\* granted, g.
LEMMA ReadKeeps ==
  ASSUME CredInv, NEW p \in Writers,
         NEW to \in {"unsealed", "dialing", "sealing", "storing", "clearing", "probing", "importing"},
         NEW d \in Devices, NEW a \in Credential \cup {Nobody}, NEW g \in Credential \cup {Nobody},
         Reads(p), Goes(p, to),
         device' = [device EXCEPT ![p] = d], auth' = [auth EXCEPT ![p] = a],
         granted' = [granted EXCEPT ![p] = g],
         UNCHANGED <<meta, cleared, overtaken>>,
         a \in {auth[p], meta.cred, Nobody},
         p \in Dials /\ a # Nobody => a.device = d,
         p \in Dials /\ to = "dialing" => a = Readable(meta, d),
         to = "clearing" => a \in Credential,
         \/ to # "storing" /\ g = granted[p] /\ issued' = issued
         \/ g \in Credential /\ g.device = d /\ g.token = issued + 1 /\ issued' = issued + 1
  PROVE  CredInv'
<1> USE DEF CredInv
<1>1. /\ stale' = stale \ {p} /\ issued \in Nat /\ issued' \in Nat /\ issued' >= issued
      /\ \A q \in Writers : /\ at'[q] = IF q = p THEN to ELSE at[q]
                            /\ copy'[q] = IF q = p THEN meta ELSE copy[q]
                            /\ auth'[q] = IF q = p THEN a ELSE auth[q]
                            /\ device'[q] = IF q = p THEN d ELSE device[q]
                            /\ granted'[q] = IF q = p THEN g ELSE granted[q]
  BY DEF Reads, Goes, CredTypeOK
<1>2. CredTypeOK'
  BY <1>1 DEF Reads, Goes, CredTypeOK, Steps, Holding
<1>3. ReadInv'
  BY <1>1 DEF ReadInv
<1>4. DialInv'
  BY <1>1 DEF DialInv
<1>5. TokenInv'
  <2>1. \A x \in Credential : x.token <= issued => x.token <= issued'
    BY <1>1 DEF Credential
  <2>2. Given(a)' /\ Given(g)'
    BY <1>1, <2>1 DEF Given, TokenInv
  <2>3. Given(meta.cred)' /\ \A x \in cleared' : Given(x)'
    BY <2>1 DEF TokenInv, Given
  <2>4. \A q \in Writers : Given(copy[q].cred)' /\ Given(auth[q])' /\ Given(granted[q])'
    BY <1>1, <2>1, <2>2 DEF TokenInv, Given
  <2>5. \A q \in Dials : at[q] = "storing" => granted[q] # a /\ granted[q] # meta.cred
    BY DEF TokenInv, DialInv
  <2>6. ASSUME NEW q \in Dials, at'[q] = "storing"
        PROVE  /\ granted'[q] # meta'.cred /\ granted'[q] \notin cleared'
               /\ \A r \in Writers : granted'[q] # copy'[r].cred /\ granted'[q] # auth'[r]
               /\ \A r \in Dials \ {q} : at'[r] = "storing" => granted'[q] # granted'[r]
    <3>1. CASE g \in Credential /\ g.token = issued + 1 /\ issued' = issued + 1
      <4>1. \A x : Given(x) => x # g
        BY <1>1, <3>1 DEF Given, Credential
      <4>2. /\ g # meta.cred /\ g \notin cleared /\ g # a
            /\ \A r \in Writers : g # copy[r].cred /\ g # auth[r] /\ g # granted[r]
        BY <2>5, <4>1 DEF TokenInv, Given
      <4>3. CASE q = p
        BY <1>1, <4>2, <4>3
      <4>4. CASE q # p
        BY <1>1, <2>5, <2>6, <4>2, <4>4 DEF TokenInv
      <4>. QED
        BY <4>3, <4>4
    <3>2. CASE to # "storing" /\ g = granted[p]
      <4>1. q # p /\ at[q] = "storing"
        BY <1>1, <2>6, <3>2
      <4>. QED
        BY <1>1, <2>5, <3>2, <4>1 DEF TokenInv
    <3>. QED
      BY <3>1, <3>2
  <2>. QED
    BY <2>3, <2>4, <2>6 DEF TokenInv
<1>6. RejectedStaysAway'
  BY DEF RejectedStaysAway
<1>. QED
  BY <1>2, <1>3, <1>4, <1>5, <1>6

\* p goes on without reading or writing.
LEMMA MoveKeeps ==
  ASSUME CredInv, NEW p \in Writers, NEW to \in {"idle", "dialing", "done"}, Goes(p, to),
         to = "idle" => p \notin Dials,
         to = "dialing" => p \in stale',
         stale' \in {stale, stale \cup {p}},
         UNCHANGED <<meta, copy, device, auth, granted, issued, cleared, overtaken>>
  PROVE  CredInv'
<1> USE DEF CredInv
<1>1. \A q \in Writers : at'[q] = IF q = p THEN to ELSE at[q]
  BY DEF Goes, CredTypeOK
<1>2. CredTypeOK'
  BY DEF Goes, CredTypeOK, Steps
<1>3. ReadInv' /\ RejectedStaysAway'
  BY <1>1 DEF ReadInv, Holding, RejectedStaysAway
<1>4. DialInv'
  BY <1>1 DEF DialInv
<1>5. TokenInv'
  BY <1>1 DEF TokenInv, Given
<1>. QED
  BY <1>2, <1>3, <1>4, <1>5

\* What a write keeps, unless its writer has missed another one.
Keeps == ~overtaken' =>
  /\ meta.notes \subseteq meta'.notes
  /\ meta.key # Nobody => meta'.key # Nobody /\ (meta.sealed => meta'.sealed)

LEMMA CurrentCopy ==
  ASSUME CredInv, NEW p \in Writers, at[p] \in Holding,
         overtaken' = (overtaken \/ p \in stale), ~overtaken'
  PROVE  copy[p] = meta /\ ~overtaken
  BY DEF CredInv, CredTypeOK, ReadInv

LEMMA KeyType ==
  ASSUME NEW m \in Metadata, NEW p \in Writers
  PROVE  KeyOf(m, p) \in Devices
  BY DEF KeyOf, Metadata, Devices

LEMMA CredStep ==
  ASSUME CredInv, CredNext
  PROVE  CredInv' /\ Keeps
<1>0. /\ CredTypeOK /\ meta \in Metadata
      /\ \A q \in Writers : /\ copy[q] \in Metadata /\ device[q] \in Devices
                            /\ auth[q] \in Credential \cup {Nobody}
                            /\ granted[q] \in Credential \cup {Nobody}
      /\ issued \in Nat /\ cleared \subseteq Credential
  BY DEF CredInv, CredTypeOK
<1>1. \A q \in Writers : /\ device = [device EXCEPT ![q] = device[q]]
                         /\ auth = [auth EXCEPT ![q] = auth[q]]
                         /\ granted = [granted EXCEPT ![q] = granted[q]]
  BY DEF CredInv, CredTypeOK
<1>2. meta' = meta => Keeps
  BY DEF Keeps
<1>3. \A q \in Writers : Given(copy[q].cred) /\ Given(auth[q]) /\ Given(granted[q])
  BY DEF CredInv, TokenInv
<1>4. ASSUME NEW p \in Dials, DialReads(p) PROVE CredInv' /\ Keeps
  <2>0. PICK d : d = KeyOf(meta, p)
    OBVIOUS
  <2>1. d \in Devices /\ auth[p] = Nobody /\ device'[p] = d /\ device' = [device EXCEPT ![p] = d]
    BY <1>0, <1>4, <2>0, KeyType DEF DialReads, CredInv, DialInv, CredTypeOK
  <2>2. CASE Goes(p, "unsealed") /\ UNCHANGED auth
    <3>1. PICK a, g : a = auth[p] /\ g = granted[p]
      OBVIOUS
    <3>2. /\ d \in Devices /\ a \in Credential \cup {Nobody} /\ g \in Credential \cup {Nobody}
          /\ Reads(p) /\ Goes(p, "unsealed")
          /\ device' = [device EXCEPT ![p] = d] /\ auth' = [auth EXCEPT ![p] = a]
          /\ granted' = [granted EXCEPT ![p] = g]
          /\ UNCHANGED <<meta, issued, cleared, overtaken>>
          /\ a = Nobody /\ g = granted[p]
      BY <1>0, <1>1, <1>4, <2>1, <2>2, <3>1 DEF DialReads
    <3>3. CredInv'
      BY <3>2, ReadKeeps
    <3>. QED
      BY <1>2, <3>2, <3>3
  <2>3. CASE Goes(p, "dialing") /\ auth' = [auth EXCEPT ![p] = Readable(meta, device'[p])]
    <3>1. PICK a : a = Readable(meta, d)
      OBVIOUS
    <3>2. /\ a \in {meta.cred, Nobody} /\ a \in Credential \cup {Nobody}
          /\ a # Nobody => a.device = d
          /\ auth' = [auth EXCEPT ![p] = a]
      BY <1>0, <2>1, <2>3, <3>1, ReadableType
    <3>3. PICK g : g = granted[p]
      OBVIOUS
    <3>4. /\ g \in Credential \cup {Nobody} /\ Reads(p) /\ Goes(p, "dialing")
          /\ granted' = [granted EXCEPT ![p] = g]
          /\ UNCHANGED <<meta, issued, cleared, overtaken>>
      BY <1>0, <1>1, <1>4, <2>3, <3>3 DEF DialReads
    <3>5. CredInv'
      BY <2>1, <3>1, <3>2, <3>3, <3>4, ReadKeeps
    <3>. QED
      BY <1>2, <3>4, <3>5
  <2>. QED
    BY <1>4, <2>2, <2>3 DEF DialReads
<1>5. ASSUME NEW p \in Dials, SealReads(p) PROVE CredInv' /\ Keeps
  <2>1. auth[p] # Nobody => auth[p].device = device[p]
    BY DEF CredInv, DialInv
  <2>. QED
    BY <1>0, <1>1, <1>2, <1>5, <2>1, ReadKeeps DEF SealReads
<1>6. ASSUME NEW p \in Dials, SealWrites(p) PROVE CredInv' /\ Keeps
  <2>9. PICK m : m = [copy[p] EXCEPT !.key = device[p], !.sealed = TRUE]
    OBVIOUS
  <2>1. /\ m \in Metadata /\ m.cred = copy[p].cred /\ m.key = device[p] /\ m.sealed
        /\ m.notes = copy[p].notes
    BY <1>0, <2>9, SealedType
  <2>2. /\ at[p] \in Holding /\ meta' = m
       /\ stale' \in {Writers, Writers \ {p}} /\ overtaken' = (overtaken \/ p \in stale)
    BY <1>6, <2>9 DEF SealWrites, Holding, Writes
  <2>3. RejectedStaysAway'
    BY <1>6, <2>1, <2>2, CurrentCopy DEF SealWrites, CredInv, RejectedStaysAway
  <2>4. PICK a \in Credential \cup {Nobody} : a = Readable(m, device[p])
    BY <2>1, ReadableType
  <2>5. (m.cred \in Credential => m.cred.token <= issued') /\ \A q \in Dials \ {p} : at[q] = "storing" => granted[q] # m.cred
    BY <1>3, <1>6, <2>1 DEF CredInv, TokenInv, SealWrites, Given
  <2>8. /\ Goes(p, "dialing") /\ auth' = [auth EXCEPT ![p] = a]
        /\ UNCHANGED <<copy, device, granted>> /\ issued' = issued /\ cleared' = cleared
    BY <1>6, <2>2, <2>4 DEF SealWrites
  <2>11. /\ p \in Writers /\ "dialing" \in {"dialing", "done"}
         /\ a \in Credential \cup {Nobody} /\ auth' = [auth EXCEPT ![p] = a]
         /\ issued' \in Nat /\ issued' >= issued
         /\ cleared' \in {cleared, cleared \cup {auth[p]}} /\ cleared' \subseteq Credential
         /\ p \in Dials => "dialing" = "dialing" /\ (a = Readable(m, device[p]) \/ (a = auth[p] /\ stale' = Writers))
         /\ p \notin Dials => a = auth[p]
    BY <1>0, <2>4, <2>8
  <2>6. CredInv'
    BY <2>1, <2>2, <2>3, <2>5, <2>8, <2>11, WriteKeeps, ZenonT(60)
  <2>7. Keeps
    BY <1>0, <2>1, <2>2, CurrentCopy DEF Keeps, Devices
  <2>. QED
    BY <2>6, <2>7
<1>7. ASSUME NEW p \in Dials, Granted(p) PROVE CredInv' /\ Keeps
  <2>1. /\ Grant(p) \in Credential /\ Grant(p).device = device[p] /\ Grant(p).token = issued + 1
        /\ auth[p] # Nobody => auth[p].device = device[p]
    BY <1>0, GrantType DEF CredInv, DialInv
  <2>. QED
    BY <1>0, <1>1, <1>2, <1>7, <2>1, ReadKeeps DEF Granted
<1>8. ASSUME NEW p \in Dials, Stores(p) PROVE CredInv' /\ Keeps
  <2>9. PICK m : m = [copy[p] EXCEPT !.cred = granted[p]]
    OBVIOUS
  <2>0. granted[p] \in Credential /\ granted[p].device = device[p] /\ granted[p] # Nobody
    BY <1>8 DEF Stores, CredInv, DialInv
  <2>1. /\ m \in Metadata /\ m.cred = granted[p] /\ m.key = copy[p].key /\ m.sealed = copy[p].sealed
        /\ m.notes = copy[p].notes
    BY <1>0, <2>9, StoredType
  <2>2. /\ at[p] \in Holding /\ meta' = m
       /\ stale' \in {Writers, Writers \ {p}} /\ overtaken' = (overtaken \/ p \in stale)
    BY <1>8, <2>9 DEF Stores, Holding, Writes
  <2>3. RejectedStaysAway'
    BY <1>8, <2>1, <2>2 DEF Stores, CredInv, RejectedStaysAway, TokenInv
  <2>4. Readable(m, device[p]) = granted[p]
    BY <2>0, <2>1 DEF Readable
  <2>5. (m.cred \in Credential => m.cred.token <= issued') /\ \A q \in Dials \ {p} : at[q] = "storing" => granted[q] # m.cred
    BY <1>3, <1>8, <2>1 DEF CredInv, TokenInv, Stores, Given
  <2>7. PICK a \in Credential : a = granted[p]
    BY <2>0
  <2>8. /\ Goes(p, "dialing") /\ auth' = [auth EXCEPT ![p] = a]
        /\ UNCHANGED <<copy, device, granted>> /\ issued' = issued /\ cleared' = cleared
    BY <1>8, <2>7 DEF Stores
  <2>11. /\ p \in Writers /\ "dialing" \in {"dialing", "done"}
         /\ a \in Credential \cup {Nobody} /\ auth' = [auth EXCEPT ![p] = a]
         /\ issued' \in Nat /\ issued' >= issued
         /\ cleared' \in {cleared, cleared \cup {auth[p]}} /\ cleared' \subseteq Credential
         /\ p \in Dials => "dialing" = "dialing" /\ (a = Readable(m, device[p]) \/ (a = auth[p] /\ stale' = Writers))
         /\ p \notin Dials => a = auth[p]
    BY <1>0, <2>4, <2>7, <2>8
  <2>6. CredInv'
    BY <2>1, <2>2, <2>3, <2>5, <2>8, <2>11, WriteKeeps, ZenonT(60)
  <2>10. Keeps
    BY <2>1, <2>2, CurrentCopy DEF Keeps
  <2>. QED
    BY <2>6, <2>10
<1>9. ASSUME NEW p \in Dials, Refuses(p) PROVE CredInv' /\ Keeps
  <2>1. auth[p] \in Credential /\ auth[p].device = device[p]
    BY <1>0, <1>9 DEF Refuses, CredInv, DialInv
  <2>. QED
    BY <1>0, <1>1, <1>2, <1>9, <2>1, ReadKeeps DEF Refuses
<1>10. ASSUME NEW p \in Dials, Clears(p) PROVE CredInv' /\ Keeps
  <2>9. PICK m : m = [copy[p] EXCEPT !.cred = Nobody]
    OBVIOUS
  <2>0. auth[p] \in Credential
    BY <1>10 DEF Clears, CredInv, DialInv
  <2>1. /\ m \in Metadata /\ m.cred = Nobody /\ m.key = copy[p].key /\ m.sealed = copy[p].sealed
        /\ m.notes = copy[p].notes
    BY <1>0, <2>9, StoredType
  <2>2. /\ at[p] \in Holding /\ meta' = m
       /\ stale' \in {Writers, Writers \ {p}} /\ overtaken' = (overtaken \/ p \in stale)
    BY <1>10, <2>9 DEF Clears, Holding, Writes
  <2>3. RejectedStaysAway'
    BY <1>0, <1>10, <2>0, <2>1, <2>2 DEF Clears, RejectedStaysAway
  <2>4. Readable(m, device[p]) = Nobody
    BY <2>1 DEF Readable
  <2>5. (m.cred \in Credential => m.cred.token <= issued') /\ \A q \in Dials \ {p} : at[q] = "storing" => granted[q] # m.cred
    BY <2>1 DEF CredInv, DialInv, Given
  <2>8. /\ Goes(p, "dialing") /\ auth' = [auth EXCEPT ![p] = Nobody]
        /\ UNCHANGED <<copy, device, granted>> /\ issued' = issued
        /\ cleared' = cleared \cup {auth[p]} /\ cleared' \subseteq Credential
    BY <1>0, <1>10, <2>0 DEF Clears
  <2>11. /\ p \in Writers /\ "dialing" \in {"dialing", "done"}
         /\ Nobody \in Credential \cup {Nobody} /\ auth' = [auth EXCEPT ![p] = Nobody]
         /\ issued' \in Nat /\ issued' >= issued
         /\ cleared' \in {cleared, cleared \cup {auth[p]}} /\ cleared' \subseteq Credential
         /\ p \in Dials => "dialing" = "dialing" /\ (Nobody = Readable(m, device[p]) \/ (Nobody = auth[p] /\ stale' = Writers))
         /\ p \notin Dials => Nobody = auth[p]
    BY <1>0, <2>4, <2>8
  <2>6. CredInv'
    BY <2>1, <2>2, <2>3, <2>5, <2>8, <2>11, WriteKeeps, ZenonT(60)
  <2>7. Keeps
    BY <2>1, <2>2, CurrentCopy DEF Keeps
  <2>. QED
    BY <2>6, <2>7
<1>11. ASSUME NEW p \in Dials, UpdateFails(p) \/ DialEnds(p) PROVE CredInv' /\ Keeps
  <2>1. CASE DialEnds(p)
    BY <1>2, <2>1, MoveKeeps DEF DialEnds
  <2>2. CASE UpdateFails(p) /\ UNCHANGED <<meta, overtaken>> /\ stale' = stale \cup {p}
    BY <1>2, <2>2, MoveKeeps DEF UpdateFails
  <2>3. CASE UpdateFails(p) /\ ~(UNCHANGED <<meta, overtaken>> /\ stale' = stale \cup {p})
    <3>1. PICK x : x = IF at[p] = "storing" THEN granted[p] ELSE Nobody
      OBVIOUS
    <3>2. x \in Credential \cup {Nobody} /\ (at[p] = "storing" => x \in Credential)
      BY <1>0, <3>1 DEF CredInv, DialInv
    <3>3. PICK m : m = [copy[p] EXCEPT !.cred = x]
      OBVIOUS
    <3>4. /\ m \in Metadata /\ m.cred = x /\ m.key = copy[p].key /\ m.sealed = copy[p].sealed
          /\ m.notes = copy[p].notes
      BY <1>0, <3>2, <3>3, StoredType
    <3>5. /\ at[p] \in Holding /\ meta' = m /\ stale' \in {Writers, Writers \ {p}}
          /\ stale' = Writers /\ overtaken' = (overtaken \/ p \in stale)
      BY <2>3, <3>1, <3>3 DEF UpdateFails, Holding
    <3>6. /\ Goes(p, "dialing") /\ auth' = [auth EXCEPT ![p] = auth[p]]
          /\ UNCHANGED <<copy, device, granted>> /\ issued' = issued /\ cleared' = cleared
          /\ auth[p] \in Credential \cup {Nobody}
      BY <1>0, <1>1, <2>3 DEF UpdateFails
    <3>7. RejectedStaysAway'
      <4>1. x \notin cleared
        BY <1>0, <2>3, <3>1 DEF UpdateFails, CredInv, TokenInv
      <4>. QED
        BY <3>4, <3>5, <3>6, <4>1 DEF RejectedStaysAway
    <3>8. (m.cred \in Credential => m.cred.token <= issued') /\ \A q \in Dials \ {p} : at[q] = "storing" => granted[q] # m.cred
      BY <1>3, <2>3, <3>1, <3>4, <3>6 DEF CredInv, DialInv, TokenInv, UpdateFails, Given
    <3>9. PICK a \in Credential \cup {Nobody} : a = auth[p]
      BY <3>6
    <3>10. /\ p \in Writers /\ "dialing" \in {"dialing", "done"}
           /\ a \in Credential \cup {Nobody} /\ auth' = [auth EXCEPT ![p] = a]
           /\ issued' \in Nat /\ issued' >= issued
           /\ cleared' \in {cleared, cleared \cup {auth[p]}} /\ cleared' \subseteq Credential
           /\ p \in Dials => "dialing" = "dialing" /\ (a = Readable(m, device[p]) \/ (a = auth[p] /\ stale' = Writers))
           /\ p \notin Dials => a = auth[p]
      BY <1>0, <3>5, <3>6, <3>9
    <3>11. CredInv'
      BY <3>4, <3>5, <3>6, <3>7, <3>8, <3>10, WriteKeeps, ZenonT(60)
    <3>12. Keeps
      BY <3>4, <3>5, CurrentCopy DEF Keeps
    <3>. QED
      BY <3>11, <3>12
  <2>. QED
    BY <1>11, <2>1, <2>2, <2>3
<1>12. ASSUME NEW p \in Reauths, ReauthReads(p) PROVE CredInv' /\ Keeps
  <2>1. KeyOf(meta, p) \in Devices /\ p \notin Dials
    BY <1>0, KeyType
  <2>. QED
    BY <1>0, <1>1, <1>2, <1>12, <2>1, ReadKeeps DEF ReauthReads
<1>13. ASSUME NEW p \in Reauths, ProbeFails(p) PROVE CredInv' /\ Keeps
  BY <1>2, <1>13, MoveKeeps DEF ProbeFails
<1>14. ASSUME NEW p \in Reauths, ReauthWrites(p) PROVE CredInv' /\ Keeps
  <2>1. CASE /\ issued' = issued + 1
             /\ Writes(p, [copy[p] EXCEPT !.key = device[p], !.sealed = TRUE, !.cred = Grant(p)])
    <3>9. PICK m : m = [copy[p] EXCEPT !.key = device[p], !.sealed = TRUE, !.cred = Grant(p)]
      OBVIOUS
    <3>8. Grant(p) \in Credential /\ Grant(p).token = issued + 1
      BY <1>0, GrantType
    <3>1. /\ m \in Metadata /\ m.cred = Grant(p) /\ m.key = device[p] /\ m.sealed
          /\ m.notes = copy[p].notes
      <4>1. PICK x \in Credential : x = Grant(p)
        BY <3>8
      <4>. QED
        BY <1>0, <3>9, <4>1 DEF Metadata
    <3>2. /\ at[p] \in Holding /\ meta' = m
         /\ stale' \in {Writers, Writers \ {p}} /\ overtaken' = (overtaken \/ p \in stale)
      BY <1>14, <2>1, <3>9 DEF ReauthWrites, Holding, Writes
    <3>3. \A x : Given(x) => x # m.cred
      BY <1>0, <3>1, <3>8 DEF Given, Credential
    <3>4. RejectedStaysAway'
      BY <1>14, <3>2, <3>3 DEF ReauthWrites, CredInv, TokenInv, RejectedStaysAway
    <3>5. (m.cred \in Credential => m.cred.token <= issued') /\ \A q \in Dials \ {p} : at[q] = "storing" => granted[q] # m.cred
      BY <1>0, <1>3, <2>1, <3>1, <3>3, <3>8 DEF Given, DialInv
    <3>6. CredInv'
      BY <1>0, <1>1, <1>14, <2>1, <3>1, <3>2, <3>4, <3>5, WriteKeeps DEF ReauthWrites
    <3>7. Keeps
      BY <1>0, <3>1, <3>2, CurrentCopy DEF Keeps, Devices
    <3>. QED
      BY <3>6, <3>7
  <2>2. CASE Writes(p, [copy[p] EXCEPT !.key = device[p], !.sealed = TRUE]) /\ UNCHANGED issued
    <3>9. PICK m : m = [copy[p] EXCEPT !.key = device[p], !.sealed = TRUE]
      OBVIOUS
    <3>1. /\ m \in Metadata /\ m.cred = copy[p].cred /\ m.key = device[p] /\ m.sealed
          /\ m.notes = copy[p].notes
      BY <1>0, <3>9, SealedType
    <3>2. /\ at[p] \in Holding /\ meta' = m
         /\ stale' \in {Writers, Writers \ {p}} /\ overtaken' = (overtaken \/ p \in stale)
      BY <1>14, <2>2, <3>9 DEF ReauthWrites, Holding, Writes
    <3>3. RejectedStaysAway'
      BY <1>14, <3>1, <3>2, CurrentCopy DEF ReauthWrites, CredInv, RejectedStaysAway
    <3>4. (m.cred \in Credential => m.cred.token <= issued') /\ \A q \in Dials \ {p} : at[q] = "storing" => granted[q] # m.cred
      BY <1>3, <2>2, <3>1 DEF CredInv, TokenInv, Given
    <3>5. CredInv'
      BY <1>0, <1>1, <1>14, <2>2, <3>1, <3>2, <3>3, <3>4, WriteKeeps DEF ReauthWrites
    <3>6. Keeps
      BY <1>0, <3>1, <3>2, CurrentCopy DEF Keeps, Devices
    <3>. QED
      BY <3>5, <3>6
  <2>. QED
    BY <1>14, <2>1, <2>2 DEF ReauthWrites
<1>15. ASSUME NEW p \in Imports, ImportReads(p) PROVE CredInv' /\ Keeps
  BY <1>0, <1>1, <1>2, <1>15, ReadKeeps DEF ImportReads
<1>16. ASSUME NEW p \in Imports, ImportWrites(p) PROVE CredInv' /\ Keeps
  <2>1. PICK m : /\ Writes(p, m)
                 /\ \/ m = [copy[p] EXCEPT !.notes = @ \cup {p}]
                    \/ m = [copy[p] EXCEPT !.notes = @ \cup {p}, !.key = Home, !.sealed = TRUE]
    BY <1>16 DEF ImportWrites
  <2>2. /\ m \in Metadata /\ m.cred = copy[p].cred /\ m.notes = copy[p].notes \cup {p}
        /\ \/ m.key = copy[p].key /\ m.sealed = copy[p].sealed
           \/ m.key = Home /\ m.sealed
    <3>1. PICK c \in Metadata : c = copy[p]
      BY <1>0
    <3>2. CASE m = [c EXCEPT !.notes = @ \cup {p}]
      BY <3>1, <3>2 DEF Metadata
    <3>3. CASE m = [c EXCEPT !.notes = @ \cup {p}, !.key = Home, !.sealed = TRUE]
      BY <3>1, <3>3 DEF Metadata, Devices
    <3>. QED
      BY <2>1, <3>1, <3>2, <3>3
  <2>3. /\ at[p] \in Holding /\ meta' = m
        /\ stale' \in {Writers, Writers \ {p}} /\ overtaken' = (overtaken \/ p \in stale)
    BY <1>16, <2>1 DEF ImportWrites, Holding, Writes
  <2>4. RejectedStaysAway'
    BY <1>16, <2>1, <2>2, <2>3, CurrentCopy DEF ImportWrites, CredInv, RejectedStaysAway
  <2>5. (m.cred \in Credential => m.cred.token <= issued') /\ \A q \in Dials \ {p} : at[q] = "storing" => granted[q] # m.cred
    BY <1>3, <1>16, <2>2 DEF CredInv, TokenInv, ImportWrites, Given
  <2>6. CredInv'
    BY <1>0, <1>1, <1>16, <2>2, <2>3, <2>4, <2>5, WriteKeeps DEF ImportWrites
  <2>7. Keeps
    BY <2>1, <2>2, <2>3, CurrentCopy DEF Keeps
  <2>. QED
    BY <2>6, <2>7
<1>. QED
  BY <1>4, <1>5, <1>6, <1>7, <1>8, <1>9, <1>10, <1>11, <1>12, <1>13, <1>14, <1>15, <1>16
  DEF CredNext

LEMMA CredStart ==
  ASSUME CredInit
  PROVE  CredInv
<1>1. meta \in Metadata /\ meta.cred = Nobody
  BY DEF CredInit, Metadata, Devices
<1>2. CredTypeOK
  <2>1. overtaken \in BOOLEAN
    BY DEF CredInit
  <2>. QED
    BY <1>1, <2>1 DEF CredInit, CredTypeOK, Devices, Steps
<1>3. ReadInv /\ DialInv /\ RejectedStaysAway
  BY DEF CredInit, ReadInv, Holding, DialInv, RejectedStaysAway
<1>4. TokenInv
  BY <1>1 DEF CredInit, TokenInv, Given
<1>. QED
  BY <1>2, <1>3, <1>4 DEF CredInv

LEMMA CredStutter ==
  ASSUME CredInv, UNCHANGED credVars
  PROVE  CredInv' /\ Keeps
<1> USE DEF credVars
<1>1. CredTypeOK'
  BY DEF CredInv, CredTypeOK
<1>2. ReadInv' /\ RejectedStaysAway' /\ Keeps
  BY DEF CredInv, ReadInv, RejectedStaysAway, Keeps
<1>3. DialInv'
  BY DEF CredInv, DialInv
<1>4. TokenInv'
  BY DEF CredInv, TokenInv, Given
<1>. QED
  BY <1>1, <1>2, <1>3, <1>4 DEF CredInv

\* The invariant of the metadata of a runtime.
THEOREM CredInvariant == CredSpec => []CredInv
<1>1. CredInit => CredInv
  BY CredStart
<1>2. CredInv /\ [CredNext]_credVars => CredInv'
  BY CredStep, CredStutter
<1>. QED
  BY <1>1, <1>2, PTL DEF CredSpec

\* The metadata, the copies of the writers and their credentials have their types.
THEOREM CredTypeCorrect == CredSpec => []CredTypeOK
<1>1. CredInv => CredTypeOK
  BY DEF CredInv
<1>. QED
  BY <1>1, CredInvariant, PTL

\* A connection never presents a credential of another device, whatever
\* re-authentication and imports write while it dials.
THEOREM OwnCredentials == CredSpec => []CredentialOfItsDevice
<1>1. CredInv => CredentialOfItsDevice
  BY DEF CredInv, DialInv, CredentialOfItsDevice
<1>. QED
  BY <1>1, CredInvariant, PTL

\* A rejected credential stays out of the column as long as every writer has seen
\* the write before its own.
THEOREM RejectedForGood == CredSpec => []RejectedStaysAway
<1>1. CredInv => RejectedStaysAway
  BY DEF CredInv
<1>. QED
  BY <1>1, CredInvariant, PTL

\* What a connection would present next is what is stored, unless somebody else
\* has written since or the database has failed it.
THEOREM MemoryInStep == CredSpec => []InStep
<1>1. CredInv => InStep
  BY DEF CredInv, DialInv, InStep
<1>. QED
  BY <1>1, CredInvariant, PTL

\* A key, its encryption and the entries of imports survive every write whose
\* writer has seen the one before it.
THEOREM WritesKeep == CredSpec => NothingLost
<1>1. CredInv /\ [CredNext]_credVars => Keeps
  BY CredStep, CredStutter
<1>. QED
  BY <1>1, CredInvariant, PTL DEF CredSpec, NothingLost, Keeps

-----------------------------------------------------------------------------
(* Looking up and creating.  There is one workspace at the most, and who   *)
(* has found none and not inserted yet has been overtaken, or has lost an  *)
(* answer, once there is one (SpaceInv); the same holds for sessions       *)
(* (SessionInv).                                                           *)

SpaceInv ==
  /\ \A i, j \in spaces : i = j
  /\ \A c \in Ensurers :
       /\ query[c] \in {"owner", "insert"} /\ spaces # {} => c \in late \cup lost
       /\ query[c] = "reread" => spaces # {} \/ ~owner

SessionInv ==
  \A c \in Resolvers : query[c] = "insert" /\ sessions # {} => c \in late \/ again

FocInv ==
  /\ FocTypeOK /\ SpaceInv /\ SessionInv
  /\ OneWorkspace /\ OwnersHaveOne /\ FailsForAReason /\ OneSession

USE CallersAssumption, RetriesAssumption DEF Callers

LEMMA FreshType ==
  ASSUME NEW ids \in SUBSET Rows, ids # Rows
  PROVE  Fresh(ids) \in Rows /\ Fresh(ids) \notin ids
  BY DEF Fresh

LEMMA FreshOfNone == Fresh({}) \in Rows
<1>1. 1 \in Rows
  BY DEF Rows
<1>. QED
  BY <1>1, FreshType

LEMMA FocStart ==
  ASSUME FocInit
  PROVE  FocInv
<1>1. FocTypeOK
  <2>1. {wrapped, owner, again} \subseteq BOOLEAN
    BY DEF FocInit
  <2>. QED
    BY <2>1 DEF FocInit, FocTypeOK, Queries, Rows, Null
<1>2. SpaceInv /\ SessionInv
  BY DEF FocInit, SpaceInv, SessionInv
<1>3. OneWorkspace /\ OwnersHaveOne /\ FailsForAReason /\ OneSession
  BY DEF FocInit, OneWorkspace, OwnersHaveOne, FailsForAReason, OneSession, Rows, Null, Thrown
<1>. QED
  BY <1>1, <1>2, <1>3 DEF FocInv

\* One caller c goes on to "to" with g as its result; the others stay.
LEMMA OneGoes ==
  ASSUME FocTypeOK, NEW c \in Callers, NEW to, NEW g,
         \/ Returns(c, g) /\ to = "done"
         \/ GoesTo(c, to) /\ UNCHANGED got /\ g = got[c]
  PROVE  /\ \A d \in Callers : /\ query'[d] = IF d = c THEN to ELSE query[d]
                               /\ got'[d] = IF d = c THEN g ELSE got[d]
         /\ to \in Queries \cup {"done"} => query' \in [Callers -> Queries \cup {"idle", "done"}]
         /\ g \in Rows \cup {Null, Thrown} => got' \in [Callers -> Rows \cup {Null, Thrown}]
         /\ attempts' \in [Callers -> 0..Retries]
  BY DEF Returns, GoesTo, FocTypeOK

LEMMA CallersStep ==
  ASSUME FocInv, NEW c \in Callers,
         CallerBegins(c) \/ QueryLost(c) \/ QueryFails(c)
  PROVE  FocInv'
<1> USE DEF FocInv
<1>1. PICK to, g :
        /\ \A d \in Callers : /\ query'[d] = IF d = c THEN to ELSE query[d]
                              /\ got'[d] = IF d = c THEN g ELSE got[d]
        /\ query' \in [Callers -> Queries \cup {"idle", "done"}]
        /\ got' \in [Callers -> Rows \cup {Null, Thrown}]
        /\ attempts' \in [Callers -> 0..Retries]
        /\ lost' \in {lost, lost \cup {c}}
        /\ \/ to = "look" /\ g = got[c]
           \/ to = query[c] /\ to \in Queries /\ g = got[c] /\ c \in lost'
           \/ to = "done" /\ g = Thrown /\ c \in lost'
        /\ UNCHANGED <<wrapped, owner, spaces, sessions, newest, late, again>>
  <2>1. CASE CallerBegins(c)
    BY <2>1 DEF CallerBegins, GoesTo, FocTypeOK, Queries
  <2>2. CASE QueryFails(c)
    BY <2>2 DEF QueryFails, Returns, GoesTo, FocTypeOK
  <2>3. CASE QueryLost(c)
    <3>1. CASE Returns(c, Thrown)
      BY <2>3, <3>1 DEF QueryLost, Lost, Returns, GoesTo, FocTypeOK
    <3>2. CASE attempts[c] < Retries /\ attempts' = [attempts EXCEPT ![c] = @ + 1] /\ UNCHANGED <<query, got>>
      <4>1. attempts' \in [Callers -> 0..Retries]
        BY <3>2 DEF FocTypeOK
      <4>. QED
        BY <2>3, <3>2, <4>1 DEF QueryLost, Lost, FocTypeOK
    <3>. QED
      BY <2>3, <3>1, <3>2 DEF QueryLost, Lost
  <2>. QED
    BY <2>1, <2>2, <2>3
<1>2. FocTypeOK'
  BY <1>1 DEF FocTypeOK
<1>3. SpaceInv' /\ SessionInv'
  BY <1>1 DEF SpaceInv, SessionInv
<1>4. OneWorkspace' /\ OwnersHaveOne' /\ FailsForAReason' /\ OneSession'
  BY <1>1 DEF OneWorkspace, OwnersHaveOne, FailsForAReason, OneSession, Thrown, Null, Rows, Queries
<1>. QED
  BY <1>2, <1>3, <1>4

LEMMA SpaceStep ==
  ASSUME FocInv, NEW c \in Ensurers,
         SpaceLooks(c) \/ OwnerRead(c) \/ SpaceInserts(c) \/ SpaceRereads(c) \/ SpaceAnswerLost(c)
  PROVE  FocInv'
<1> USE DEF FocInv
<1>0. PICK new : new = Fresh({})
  OBVIOUS
<1>1. new \in Rows /\ (spaces = {} => Fresh(spaces) = new)
  BY <1>0, FreshOfNone
<1>2. PICK to, g :
        /\ \A d \in Callers : /\ query'[d] = IF d = c THEN to ELSE query[d]
                              /\ got'[d] = IF d = c THEN g ELSE got[d]
        /\ query' \in [Callers -> Queries \cup {"idle", "done"}]
        /\ got' \in [Callers -> Rows \cup {Null, Thrown}]
        /\ attempts' \in [Callers -> 0..Retries]
        /\ UNCHANGED <<wrapped, owner, sessions, newest>>
        /\ \/ /\ UNCHANGED <<spaces, late, lost, again>>
              /\ \/ query[c] = "look" /\ spaces = {} /\ to = "owner" /\ g = got[c]
                 \/ query[c] \in {"look", "reread"} /\ to = "done" /\ g \in spaces
                 \/ query[c] = "owner" /\ owner /\ to = "insert" /\ g = got[c]
                 \/ ~owner /\ to = "done" /\ g \in {Null, Thrown}
                 \/ query[c] = "insert" /\ wrapped /\ spaces # {} /\ to = "done" /\ g = Thrown
                 \/ spaces # {} /\ to = "reread" /\ g = got[c]
           \/ /\ query[c] = "insert" /\ owner /\ spaces = {} /\ spaces' = {new}
              /\ late' = late \cup (Between(Ensurers) \ {c})
              /\ \/ UNCHANGED <<lost, again>> /\ to = "done" /\ g = new
                 \/ /\ lost' = lost \cup {c} /\ again' \in BOOLEAN /\ (again => again')
                    /\ \/ to = "done" /\ g = Thrown
                       \/ to = query[c] /\ g = got[c]
  <2>1. CASE SpaceLooks(c)
    BY <2>1 DEF SpaceLooks, Returns, GoesTo, FocTypeOK, Queries
  <2>2. CASE OwnerRead(c)
    BY <2>2 DEF OwnerRead, Returns, GoesTo, FocTypeOK, Queries
  <2>3. CASE SpaceInserts(c)
    <3>1. CASE (~owner \/ (spaces # {} /\ wrapped)) /\ Returns(c, Thrown) /\ UNCHANGED <<spaces, late>>
      BY <2>3, <3>1 DEF SpaceInserts, Returns, GoesTo, FocTypeOK
    <3>2. CASE owner /\ spaces # {} /\ GoesTo(c, "reread") /\ UNCHANGED <<got, spaces, late>>
      BY <2>3, <3>2 DEF SpaceInserts, GoesTo, FocTypeOK, Queries
    <3>3. CASE /\ owner /\ spaces = {} /\ Returns(c, Fresh(spaces)) /\ spaces' = {Fresh(spaces)}
               /\ late' = late \cup (Between(Ensurers) \ {c})
      <4>1. spaces' = {new} /\ Returns(c, new)
        BY <1>1, <3>3
      <4>. QED
        BY <1>1, <2>3, <3>3, <4>1 DEF SpaceInserts, Returns, GoesTo, FocTypeOK
    <3>. QED
      BY <2>3, <3>1, <3>2, <3>3 DEF SpaceInserts
  <2>4. CASE SpaceRereads(c)
    BY <2>4 DEF SpaceRereads, Returns, GoesTo, FocTypeOK, SpaceInv
  <2>5. CASE SpaceAnswerLost(c)
    <3>0. spaces' = {new} /\ again' \in BOOLEAN /\ (again => again')
      BY <1>1, <2>5 DEF SpaceAnswerLost, FocTypeOK
    <3>1. CASE Returns(c, Thrown)
      BY <2>5, <3>0, <3>1 DEF SpaceAnswerLost, Lost, Returns, GoesTo, FocTypeOK
    <3>2. CASE attempts[c] < Retries /\ attempts' = [attempts EXCEPT ![c] = @ + 1] /\ UNCHANGED <<query, got>>
      <4>1. attempts' \in [Callers -> 0..Retries]
        BY <3>2 DEF FocTypeOK
      <4>. QED
        BY <2>5, <3>0, <3>2, <4>1 DEF SpaceAnswerLost, Lost, FocTypeOK
    <3>. QED
      BY <2>5, <3>1, <3>2 DEF SpaceAnswerLost, Lost
  <2>. QED
    BY <2>1, <2>2, <2>3, <2>4, <2>5
<1>3. Between(Ensurers) \subseteq Ensurers
  BY DEF Between
<1>4. FocTypeOK'
  <2>1. {wrapped, owner, again}' \subseteq BOOLEAN
    BY <1>2 DEF FocTypeOK
  <2>2. spaces' \subseteq Rows /\ lost' \subseteq Callers /\ late' \subseteq Callers
    BY <1>1, <1>2, <1>3 DEF FocTypeOK
  <2>. QED
    BY <1>2, <2>1, <2>2 DEF FocTypeOK
<1>5. SpaceInv'
  BY <1>1, <1>2 DEF SpaceInv, Between
<1>6. SessionInv' /\ OneSession'
  BY <1>2, <1>3 DEF SessionInv, OneSession
<1>7. OneWorkspace' /\ OwnersHaveOne'
  <2>1. \A id \in Rows : id # Null /\ id # Thrown
    BY DEF Rows, Null, Thrown
  <2>2. Null # Thrown /\ spaces \subseteq Rows
    BY DEF Null, Thrown, FocTypeOK
  <2>3. OneWorkspace'
    BY <1>1, <1>2, <2>1, <2>2 DEF SpaceInv, OneWorkspace
  <2>4. to = "done" /\ g = Null => ~owner' \/ (query[c] = "done" /\ got[c] = Null)
    BY <1>1, <1>2, <2>1, <2>2
  <2>5. OwnersHaveOne'
    BY <1>2, <2>4 DEF OwnersHaveOne
  <2>. QED
    BY <2>3, <2>5
<1>8. FailsForAReason'
  BY <1>1, <1>2 DEF SpaceInv, FailsForAReason, FocTypeOK, Rows, Null, Thrown
<1>. QED
  BY <1>4, <1>5, <1>6, <1>7, <1>8

LEMMA SessionStep ==
  ASSUME FocInv, NEW c \in Resolvers,
         SessionLooks(c) \/ SessionInserts(c) \/ Touches(c) \/ SessionAnswerLost(c)
  PROVE  FocInv'
<1> USE DEF FocInv
<1>0. PICK new : new = Fresh(sessions)
  OBVIOUS
<1>1. sessions # Rows => new \in Rows /\ new \notin sessions
  BY <1>0, FreshType DEF FocTypeOK
<1>2. PICK to, g :
        /\ \A d \in Callers : /\ query'[d] = IF d = c THEN to ELSE query[d]
                              /\ got'[d] = IF d = c THEN g ELSE got[d]
        /\ query' \in [Callers -> Queries \cup {"idle", "done"}]
        /\ got' \in [Callers -> Rows \cup {Null, Thrown}]
        /\ attempts' \in [Callers -> 0..Retries]
        /\ UNCHANGED <<wrapped, owner, spaces>>
        /\ \/ /\ UNCHANGED <<sessions, late, lost, again>>
              /\ \/ sessions = {} /\ to = "insert" /\ g = got[c] /\ newest' = newest
                 \/ to = "done" /\ g \in sessions \cup {Null} /\ newest' \in {newest, g}
                 \/ to = query[c] /\ g = got[c] /\ newest' = g /\ g \in sessions
           \/ /\ query[c] = "insert" /\ sessions # Rows /\ sessions' = sessions \cup {new}
              /\ newest' = new /\ late' = late \cup (Between(Resolvers) \ {c})
              /\ \/ UNCHANGED <<lost, again>> /\ to = "done" /\ g = new
                 \/ /\ lost' = lost \cup {c} /\ again' \in BOOLEAN /\ (again => again')
                    /\ \/ to = "done" /\ g = Thrown
                       \/ to = query[c] /\ g = got[c] /\ again'
  <2>1. CASE SessionLooks(c)
    BY <2>1 DEF SessionLooks, Returns, GoesTo, FocTypeOK, Queries
  <2>2. CASE Touches(c)
    BY <2>2 DEF Touches, FocTypeOK
  <2>3. CASE SessionInserts(c)
    <3>1. Returns(c, new) /\ sessions' = sessions \cup {new} /\ newest' = new
      BY <1>0, <2>3 DEF SessionInserts
    <3>. QED
      BY <1>1, <2>3, <3>1 DEF SessionInserts, Returns, GoesTo, FocTypeOK
  <2>4. CASE SessionAnswerLost(c)
    <3>0. /\ sessions' = sessions \cup {new} /\ newest' = new
          /\ again' \in BOOLEAN /\ (again => again')
      BY <1>0, <2>4 DEF SessionAnswerLost, FocTypeOK
    <3>1. CASE Returns(c, Thrown)
      BY <2>4, <3>0, <3>1 DEF SessionAnswerLost, Lost, Returns, GoesTo, FocTypeOK
    <3>2. CASE attempts[c] < Retries /\ attempts' = [attempts EXCEPT ![c] = @ + 1] /\ UNCHANGED <<query, got>>
      <4>1. attempts' \in [Callers -> 0..Retries]
        BY <3>2 DEF FocTypeOK
      <4>2. again'
        BY <2>4, <3>2 DEF SessionAnswerLost
      <4>. QED
        BY <2>4, <3>0, <3>2, <4>1, <4>2 DEF SessionAnswerLost, Lost, FocTypeOK
    <3>. QED
      BY <2>4, <3>1, <3>2 DEF SessionAnswerLost, Lost
  <2>. QED
    BY <2>1, <2>2, <2>3, <2>4
<1>3. Between(Resolvers) \subseteq Resolvers
  BY DEF Between
<1>4. FocTypeOK'
  <2>1. {wrapped, owner, again}' \subseteq BOOLEAN
    BY <1>2 DEF FocTypeOK
  <2>2. /\ sessions' \subseteq Rows /\ lost' \subseteq Callers /\ late' \subseteq Callers
        /\ newest' \in sessions' \cup {Null}
    BY <1>1, <1>2, <1>3 DEF FocTypeOK
  <2>. QED
    BY <1>2, <2>1, <2>2 DEF FocTypeOK
<1>5. SpaceInv'
  BY <1>2, <1>3 DEF SpaceInv
<1>6. SessionInv'
  BY <1>1, <1>2 DEF SessionInv, Between
<1>7. OneSession'
  BY <1>1, <1>2, <1>3 DEF SessionInv, OneSession
<1>8. OneWorkspace' /\ OwnersHaveOne'
  BY <1>2 DEF OneWorkspace, OwnersHaveOne
<1>9. FailsForAReason'
  <2>1. g = Thrown => c \in lost' \/ g = got[c]
    BY <1>1, <1>2 DEF FocTypeOK, Rows, Null, Thrown
  <2>2. lost \subseteq lost' /\ late \subseteq late'
    BY <1>2
  <2>. QED
    BY <1>2, <2>1, <2>2 DEF FailsForAReason
<1>. QED
  BY <1>4, <1>5, <1>6, <1>7, <1>8, <1>9

LEMMA OtherFocStep ==
  ASSUME FocInv, OwnerGoes \/ UNCHANGED focVars
  PROVE  FocInv'
<1> USE DEF FocInv, OwnerGoes, focVars
<1>1. FocTypeOK'
  <2>1. {wrapped, owner, again}' \subseteq BOOLEAN
    BY DEF FocTypeOK
  <2>. QED
    BY <2>1 DEF FocTypeOK
<1>2. SpaceInv' /\ SessionInv'
  BY DEF SpaceInv, SessionInv
<1>3. OneWorkspace' /\ OwnersHaveOne' /\ FailsForAReason' /\ OneSession'
  BY DEF OneWorkspace, OwnersHaveOne, FailsForAReason, OneSession
<1>. QED
  BY <1>1, <1>2, <1>3

\* The invariant of the callers that look a row up and create it.
THEOREM FocInvariant == FocSpec => []FocInv
<1>1. FocInit => FocInv
  BY FocStart
<1>2. FocInv /\ [FocNext]_focVars => FocInv'
  BY CallersStep, SpaceStep, SessionStep, OtherFocStep DEF FocNext
<1>. QED
  BY <1>1, <1>2, PTL DEF FocSpec

\* The tables, the callers and their results have their types.
THEOREM FocTypeCorrect == FocSpec => []FocTypeOK
<1>1. FocInv => FocTypeOK
  BY DEF FocInv
<1>. QED
  BY <1>1, FocInvariant, PTL

\* Calls that look at once, lose answers and repeat inserts are all given the one
\* workspace of the owner.
THEOREM SameWorkspace == FocSpec => []OneWorkspace
<1>1. FocInv => OneWorkspace
  BY DEF FocInv
<1>. QED
  BY <1>1, FocInvariant, PTL

\* The second look of a call that lost the race finds the row, as long as there is
\* an owner.
THEOREM WorkspaceFound == FocSpec => []OwnersHaveOne
<1>1. FocInv => OwnersHaveOne
  BY DEF FocInv
<1>. QED
  BY <1>1, FocInvariant, PTL

\* No call fails for any other reason than those the property names.
THEOREM FailureHasReason == FocSpec => []FailsForAReason
<1>1. FocInv => FailsForAReason
  BY DEF FocInv
<1>. QED
  BY <1>1, FocInvariant, PTL

\* A conversation has one session, but for a race of two first messages or a
\* repeated insert.
THEOREM SameSession == FocSpec => []OneSession
<1>1. FocInv => OneSession
  BY DEF FocInv
<1>. QED
  BY <1>1, FocInvariant, PTL

-----------------------------------------------------------------------------
(* The allowlists.  A snapshot with the hash of the configuration shows    *)
(* what the allowlist of the agent says of the other skill.                *)

SeenInv ==
  \A q \in fresh : step[q] \in {"patch", "unpatch"} => ("other" \in seen[q] <=> agent[q] \in others)

SkillInv == SkillTypeOK /\ SeenInv /\ OthersKept

SkillNames == {skill, entry, calm, plain} \subseteq BOOLEAN

LEMMA SkillStart ==
  ASSUME SkillInit
  PROVE  SkillInv
<1>1. SkillNames
  BY DEF SkillInit, SkillNames
<1>2. SkillTypeOK
  BY <1>1 DEF SkillInit, SkillTypeOK, SkillNames, Ops, CallSteps
<1>. QED
  BY <1>2 DEF SkillInit, SkillInv, SeenInv, OthersKept

LEMMA SkillStep ==
  ASSUME SkillInv, SkillNext
  PROVE  SkillInv'
<1> USE DEF SkillInv, rowVars, gatewayVars
<1>1. ASSUME NEW q \in Calls, NEW o \in Ops, NEW a \in Agents, CallBegins(q, o, a) PROVE SkillInv'
  <2>1. SkillNames'
    BY <1>1 DEF SkillNames, SkillTypeOK, CallBegins, StepTo, FirstStep, Ops
  <2>2. SkillTypeOK'
    BY <1>1, <2>1 DEF SkillNames, SkillTypeOK, CallSteps, CallBegins, StepTo, FirstStep, Ops
  <2>3. SeenInv' /\ OthersKept'
    BY <1>1 DEF SeenInv, OthersKept, SkillTypeOK, CallBegins, StepTo, FirstStep, Ops
  <2>. QED
    BY <2>2, <2>3
<1>2. ASSUME NEW q \in Calls, LooksUp(q) PROVE SkillInv'
  <2>1. SkillNames'
    BY <1>2 DEF SkillNames, SkillTypeOK, LooksUp, StepTo
  <2>2. SkillTypeOK'
    BY <1>2, <2>1 DEF SkillNames, SkillTypeOK, CallSteps, LooksUp, StepTo
  <2>3. SeenInv' /\ OthersKept'
    BY <1>2 DEF SeenInv, OthersKept, SkillTypeOK, LooksUp, StepTo
  <2>. QED
    BY <2>2, <2>3
<1>3. ASSUME NEW q \in Calls, Attaches(q) PROVE SkillInv'
  <2>1. SkillNames'
    BY <1>3 DEF SkillNames, SkillTypeOK, Attaches, StepTo
  <2>2. SkillTypeOK'
    BY <1>3, <2>1 DEF SkillNames, SkillTypeOK, CallSteps, Attaches, StepTo
  <2>3. SeenInv' /\ OthersKept'
    BY <1>3 DEF SeenInv, OthersKept, SkillTypeOK, Attaches, StepTo
  <2>. QED
    BY <2>2, <2>3
<1>4. ASSUME NEW q \in Calls, Sets(q) PROVE SkillInv'
  <2>1. SkillNames'
    BY <1>4 DEF SkillNames, SkillTypeOK, Sets, StepTo, Ends, KnowsTheSame, Ops
  <2>2. SkillTypeOK'
    BY <1>4, <2>1 DEF SkillNames, SkillTypeOK, CallSteps, Sets, StepTo, Ends, KnowsTheSame, Ops
  <2>3. SeenInv' /\ OthersKept'
    BY <1>4 DEF SeenInv, OthersKept, SkillTypeOK, Sets, StepTo, Ends, KnowsTheSame, Ops
  <2>. QED
    BY <2>2, <2>3
<1>5. ASSUME NEW q \in Calls, Removes(q) PROVE SkillInv'
  <2>1. SkillNames'
    BY <1>5 DEF SkillNames, SkillTypeOK, Removes, StepTo, Ends, Ops
  <2>2. SkillTypeOK'
    BY <1>5, <2>1 DEF SkillNames, SkillTypeOK, CallSteps, Removes, StepTo, Ends, Ops
  <2>3. SeenInv' /\ OthersKept'
    BY <1>5 DEF SeenInv, OthersKept, SkillTypeOK, Removes, StepTo, Ends, Ops
  <2>. QED
    BY <2>2, <2>3
<1>6. ASSUME NEW q \in Calls, Lists(q) PROVE SkillInv'
  <2>1. SkillNames'
    BY <1>6 DEF SkillNames, SkillTypeOK, Lists, StepTo, Assigned
  <2>2. SkillTypeOK'
    BY <1>6, <2>1 DEF SkillNames, SkillTypeOK, CallSteps, Lists, StepTo, Assigned
  <2>3. SeenInv' /\ OthersKept'
    BY <1>6 DEF SeenInv, OthersKept, SkillTypeOK, Lists, StepTo, Assigned
  <2>. QED
    BY <2>2, <2>3
<1>7. ASSUME NEW q \in Calls, Drops(q) PROVE SkillInv'
  <2>1. SkillNames'
    BY <1>7 DEF SkillNames, SkillTypeOK, Drops, StepTo, Ends, Ops
  <2>2. SkillTypeOK'
    BY <1>7, <2>1 DEF SkillNames, SkillTypeOK, CallSteps, Drops, StepTo, Ends, Ops
  <2>3. SeenInv' /\ OthersKept'
    BY <1>7 DEF SeenInv, OthersKept, SkillTypeOK, Drops, StepTo, Ends, Ops
  <2>. QED
    BY <2>2, <2>3
<1>8. ASSUME NEW q \in Calls, NEW a \in Agents, NextAgent(q, a) PROVE SkillInv'
  <2>1. SkillNames'
    BY <1>8 DEF SkillNames, SkillTypeOK, NextAgent, StepTo
  <2>2. SkillTypeOK'
    BY <1>8, <2>1 DEF SkillNames, SkillTypeOK, CallSteps, NextAgent, StepTo
  <2>3. SeenInv' /\ OthersKept'
    BY <1>8 DEF SeenInv, OthersKept, SkillTypeOK, NextAgent, StepTo
  <2>. QED
    BY <2>2, <2>3
<1>9. ASSUME NEW q \in Calls, Loads(q) PROVE SkillInv'
  <2>1. SkillNames'
    BY <1>9 DEF SkillNames, SkillTypeOK, Loads, StepTo
  <2>2. SkillTypeOK'
    BY <1>9, <2>1 DEF SkillNames, SkillTypeOK, CallSteps, Loads, StepTo
  <2>3. SeenInv' /\ OthersKept'
    BY <1>9 DEF SeenInv, OthersKept, SkillTypeOK, Loads, StepTo
  <2>. QED
    BY <2>2, <2>3
<1>10. ASSUME NEW q \in Calls, Gets(q, "get", "patch") PROVE SkillInv'
  <2>1. SkillNames'
    BY <1>10 DEF SkillNames, SkillTypeOK, Gets, StepTo, ListOf
  <2>2. SkillTypeOK'
    BY <1>10, <2>1 DEF SkillNames, SkillTypeOK, CallSteps, Gets, StepTo, ListOf
  <2>3. SeenInv' /\ OthersKept'
    BY <1>10 DEF SeenInv, OthersKept, SkillTypeOK, Gets, StepTo, ListOf
  <2>. QED
    BY <2>2, <2>3
<1>11. ASSUME NEW q \in Calls, Patches(q) PROVE SkillInv'
  <2>1. SkillNames'
    BY <1>11 DEF SkillNames, SkillTypeOK, Patches, StepTo, ListBecomes
  <2>2. SkillTypeOK'
    BY <1>11, <2>1 DEF SkillNames, SkillTypeOK, CallSteps, Patches, StepTo, ListBecomes
  <2>3. SeenInv' /\ OthersKept'
    BY <1>11 DEF SeenInv, OthersKept, SkillTypeOK, Patches, StepTo, ListBecomes
  <2>. QED
    BY <2>2, <2>3
<1>12. ASSUME NEW q \in Calls, UpdatesEntry(q) PROVE SkillInv'
  <2>1. SkillNames'
    BY <1>12 DEF SkillNames, SkillTypeOK, UpdatesEntry, StepTo
  <2>2. SkillTypeOK'
    BY <1>12, <2>1 DEF SkillNames, SkillTypeOK, CallSteps, UpdatesEntry, StepTo
  <2>3. SeenInv' /\ OthersKept'
    BY <1>12 DEF SeenInv, OthersKept, SkillTypeOK, UpdatesEntry, StepTo
  <2>. QED
    BY <2>2, <2>3
<1>13. ASSUME NEW q \in Calls, ReadsSecrets(q) PROVE SkillInv'
  <2>1. SkillNames'
    BY <1>13 DEF SkillNames, SkillTypeOK, ReadsSecrets, StepTo, Ends, Ops
  <2>2. SkillTypeOK'
    BY <1>13, <2>1 DEF SkillNames, SkillTypeOK, CallSteps, ReadsSecrets, StepTo, Ends, Ops
  <2>3. SeenInv' /\ OthersKept'
    BY <1>13 DEF SeenInv, OthersKept, SkillTypeOK, ReadsSecrets, StepTo, Ends, Ops
  <2>. QED
    BY <2>2, <2>3
<1>14. ASSUME NEW q \in Calls, Pushes(q) PROVE SkillInv'
  <2>1. SkillNames'
    BY <1>14 DEF SkillNames, SkillTypeOK, Pushes, StepTo, Ends, Ops
  <2>2. SkillTypeOK'
    BY <1>14, <2>1 DEF SkillNames, SkillTypeOK, CallSteps, Pushes, StepTo, Ends, Ops
  <2>3. SeenInv' /\ OthersKept'
    BY <1>14 DEF SeenInv, OthersKept, SkillTypeOK, Pushes, StepTo, Ends, Ops
  <2>. QED
    BY <2>2, <2>3
<1>15. ASSUME NEW q \in Calls, GetsToRemove(q) PROVE SkillInv'
  <2>1. SkillNames'
    BY <1>15 DEF SkillNames, SkillTypeOK, GetsToRemove, Gets, StepTo, ListOf
  <2>2. SkillTypeOK'
    BY <1>15, <2>1 DEF SkillNames, SkillTypeOK, CallSteps, GetsToRemove, Gets, StepTo, ListOf
  <2>3. SeenInv' /\ OthersKept'
    BY <1>15 DEF SeenInv, OthersKept, SkillTypeOK, GetsToRemove, Gets, StepTo, ListOf
  <2>. QED
    BY <2>2, <2>3
<1>16. ASSUME NEW q \in Calls, PatchesOut(q) PROVE SkillInv'
  <2>1. SkillNames'
    BY <1>16 DEF SkillNames, SkillTypeOK, PatchesOut, StepTo, ListBecomes
  <2>2. SkillTypeOK'
    BY <1>16, <2>1 DEF SkillNames, SkillTypeOK, CallSteps, PatchesOut, StepTo, ListBecomes
  <2>3. SeenInv' /\ OthersKept'
    BY <1>16 DEF SeenInv, OthersKept, SkillTypeOK, PatchesOut, StepTo, ListBecomes
  <2>. QED
    BY <2>2, <2>3
<1>17. ASSUME NEW q \in Calls, Counts(q) PROVE SkillInv'
  <2>1. SkillNames'
    BY <1>17 DEF SkillNames, SkillTypeOK, Counts, StepTo, AfterUninstall
  <2>2. SkillTypeOK'
    BY <1>17, <2>1 DEF SkillNames, SkillTypeOK, CallSteps, Counts, StepTo, AfterUninstall
  <2>3. SeenInv' /\ OthersKept'
    BY <1>17 DEF SeenInv, OthersKept, SkillTypeOK, Counts, StepTo, AfterUninstall
  <2>. QED
    BY <2>2, <2>3
<1>18. ASSUME NEW q \in Calls, SwitchesOff(q) PROVE SkillInv'
  <2>1. SkillNames'
    BY <1>18 DEF SkillNames, SkillTypeOK, SwitchesOff, StepTo, AfterUninstall
  <2>2. SkillTypeOK'
    BY <1>18, <2>1 DEF SkillNames, SkillTypeOK, CallSteps, SwitchesOff, StepTo, AfterUninstall
  <2>3. SeenInv' /\ OthersKept'
    BY <1>18 DEF SeenInv, OthersKept, SkillTypeOK, SwitchesOff, StepTo, AfterUninstall
  <2>. QED
    BY <2>2, <2>3
<1>19. ASSUME NEW q \in Calls, GatewayFails(q) PROVE SkillInv'
  <2>1. SkillNames'
    BY <1>19 DEF SkillNames, SkillTypeOK, GatewayFails, StepTo, AfterFailure, AfterUninstall
  <2>2. SkillTypeOK'
    BY <1>19, <2>1 DEF SkillNames, SkillTypeOK, CallSteps, GatewayFails, StepTo, AfterFailure, AfterUninstall
  <2>3. SeenInv' /\ OthersKept'
    BY <1>19 DEF SeenInv, OthersKept, SkillTypeOK, GatewayFails, StepTo, AfterFailure, AfterUninstall
  <2>. QED
    BY <2>2, <2>3
<1>20. ASSUME NEW q \in Calls, RequestFails(q) PROVE SkillInv'
  <2>1. SkillNames'
    BY <1>20 DEF SkillNames, SkillTypeOK, RequestFails, StepTo, Ends, Ops
  <2>2. SkillTypeOK'
    BY <1>20, <2>1 DEF SkillNames, SkillTypeOK, CallSteps, RequestFails, StepTo, Ends, Ops
  <2>3. SeenInv' /\ OthersKept'
    BY <1>20 DEF SeenInv, OthersKept, SkillTypeOK, RequestFails, StepTo, Ends, Ops
  <2>. QED
    BY <2>2, <2>3
<1>21. ASSUME NEW a \in Agents, Elsewhere(a) PROVE SkillInv'
  BY <1>21 DEF SkillTypeOK, SeenInv, OthersKept, Elsewhere
<1>. QED
  BY <1>1, <1>2, <1>3, <1>4, <1>5, <1>6, <1>7, <1>8, <1>9, <1>10, <1>11, <1>12, <1>13, <1>14, <1>15, <1>16, <1>17, <1>18, <1>19, <1>20, <1>21 DEF SkillNext

LEMMA SkillStutter ==
  ASSUME SkillInv, UNCHANGED skillVars
  PROVE  SkillInv'
<1> USE DEF skillVars, rowVars, gatewayVars
<1>1. SkillTypeOK'
  BY DEF SkillInv, SkillTypeOK
<1>. QED
  BY <1>1 DEF SkillInv, SeenInv, OthersKept

\* The invariant of the allowlists.
THEOREM SkillInvariant == SkillSpec => []SkillInv
<1>1. SkillInit => SkillInv
  BY SkillStart
<1>2. SkillInv /\ [SkillNext]_skillVars => SkillInv'
  BY SkillStep, SkillStutter
<1>. QED
  BY <1>1, <1>2, PTL DEF SkillSpec

\* The rows, the configuration of the gateway and the requests have their types.
THEOREM SkillTypeCorrect == SkillSpec => []SkillTypeOK
<1>1. SkillInv => SkillTypeOK
  BY DEF SkillInv
<1>. QED
  BY <1>1, SkillInvariant, PTL

\* However many requests patch allowlists from old snapshots, none undoes what
\* somebody else has written, because the gateway compares the base hash.
THEOREM OthersUntouched == SkillSpec => []OthersKept
<1>1. SkillInv => OthersKept
  BY DEF SkillInv
<1>. QED
  BY <1>1, SkillInvariant, PTL

-----------------------------------------------------------------------------
(***************************************************************************)
(* What the gateway has while one request works alone.  Its steps change   *)
(* the assignment, the allowlist and the entry one after the other, so     *)
(* each step has its own relation of the three.                            *)
(***************************************************************************)

\* What a request does fixes the steps it can be at.
StepsOf ==
  \A q \in Calls :
    /\ step[q] \in {"idle", "done", "look"} => op[q] = "toggle"
    /\ step[q] = "insert" => op[q] \in {"toggle", "attach"}
    /\ step[q] = "set" => op[q] \in {"enable", "disable"}
    /\ step[q] \in {"list", "next"} => op[q] = "delete"
    /\ step[q] = "remove" => op[q] \in {"toggle", "detach"}
    /\ step[q] \in {"unget", "unpatch", "count", "off"} => op[q] \in {"toggle", "detach", "delete"}

\* A deletion works on the agents it has yet to uninstall, one at a time.
TodoLeft ==
  \A q \in Calls :
    op[q] = "delete" /\ step[q] \in {"unget", "unpatch", "count", "off"} => agent[q] \notin todo[q]

\* A request that has not inserted has no row.
RowsInserted ==
  \A q \in Calls : step[q] \in {"idle", "look", "insert"} \/ op[q] = "delete" => row[q] = "none"

\* A plain assignment is enabled, and the only one of its agent.
RowsPlain ==
  plain => \A p, q \in Calls :
             row[q] # "none" => row[q] = "enabled" /\ (row[p] # "none" /\ agent[p] = agent[q] => p = q)

\* While all is calm one request is under way, and the skill is there for it.
OneUnderWay ==
  calm => \A p, q \in Calls : UnderWay(q) => skill /\ (UnderWay(p) => p = q)

CallShape == StepsOf /\ TodoLeft /\ RowsInserted /\ RowsPlain /\ OneUnderWay

\* The allowlists, at the steps of a request.
AllowedAt(q) ==
  /\ step[q] \in {"look", "insert", "set", "update", "secrets", "push", "list"} => allowed = Assigned
  /\ step[q] \in {"load", "get", "patch"} => allowed \cup {agent[q]} = Assigned
  /\ step[q] \in {"unget", "unpatch"} =>
       allowed = IF op[q] = "delete" THEN todo[q] \cup {agent[q]} ELSE Assigned
  /\ step[q] \in {"count", "off", "remove"} =>
       allowed = IF op[q] = "delete" THEN todo[q] ELSE Assigned \ {agent[q]}
  /\ step[q] = "next" => allowed = todo[q]

\* The entry, when it has to be on, ...
OnAt(q) ==
  /\ step[q] \in {"get", "patch", "update", "push"} => flag[q]
  /\ step[q] \in {"update", "secrets", "push"} => entry
  /\ step[q] \in {"look", "insert", "set"} => (Assigned # {} => entry)
  /\ step[q] \in {"unget", "unpatch", "count", "off", "remove"} /\ op[q] # "delete"
       => (Assigned \ {agent[q]} # {} => entry)

\* ... and when it has to be off.
OffAt(q) ==
  /\ step[q] \in {"load", "get", "patch", "update", "secrets", "push"} => agent[q] \in Assigned
  /\ step[q] \in {"look", "insert", "set", "unget", "unpatch", "count"} /\ op[q] # "delete"
       => (Assigned = {} => ~entry)
  /\ step[q] = "off" => Assigned \subseteq {agent[q]}
  /\ step[q] = "remove" => (Assigned \subseteq {agent[q]} => ~entry)

At(q) == UnderWay(q) => (plain => AllowedAt(q) /\ OnAt(q)) /\ OffAt(q)

FollowInv == calm => \A q \in Calls : At(q)

\* When nothing is under way.
Settled == AllowedIsAssigned /\ OnWhenAssigned /\ OffWhenNobody

CalmRest == CallShape /\ FollowInv /\ Settled

CalmInv == SkillTypeOK /\ CalmRest

\* Assignments that stay, of agents that stay.
LEMMA RowsStay ==
  ASSUME row' = row, agent' = agent
  PROVE  (\A a : RowsOf(a)' = RowsOf(a)) /\ Assigned' = Assigned
BY DEF RowsOf, Assigned

\* The agent of a request without a row does not matter.
LEMMA RowsMove ==
  ASSUME SkillTypeOK, NEW q \in Calls, NEW a \in Agents, row[q] = "none",
         row' = row, agent' = [agent EXCEPT ![q] = a]
  PROVE  (\A b : RowsOf(b)' = RowsOf(b)) /\ Assigned' = Assigned
<1>1. \A b : RowsOf(b)' = RowsOf(b)
  BY DEF RowsOf, SkillTypeOK
<1>. QED
  BY <1>1 DEF Assigned

\* A request that works alone keeps the rest at rest: it is enough to look at it.
LEMMA AloneEnough ==
  ASSUME CalmInv, calm' \in BOOLEAN, NEW q \in Calls, NEW to, calm' => calm, UnderWay(q),
         step' = [step EXCEPT ![q] = to],
         calm' => At(q)',
         calm' /\ ~UnderWay(q)' /\ AtRest' => Settled'
  PROVE  FollowInv' /\ Settled'
<1>. USE DEF CalmInv, CalmRest, CallShape
<1>1. calm' => \A p \in Calls : p # q => ~UnderWay(p)'
  BY DEF OneUnderWay, UnderWay, SkillTypeOK
<1>2. FollowInv'
  BY <1>1 DEF FollowInv, At
<1>3. CASE calm' /\ AtRest'
  BY <1>2, <1>3 DEF AtRest
<1>4. CASE ~(calm' /\ AtRest')
  BY <1>2, <1>4 DEF Settled, AllowedIsAssigned, OnWhenAssigned, OffWhenNobody
<1>. QED
  BY <1>2, <1>3, <1>4

\* Neither the other skills nor the hashes matter.
LEMMA CalmKept ==
  ASSUME CalmInv,
         UNCHANGED <<skill, row, entry, allowed, op, agent, step, todo, flag, seen, calm, plain>>
  PROVE  CalmRest'
<1>. USE DEF CalmInv, CalmRest, CallShape
<1>1. Assigned' = Assigned
  BY RowsStay
<1>2. StepsOf' /\ TodoLeft' /\ RowsInserted' /\ RowsPlain' /\ OneUnderWay'
  BY DEF StepsOf, TodoLeft, RowsInserted, RowsPlain, OneUnderWay, UnderWay
<1>3. FollowInv' /\ Settled'
  BY <1>1 DEF FollowInv, At, AllowedAt, OnAt, OffAt, Settled, AllowedIsAssigned, OnWhenAssigned,
    OffWhenNobody, AtRest, UnderWay
<1>. QED
  BY <1>2, <1>3

LEMMA CalmStart ==
  ASSUME SkillInit
  PROVE  CalmInv
<1>1. SkillTypeOK
  BY SkillStart DEF SkillInv
<1>2. StepsOf /\ TodoLeft /\ RowsInserted /\ RowsPlain
  BY DEF SkillInit, StepsOf, TodoLeft, RowsInserted, RowsPlain
<1>3. OneUnderWay /\ FollowInv
  BY DEF SkillInit, OneUnderWay, FollowInv, At, UnderWay
<1>4. Assigned = {}
  BY DEF SkillInit, Assigned, RowsOf
<1>5. Settled
  BY <1>4 DEF SkillInit, Settled, AllowedIsAssigned, OnWhenAssigned, OffWhenNobody
<1>. QED
  BY <1>1, <1>2, <1>3, <1>5 DEF CalmInv, CalmRest, CallShape

LEMMA CalmStep ==
  ASSUME CalmInv, SkillNext
  PROVE  CalmRest'
<1>. USE DEF CalmInv, CalmRest, CallShape, rowVars, gatewayVars
<1>1. ASSUME NEW q \in Calls, NEW o \in Ops, NEW a \in Agents, CallBegins(q, o, a) PROVE CalmRest'
  <2>. USE <1>1 DEF CallBegins, StepTo, FirstStep, Ops
  <2>0. step[q] = "idle" /\ skill /\ row[q] = "none"
    BY DEF RowsInserted, Calls
  <2>1. Assigned' = Assigned
    BY <2>0, RowsMove
  <2>8. AtRest => \A p \in Calls : p # q => ~UnderWay(p)'
    BY DEF AtRest, UnderWay, SkillTypeOK
  <2>2. StepsOf' /\ TodoLeft'
    BY <2>0 DEF StepsOf, TodoLeft, SkillTypeOK
  <2>3. RowsInserted' /\ RowsPlain'
    BY <2>0 DEF RowsInserted, RowsPlain, SkillTypeOK
  <2>4. OneUnderWay'
    BY <2>0, <2>8 DEF OneUnderWay
  <2>9. calm' => AtRest /\ skill /\ agent[q]' = a /\ step[q]' \in {"look", "insert", "set", "unget", "list"}
                   /\ (op[q]' = "delete" <=> step[q]' = "list")
    BY <2>0 DEF SkillTypeOK
  <2>5. calm' => At(q)'
    BY <2>0, <2>1, <2>9 DEF Settled, AllowedIsAssigned, OnWhenAssigned, OffWhenNobody, At, AllowedAt,
      OnAt, OffAt
  <2>6. FollowInv'
    BY <2>5, <2>8 DEF FollowInv, At
  <2>7. Settled'
    <3>1. ~AtRest'
      BY DEF AtRest, UnderWay, SkillTypeOK
    <3>. QED
      BY <3>1 DEF Settled, AllowedIsAssigned, OnWhenAssigned, OffWhenNobody
  <2>. QED
    BY <2>2, <2>3, <2>4, <2>6, <2>7
<1>2. ASSUME NEW q \in Calls, LooksUp(q) PROVE CalmRest'
  <2>. USE <1>2 DEF LooksUp, StepTo, Ends
  <2>0. Assigned' = Assigned /\ \A b : RowsOf(b)' = RowsOf(b)
    BY RowsStay
  <2>1. UnderWay(q)
    BY DEF UnderWay
  <2>2. StepsOf' /\ TodoLeft'
    BY DEF StepsOf, TodoLeft, SkillTypeOK, Ops
  <2>3. RowsInserted'
    BY DEF RowsInserted, StepsOf, SkillTypeOK
  <2>4. RowsPlain'
    BY DEF RowsPlain, RowsOf, SkillTypeOK
  <2>5. OneUnderWay'
    BY <2>1 DEF OneUnderWay, UnderWay, SkillTypeOK
  <2>6. calm' => At(q)'
    BY <2>0, <2>1 DEF FollowInv, At, AllowedAt, OnAt, OffAt, UnderWay, StepsOf, TodoLeft,
      OneUnderWay, RowsPlain, SkillTypeOK
  <2>7. calm' /\ ~UnderWay(q)' /\ AtRest' => Settled'
    BY <2>0, <2>1 DEF FollowInv, At, AllowedAt, OnAt, OffAt, UnderWay, StepsOf, OneUnderWay,
      Settled, AllowedIsAssigned, OnWhenAssigned, OffWhenNobody, SkillTypeOK
  <2>8. FollowInv' /\ Settled'
    BY <2>1, <2>6, <2>7, AloneEnough DEF SkillTypeOK
  <2>. QED
    BY <2>2, <2>3, <2>4, <2>5, <2>8
<1>3. ASSUME NEW q \in Calls, Attaches(q) PROVE CalmRest'
  <2>. USE <1>3 DEF Attaches, StepTo, Ends
  <2>9. row[q] = "none" /\ op[q] \in {"toggle", "attach"} /\ (RowsOf(agent[q]) = {} <=> agent[q] \notin Assigned)
    BY DEF RowsInserted, StepsOf, Assigned, SkillTypeOK
  <2>0. Assigned' = Assigned \cup {agent[q]}
    BY <2>9 DEF Assigned, RowsOf, SkillTypeOK
  <2>1. UnderWay(q)
    BY DEF UnderWay
  <2>2. StepsOf' /\ TodoLeft'
    BY DEF StepsOf, TodoLeft, SkillTypeOK, Ops
  <2>3. RowsInserted'
    BY DEF RowsInserted, StepsOf, SkillTypeOK
  <2>10. row'[q] = "enabled" /\ agent' = agent /\ \A p \in Calls : p # q => row'[p] = row[p]
    BY DEF SkillTypeOK
  <2>11. plain' => plain /\ \A p \in Calls : row[p] # "none" => agent[p] # agent[q]
    BY DEF RowsOf, SkillTypeOK
  <2>4. RowsPlain'
    BY <2>10, <2>11 DEF RowsPlain
  <2>5. OneUnderWay'
    BY <2>1 DEF OneUnderWay, UnderWay, SkillTypeOK
  <2>6. calm' => At(q)'
    BY <2>0, <2>1 DEF FollowInv, At, AllowedAt, OnAt, OffAt, UnderWay, StepsOf, TodoLeft,
      OneUnderWay, RowsPlain, SkillTypeOK
  <2>7. calm' /\ ~UnderWay(q)' /\ AtRest' => Settled'
    BY <2>0, <2>1 DEF FollowInv, At, AllowedAt, OnAt, OffAt, UnderWay, StepsOf, OneUnderWay,
      Settled, AllowedIsAssigned, OnWhenAssigned, OffWhenNobody, SkillTypeOK
  <2>8. FollowInv' /\ Settled'
    BY <2>1, <2>6, <2>7, AloneEnough DEF SkillTypeOK
  <2>. QED
    BY <2>2, <2>3, <2>4, <2>5, <2>8
<1>4. ASSUME NEW q \in Calls, Sets(q) PROVE CalmRest'
  <2>. USE <1>4 DEF Sets, KnowsTheSame, StepTo, Ends
  <2>9. op[q] \in {"enable", "disable"} /\ (RowsOf(agent[q]) = {} <=> agent[q] \notin Assigned)
    BY DEF StepsOf, Assigned, SkillTypeOK
  <2>10. \A p \in Calls : /\ row'[p] = "none" <=> row[p] = "none"
                          /\ plain' /\ row[p] # "none" => row'[p] = "enabled"
    <3>0. plain => \A p \in Calls : row[p] # "none" => row[p] = "enabled"
      BY DEF RowsPlain
    <3>1. CASE row' = row /\ plain' = plain
      BY <3>0, <3>1
    <3>2. ASSUME NEW p \in RowsOf(agent[q]),
                 row' = [row EXCEPT ![p] = IF op[q] = "enable" THEN "enabled" ELSE "disabled"],
                 plain' = (plain /\ op[q] = "enable")
          PROVE  \A r \in Calls : /\ row'[r] = "none" <=> row[r] = "none"
                                  /\ plain' /\ row[r] # "none" => row'[r] = "enabled"
      BY <3>0, <3>2 DEF RowsOf, SkillTypeOK
    <3>. QED
      BY <3>1, <3>2
  <2>0. Assigned' = Assigned
    BY DEF Assigned, RowsOf, SkillTypeOK
  <2>1. UnderWay(q)
    BY DEF UnderWay
  <2>2. StepsOf' /\ TodoLeft'
    BY DEF StepsOf, TodoLeft, SkillTypeOK, Ops
  <2>3. RowsInserted'
    BY <2>9, <2>10 DEF RowsInserted, StepsOf, SkillTypeOK
  <2>4. RowsPlain'
    BY <2>10 DEF RowsPlain, RowsOf, SkillTypeOK
  <2>5. OneUnderWay'
    BY <2>1 DEF OneUnderWay, UnderWay, SkillTypeOK
  <2>6. calm' => At(q)'
    BY <2>9, <2>0, <2>1 DEF FollowInv, At, AllowedAt, OnAt, OffAt, UnderWay, StepsOf, TodoLeft,
      OneUnderWay, RowsPlain, SkillTypeOK
  <2>7. calm' /\ ~UnderWay(q)' /\ AtRest' => Settled'
    BY <2>0, <2>1 DEF FollowInv, At, AllowedAt, OnAt, OffAt, UnderWay, StepsOf, OneUnderWay,
      Settled, AllowedIsAssigned, OnWhenAssigned, OffWhenNobody, SkillTypeOK
  <2>8. FollowInv' /\ Settled'
    BY <2>1, <2>6, <2>7, AloneEnough DEF SkillTypeOK
  <2>. QED
    BY <2>2, <2>3, <2>4, <2>5, <2>8
<1>5. ASSUME NEW q \in Calls, Removes(q) PROVE CalmRest'
  <2>. USE <1>5 DEF Removes, StepTo, Ends
  <2>9. op[q] # "delete"
    BY DEF StepsOf
  <2>0. /\ Assigned' \in {Assigned, Assigned \ {agent[q]}}
        /\ plain => Assigned' = Assigned \ {agent[q]}
    BY DEF Assigned, RowsOf, RowsPlain, SkillTypeOK
  <2>1. UnderWay(q)
    BY DEF UnderWay
  <2>2. StepsOf' /\ TodoLeft'
    BY DEF StepsOf, TodoLeft, SkillTypeOK, Ops
  <2>3. RowsInserted'
    BY DEF RowsInserted, StepsOf, SkillTypeOK
  <2>4. RowsPlain'
    BY DEF RowsPlain, RowsOf, SkillTypeOK
  <2>5. OneUnderWay'
    BY <2>1 DEF OneUnderWay, UnderWay, SkillTypeOK
  <2>6. calm' => At(q)'
    BY <2>0, <2>1 DEF FollowInv, At, AllowedAt, OnAt, OffAt, UnderWay, StepsOf, TodoLeft,
      OneUnderWay, RowsPlain, SkillTypeOK
  <2>7. calm' /\ ~UnderWay(q)' /\ AtRest' => Settled'
    BY <2>0, <2>1 DEF FollowInv, At, AllowedAt, OnAt, OffAt, UnderWay, StepsOf, OneUnderWay,
      Settled, AllowedIsAssigned, OnWhenAssigned, OffWhenNobody, SkillTypeOK
  <2>8. FollowInv' /\ Settled'
    BY <2>1, <2>6, <2>7, AloneEnough DEF SkillTypeOK
  <2>. QED
    BY <2>2, <2>3, <2>4, <2>5, <2>8
<1>6. ASSUME NEW q \in Calls, Lists(q) PROVE CalmRest'
  <2>. USE <1>6 DEF Lists, StepTo, Ends
  <2>0. Assigned' = Assigned /\ \A b : RowsOf(b)' = RowsOf(b)
    BY RowsStay
  <2>1. UnderWay(q)
    BY DEF UnderWay
  <2>2. StepsOf' /\ TodoLeft'
    BY DEF StepsOf, TodoLeft, SkillTypeOK, Ops
  <2>3. RowsInserted'
    BY DEF RowsInserted, StepsOf, SkillTypeOK
  <2>4. RowsPlain'
    BY DEF RowsPlain, RowsOf, SkillTypeOK
  <2>5. OneUnderWay'
    BY <2>1 DEF OneUnderWay, UnderWay, SkillTypeOK
  <2>6. calm' => At(q)'
    BY <2>0, <2>1 DEF FollowInv, At, AllowedAt, OnAt, OffAt, UnderWay, StepsOf, TodoLeft,
      OneUnderWay, RowsPlain, SkillTypeOK
  <2>7. calm' /\ ~UnderWay(q)' /\ AtRest' => Settled'
    BY <2>0, <2>1 DEF FollowInv, At, AllowedAt, OnAt, OffAt, UnderWay, StepsOf, OneUnderWay,
      Settled, AllowedIsAssigned, OnWhenAssigned, OffWhenNobody, SkillTypeOK
  <2>8. FollowInv' /\ Settled'
    BY <2>1, <2>6, <2>7, AloneEnough DEF SkillTypeOK
  <2>. QED
    BY <2>2, <2>3, <2>4, <2>5, <2>8
<1>7. ASSUME NEW q \in Calls, Drops(q) PROVE CalmRest'
  <2>. USE <1>7 DEF Drops, StepTo, Ends
  <2>0. Assigned' = {}
    BY DEF Assigned, RowsOf
  <2>1. UnderWay(q)
    BY DEF UnderWay
  <2>2. StepsOf' /\ TodoLeft'
    BY DEF StepsOf, TodoLeft, SkillTypeOK, Ops
  <2>3. RowsInserted'
    BY DEF RowsInserted, StepsOf, SkillTypeOK
  <2>4. RowsPlain'
    BY DEF RowsPlain, RowsOf, SkillTypeOK
  <2>5. OneUnderWay'
    BY <2>1 DEF OneUnderWay, UnderWay, SkillTypeOK
  <2>6. calm' => At(q)'
    BY <2>0, <2>1 DEF FollowInv, At, AllowedAt, OnAt, OffAt, UnderWay, StepsOf, TodoLeft,
      OneUnderWay, RowsPlain, SkillTypeOK
  <2>7. calm' /\ ~UnderWay(q)' /\ AtRest' => Settled'
    BY <2>0, <2>1 DEF FollowInv, At, AllowedAt, OnAt, OffAt, UnderWay, StepsOf, OneUnderWay,
      Settled, AllowedIsAssigned, OnWhenAssigned, OffWhenNobody, SkillTypeOK
  <2>8. FollowInv' /\ Settled'
    BY <2>1, <2>6, <2>7, AloneEnough DEF SkillTypeOK
  <2>. QED
    BY <2>2, <2>3, <2>4, <2>5, <2>8
<1>8. ASSUME NEW q \in Calls, NEW a \in Agents, NextAgent(q, a) PROVE CalmRest'
  <2>. USE <1>8 DEF NextAgent, StepTo, Ends
  <2>9. row[q] = "none"
    BY DEF RowsInserted, StepsOf
  <2>0. Assigned' = Assigned /\ \A b : RowsOf(b)' = RowsOf(b)
    BY <2>9, RowsMove
  <2>1. UnderWay(q)
    BY DEF UnderWay
  <2>2. StepsOf' /\ TodoLeft'
    BY DEF StepsOf, TodoLeft, SkillTypeOK, Ops
  <2>3. RowsInserted'
    BY DEF RowsInserted, StepsOf, SkillTypeOK
  <2>4. RowsPlain'
    BY <2>9 DEF RowsPlain, RowsOf, SkillTypeOK
  <2>5. OneUnderWay'
    BY <2>1 DEF OneUnderWay, UnderWay, SkillTypeOK
  <2>6. calm' => At(q)'
    BY <2>0, <2>1 DEF FollowInv, At, AllowedAt, OnAt, OffAt, UnderWay, StepsOf, TodoLeft,
      OneUnderWay, RowsPlain, SkillTypeOK
  <2>7. calm' /\ ~UnderWay(q)' /\ AtRest' => Settled'
    BY <2>0, <2>1 DEF FollowInv, At, AllowedAt, OnAt, OffAt, UnderWay, StepsOf, OneUnderWay,
      Settled, AllowedIsAssigned, OnWhenAssigned, OffWhenNobody, SkillTypeOK
  <2>8. FollowInv' /\ Settled'
    BY <2>1, <2>6, <2>7, AloneEnough DEF SkillTypeOK
  <2>. QED
    BY <2>2, <2>3, <2>4, <2>5, <2>8
<1>9. ASSUME NEW q \in Calls, Loads(q) PROVE CalmRest'
  <2>. USE <1>9 DEF Loads, StepTo, Ends
  <2>9. plain => \A p \in RowsOf(agent[q]) : row[p] = "enabled"
    BY DEF RowsPlain, RowsOf
  <2>10. agent[q] \in Assigned <=> RowsOf(agent[q]) # {}
    BY DEF Assigned, SkillTypeOK
  <2>0. Assigned' = Assigned /\ \A b : RowsOf(b)' = RowsOf(b)
    BY RowsStay
  <2>1. UnderWay(q)
    BY DEF UnderWay
  <2>2. StepsOf' /\ TodoLeft'
    BY DEF StepsOf, TodoLeft, SkillTypeOK, Ops
  <2>3. RowsInserted'
    BY DEF RowsInserted, StepsOf, SkillTypeOK
  <2>4. RowsPlain'
    BY DEF RowsPlain, RowsOf, SkillTypeOK
  <2>5. OneUnderWay'
    BY <2>1 DEF OneUnderWay, UnderWay, SkillTypeOK
  <2>6. calm' => At(q)'
    BY <2>9, <2>10, <2>0, <2>1 DEF FollowInv, At, AllowedAt, OnAt, OffAt, UnderWay, StepsOf,
      TodoLeft, OneUnderWay, RowsPlain, SkillTypeOK
  <2>7. calm' /\ ~UnderWay(q)' /\ AtRest' => Settled'
    BY <2>0, <2>1 DEF FollowInv, At, AllowedAt, OnAt, OffAt, UnderWay, StepsOf, OneUnderWay,
      Settled, AllowedIsAssigned, OnWhenAssigned, OffWhenNobody, SkillTypeOK
  <2>8. FollowInv' /\ Settled'
    BY <2>1, <2>6, <2>7, AloneEnough DEF SkillTypeOK
  <2>. QED
    BY <2>2, <2>3, <2>4, <2>5, <2>8
<1>10. ASSUME NEW q \in Calls, Gets(q, "get", "patch") PROVE CalmRest'
  <2>. USE <1>10 DEF Gets, ListOf, StepTo, Ends
  <2>0. Assigned' = Assigned /\ \A b : RowsOf(b)' = RowsOf(b)
    BY RowsStay
  <2>1. UnderWay(q)
    BY DEF UnderWay
  <2>2. StepsOf' /\ TodoLeft'
    BY DEF StepsOf, TodoLeft, SkillTypeOK, Ops
  <2>3. RowsInserted'
    BY DEF RowsInserted, StepsOf, SkillTypeOK
  <2>4. RowsPlain'
    BY DEF RowsPlain, RowsOf, SkillTypeOK
  <2>5. OneUnderWay'
    BY <2>1 DEF OneUnderWay, UnderWay, SkillTypeOK
  <2>6. calm' => At(q)'
    BY <2>0, <2>1 DEF FollowInv, At, AllowedAt, OnAt, OffAt, UnderWay, StepsOf, TodoLeft,
      OneUnderWay, RowsPlain, SkillTypeOK
  <2>7. calm' /\ ~UnderWay(q)' /\ AtRest' => Settled'
    BY <2>0, <2>1 DEF FollowInv, At, AllowedAt, OnAt, OffAt, UnderWay, StepsOf, OneUnderWay,
      Settled, AllowedIsAssigned, OnWhenAssigned, OffWhenNobody, SkillTypeOK
  <2>8. FollowInv' /\ Settled'
    BY <2>1, <2>6, <2>7, AloneEnough DEF SkillTypeOK
  <2>. QED
    BY <2>2, <2>3, <2>4, <2>5, <2>8
<1>11. ASSUME NEW q \in Calls, Patches(q) PROVE CalmRest'
  <2>. USE <1>11 DEF Patches, ListBecomes, StepTo, Ends
  <2>0. Assigned' = Assigned /\ \A b : RowsOf(b)' = RowsOf(b)
    BY RowsStay
  <2>1. UnderWay(q)
    BY DEF UnderWay
  <2>2. StepsOf' /\ TodoLeft'
    BY DEF StepsOf, TodoLeft, SkillTypeOK, Ops
  <2>3. RowsInserted'
    BY DEF RowsInserted, StepsOf, SkillTypeOK
  <2>4. RowsPlain'
    BY DEF RowsPlain, RowsOf, SkillTypeOK
  <2>5. OneUnderWay'
    BY <2>1 DEF OneUnderWay, UnderWay, SkillTypeOK
  <2>6. calm' => At(q)'
    BY <2>0, <2>1 DEF FollowInv, At, AllowedAt, OnAt, OffAt, UnderWay, StepsOf, TodoLeft,
      OneUnderWay, RowsPlain, SkillTypeOK
  <2>7. calm' /\ ~UnderWay(q)' /\ AtRest' => Settled'
    BY <2>0, <2>1 DEF FollowInv, At, AllowedAt, OnAt, OffAt, UnderWay, StepsOf, OneUnderWay,
      Settled, AllowedIsAssigned, OnWhenAssigned, OffWhenNobody, SkillTypeOK
  <2>8. FollowInv' /\ Settled'
    BY <2>1, <2>6, <2>7, AloneEnough DEF SkillTypeOK
  <2>. QED
    BY <2>2, <2>3, <2>4, <2>5, <2>8
<1>12. ASSUME NEW q \in Calls, UpdatesEntry(q) PROVE CalmRest'
  <2>. USE <1>12 DEF UpdatesEntry, StepTo, Ends
  <2>0. Assigned' = Assigned /\ \A b : RowsOf(b)' = RowsOf(b)
    BY RowsStay
  <2>1. UnderWay(q)
    BY DEF UnderWay
  <2>2. StepsOf' /\ TodoLeft'
    BY DEF StepsOf, TodoLeft, SkillTypeOK, Ops
  <2>3. RowsInserted'
    BY DEF RowsInserted, StepsOf, SkillTypeOK
  <2>4. RowsPlain'
    BY DEF RowsPlain, RowsOf, SkillTypeOK
  <2>5. OneUnderWay'
    BY <2>1 DEF OneUnderWay, UnderWay, SkillTypeOK
  <2>6. calm' => At(q)'
    BY <2>0, <2>1 DEF FollowInv, At, AllowedAt, OnAt, OffAt, UnderWay, StepsOf, TodoLeft,
      OneUnderWay, RowsPlain, SkillTypeOK
  <2>7. calm' /\ ~UnderWay(q)' /\ AtRest' => Settled'
    BY <2>0, <2>1 DEF FollowInv, At, AllowedAt, OnAt, OffAt, UnderWay, StepsOf, OneUnderWay,
      Settled, AllowedIsAssigned, OnWhenAssigned, OffWhenNobody, SkillTypeOK
  <2>8. FollowInv' /\ Settled'
    BY <2>1, <2>6, <2>7, AloneEnough DEF SkillTypeOK
  <2>. QED
    BY <2>2, <2>3, <2>4, <2>5, <2>8
<1>13. ASSUME NEW q \in Calls, ReadsSecrets(q) PROVE CalmRest'
  <2>. USE <1>13 DEF ReadsSecrets, StepTo, Ends
  <2>9. plain => \A p \in RowsOf(agent[q]) : row[p] = "enabled"
    BY DEF RowsPlain, RowsOf
  <2>10. agent[q] \in Assigned <=> RowsOf(agent[q]) # {}
    BY DEF Assigned, SkillTypeOK
  <2>0. Assigned' = Assigned /\ \A b : RowsOf(b)' = RowsOf(b)
    BY RowsStay
  <2>1. UnderWay(q)
    BY DEF UnderWay
  <2>2. StepsOf' /\ TodoLeft'
    BY DEF StepsOf, TodoLeft, SkillTypeOK, Ops
  <2>3. RowsInserted'
    BY DEF RowsInserted, StepsOf, SkillTypeOK
  <2>4. RowsPlain'
    BY DEF RowsPlain, RowsOf, SkillTypeOK
  <2>5. OneUnderWay'
    BY <2>1 DEF OneUnderWay, UnderWay, SkillTypeOK
  <2>6. calm' => At(q)'
    BY <2>9, <2>10, <2>0, <2>1 DEF FollowInv, At, AllowedAt, OnAt, OffAt, UnderWay, StepsOf,
      TodoLeft, OneUnderWay, RowsPlain, SkillTypeOK
  <2>7. calm' /\ ~UnderWay(q)' /\ AtRest' => Settled'
    BY <2>0, <2>1 DEF FollowInv, At, AllowedAt, OnAt, OffAt, UnderWay, StepsOf, OneUnderWay,
      Settled, AllowedIsAssigned, OnWhenAssigned, OffWhenNobody, SkillTypeOK
  <2>8. FollowInv' /\ Settled'
    BY <2>1, <2>6, <2>7, AloneEnough DEF SkillTypeOK
  <2>. QED
    BY <2>2, <2>3, <2>4, <2>5, <2>8
<1>14. ASSUME NEW q \in Calls, Pushes(q) PROVE CalmRest'
  <2>. USE <1>14 DEF Pushes, StepTo, Ends
  <2>0. Assigned' = Assigned /\ \A b : RowsOf(b)' = RowsOf(b)
    BY RowsStay
  <2>1. UnderWay(q)
    BY DEF UnderWay
  <2>2. StepsOf' /\ TodoLeft'
    BY DEF StepsOf, TodoLeft, SkillTypeOK, Ops
  <2>3. RowsInserted'
    BY DEF RowsInserted, StepsOf, SkillTypeOK
  <2>4. RowsPlain'
    BY DEF RowsPlain, RowsOf, SkillTypeOK
  <2>5. OneUnderWay'
    BY <2>1 DEF OneUnderWay, UnderWay, SkillTypeOK
  <2>6. calm' => At(q)'
    BY <2>0, <2>1 DEF FollowInv, At, AllowedAt, OnAt, OffAt, UnderWay, StepsOf, TodoLeft,
      OneUnderWay, RowsPlain, SkillTypeOK
  <2>7. calm' /\ ~UnderWay(q)' /\ AtRest' => Settled'
    BY <2>0, <2>1 DEF FollowInv, At, AllowedAt, OnAt, OffAt, UnderWay, StepsOf, OneUnderWay,
      Settled, AllowedIsAssigned, OnWhenAssigned, OffWhenNobody, SkillTypeOK
  <2>8. FollowInv' /\ Settled'
    BY <2>1, <2>6, <2>7, AloneEnough DEF SkillTypeOK
  <2>. QED
    BY <2>2, <2>3, <2>4, <2>5, <2>8
<1>15. ASSUME NEW q \in Calls, GetsToRemove(q) PROVE CalmRest'
  <2>. USE <1>15 DEF GetsToRemove, Gets, ListOf, StepTo, Ends
  <2>0. Assigned' = Assigned /\ \A b : RowsOf(b)' = RowsOf(b)
    BY RowsStay
  <2>1. UnderWay(q)
    BY DEF UnderWay
  <2>2. StepsOf' /\ TodoLeft'
    BY DEF StepsOf, TodoLeft, SkillTypeOK, Ops
  <2>3. RowsInserted'
    BY DEF RowsInserted, StepsOf, SkillTypeOK
  <2>4. RowsPlain'
    BY DEF RowsPlain, RowsOf, SkillTypeOK
  <2>5. OneUnderWay'
    BY <2>1 DEF OneUnderWay, UnderWay, SkillTypeOK
  <2>6. calm' => At(q)'
    BY <2>0, <2>1 DEF FollowInv, At, AllowedAt, OnAt, OffAt, UnderWay, StepsOf, TodoLeft,
      OneUnderWay, RowsPlain, SkillTypeOK
  <2>7. calm' /\ ~UnderWay(q)' /\ AtRest' => Settled'
    BY <2>0, <2>1 DEF FollowInv, At, AllowedAt, OnAt, OffAt, UnderWay, StepsOf, OneUnderWay,
      Settled, AllowedIsAssigned, OnWhenAssigned, OffWhenNobody, SkillTypeOK
  <2>8. FollowInv' /\ Settled'
    BY <2>1, <2>6, <2>7, AloneEnough DEF SkillTypeOK
  <2>. QED
    BY <2>2, <2>3, <2>4, <2>5, <2>8
<1>16. ASSUME NEW q \in Calls, PatchesOut(q) PROVE CalmRest'
  <2>. USE <1>16 DEF PatchesOut, ListBecomes, StepTo, Ends
  <2>0. Assigned' = Assigned /\ \A b : RowsOf(b)' = RowsOf(b)
    BY RowsStay
  <2>1. UnderWay(q)
    BY DEF UnderWay
  <2>2. StepsOf' /\ TodoLeft'
    BY DEF StepsOf, TodoLeft, SkillTypeOK, Ops
  <2>3. RowsInserted'
    BY DEF RowsInserted, StepsOf, SkillTypeOK
  <2>4. RowsPlain'
    BY DEF RowsPlain, RowsOf, SkillTypeOK
  <2>5. OneUnderWay'
    BY <2>1 DEF OneUnderWay, UnderWay, SkillTypeOK
  <2>6. calm' => At(q)'
    BY <2>0, <2>1 DEF FollowInv, At, AllowedAt, OnAt, OffAt, UnderWay, StepsOf, TodoLeft,
      OneUnderWay, RowsPlain, SkillTypeOK
  <2>7. calm' /\ ~UnderWay(q)' /\ AtRest' => Settled'
    BY <2>0, <2>1 DEF FollowInv, At, AllowedAt, OnAt, OffAt, UnderWay, StepsOf, OneUnderWay,
      Settled, AllowedIsAssigned, OnWhenAssigned, OffWhenNobody, SkillTypeOK
  <2>8. FollowInv' /\ Settled'
    BY <2>1, <2>6, <2>7, AloneEnough DEF SkillTypeOK
  <2>. QED
    BY <2>2, <2>3, <2>4, <2>5, <2>8
<1>17. ASSUME NEW q \in Calls, Counts(q) PROVE CalmRest'
  <2>. USE <1>17 DEF Counts, AfterUninstall, StepTo, Ends
  <2>0. Assigned' = Assigned /\ \A b : RowsOf(b)' = RowsOf(b)
    BY RowsStay
  <2>1. UnderWay(q)
    BY DEF UnderWay
  <2>2. StepsOf' /\ TodoLeft'
    BY DEF StepsOf, TodoLeft, SkillTypeOK, Ops
  <2>3. RowsInserted'
    BY DEF RowsInserted, StepsOf, SkillTypeOK
  <2>4. RowsPlain'
    BY DEF RowsPlain, RowsOf, SkillTypeOK
  <2>5. OneUnderWay'
    BY <2>1 DEF OneUnderWay, UnderWay, SkillTypeOK
  <2>6. calm' => At(q)'
    BY <2>0, <2>1 DEF FollowInv, At, AllowedAt, OnAt, OffAt, UnderWay, StepsOf, TodoLeft,
      OneUnderWay, RowsPlain, SkillTypeOK
  <2>7. calm' /\ ~UnderWay(q)' /\ AtRest' => Settled'
    BY <2>0, <2>1 DEF FollowInv, At, AllowedAt, OnAt, OffAt, UnderWay, StepsOf, OneUnderWay,
      Settled, AllowedIsAssigned, OnWhenAssigned, OffWhenNobody, SkillTypeOK
  <2>8. FollowInv' /\ Settled'
    BY <2>1, <2>6, <2>7, AloneEnough DEF SkillTypeOK
  <2>. QED
    BY <2>2, <2>3, <2>4, <2>5, <2>8
<1>18. ASSUME NEW q \in Calls, SwitchesOff(q) PROVE CalmRest'
  <2>. USE <1>18 DEF SwitchesOff, AfterUninstall, StepTo, Ends
  <2>0. Assigned' = Assigned /\ \A b : RowsOf(b)' = RowsOf(b)
    BY RowsStay
  <2>1. UnderWay(q)
    BY DEF UnderWay
  <2>2. StepsOf' /\ TodoLeft'
    BY DEF StepsOf, TodoLeft, SkillTypeOK, Ops
  <2>3. RowsInserted'
    BY DEF RowsInserted, StepsOf, SkillTypeOK
  <2>4. RowsPlain'
    BY DEF RowsPlain, RowsOf, SkillTypeOK
  <2>5. OneUnderWay'
    BY <2>1 DEF OneUnderWay, UnderWay, SkillTypeOK
  <2>6. calm' => At(q)'
    BY <2>0, <2>1 DEF FollowInv, At, AllowedAt, OnAt, OffAt, UnderWay, StepsOf, TodoLeft,
      OneUnderWay, RowsPlain, SkillTypeOK
  <2>7. calm' /\ ~UnderWay(q)' /\ AtRest' => Settled'
    BY <2>0, <2>1 DEF FollowInv, At, AllowedAt, OnAt, OffAt, UnderWay, StepsOf, OneUnderWay,
      Settled, AllowedIsAssigned, OnWhenAssigned, OffWhenNobody, SkillTypeOK
  <2>8. FollowInv' /\ Settled'
    BY <2>1, <2>6, <2>7, AloneEnough DEF SkillTypeOK
  <2>. QED
    BY <2>2, <2>3, <2>4, <2>5, <2>8
<1>19. ASSUME NEW q \in Calls, GatewayFails(q) PROVE CalmRest'
  <2>. USE <1>19 DEF GatewayFails, AfterFailure, AfterUninstall, StepTo
  <2>1. StepsOf' /\ TodoLeft'
    BY DEF StepsOf, TodoLeft, SkillTypeOK, Ops
  <2>2. RowsInserted' /\ RowsPlain'
    BY DEF RowsInserted, RowsPlain, StepsOf, SkillTypeOK
  <2>3. OneUnderWay' /\ FollowInv' /\ Settled'
    BY DEF OneUnderWay, FollowInv, Settled, AllowedIsAssigned, OnWhenAssigned, OffWhenNobody
  <2>. QED
    BY <2>1, <2>2, <2>3
<1>20. ASSUME NEW q \in Calls, RequestFails(q) PROVE CalmRest'
  <2>. USE <1>20 DEF RequestFails, Ends, StepTo
  <2>1. StepsOf' /\ TodoLeft'
    BY DEF StepsOf, TodoLeft, SkillTypeOK, Ops
  <2>2. RowsInserted' /\ RowsPlain'
    BY DEF RowsInserted, RowsPlain, StepsOf, SkillTypeOK
  <2>3. OneUnderWay' /\ FollowInv' /\ Settled'
    BY DEF OneUnderWay, FollowInv, Settled, AllowedIsAssigned, OnWhenAssigned, OffWhenNobody
  <2>. QED
    BY <2>1, <2>2, <2>3
<1>21. ASSUME NEW a \in Agents, Elsewhere(a) PROVE CalmRest'
  <2>1. UNCHANGED <<skill, row, entry, allowed, op, agent, step, todo, flag, seen, calm, plain>>
    BY <1>21 DEF Elsewhere
  <2>. QED
    BY <2>1, CalmKept
<1>. QED
  BY <1>1, <1>2, <1>3, <1>4, <1>5, <1>6, <1>7, <1>8, <1>9, <1>10, <1>11, <1>12, <1>13, <1>14,
    <1>15, <1>16, <1>17, <1>18, <1>19, <1>20, <1>21 DEF SkillNext

\* One request at a time, each step of which keeps its relation.
THEOREM CalmInvariant == SkillSpec => []CalmInv
<1>1. SkillInit => CalmInv
  BY CalmStart
<1>2. CalmInv /\ SkillTypeOK' /\ [SkillNext]_skillVars => CalmInv'
  BY CalmStep, CalmKept DEF CalmInv, skillVars, rowVars, gatewayVars
<1>. QED
  BY <1>1, <1>2, SkillTypeCorrect, PTL DEF SkillSpec

\* For any agents and any number of requests of the routes, whenever none is under
\* way, and none has failed or overlapped with another, the gateway's allowlists and
\* the skill's entry say what the assignments say.
THEOREM GatewayFollows == SkillSpec => []SkillsFollow
<1>1. CalmInv => SkillsFollow
  BY DEF CalmInv, CalmRest, Settled, SkillsFollow
<1>. QED
  BY <1>1, CalmInvariant, PTL

-----------------------------------------------------------------------------
(* Accounts and the invitation.  Who has counted no users is alone with it *)
(* (FirstInv), nothing happens to an invitation that is not there, and a   *)
(* row is there before the invitation is marked (RowInv); of acceptances   *)
(* that have not raced one at the most has found the invitation open, at a *)
(* time when nobody had joined with it (OpenInv).                          *)

FirstInv ==
  /\ invited # {} => acceptedBy # NoPerson
  /\ ~firsts => /\ \A p, q \in People : isFirst[p] /\ isFirst[q] => p = q
                /\ admins # {} => \A p \in People : ~isFirst[p]

Found(p, v) == ask[p][v] \in AskSteps \ {"no", "reading"}

RowInv ==
  /\ \A p \in People : page[p] = "signing in" => p \in users
  /\ \A p \in People : ask[p]["form"] # "no" => page[p] = "joining"
  /\ \A p \in People, v \in Vias : ask[p][v] = "marking" => rows[p] > 0
  /\ founder = NoPerson => \A p \in People :
       /\ page[p] \notin {"signing up", "signing in"} /\ rows[p] = 0
       /\ \A v \in Vias : ask[p][v] = "no"

OpenInv ==
  ~raced =>
    /\ \A p, q \in People, v, w \in Vias : Found(p, v) /\ Found(q, w) => p = q /\ v = w
    /\ \A p \in People, v \in Vias : ask[p][v] = "inserting" => rows[p] = 0
    /\ ~unmarked =>
         /\ \A p \in People \ {founder} : rows[p] > 0 =>
              acceptedBy # NoPerson \/ \E v \in Vias : ask[p][v] = "marking"
         /\ \A p \in People, v \in Vias : ask[p][v] \in {"looking", "inserting"} =>
              \A q \in People \ {founder} : rows[q] = 0

JoinInv ==
  /\ JoinTypeOK /\ FirstInv /\ RowInv /\ OpenInv
  /\ OneInvitee /\ OneAdmin /\ MemberOnce /\ JoinsOne /\ AcceptedBelongs

JoinNames == {expired, raced, firsts, unmarked} \subseteq BOOLEAN

LEMMA JoinStart ==
  ASSUME JoinInit
  PROVE  JoinInv
<1>1. JoinNames
  BY DEF JoinInit, JoinNames
<1>2. JoinTypeOK
  BY <1>1 DEF JoinInit, JoinTypeOK, JoinNames, SignupSteps, AskSteps, Pages
<1>3. FirstInv /\ RowInv /\ OpenInv
  BY DEF JoinInit, FirstInv, RowInv, OpenInv, Found, AskSteps, Vias
<1>4. OneInvitee /\ OneAdmin /\ MemberOnce /\ JoinsOne /\ AcceptedBelongs
  BY DEF JoinInit, OneInvitee, OneAdmin, MemberOnce, JoinsOne, AcceptedBelongs
<1>. QED
  BY <1>2, <1>3, <1>4 DEF JoinInv

\* A step of the sign-up route or of the join page: the acceptances, the rows and the
\* founder stay.
LEMMA SignupKeeps ==
  ASSUME JoinInv, JoinTypeOK', FirstInv', OneInvitee', OneAdmin',
         UNCHANGED <<ask, rows, founder, raced>>, unmarked => unmarked',
         \A p \in People : page'[p] = "signing in" => p \in users',
         \A p \in People : page[p] = "joining" => page'[p] = "joining",
         founder = NoPerson => \A p \in People : page'[p] \notin {"signing up", "signing in"},
         acceptedBy' = acceptedBy \/ acceptedBy' \in invited',
         invited \subseteq invited'
  PROVE  JoinInv'
<1>1. RowInv'
  BY DEF JoinInv, RowInv
<1>2. acceptedBy # NoPerson => acceptedBy' # NoPerson
  BY NoPersonAssumption DEF JoinTypeOK
<1>3. OpenInv'
  <2>1. ASSUME ~raced
        PROVE  /\ \A p, q \in People, v, w \in Vias : (Found(p, v) /\ Found(q, w))' => p = q /\ v = w
               /\ \A p \in People, v \in Vias : ask'[p][v] = "inserting" => rows'[p] = 0
    <3>1. OpenInv /\ ask' = ask /\ rows' = rows
      BY DEF JoinInv
    <3>2. \A p \in People, v \in Vias : Found(p, v)' <=> Found(p, v)
      BY <3>1 DEF Found
    <3>. QED
      BY <2>1, <3>1, <3>2 DEF OpenInv
  <2>2. ASSUME ~raced, ~unmarked, NEW p \in People \ {founder}, rows[p] > 0
        PROVE  acceptedBy' # NoPerson \/ \E v \in Vias : ask[p][v] = "marking"
    BY <1>2, <2>2 DEF JoinInv, OpenInv
  <2>3. ASSUME ~raced, ~unmarked, NEW p \in People, NEW v \in Vias,
               ask[p][v] \in {"looking", "inserting"}
        PROVE  \A q \in People \ {founder} : rows[q] = 0
    BY <2>3 DEF JoinInv, OpenInv
  <2>. QED
    BY <2>1, <2>2, <2>3 DEF OpenInv
<1>4. MemberOnce' /\ JoinsOne' /\ AcceptedBelongs'
  BY DEF JoinInv, MemberOnce, JoinsOne, AcceptedBelongs
<1>. QED
  BY <1>1, <1>3, <1>4 DEF JoinInv

LEMMA PageType ==
  ASSUME JoinTypeOK, NEW p \in People, NEW to \in Pages, Hears(p, to)
  PROVE  /\ page' \in [People -> Pages]
         /\ \A q \in People : page'[q] = page[q] \/ (q = p /\ page[p] = "signing up" /\ page'[q] = to)
  BY DEF JoinTypeOK, Hears

LEMMA SignupType ==
  ASSUME JoinTypeOK, NEW p \in People, NEW to \in SignupSteps, SignupGoes(p, to)
  PROVE  signup' \in [People -> SignupSteps] /\ withToken' \in [People -> BOOLEAN]
  BY DEF JoinTypeOK, SignupGoes

LEMMA SignupStep ==
  ASSUME JoinInv, NEW p \in People,
         \/ \E token \in BOOLEAN : SignsUp(p, token)
         \/ CountsUsers(p) \/ Checks(p) \/ Inserts(p) \/ SignupFails(p)
  PROVE  JoinInv'
<1>0. JoinTypeOK /\ FirstInv /\ RowInv /\ OneInvitee /\ OneAdmin
  BY DEF JoinInv
<1>1. ASSUME NEW token \in BOOLEAN, SignsUp(p, token) PROVE JoinInv'
  <2>1. /\ signup' \in [People -> SignupSteps] /\ withToken' \in [People -> BOOLEAN]
        /\ page' \in [People -> Pages]
        /\ \A q \in People : page'[q] = page[q] \/ (page'[q] = "signing up" /\ founder # NoPerson)
        /\ \A q \in People : page[q] = "joining" => page'[q] = "joining"
    BY <1>0, <1>1 DEF SignsUp, JoinTypeOK, SignupSteps, Pages
  <2>2. UNCHANGED <<users, admins, invited, signedIn, founder, acceptedBy, expired, isFirst, firsts,
                    raced, unmarked, rows, ask>>
    BY <1>1 DEF SignsUp, inviteVars, acceptVars
  <2>3. JoinTypeOK'
    BY <1>0, <2>1, <2>2 DEF JoinTypeOK
  <2>4. FirstInv' /\ OneInvitee' /\ OneAdmin'
    BY <1>0, <2>2 DEF FirstInv, OneInvitee, OneAdmin
  <2>. QED
    BY <1>0, <2>1, <2>2, <2>3, <2>4, SignupKeeps DEF RowInv
<1>2. CASE CountsUsers(p)
  <2>1. /\ signup' \in [People -> SignupSteps] /\ withToken' \in [People -> BOOLEAN]
        /\ page' \in [People -> Pages]
        /\ \A q \in People : page'[q] = page[q] \/ page'[q] = "error"
        /\ \A q \in People : page[q] = "joining" => page'[q] = "joining"
    <3>1. CASE SignupOver(p) /\ Hears(p, "error")
      <4>1. "error" \in Pages /\ "no" \in SignupSteps /\ SignupGoes(p, "no")
        BY <3>1 DEF Pages, SignupSteps, SignupOver
      <4>. QED
        BY <1>0, <3>1, <4>1, PageType, SignupType
    <3>2. ASSUME NEW to \in {"checking", "inserting"}, SignupGoes(p, to), UNCHANGED page
          PROVE  /\ signup' \in [People -> SignupSteps] /\ withToken' \in [People -> BOOLEAN]
                 /\ page' \in [People -> Pages]
      BY <1>0, <3>2, SignupType DEF JoinTypeOK, SignupSteps
    <3>3. PICK next : next = IF withToken[p] THEN "checking" ELSE "inserting"
      OBVIOUS
    <3>4. CASE SignupGoes(p, next) /\ UNCHANGED page
      BY <3>2, <3>3, <3>4
    <3>5. \/ SignupGoes(p, next) /\ UNCHANGED page
          \/ SignupOver(p) /\ Hears(p, "error")
      BY <1>2, <3>3 DEF CountsUsers
    <3>. QED
      BY <3>1, <3>4, <3>5
  <2>2. UNCHANGED <<users, admins, invited, signedIn, founder, acceptedBy, expired,
                    raced, unmarked, rows, ask>>
    BY <1>2 DEF CountsUsers, inviteVars, acceptVars
  <2>3. /\ isFirst' \in [People -> BOOLEAN] /\ firsts' \in BOOLEAN
        /\ firsts => firsts'
        /\ \A q \in People : isFirst'[q] => isFirst[q] \/ (q = p /\ users = {})
        /\ users = {} /\ (\E q \in People \ {p} : isFirst[q]) => firsts'
    BY <1>0, <1>2 DEF CountsUsers, SignupOver, JoinTypeOK
  <2>4. JoinTypeOK'
    BY <1>0, <2>1, <2>2, <2>3 DEF JoinTypeOK
  <2>5. FirstInv' /\ OneInvitee' /\ OneAdmin'
    BY <1>0, <2>2, <2>3 DEF FirstInv, OneInvitee, OneAdmin, JoinTypeOK
  <2>. QED
    BY <1>0, <2>1, <2>2, <2>4, <2>5, SignupKeeps DEF RowInv
<1>3. CASE SignupRefused(p) \/ Checks(p) \/ SignupFails(p)
  <2>1. /\ signup' \in [People -> SignupSteps] /\ withToken' \in [People -> BOOLEAN]
        /\ page' \in [People -> Pages]
        /\ \A q \in People : page'[q] = page[q] \/ page'[q] = "error"
        /\ \A q \in People : page[q] = "joining" => page'[q] = "joining"
    <3>1. "error" \in Pages /\ "no" \in SignupSteps /\ "inserting" \in SignupSteps
      BY DEF Pages, SignupSteps
    <3>2. CASE SignupGoes(p, "no") /\ Hears(p, "error")
      BY <1>0, <3>1, <3>2, PageType, SignupType
    <3>3. CASE SignupGoes(p, "inserting") /\ UNCHANGED page
      <4>1. page \in [People -> Pages]
        BY <1>0 DEF JoinTypeOK
      <4>. QED
        BY <1>0, <3>1, <3>3, <4>1, SignupType
    <3>4. \/ SignupGoes(p, "no") /\ Hears(p, "error")
          \/ SignupGoes(p, "inserting") /\ UNCHANGED page
      BY <1>3 DEF SignupRefused, Checks, SignupFails, SignupOver
    <3>. QED
      BY <3>2, <3>3, <3>4
  <2>2. /\ UNCHANGED <<users, admins, invited, signedIn, founder, acceptedBy, expired, firsts,
                       raced, rows, ask>>
        /\ unmarked' \in BOOLEAN /\ (unmarked => unmarked')
    <3>1. unmarked \in BOOLEAN
      BY <1>0 DEF JoinTypeOK
    <3>2. unmarked' = unmarked \/ unmarked' = TRUE
      BY <1>3 DEF SignupRefused, Checks, SignupFails
    <3>3. unmarked' \in BOOLEAN /\ (unmarked => unmarked')
      BY <3>1, <3>2
    <3>4. UNCHANGED <<users, admins, invited, signedIn, founder, acceptedBy, expired, firsts,
                      raced, rows, ask>>
      BY <1>3 DEF SignupRefused, Checks, SignupFails, inviteVars, acceptVars
    <3>. QED
      BY <3>3, <3>4
  <2>3. /\ isFirst' \in [People -> BOOLEAN]
        /\ \A q \in People : isFirst'[q] => isFirst[q]
    BY <1>0, <1>3 DEF SignupRefused, Checks, SignupFails, SignupOver, JoinTypeOK
  <2>4. JoinTypeOK'
    BY <1>0, <2>1, <2>2, <2>3 DEF JoinTypeOK
  <2>5. FirstInv' /\ OneInvitee' /\ OneAdmin'
    BY <1>0, <2>2, <2>3 DEF FirstInv, OneInvitee, OneAdmin
  <2>6. /\ UNCHANGED <<ask, rows, founder, raced>> /\ (unmarked => unmarked')
        /\ acceptedBy' = acceptedBy \/ acceptedBy' \in invited'
        /\ invited \subseteq invited'
        /\ \A q \in People : page'[q] = "signing in" => q \in users'
        /\ \A q \in People : page[q] = "joining" => page'[q] = "joining"
        /\ founder = NoPerson => \A q \in People : page'[q] \notin {"signing up", "signing in"}
    BY <1>0, <2>1, <2>2 DEF RowInv
  <2>. QED
    BY <2>4, <2>5, <2>6, SignupKeeps, ZenonT(60)
<1>4. CASE MayRegister(p) /\ Registers(p)
  <2>1. /\ signup' \in [People -> SignupSteps] /\ withToken' \in [People -> BOOLEAN]
        /\ page' \in [People -> Pages]
        /\ \A q \in People : \/ page'[q] = page[q]
                             \/ q = p /\ page[q] = "signing up" /\ page'[q] = "signing in"
    <3>1. SignupGoes(p, "no") /\ Hears(p, "signing in")
      BY <1>4 DEF Registers, SignupOver
    <3>2. signup' \in [People -> SignupSteps] /\ withToken' \in [People -> BOOLEAN]
      BY <1>0, <3>1, SignupType DEF SignupSteps
    <3>3. "signing in" \in Pages
      BY DEF Pages
    <3>. QED
      BY <1>0, <3>1, <3>2, <3>3, PageType
  <2>2. /\ UNCHANGED <<signedIn, founder, expired, firsts, raced, unmarked, rows, ask>>
        /\ users' = users \cup {p}
        /\ \/ ~isFirst[p] /\ admins' = admins
           \/ isFirst[p] /\ admins' = admins \cup {p}
        /\ \/ invited' = invited /\ acceptedBy' = acceptedBy
           \/ invited' = invited \cup {p} /\ acceptedBy = NoPerson /\ acceptedBy' = p
    BY <1>4 DEF Registers, MayRegister, acceptVars
  <2>3. /\ isFirst' \in [People -> BOOLEAN]
        /\ \A q \in People : isFirst'[q] <=> isFirst[q] /\ q # p
    BY <1>0, <1>4 DEF Registers, SignupOver, JoinTypeOK
  <2>4. JoinTypeOK'
    BY <1>0, <2>1, <2>2, <2>3 DEF JoinTypeOK
  <2>5. FirstInv'
    BY <1>0, <2>2, <2>3, NoPersonAssumption DEF FirstInv, JoinTypeOK
  <2>6. OneInvitee'
    BY <1>0, <2>2 DEF FirstInv, OneInvitee
  <2>7. OneAdmin'
    BY <1>0, <2>2 DEF FirstInv, OneAdmin
  <2>. QED
    BY <1>0, <2>1, <2>2, <2>4, <2>5, <2>6, <2>7, SignupKeeps DEF RowInv
<1>. QED
  BY <1>1, <1>2, <1>3, <1>4 DEF Inserts

\* One acceptance goes on to a step, with the rows of its person.
LEMMA AskType ==
  ASSUME JoinTypeOK, NEW p \in People, NEW v \in Vias, NEW to \in AskSteps, AskGoes(p, v, to)
  PROVE  /\ ask' \in [People -> [Vias -> AskSteps]]
         /\ \A q \in People, w \in Vias :
              ask'[q][w] = IF q = p /\ w = v THEN to ELSE ask[q][w]
  BY DEF JoinTypeOK, AskGoes

LEMMA AskEndType ==
  ASSUME JoinTypeOK, NEW p \in People, NEW v \in Vias, AskEnds(p, v)
  PROVE  /\ AskGoes(p, v, "no") /\ page' \in [People -> Pages]
         /\ \A q \in People : page'[q] = page[q] \/ (page'[q] = "dashboard" /\ q = p /\ v = "form")
  BY DEF JoinTypeOK, AskEnds, Pages

\* The steps of one acceptance, by what they do to the invitation and the rows.
AskEffect(p, v, to) ==
  \/ to = "no" /\ unmarked' /\ UNCHANGED <<rows, acceptedBy, raced>>
  \/ /\ to \in {"looking", "no"} /\ ask[p][v] = "reading"
     /\ to = "looking" => acceptedBy = NoPerson
     /\ raced' \in BOOLEAN /\ (raced => raced')
     /\ ~raced' => \A q \in People, w \in Vias : Found(q, w) => q = p /\ w = v
     /\ UNCHANGED <<rows, acceptedBy>>
  \/ /\ ask[p][v] = "looking"
     /\ \/ to = "inserting" /\ rows[p] = 0
        \/ to = "marking" /\ rows[p] > 0
     /\ UNCHANGED <<rows, acceptedBy, raced>>
  \/ /\ ask[p][v] = "inserting" /\ to = "marking"
     /\ rows' = [rows EXCEPT ![p] = @ + 1] /\ UNCHANGED <<acceptedBy, raced>>
  \/ /\ ask[p][v] = "marking" /\ to = "no"
     /\ acceptedBy' = p /\ UNCHANGED <<rows, raced>>

LEMMA AskEffectType ==
  ASSUME JoinTypeOK, NEW p \in People, NEW v \in Vias, NEW to, AskEffect(p, v, to)
  PROVE  /\ rows' \in [People -> Nat] /\ raced' \in BOOLEAN /\ acceptedBy' \in People \cup {NoPerson}
         /\ \A q \in People : rows'[q] = IF q = p /\ ask[p][v] = "inserting" /\ to = "marking"
                                         THEN rows[q] + 1 ELSE rows[q]
         /\ acceptedBy' \in {acceptedBy, p} /\ (raced => raced')
         /\ acceptedBy' # acceptedBy => ask[p][v] = "marking"
<1>1. CASE rows' = rows
  <2>1. ~(ask[p][v] = "inserting" /\ to = "marking")
    BY <1>1 DEF AskEffect, JoinTypeOK
  <2>. QED
    BY <1>1, <2>1 DEF AskEffect, JoinTypeOK
<1>2. CASE rows' # rows
  BY <1>2 DEF AskEffect, JoinTypeOK
<1>. QED
  BY <1>1, <1>2

LEMMA AskKeeps ==
  ASSUME JoinInv, NEW p \in People, NEW v \in Vias, NEW to \in AskSteps, AskGoes(p, v, to),
         ask[p][v] # "no", AskEffect(p, v, to),
         page' \in [People -> Pages],
         \A q \in People : page'[q] = page[q] \/ (page'[q] = "dashboard" /\ q = p /\ v = "form" /\ to = "no"),
         UNCHANGED <<users, admins, invited, signedIn, signup, withToken, isFirst, firsts,
                     founder, expired>>,
         unmarked' \in BOOLEAN, unmarked => unmarked'
  PROVE  JoinInv'
<1>0. JoinTypeOK /\ FirstInv /\ RowInv /\ OpenInv
  BY DEF JoinInv
<1>1. /\ ask' \in [People -> [Vias -> AskSteps]]
      /\ \A q \in People, w \in Vias : ask'[q][w] = IF q = p /\ w = v THEN to ELSE ask[q][w]
  BY <1>0, AskType
<1>2. /\ rows' \in [People -> Nat] /\ raced' \in BOOLEAN /\ acceptedBy' \in People \cup {NoPerson}
      /\ \A q \in People : rows'[q] = IF q = p /\ ask[p][v] = "inserting" /\ to = "marking"
                                      THEN rows[q] + 1 ELSE rows[q]
      /\ acceptedBy' \in {acceptedBy, p} /\ (raced => raced')
      /\ acceptedBy' # acceptedBy => ask[p][v] = "marking"
  BY <1>0, AskEffectType
<1>3. JoinTypeOK'
  BY <1>0, <1>1, <1>2 DEF JoinTypeOK
<1>4. FirstInv' /\ OneInvitee' /\ OneAdmin'
  BY <1>2, NoPersonAssumption DEF JoinInv, FirstInv, OneInvitee, OneAdmin
<1>5. founder # NoPerson
  BY <1>0 DEF RowInv
<1>6. RowInv'
  <2>1. \A q \in People : rows[q] \in Nat /\ (rows[q] > 0 => rows'[q] > 0)
    BY <1>0, <1>2 DEF JoinTypeOK
  <2>2. to = "marking" => rows'[p] > 0
    <3>1. CASE ask[p][v] = "inserting"
      BY <1>2, <2>1, <3>1
    <3>2. CASE ask[p][v] # "inserting"
      <4>1. to = "marking" => rows[p] > 0
        BY <3>2 DEF AskEffect
      <4>. QED
        BY <2>1, <4>1
    <3>. QED
      BY <3>1, <3>2
  <2>3. ASSUME NEW q \in People, NEW w \in Vias, ask'[q][w] = "marking" PROVE rows'[q] > 0
    <3>1. CASE q = p /\ w = v
      BY <1>1, <2>2, <2>3, <3>1
    <3>2. CASE ~(q = p /\ w = v)
      <4>1. ask[q][w] = "marking"
        BY <1>1, <2>3, <3>2
      <4>. QED
        BY <1>0, <2>1, <4>1 DEF RowInv
    <3>. QED
      BY <3>1, <3>2
  <2>4. /\ \A q \in People : page'[q] = "signing in" => q \in users'
        /\ \A q \in People : ask'[q]["form"] # "no" => page'[q] = "joining"
    BY <1>0, <1>1 DEF RowInv, Vias
  <2>. QED
    BY <1>5, <2>3, <2>4 DEF RowInv
<1>7. AcceptedBelongs'
  <2>1. \A q \in People : rows[q] > 0 => rows'[q] > 0
    BY <1>0, <1>2 DEF JoinTypeOK
  <2>2. acceptedBy' # acceptedBy => rows[p] > 0 /\ acceptedBy' = p
    BY <1>0, <1>2 DEF RowInv
  <2>3. acceptedBy \in People \cup {NoPerson}
    BY <1>0 DEF JoinTypeOK
  <2>. QED
    BY <2>1, <2>2, <2>3, <1>2 DEF JoinInv, AcceptedBelongs
<1>8. MemberOnce'
  <2>1. \A q \in People : rows[q] \in Nat
    BY <1>0 DEF JoinTypeOK
  <2>2. ASSUME ~raced, ask[p][v] = "inserting" PROVE rows[p] = 0
    BY <1>0, <2>2 DEF OpenInv
  <2>. QED
    BY <1>2, <2>1, <2>2 DEF JoinInv, MemberOnce
<1>9. OpenInv'
  <2> SUFFICES ASSUME ~raced' PROVE OpenInv'
    BY DEF OpenInv
  <2>0. ~raced
    BY <1>2
  <2>1. \A q \in People, w \in Vias : Found(q, w)' => IF q = p /\ w = v THEN to \notin {"no", "reading"}
                                                      ELSE Found(q, w)
    BY <1>1 DEF Found
  <2>2. to \notin {"no", "reading"} => \A q \in People, w \in Vias : Found(q, w) => q = p /\ w = v
    BY <1>0, <2>0 DEF AskEffect, OpenInv, Found, AskSteps
  <2>3. \A q, r \in People, w, x \in Vias : Found(q, w)' /\ Found(r, x)' => q = r /\ w = x
    BY <1>0, <2>0, <2>1, <2>2 DEF OpenInv
  <2>4. \A q \in People, w \in Vias : ask'[q][w] = "inserting" => rows'[q] = 0
    <3>1. ASSUME NEW q \in People, NEW w \in Vias, ask'[q][w] = "inserting" PROVE rows'[q] = 0
      <4>1. Found(q, w)'
        BY <3>1 DEF Found, AskSteps
      <4>2. CASE q = p /\ w = v
        BY <1>1, <1>2, <3>1, <4>2 DEF AskEffect
      <4>3. CASE ~(q = p /\ w = v)
        <5>1. ask[q][w] = "inserting" /\ rows[q] = 0
          BY <1>0, <1>1, <2>0, <3>1, <4>3 DEF OpenInv
        <5>2. to # "marking"
          BY <2>1, <2>2, <4>1, <4>3
        <5>. QED
          BY <1>2, <5>1, <5>2
      <4>. QED
        BY <4>2, <4>3
    <3>. QED
      BY <3>1
  <2>5. ASSUME ~unmarked', NEW q \in People \ {founder}, rows'[q] > 0
        PROVE  acceptedBy' # NoPerson \/ \E w \in Vias : ask'[q][w] = "marking"
    <3>1. CASE rows[q] > 0
      <4>1. acceptedBy # NoPerson \/ \E w \in Vias : ask[q][w] = "marking"
        BY <1>0, <2>0, <2>5, <3>1 DEF OpenInv
      <4>2. CASE acceptedBy # NoPerson
        BY <1>2, <4>2, NoPersonAssumption
      <4>3. ASSUME NEW w \in Vias, ask[q][w] = "marking"
            PROVE  acceptedBy' # NoPerson \/ \E x \in Vias : ask'[q][x] = "marking"
        <5>1. CASE q = p /\ w = v
          BY <2>5, <4>3, <5>1, NoPersonAssumption DEF AskEffect
        <5>2. CASE ~(q = p /\ w = v)
          BY <1>1, <4>3, <5>2
        <5>. QED
          BY <5>1, <5>2
      <4>. QED
        BY <4>1, <4>2, <4>3
    <3>2. CASE ~(rows[q] > 0)
      BY <1>0, <1>1, <1>2, <2>5, <3>2 DEF JoinTypeOK
    <3>. QED
      BY <3>1, <3>2
  <2>6. ASSUME ~unmarked', NEW q \in People, NEW w \in Vias, ask'[q][w] \in {"looking", "inserting"},
               NEW r \in People \ {founder}
        PROVE  rows'[r] = 0
    <3>0. Found(q, w)' /\ rows[r] \in Nat
      BY <1>0, <2>6 DEF Found, AskSteps, JoinTypeOK
    <3>1. CASE q = p /\ w = v
      <4>1. to # "marking" /\ rows'[r] = rows[r]
        BY <1>1, <1>2, <2>6, <3>1
      <4>2. CASE ask[p][v] = "looking"
        BY <1>0, <2>0, <2>6, <4>1, <4>2 DEF OpenInv
      <4>3. CASE to = "looking" /\ acceptedBy = NoPerson /\ ask[p][v] = "reading"
        <5>1. \A x \in Vias : ask[r][x] # "marking"
          BY <2>2, <4>3 DEF Found, AskSteps
        <5>2. ~(rows[r] > 0)
          BY <1>0, <2>0, <2>6, <4>3, <5>1 DEF OpenInv
        <5>. QED
          BY <3>0, <4>1, <5>2
      <4>. QED
        BY <1>1, <2>6, <3>1, <4>2, <4>3 DEF AskEffect
    <3>2. CASE ~(q = p /\ w = v)
      <4>1. to # "marking" /\ ask[q][w] \in {"looking", "inserting"}
        BY <1>1, <2>1, <2>2, <2>6, <3>0, <3>2
      <4>. QED
        BY <1>0, <1>2, <2>0, <2>6, <4>1 DEF OpenInv
    <3>. QED
      BY <3>1, <3>2
  <2>. QED
    BY <2>3, <2>4, <2>5, <2>6 DEF OpenInv
<1>10. JoinsOne'
  <2>1. ASSUME ~raced', ~unmarked', NEW q \in People \ {founder}, NEW r \in People \ {founder},
               rows'[q] > 0, rows'[r] > 0
        PROVE  q = r
    <3>1. CASE rows' = rows
      BY <1>2, <2>1, <3>1 DEF JoinInv, JoinsOne
    <3>2. CASE ask[p][v] = "inserting" /\ to = "marking"
      <4>1. rows[q] = 0 /\ rows[r] = 0
        BY <1>0, <1>2, <2>1, <3>2 DEF OpenInv
      <4>. QED
        BY <1>2, <2>1, <4>1
    <3>. QED
      BY <3>1, <3>2 DEF AskEffect
  <2>. QED
    BY <2>1 DEF JoinsOne
<1>. QED
  BY <1>3, <1>4, <1>6, <1>7, <1>8, <1>9, <1>10 DEF JoinInv

LEMMA AskStep ==
  ASSUME JoinInv, NEW p \in People, NEW v \in Vias,
         AskReads(p, v) \/ Looks(p, v) \/ Joins(p, v) \/ Marks(p, v) \/ AskFails(p, v)
  PROVE  JoinInv'
<1>0. JoinTypeOK /\ unmarked \in BOOLEAN /\ raced \in BOOLEAN /\ \A q \in People : rows[q] \in Nat
  BY DEF JoinInv, JoinTypeOK
<1>1. PICK to \in AskSteps :
        /\ AskGoes(p, v, to) /\ page' \in [People -> Pages]
        /\ \A q \in People : \/ page'[q] = page[q]
                             \/ page'[q] = "dashboard" /\ q = p /\ v = "form" /\ to = "no"
        /\ \/ AskReads(p, v) /\ to \in {"looking", "no"} /\ (to = "looking" => acceptedBy = NoPerson)
           \/ Looks(p, v) /\ to = IF rows[p] > 0 THEN "marking" ELSE "inserting"
           \/ Joins(p, v) /\ to = "marking"
           \/ Marks(p, v) /\ to = "no"
           \/ AskFails(p, v) /\ to = "no"
  <2>1. CASE AskReads(p, v)
    <3>1. CASE AskEnds(p, v)
      BY <1>0, <2>1, <3>1, AskEndType DEF AskSteps
    <3>2. CASE AskGoes(p, v, "looking") /\ UNCHANGED page /\ acceptedBy = NoPerson
      BY <1>0, <2>1, <3>2 DEF AskSteps, JoinTypeOK
    <3>. QED
      BY <2>1, <3>1, <3>2 DEF AskReads
  <2>2. CASE Looks(p, v)
    <3>1. PICK next : next = IF rows[p] > 0 THEN "marking" ELSE "inserting"
      OBVIOUS
    <3>2. next \in AskSteps /\ AskGoes(p, v, next) /\ UNCHANGED page
      BY <2>2, <3>1 DEF Looks, AskSteps
    <3>. QED
      BY <1>0, <2>2, <3>1, <3>2 DEF JoinTypeOK
  <2>3. CASE Joins(p, v)
    BY <1>0, <2>3 DEF Joins, AskSteps, JoinTypeOK
  <2>4. CASE Marks(p, v)
    BY <1>0, <2>4, AskEndType DEF Marks, AskSteps
  <2>5. CASE AskFails(p, v)
    BY <1>0, <2>5, AskEndType DEF AskFails, AskSteps
  <2>. QED
    BY <2>1, <2>2, <2>3, <2>4, <2>5
<1>2. /\ UNCHANGED <<users, admins, invited, signedIn, signup, withToken, isFirst, firsts,
                     founder, expired>>
      /\ ask[p][v] # "no"
  BY <1>1 DEF AskReads, Looks, Joins, Marks, AskFails, inviteVars, signupVars
<1>3. unmarked' \in BOOLEAN /\ (unmarked => unmarked')
  <2>1. unmarked' = unmarked \/ unmarked' = TRUE
    BY <1>1 DEF AskReads, Looks, Joins, Marks, AskFails
  <2>. QED
    BY <1>0, <2>1
<1>4. AskEffect(p, v, to)
  <2>1. CASE AskReads(p, v) /\ to \in {"looking", "no"} /\ (to = "looking" => acceptedBy = NoPerson)
    <3>1. /\ ask[p][v] = "reading" /\ UNCHANGED <<rows, acceptedBy>>
          /\ raced' = (raced \/ \E q \in People, w \in Vias :
                                  <<q, w>> # <<p, v>> /\ ask[q][w] \in AskSteps \ {"no", "reading"})
      BY <2>1 DEF AskReads, inviteVars
    <3>2. raced' \in BOOLEAN /\ (raced => raced')
      BY <1>0, <3>1
    <3>3. ~raced' => \A q \in People, w \in Vias : Found(q, w) => q = p /\ w = v
      BY <3>1 DEF Found
    <3>. QED
      BY <2>1, <3>1, <3>2, <3>3 DEF AskEffect
  <2>2. CASE Looks(p, v) /\ to = IF rows[p] > 0 THEN "marking" ELSE "inserting"
    BY <1>0, <2>2 DEF Looks, AskEffect, inviteVars
  <2>3. CASE Joins(p, v) /\ to = "marking"
    BY <2>3 DEF Joins, AskEffect, inviteVars
  <2>4. CASE Marks(p, v) /\ to = "no"
    BY <2>4 DEF Marks, AskEffect
  <2>5. CASE AskFails(p, v) /\ to = "no"
    BY <2>5 DEF AskFails, AskEffect, inviteVars
  <2>. QED
    BY <1>1, <2>1, <2>2, <2>3, <2>4, <2>5
<1>. QED
  BY <1>1, <1>2, <1>3, <1>4, AskKeeps, ZenonT(60)

\* Steps that leave the accounts to themselves, and begin acceptances.
LEMMA BeginKeeps ==
  ASSUME JoinInv, NEW p \in People, NEW v \in Vias, NEW to \in AskSteps, to \in {"no", "reading"},
         AskGoes(p, v, to), founder # NoPerson, ask[p][v] \in {"no", "reading"},
         page' \in [People -> Pages],
         \A q \in People : page'[q] = "signing in" => page[q] = "signing in",
         \A q \in People : ask'[q]["form"] # "no" => page'[q] = "joining",
         signedIn' \subseteq users,
         UNCHANGED <<users, admins, invited, founder, acceptedBy, expired, signup, withToken, isFirst,
                     firsts, rows, raced, unmarked>>
  PROVE  JoinInv'
<1>0. JoinTypeOK /\ FirstInv /\ RowInv /\ OpenInv
  BY DEF JoinInv
<1>1. /\ ask' \in [People -> [Vias -> AskSteps]]
      /\ \A q \in People, w \in Vias : ask'[q][w] = IF q = p /\ w = v THEN to ELSE ask[q][w]
  BY <1>0 DEF JoinTypeOK, AskGoes
<1>2. \A q \in People, w \in Vias : \/ ask'[q][w] = ask[q][w]
                                    \/ {ask'[q][w], ask[q][w]} \subseteq {"no", "reading"}
  BY <1>1
<1>3. JoinTypeOK'
  BY <1>0, <1>1 DEF JoinTypeOK
<1>4. FirstInv' /\ OneInvitee' /\ OneAdmin' /\ MemberOnce' /\ JoinsOne' /\ AcceptedBelongs'
  <2>1. FirstInv' /\ OneInvitee' /\ OneAdmin'
    BY DEF JoinInv, FirstInv, OneInvitee, OneAdmin
  <2>2. MemberOnce' /\ JoinsOne' /\ AcceptedBelongs'
    BY DEF JoinInv, MemberOnce, JoinsOne, AcceptedBelongs
  <2>. QED
    BY <2>1, <2>2
<1>5. RowInv'
  <2>1. \A q \in People, w \in Vias : ask'[q][w] = "marking" => ask[q][w] = "marking"
    BY <1>2
  <2>. QED
    BY <1>0, <2>1 DEF RowInv
<1>6. OpenInv'
  <2>1. \A q \in People, w \in Vias : Found(q, w)' => Found(q, w)
    BY <1>2 DEF Found
  <2>2. \A q \in People, w \in Vias : ask[q][w] \notin {"no", "reading"} => ask'[q][w] = ask[q][w]
    BY <1>2
  <2>3. ASSUME ~raced
        PROVE  /\ \A q, r \in People, w, x \in Vias : (Found(q, w) /\ Found(r, x))' => q = r /\ w = x
               /\ \A q \in People, w \in Vias : ask'[q][w] = "inserting" => rows[q] = 0
    <3>1. \A q, r \in People, w, x \in Vias : Found(q, w)' /\ Found(r, x)' => q = r /\ w = x
      BY <1>0, <2>1, <2>3 DEF OpenInv
    <3>2. \A q \in People, w \in Vias : ask'[q][w] = "inserting" => ask[q][w] = "inserting"
      BY <1>2
    <3>. QED
      BY <1>0, <2>3, <3>1, <3>2 DEF OpenInv
  <2>4. ASSUME ~raced, ~unmarked, NEW q \in People \ {founder}, rows[q] > 0
        PROVE  acceptedBy # NoPerson \/ \E w \in Vias : ask'[q][w] = "marking"
    <3>1. \A w \in Vias : ask[q][w] = "marking" => ask'[q][w] = "marking"
      BY <2>2, <2>4
    <3>2. acceptedBy # NoPerson \/ \E w \in Vias : ask[q][w] = "marking"
      BY <1>0, <2>4 DEF OpenInv
    <3>. QED
      BY <3>1, <3>2
  <2>5. ASSUME ~raced, ~unmarked, NEW q \in People, NEW w \in Vias,
               ask'[q][w] \in {"looking", "inserting"}
        PROVE  \A r \in People \ {founder} : rows[r] = 0
    BY <1>0, <1>2, <2>5 DEF OpenInv
  <2>. QED
    BY <2>3, <2>4, <2>5 DEF OpenInv
<1>. QED
  BY <1>3, <1>4, <1>5, <1>6 DEF JoinInv

\* The two disjuncts of SignsIn.
SignInFails(p) ==
  /\ page[p] = "signing in"
  /\ page' = [page EXCEPT ![p] = "error"]
  /\ UNCHANGED <<ask, signedIn>>
  /\ UNCHANGED <<inviteVars, signupVars, rows, raced, unmarked>>

SignInJoins(p) ==
  /\ page[p] = "signing in"
  /\ signedIn' = signedIn \cup {p}
  /\ page' = [page EXCEPT ![p] = "joining"]
  /\ AskGoes(p, "form", "reading")
  /\ UNCHANGED <<inviteVars, signupVars, rows, raced, unmarked>>

LEMMA OtherJoinStep ==
  ASSUME JoinInv,
         \/ Expire \/ UNCHANGED joinVars
         \/ \E p \in People : Founds(p) \/ SignsIn(p) \/ LogsIn(p) \/ EffectAccepts(p) \/ Reopens(p)
  PROVE  JoinInv'
<1>0. JoinTypeOK /\ FirstInv /\ RowInv /\ OpenInv /\ OneInvitee /\ OneAdmin
  BY DEF JoinInv
<1>1. CASE Expire \/ UNCHANGED joinVars \/ \E p \in People : LogsIn(p) \/ Reopens(p) \/ SignInFails(p)
  <2>1. /\ UNCHANGED <<users, admins, invited, founder, acceptedBy, rows, signup, withToken, isFirst, ask,
                       raced, firsts, unmarked>>
        /\ page' \in [People -> Pages] /\ signedIn' \subseteq users
        /\ \A q \in People : page'[q] = page[q] \/ page'[q] \in {"open", "error"}
        /\ \A q \in People : page[q] = "joining" => page'[q] = "joining"
        /\ expired' \in BOOLEAN
    <3>1. CASE Expire
      BY <1>0, <3>1 DEF Expire, JoinTypeOK, signupVars, acceptVars
    <3>2. CASE UNCHANGED joinVars
      BY <1>0, <3>2 DEF JoinTypeOK, joinVars, inviteVars, signupVars, acceptVars
    <3>3. ASSUME NEW p \in People, LogsIn(p) \/ Reopens(p) \/ SignInFails(p)
          PROVE  /\ UNCHANGED <<users, admins, invited, founder, acceptedBy, rows, signup, withToken,
                                isFirst, ask, raced, firsts, unmarked, expired>>
                 /\ page' \in [People -> Pages] /\ signedIn' \subseteq users
                 /\ \A q \in People : page'[q] = page[q] \/ page'[q] \in {"open", "error"}
                 /\ \A q \in People : page[q] = "joining" => page'[q] = "joining"
      BY <1>0, <3>3
         DEF LogsIn, Reopens, SignInFails, JoinTypeOK, Pages, inviteVars, signupVars, acceptVars
    <3>4. expired \in BOOLEAN
      BY <1>0 DEF JoinTypeOK
    <3>. QED
      BY <1>1, <3>1, <3>2, <3>3, <3>4
  <2>2. JoinTypeOK'
    BY <1>0, <2>1 DEF JoinTypeOK
  <2>3. FirstInv' /\ OneInvitee' /\ OneAdmin'
    BY <1>0, <2>1 DEF FirstInv, OneInvitee, OneAdmin
  <2>. QED
    BY <1>0, <2>1, <2>2, <2>3, SignupKeeps DEF RowInv
<1>2. ASSUME NEW p \in People, SignInJoins(p) PROVE JoinInv'
  <2>1. /\ page[p] = "signing in" /\ signedIn' = signedIn \cup {p}
        /\ page' = [page EXCEPT ![p] = "joining"] /\ AskGoes(p, "form", "reading")
        /\ UNCHANGED <<users, admins, invited, founder, acceptedBy, expired, signup, withToken, isFirst,
                       firsts, rows, raced, unmarked>>
    BY <1>2 DEF SignInJoins, inviteVars, signupVars
  <2>2. PICK v \in Vias : v = "form"
    BY DEF Vias
  <2>3. founder # NoPerson /\ p \in users /\ ask[p][v] = "no"
    BY <1>0, <2>1, <2>2 DEF RowInv
  <2>4. /\ page' \in [People -> Pages] /\ signedIn' \subseteq users
        /\ \A q \in People : page'[q] = IF q = p THEN "joining" ELSE page[q]
    BY <1>0, <2>1, <2>3 DEF JoinTypeOK, Pages
  <2>5. AskGoes(p, v, "reading") /\ "reading" \in AskSteps
    BY <2>1, <2>2 DEF AskSteps
  <2>6. \A q \in People : ask'[q]["form"] # "no" => page'[q] = "joining"
    BY <1>0, <2>2, <2>4, <2>5, AskType DEF RowInv, Vias
  <2>. QED
    BY <2>1, <2>3, <2>4, <2>5, <2>6, BeginKeeps
<1>3. ASSUME NEW p \in People, EffectAccepts(p) PROVE JoinInv'
  <2>1. PICK v \in Vias : v = "effect"
    BY DEF Vias
  <2>2. /\ AskGoes(p, v, "reading") /\ founder # NoPerson /\ ask[p][v] = "no"
        /\ UNCHANGED <<users, admins, invited, founder, acceptedBy, expired, signup, withToken, isFirst,
                       firsts, rows, raced, unmarked, signedIn, page>>
    BY <1>3, <2>1 DEF EffectAccepts, inviteVars, signupVars
  <2>3. page' \in [People -> Pages] /\ signedIn' \subseteq users
    BY <1>0, <2>2 DEF JoinTypeOK
  <2>4. "reading" \in AskSteps /\ AskGoes(p, v, "reading")
    BY <2>2 DEF AskSteps
  <2>5. \A q \in People : ask'[q]["form"] # "no" => page'[q] = "joining"
    BY <1>0, <2>1, <2>2, <2>4, AskType DEF RowInv, Vias
  <2>. QED
    BY <2>2, <2>3, <2>4, <2>5, BeginKeeps
<1>4. ASSUME NEW p \in People, Founds(p) PROVE JoinInv'
  <2>1. /\ founder = NoPerson /\ founder' = p /\ p # NoPerson
        /\ rows' = [rows EXCEPT ![p] = 1]
        /\ UNCHANGED <<users, admins, invited, acceptedBy, expired, signup, withToken, isFirst,
                       firsts, ask, raced, unmarked, signedIn, page>>
    BY <1>4, NoPersonAssumption DEF Founds, signupVars
  <2>2. \A q \in People : rows[q] = 0 /\ \A v \in Vias : ask[q][v] = "no"
    BY <1>0, <2>1 DEF RowInv
  <2>3. /\ rows' \in [People -> Nat]
        /\ \A q \in People : rows'[q] = IF q = p THEN 1 ELSE 0
    BY <1>0, <2>1, <2>2 DEF JoinTypeOK
  <2>4. JoinTypeOK'
    BY <1>0, <2>1, <2>3 DEF JoinTypeOK
  <2>5. FirstInv' /\ OneInvitee' /\ OneAdmin'
    BY <1>0, <2>1 DEF FirstInv, OneInvitee, OneAdmin
  <2>6. RowInv'
    BY <1>0, <2>1, <2>2, <2>3 DEF RowInv
  <2>7. OpenInv'
    BY <2>1, <2>2, <2>3 DEF OpenInv, Found
  <2>8. MemberOnce' /\ JoinsOne'
    BY <2>1, <2>3 DEF MemberOnce, JoinsOne
  <2>9. AcceptedBelongs'
    BY <1>0, <2>1, <2>2, <2>3 DEF JoinInv, AcceptedBelongs, JoinTypeOK
  <2>. QED
    BY <2>4, <2>5, <2>6, <2>7, <2>8, <2>9 DEF JoinInv
<1>5. ASSUME NEW p \in People, SignsIn(p) PROVE SignInJoins(p) \/ SignInFails(p)
  BY <1>5 DEF SignsIn, SignInJoins, SignInFails
<1>. QED
  BY <1>1, <1>2, <1>3, <1>4, <1>5

\* The invariant of accounts, invitation and members.
THEOREM JoinInvariant == JoinSpec => []JoinInv
<1>1. JoinInit => JoinInv
  BY JoinStart
<1>2. JoinInv /\ [JoinNext]_joinVars => JoinInv'
  BY SignupStep, AskStep, OtherJoinStep DEF JoinNext
<1>. QED
  BY <1>1, <1>2, PTL DEF JoinSpec

\* People, pages and requests have their types.
THEOREM JoinTypeCorrect == JoinSpec => []JoinTypeOK
<1>1. JoinInv => JoinTypeOK
  BY DEF JoinInv
<1>. QED
  BY <1>1, JoinInvariant, PTL

\* Sign-ups that check the invitation at once still make one account with it: the
\* update of the invitation in the transaction decides.
THEOREM InviteMakesOne == JoinSpec => []OneInvitee
<1>1. JoinInv => OneInvitee
  BY DEF JoinInv
<1>. QED
  BY <1>1, JoinInvariant, PTL

\* One super_admin, but for a race of two first sign-ups.
THEOREM FirstIsAdmin == JoinSpec => []OneAdmin
<1>1. JoinInv => OneAdmin
  BY DEF JoinInv
<1>. QED
  BY <1>1, JoinInvariant, PTL

\* Looking for a membership and inserting it, from two places of one page, gives a
\* second row only when two acceptances were under way at once.
THEOREM NoSecondRow == JoinSpec => []MemberOnce
<1>1. JoinInv => MemberOnce
  BY DEF JoinInv
<1>. QED
  BY <1>1, JoinInvariant, PTL

\* Without a race and without a failure between row and mark, the invitation brings
\* one person.
THEOREM BringsOne == JoinSpec => []JoinsOne
<1>1. JoinInv => JoinsOne
  BY DEF JoinInv
<1>. QED
  BY <1>1, JoinInvariant, PTL

\* The person named in the invitation has joined or signed up with it, at every step.
THEOREM AcceptanceBacked == JoinSpec => []AcceptedBelongs
<1>1. JoinInv => AcceptedBelongs
  BY DEF JoinInv
<1>. QED
  BY <1>1, JoinInvariant, PTL

-----------------------------------------------------------------------------
(* Decisions and versions.  Of decisions that have not crossed one at the  *)
(* most is still to be logged (DecisionInv); the number of a version is    *)
(* one more than one that is there, and more than any unless two savings   *)
(* mixed (NumberInv); the configuration is the newest version, or on its   *)
(* way to become it, in the hands of the last editor (CurrentInv).         *)

DecisionInv ==
  ~crossed /\ ~gap =>
    /\ \A d, e \in Deciders : decision[d] = "logging" /\ decision[e] = "logging" => d = e
    /\ \A d \in Deciders : decision[d] = "logging" => status = Verdict(d)
    /\ (\A d \in Deciders : decision[d] # "logging") /\ log # <<>> => log[Len(log)] = status

NumberInv ==
  /\ \A w \in Savers : save[w] = "inserting" =>
       number[w] = 1 \/ \E j \in DOMAIN versions : versions[j].number = number[w] - 1
  /\ ~mixed =>
       /\ \A v, w \in Savers : save[v] = "inserting" /\ save[w] = "inserting" => v = w
       /\ \A w \in Savers, i \in DOMAIN versions : save[w] = "inserting" => versions[i].number < number[w]

EditInv == \A w \in Editors : save[w] = "updating" /\ w \notin behind => snapshot[w] = config

Holds(u) ==
  /\ snapshot[u] = config
  /\ \/ save[u] = "numbering"
     \/ save[u] = "inserting" /\ \A w \in Editors \ {u} : ~Saving(w)

CurrentInv ==
  ~mixed /\ ~gap /\ ~undone =>
    \/ \E u \in Editors : Holds(u)
    \/ /\ \A w \in Editors : ~Saving(w)
       /\ versions # <<>> => versions[Len(versions)].snapshot = config

GovInv ==
  /\ GovTypeOK /\ DecisionInv /\ NumberInv /\ EditInv /\ CurrentInv
  /\ NumbersGapless /\ NumbersOnce

Kept ==
  \/ config \subseteq config'
  \/ \E w \in behind : save[w] = "updating" /\ save'[w] = "numbering"

USE EditorsAssumption DEF Savers

LEMMA GovStart ==
  ASSUME GovInit
  PROVE  GovInv
<1>1. {crossed, mixed, gap, undone} \subseteq BOOLEAN
  BY DEF GovInit
<1>2. GovTypeOK
  BY <1>1 DEF GovInit, GovTypeOK, Version
<1>3. DecisionInv /\ EditInv
  BY DEF GovInit, DecisionInv, EditInv
<1>4. NumberInv /\ NumbersGapless /\ NumbersOnce
  BY DEF GovInit, NumberInv, NumbersGapless, NumbersOnce
<1>5. CurrentInv
  BY DEF GovInit, CurrentInv, Saving
<1>. QED
  BY <1>2, <1>3, <1>4, <1>5 DEF GovInv

LEMMA DecisionStep ==
  ASSUME GovInv, NEW d \in Deciders,
         \/ \E yes \in BOOLEAN : Decide(d, yes)
         \/ Updates(d) \/ Logs(d) \/ DecisionFails(d)
  PROVE  GovInv' /\ config' = config
<1>0. GovTypeOK /\ DecisionInv
  BY DEF GovInv
<1>1. UNCHANGED <<config, save, snapshot, number, versions, behind, mixed, undone>>
  BY DEF Decide, Updates, Logs, DecisionFails, versionVars
<1>2. gap' = gap \/ gap' = TRUE
  BY DEF Decide, Updates, Logs, DecisionFails
<1>3. gap' \in BOOLEAN /\ (gap => gap') /\ gap \in BOOLEAN /\ crossed \in BOOLEAN
  <2>1. gap \in BOOLEAN /\ crossed \in BOOLEAN
    BY <1>0 DEF GovTypeOK
  <2>. QED
    BY <1>2, <2>1
<1>4. Verdict(d) \in {"approved", "rejected"}
  BY DEF Verdict
<1>5. NumberInv' /\ EditInv' /\ NumbersGapless' /\ NumbersOnce'
  BY <1>1 DEF GovInv, NumberInv, EditInv, NumbersGapless, NumbersOnce
<1>6. CurrentInv'
  <2>1. (\A w \in Editors : Saving(w)' <=> Saving(w)) /\ (\A u \in Editors : Holds(u)' <=> Holds(u))
    BY <1>1 DEF Saving, Holds
  <2>. QED
    BY <1>1, <1>3, <2>1 DEF GovInv, CurrentInv
<1>7. crossed' \in BOOLEAN
  <2>1. CASE Updates(d)
    BY <1>3, <2>1 DEF Updates
  <2>2. CASE crossed' = crossed
    BY <1>3, <2>2
  <2>. QED
    BY <2>1, <2>2 DEF Decide, Logs, DecisionFails
<1>8. GovTypeOK'
  <2>1. {crossed, mixed, gap, undone}' \subseteq BOOLEAN
    BY <1>0, <1>1, <1>3, <1>7 DEF GovTypeOK
  <2>2. /\ decision' \in [Deciders -> {"idle", "updating", "logging", "done"}]
        /\ approved' \in [Deciders -> BOOLEAN]
        /\ status' \in {"pending", "approved", "rejected"}
    BY <1>0, <1>4 DEF GovTypeOK, Decide, Updates, Logs, DecisionFails
  <2>3. log' \in Seq({"approved", "rejected"})
    <3>1. log' = log \/ log' = Append(log, Verdict(d))
      BY DEF Decide, Updates, Logs, DecisionFails
    <3>2. log \in Seq({"approved", "rejected"})
      BY <1>0 DEF GovTypeOK
    <3> DEFINE v == Verdict(d)
               S == {"approved", "rejected"}
    <3>3. log \in Seq(S) /\ v \in S /\ (log' = log \/ log' = Append(log, v))
      BY <1>4, <3>1, <3>2
    <3>. HIDE DEF v, S
    <3>4. log' \in Seq(S)
      BY <3>3
    <3>. QED
      BY <3>4 DEF S
  <2>. QED
    BY <1>0, <1>1, <2>1, <2>2, <2>3 DEF GovTypeOK
<1>9. DecisionInv'
  <2>1. ASSUME NEW yes \in BOOLEAN, Decide(d, yes) PROVE DecisionInv'
    <3>1. /\ \A e \in Deciders : decision'[e] = "logging" <=> decision[e] = "logging"
          /\ \A e \in Deciders : decision[e] = "logging" => approved'[e] = approved[e]
          /\ UNCHANGED <<status, log, crossed, gap>>
      BY <1>0, <2>1 DEF Decide, GovTypeOK
    <3>. QED
      BY <1>0, <3>1 DEF DecisionInv, Verdict
  <2>2. CASE Updates(d)
    <3>1. /\ \A e \in Deciders : decision'[e] = IF e = d THEN "logging" ELSE decision[e]
          /\ status' = Verdict(d) /\ UNCHANGED <<approved, log, gap>>
          /\ crossed' = (crossed \/ \E e \in Deciders \ {d} : decision[e] = "logging")
      BY <1>0, <2>2 DEF Updates, GovTypeOK
    <3>. QED
      BY <1>0, <3>1 DEF DecisionInv, Verdict
  <2>3. CASE Logs(d)
    <3>1. /\ \A e \in Deciders : decision'[e] = IF e = d THEN "done" ELSE decision[e]
          /\ decision[d] = "logging" /\ log' = Append(log, Verdict(d))
          /\ UNCHANGED <<approved, status, crossed, gap>>
      BY <1>0, <2>3 DEF Logs, GovTypeOK
    <3>2. log'[Len(log')] = Verdict(d)
      BY <1>0, <1>4, <3>1 DEF GovTypeOK
    <3>. QED
      BY <1>0, <3>1, <3>2 DEF DecisionInv, Verdict
  <2>4. CASE DecisionFails(d)
    BY <2>4 DEF DecisionFails, DecisionInv
  <2>. QED
    BY <2>1, <2>2, <2>3, <2>4
<1>. QED
  BY <1>1, <1>5, <1>6, <1>8, <1>9 DEF GovInv

LEMMA SaveType ==
  ASSUME GovTypeOK, NEW w \in Savers,
         NEW to \in {"idle", "updating", "numbering", "inserting", "done"}, SaveGoes(w, to)
  PROVE  /\ save' \in [Savers -> {"idle", "updating", "numbering", "inserting", "done"}]
         /\ \A v \in Savers : save'[v] = IF v = w THEN to ELSE save[v]
  BY DEF GovTypeOK, SaveGoes

\* One that saves goes on to a step, without a version.
LEMMA SaveKeeps ==
  ASSUME GovInv, NEW w \in Savers, NEW to \in {"updating", "numbering", "done"}, SaveGoes(w, to),
         NEW x \in SUBSET Editors,
         to # "done" => snapshot' = [snapshot EXCEPT ![w] = x],
         to = "done" => snapshot' = snapshot,
         config' \in {config, x}, config' # config => to = "numbering",
         to = "updating" => x = config /\ w \in Editors /\ save[w] = "idle" /\ behind' = behind \ {w},
         to = "numbering" => \/ /\ w \in Editors /\ save[w] = "updating" /\ config' = x
                                /\ behind' = {v \in Editors \ {w} : save[v] = "updating"}
                             \/ /\ w \in Rollbacks /\ save[w] = "idle" /\ config' = config
                                /\ behind' = behind,
         to = "done" => gap' /\ behind' = behind \ {w},
         gap' \in BOOLEAN, gap => gap',
         UNCHANGED <<decisionVars, number, versions, mixed, undone>>
  PROVE  GovInv'
<1>0. GovTypeOK /\ NumberInv /\ EditInv /\ CurrentInv /\ DecisionInv
  BY DEF GovInv
<1>1. \A v \in Savers : save'[v] = IF v = w THEN to ELSE save[v]
  BY <1>0, SaveType
<1>2. GovTypeOK'
  <2>1. save' \in [Savers -> {"idle", "updating", "numbering", "inserting", "done"}]
    BY <1>0, SaveType
  <2>2. snapshot' \in [Savers -> SUBSET Editors] /\ config' \subseteq Editors /\ behind' \subseteq Editors
    BY <1>0 DEF GovTypeOK
  <2>3. {crossed, mixed, gap, undone}' \subseteq BOOLEAN
    BY <1>0 DEF GovTypeOK, decisionVars
  <2>. QED
    BY <1>0, <2>1, <2>2, <2>3 DEF GovTypeOK, decisionVars
<1>3. DecisionInv'
  <2>1. UNCHANGED <<status, decision, approved, log, crossed>>
    BY DEF decisionVars
  <2>. QED
    BY <1>0, <2>1 DEF DecisionInv, Verdict
<1>4. NumberInv' /\ NumbersGapless' /\ NumbersOnce'
  <2>1. \A v \in Savers : save'[v] = "inserting" => save[v] = "inserting"
    BY <1>1
  <2>2. NumberInv'
    BY <1>0, <2>1 DEF NumberInv
  <2>. QED
    BY <2>2 DEF GovInv, NumbersGapless, NumbersOnce
<1>5. \A v \in Savers : snapshot'[v] = IF v = w /\ to # "done" THEN x ELSE snapshot[v]
  BY <1>0 DEF GovTypeOK
<1>6. EditInv'
  BY <1>0, <1>1, <1>5 DEF EditInv
<1>7. CurrentInv'
  <2>1. CASE to = "done"
    BY <2>1 DEF CurrentInv
  <2>2. CASE to = "numbering" /\ w \in Editors
    <3>1. Holds(w)'
      BY <1>1, <1>5, <2>2 DEF Holds
    <3>. QED
      BY <2>2, <3>1 DEF CurrentInv
  <2>3. CASE to = "updating" \/ (to = "numbering" /\ w \in Rollbacks)
    <3>1. config' = config /\ ~Saving(w)
      BY <2>3 DEF Saving
    <3>2. \A v \in Editors : Saving(v)' <=> Saving(v)
      BY <1>1, <2>3, <3>1 DEF Saving
    <3>3. \A u \in Editors : Holds(u) => Holds(u)'
      BY <1>1, <1>5, <2>3, <3>1, <3>2 DEF Holds
    <3>. QED
      BY <1>0, <2>3, <3>1, <3>2, <3>3 DEF CurrentInv
  <2>. QED
    BY <2>1, <2>2, <2>3
<1>. QED
  BY <1>2, <1>3, <1>4, <1>6, <1>7 DEF GovInv

LEMMA SaveStep ==
  ASSUME GovInv, NEW w \in Savers,
         \/ w \in Editors /\ (EditReads(w) \/ EditWrites(w))
         \/ w \in Rollbacks /\ \E i \in DOMAIN versions : RollbackReads(w, i)
         \/ SaveFails(w)
  PROVE  GovInv' /\ Kept
<1>0. GovTypeOK /\ EditInv /\ gap \in BOOLEAN
  BY DEF GovInv, GovTypeOK
<1>1. CASE w \in Editors /\ EditReads(w)
  <2>1. PICK x \in SUBSET Editors : x = config
    BY <1>0 DEF GovTypeOK
  <2>2. GovInv'
    BY <1>0, <1>1, <2>1, SaveKeeps DEF EditReads
  <2>. QED
    BY <1>1, <2>2 DEF EditReads, Kept
<1>2. CASE w \in Editors /\ EditWrites(w)
  <2>1. PICK x \in SUBSET Editors : x = snapshot[w] \cup {w}
    BY <1>0, <1>2 DEF GovTypeOK
  <2>2. GovInv'
    BY <1>0, <1>2, <2>1, SaveKeeps DEF EditWrites
  <2>3. save'[w] = "numbering" /\ save[w] = "updating" /\ config' = x
    BY <1>0, <1>2, <2>1, SaveType DEF EditWrites
  <2>4. Kept
    BY <1>0, <1>2, <2>1, <2>3 DEF Kept, EditInv
  <2>. QED
    BY <2>2, <2>4
<1>3. ASSUME w \in Rollbacks, NEW i \in DOMAIN versions, RollbackReads(w, i) PROVE GovInv' /\ Kept
  <2>1. PICK x \in SUBSET Editors : x = versions[i].snapshot
    <3>1. versions[i] \in Version
      BY <1>0, <1>3 DEF GovTypeOK
    <3>. QED
      BY <3>1 DEF Version
  <2>2. GovInv'
    BY <1>0, <1>3, <2>1, SaveKeeps DEF RollbackReads
  <2>. QED
    BY <1>3, <2>2 DEF RollbackReads, Kept
<1>4. CASE SaveFails(w)
  <2>1. gap' /\ gap' \in BOOLEAN
    BY <1>4 DEF SaveFails
  <2>2. GovInv'
    BY <1>0, <1>4, <2>1, SaveKeeps DEF SaveFails
  <2>. QED
    BY <1>4, <2>2 DEF SaveFails, Kept
<1>. QED
  BY <1>1, <1>2, <1>3, <1>4

LEMMA NumbersStep ==
  ASSUME GovInv, NEW w \in Savers, Numbers(w)
  PROVE  GovInv' /\ Kept
<1>0. GovTypeOK /\ NumberInv /\ EditInv /\ CurrentInv /\ DecisionInv
  BY DEF GovInv
<1>1. PICK n \in {0} \cup {versions[i].number : i \in DOMAIN versions} :
        /\ \A i \in DOMAIN versions : versions[i].number <= n
        /\ number' = [number EXCEPT ![w] = n + 1]
  BY DEF Numbers
<1>2. n \in Nat /\ \A i \in DOMAIN versions : versions[i].number \in Nat
  <2>1. \A i \in DOMAIN versions : versions[i] \in Version
    BY <1>0 DEF GovTypeOK
  <2>2. \A i \in DOMAIN versions : versions[i].number \in Nat
    BY <2>1 DEF Version
  <2>. QED
    BY <2>2
<1>3. /\ \A v \in Savers : save'[v] = IF v = w THEN "inserting" ELSE save[v]
      /\ save' \in [Savers -> {"idle", "updating", "numbering", "inserting", "done"}]
      /\ save[w] = "numbering"
  BY <1>0, SaveType DEF Numbers
<1>4. /\ number' \in [Savers -> Nat]
      /\ \A v \in Savers : number'[v] = IF v = w THEN n + 1 ELSE number[v]
  BY <1>0, <1>1, <1>2 DEF GovTypeOK
<1>5. /\ UNCHANGED <<status, decision, approved, log, crossed>>
      /\ UNCHANGED <<config, snapshot, versions, behind, undone, gap>>
      /\ mixed' = (mixed \/ \E v \in Savers \ {w} : Saving(v))
  BY DEF Numbers, decisionVars
<1>6. mixed' \in BOOLEAN /\ (mixed => mixed')
  <2>1. mixed \in BOOLEAN
    BY <1>0 DEF GovTypeOK
  <2>. QED
    BY <1>5, <2>1
<1>7. GovTypeOK'
  <2>1. {crossed, mixed, gap, undone}' \subseteq BOOLEAN
    BY <1>0, <1>5, <1>6 DEF GovTypeOK
  <2>. QED
    BY <1>0, <1>3, <1>4, <1>5, <2>1 DEF GovTypeOK
<1>8. DecisionInv'
  BY <1>0, <1>5 DEF DecisionInv, Verdict
<1>9. EditInv'
  BY <1>0, <1>3, <1>5 DEF EditInv
<1>10. NumberInv'
  <2>1. n + 1 = 1 \/ \E j \in DOMAIN versions : versions[j].number = (n + 1) - 1
    BY <1>1, <1>2
  <2>2. \A v \in Savers : save'[v] = "inserting" =>
          number'[v] = 1 \/ \E j \in DOMAIN versions : versions[j].number = number'[v] - 1
    BY <1>0, <1>3, <1>4, <2>1 DEF NumberInv
  <2>3. ASSUME ~mixed' PROVE \A v \in Savers \ {w} : ~Saving(v)
    BY <1>5, <2>3
  <2>4. ASSUME ~mixed', NEW v \in Savers, save'[v] = "inserting" PROVE v = w
    BY <1>3, <2>3, <2>4 DEF Saving
  <2>5. \A i \in DOMAIN versions : versions[i].number < n + 1
    BY <1>1, <1>2
  <2>6. ASSUME ~mixed', NEW v \in Savers, NEW i \in DOMAIN versions, save'[v] = "inserting"
        PROVE  versions[i].number < number'[v]
    BY <1>4, <2>4, <2>5, <2>6
  <2>. QED
    BY <1>5, <2>2, <2>4, <2>6 DEF NumberInv
<1>11. NumbersGapless' /\ NumbersOnce'
  BY <1>5, <1>6 DEF GovInv, NumbersGapless, NumbersOnce
<1>12. CurrentInv'
  <2> SUFFICES ASSUME ~mixed', ~gap', ~undone' PROVE CurrentInv'
    BY DEF CurrentInv
  <2>1. ~mixed /\ \A v \in Savers \ {w} : ~Saving(v)
    BY <1>5, <1>6
  <2>3. \A v \in Editors : Saving(v)' <=> Saving(v)
    BY <1>3 DEF Saving
  <2>4. CASE \E u \in Editors : Holds(u)
    <3>1. PICK u \in Editors : Holds(u)
      BY <2>4
    <3>2. u = w
      BY <2>1, <3>1 DEF Holds, Saving
    <3>3. Holds(u)'
      BY <1>3, <1>5, <2>1, <2>3, <3>1, <3>2 DEF Holds
    <3>. QED
      BY <3>3 DEF CurrentInv
  <2>5. CASE /\ \A v \in Editors : ~Saving(v)
             /\ versions # <<>> => versions[Len(versions)].snapshot = config
    BY <1>5, <2>3, <2>5 DEF CurrentInv
  <2>. QED
    BY <1>0, <1>5, <2>1, <2>4, <2>5 DEF CurrentInv
<1>. QED
  BY <1>5, <1>7, <1>8, <1>9, <1>10, <1>11, <1>12 DEF GovInv, Kept

LEMMA InsertStep ==
  ASSUME GovInv, NEW w \in Savers, InsertsVersion(w)
  PROVE  GovInv' /\ Kept
<1>0. GovTypeOK /\ NumberInv /\ EditInv /\ CurrentInv /\ DecisionInv
  BY DEF GovInv
<1>1. PICK e : e = [number |-> number[w], snapshot |-> snapshot[w]]
  OBVIOUS
<1>2. e \in Version /\ e.number = number[w] /\ e.snapshot = snapshot[w] /\ number[w] \in Nat
  BY <1>0, <1>1 DEF GovTypeOK, Version
<1>3. /\ \A v \in Savers : save'[v] = IF v = w THEN "done" ELSE save[v]
      /\ save' \in [Savers -> {"idle", "updating", "numbering", "inserting", "done"}]
      /\ save[w] = "inserting"
  BY <1>0, SaveType DEF InsertsVersion
<1>4. /\ UNCHANGED <<status, decision, approved, log, crossed>>
      /\ UNCHANGED <<config, snapshot, number, behind, mixed, gap>>
      /\ undone' = (undone \/ w \in Rollbacks)
      /\ versions' = Append(versions, e)
  BY <1>1 DEF InsertsVersion, decisionVars
<1>5. /\ versions' \in Seq(Version) /\ DOMAIN versions' = DOMAIN versions \cup {Len(versions) + 1}
      /\ \A i \in DOMAIN versions : versions'[i] = versions[i]
      /\ versions'[Len(versions) + 1] = e /\ Len(versions') = Len(versions) + 1
      /\ DOMAIN versions = 1..Len(versions) /\ Len(versions) \in Nat
      /\ \A i \in DOMAIN versions : versions[i].number \in Nat
  <2>1. versions \in Seq(Version)
    BY <1>0 DEF GovTypeOK
  <2>2. \A i \in DOMAIN versions : versions[i].number \in Nat
    <3>1. \A i \in DOMAIN versions : versions[i] \in Version
      BY <2>1
    <3>. QED
      BY <3>1 DEF Version
  <2>. QED
    BY <1>2, <1>4, <2>1, <2>2
<1>6. undone' \in BOOLEAN /\ (undone => undone') /\ (w \in Rollbacks => undone')
  <2>1. undone \in BOOLEAN
    BY <1>0 DEF GovTypeOK
  <2>. QED
    BY <1>4, <2>1
<1>7. GovTypeOK'
  <2>1. {crossed, mixed, gap, undone}' \subseteq BOOLEAN
    BY <1>0, <1>4, <1>6 DEF GovTypeOK
  <2>. QED
    BY <1>0, <1>3, <1>4, <1>5, <2>1 DEF GovTypeOK
<1>8. DecisionInv'
  BY <1>0, <1>4 DEF DecisionInv, Verdict
<1>9. EditInv'
  BY <1>0, <1>3, <1>4 DEF EditInv
<1>10. NumberInv'
  <2>1. \A v \in Savers : save'[v] = "inserting" => save[v] = "inserting" /\ v # w
    BY <1>3
  <2>2. \A v \in Savers : save'[v] = "inserting" =>
          number'[v] = 1 \/ \E j \in DOMAIN versions' : versions'[j].number = number'[v] - 1
    BY <1>0, <1>4, <1>5, <2>1 DEF NumberInv
  <2>3. ~mixed => \A v \in Savers : save'[v] # "inserting"
    BY <1>0, <1>3, <2>1 DEF NumberInv
  <2>. QED
    BY <1>4, <2>2, <2>3 DEF NumberInv
<1>11. NumbersGapless'
  <2>1. ASSUME NEW i \in DOMAIN versions
        PROVE  versions'[i].number = 1 \/ \E j \in 1..(i - 1) : versions'[j].number = versions'[i].number - 1
    <3>1. versions[i].number = 1 \/ \E j \in 1..(i - 1) : versions[j].number = versions[i].number - 1
      BY DEF GovInv, NumbersGapless
    <3>2. \A j \in 1..(i - 1) : j \in DOMAIN versions
      BY <1>5
    <3>. QED
      BY <1>5, <3>1, <3>2
  <2>2. e.number = 1 \/ \E j \in 1..Len(versions) : versions'[j].number = e.number - 1
    BY <1>0, <1>2, <1>3, <1>5 DEF NumberInv
  <2>3. \A i \in DOMAIN versions' : i \in DOMAIN versions \/ (i = Len(versions) + 1 /\ i - 1 = Len(versions))
    BY <1>5
  <2>. QED
    BY <1>5, <2>1, <2>2, <2>3 DEF NumbersGapless
<1>12. NumbersOnce'
  <2>1. ASSUME ~mixed, NEW i \in DOMAIN versions PROVE versions[i].number < e.number
    BY <1>0, <1>2, <1>3, <2>1 DEF NumberInv
  <2>2. ASSUME ~mixed, NEW i \in DOMAIN versions PROVE versions[i].number # e.number
    BY <1>2, <1>5, <2>1, <2>2
  <2>. QED
    BY <1>4, <1>5, <2>2 DEF GovInv, NumbersOnce
<1>13. CurrentInv'
  <2> SUFFICES ASSUME ~mixed', ~gap', ~undone' PROVE CurrentInv'
    BY DEF CurrentInv
  <2>1. ~mixed /\ ~gap /\ ~undone /\ w \in Editors
    BY <1>4, <1>6
  <2>2. \A v \in Editors : Saving(v)' <=> Saving(v) /\ v # w
    BY <1>3 DEF Saving
  <2>3. Saving(w)
    BY <1>3 DEF Saving
  <2>4. PICK u \in Editors : Holds(u)
    BY <1>0, <2>1, <2>3 DEF CurrentInv
  <2>5. CASE u = w
    <3>1. \A v \in Editors : ~Saving(v)'
      BY <1>3, <2>2, <2>4, <2>5 DEF Holds
    <3>2. versions'[Len(versions')].snapshot = config'
      BY <1>2, <1>4, <1>5, <2>4, <2>5 DEF Holds
    <3>. QED
      BY <3>1, <3>2 DEF CurrentInv
  <2>6. CASE u # w
    <3>1. save[u] = "numbering" /\ snapshot[u] = config
      BY <2>1, <2>3, <2>4, <2>6 DEF Holds
    <3>2. Holds(u)'
      BY <1>3, <1>4, <2>6, <3>1 DEF Holds
    <3>. QED
      BY <3>2 DEF CurrentInv
  <2>. QED
    BY <2>5, <2>6
<1>. QED
  BY <1>4, <1>7, <1>8, <1>9, <1>10, <1>11, <1>12, <1>13 DEF GovInv, Kept

LEMMA GovStutter ==
  ASSUME GovInv, UNCHANGED govVars
  PROVE  GovInv' /\ Kept
<1> USE DEF govVars, decisionVars, versionVars
<1>1. GovTypeOK' /\ Kept
  BY DEF GovInv, GovTypeOK, Kept
<1>2. DecisionInv' /\ EditInv'
  BY DEF GovInv, DecisionInv, EditInv, Verdict
<1>3. NumberInv' /\ NumbersGapless' /\ NumbersOnce'
  BY DEF GovInv, NumberInv, NumbersGapless, NumbersOnce
<1>4. CurrentInv'
  BY DEF GovInv, CurrentInv, Holds, Saving
<1>. QED
  BY <1>1, <1>2, <1>3, <1>4 DEF GovInv

LEMMA GovStep ==
  ASSUME GovInv, [GovNext]_govVars
  PROVE  GovInv' /\ Kept
<1>1. config' = config => Kept
  <2>1. config \subseteq config
    OBVIOUS
  <2>. QED
    BY <2>1 DEF Kept
<1>. QED
  BY <1>1, DecisionStep, SaveStep, NumbersStep, InsertStep, GovStutter DEF GovNext

\* The invariant of decisions and versions.
THEOREM GovInvariant == GovSpec => []GovInv
<1>1. GovInit => GovInv
  BY GovStart
<1>2. GovInv /\ [GovNext]_govVars => GovInv'
  BY GovStep
<1>. QED
  BY <1>1, <1>2, PTL DEF GovSpec

\* The request, the audit log, the configuration and its versions have their types.
THEOREM GovTypeCorrect == GovSpec => []GovTypeOK
<1>1. GovInv => GovTypeOK
  BY DEF GovInv
<1>. QED
  BY <1>1, GovInvariant, PTL

\* The audit log ends with the decision the request has, unless two crossed or a
\* query failed: deciding and logging are two queries.
THEOREM LogFollows == GovSpec => []LogAgrees
<1>1. GovInv => LogAgrees
  BY DEF GovInv, DecisionInv, LogAgrees
<1>. QED
  BY <1>1, GovInvariant, PTL

\* Versions are numbered without a gap, also when savings race and fail.
THEOREM NoNumberLeftOut == GovSpec => []NumbersGapless
<1>1. GovInv => NumbersGapless
  BY DEF GovInv
<1>. QED
  BY <1>1, GovInvariant, PTL

\* Reading the latest number and inserting the next gives every number once, but for
\* a race of two savings.
THEOREM NoNumberTwice == GovSpec => []NumbersOnce
<1>1. GovInv => NumbersOnce
  BY DEF GovInv
<1>. QED
  BY <1>1, GovInvariant, PTL

\* Without a race, a failure and a rollback the newest version is what the agent has.
THEOREM NewestVersion == GovSpec => []NewestIsCurrent
<1>1. GovInv => NewestIsCurrent
  BY DEF GovInv, CurrentInv, Holds, Saving, NewestIsCurrent
<1>. QED
  BY <1>1, GovInvariant, PTL

\* An edit is lost only to an editor that has read the row before it.
THEOREM NoEditLost == GovSpec => EditsKept
<1>1. GovInv /\ [GovNext]_govVars => Kept
  BY GovStep
<1>. QED
  BY <1>1, GovInvariant, PTL DEF GovSpec, EditsKept, Kept

\* For any writers of a runtime's metadata, stored, remembered and presented
\* credentials agree.
THEOREM CredentialsStayTrue == CredSpec => []CredentialsAgree
  BY CredTypeCorrect, OwnCredentials, MemoryInStep, RejectedForGood, PTL
  DEF CredentialsAgree

\* For any numbers of requests, looking and then inserting finds or makes one
\* row.
THEOREM FindsOne == FocSpec => []FoundOnce
  BY FocTypeCorrect, SameWorkspace, WorkspaceFound, SameSession, FailureHasReason, PTL
  DEF FoundOnce

\* For any people, an invitation brings in one of them, once.
THEOREM JoinIsSound == JoinSpec => []JoinSound
  BY JoinTypeCorrect, InviteMakesOne, FirstIsAdmin, NoSecondRow, BringsOne, AcceptanceBacked, PTL
  DEF JoinSound

\* For any deciders and editors, audit log and versions record what happened.
THEOREM HistoryIsTrue == GovSpec => []HistoryTrue
  BY GovTypeCorrect, LogFollows, NoNumberLeftOut, NoNumberTwice, NewestVersion, PTL
  DEF HistoryTrue
=============================================================================

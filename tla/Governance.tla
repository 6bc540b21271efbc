----------------------------- MODULE Governance -----------------------------
(***************************************************************************)
(* Decisions on an approval request and the versions of an agent's runtime *)
(* configuration (src/src/lib/governance.ts, with the PATCH handler of     *)
(* src/src/app/api/agents/[callsign]/route.ts that saves a version).       *)
(*                                                                         *)
(* One request, one agent.  An action ends at the next query.  The         *)
(* configuration is the set of edits it contains; the audit log is kept of *)
(* decisions only.                                                         *)
(***************************************************************************)
EXTENDS Integers, Sequences

CONSTANTS
  Deciders, \* decisions on the request
  Editors,  \* PATCH requests, each with a field of its own
  Rollbacks \* rollback requests

ASSUME EditorsAssumption == Editors \cap Rollbacks = {}

Savers == Editors \cup Rollbacks

VARIABLES
  status,    \* of the request
  decision,  \* the query a decision is at
  approved,  \* what it says
  log,       \* the decisions in the audit log
  config,    \* runtimeConfig of the agent
  save,      \* the query an edit or a rollback is at
  snapshot,  \* the configuration it has read, and then the one it saves
  number,    \* nextVersion
  versions,  \* configVersions of the agent, as they were inserted
  crossed,   \* ghost: two decisions were under way at once
  behind,    \* ghost: edits that have not seen the last one
  mixed,     \* ghost: two savings of versions were under way at once
  gap,       \* ghost: a query failed
  undone     \* ghost: a rollback has saved an old configuration

decisionVars == <<status, decision, approved, log, crossed>>
versionVars == <<config, save, snapshot, number, versions, behind, mixed, undone>>
govVars == <<decisionVars, versionVars, gap>>

Version == [number : Nat, snapshot : SUBSET Editors]

GovTypeOK ==
  /\ status \in {"pending", "approved", "rejected"}
  /\ decision \in [Deciders -> {"idle", "updating", "logging", "done"}]
  /\ approved \in [Deciders -> BOOLEAN]
  /\ log \in Seq({"approved", "rejected"})
  /\ config \subseteq Editors
  /\ save \in [Savers -> {"idle", "updating", "numbering", "inserting", "done"}]
  /\ snapshot \in [Savers -> SUBSET Editors]
  /\ number \in [Savers -> Nat]
  /\ versions \in Seq(Version)
  /\ behind \subseteq Editors
  /\ {crossed, mixed, gap, undone} \subseteq BOOLEAN

GovInit ==
  /\ status = "pending"
  /\ decision = [d \in Deciders |-> "idle"]
  /\ approved = [d \in Deciders |-> FALSE]
  /\ log = <<>>
  /\ config = {}
  /\ save = [w \in Savers |-> "idle"]
  /\ snapshot = [w \in Savers |-> {}]
  /\ number = [w \in Savers |-> 0]
  /\ versions = <<>>
  /\ behind = {}
  /\ crossed = FALSE /\ mixed = FALSE /\ gap = FALSE /\ undone = FALSE

-----------------------------------------------------------------------------
(* processApproval.                                                        *)

Verdict(d) == IF approved[d] THEN "approved" ELSE "rejected"

Decide(d, yes) ==
  /\ decision[d] = "idle"
  /\ decision' = [decision EXCEPT ![d] = "updating"]
  /\ approved' = [approved EXCEPT ![d] = yes]
  /\ UNCHANGED <<status, log, crossed, versionVars, gap>>

\* Mutation: only a request that is pending is updated, and every decision is logged.
UpdatesPending(d) ==
  /\ decision[d] = "updating"
  /\ status' = IF status = "pending" THEN Verdict(d) ELSE status
  /\ decision' = [decision EXCEPT ![d] = "logging"]
  /\ crossed' = (crossed \/ \E e \in Deciders \ {d} : decision[e] = "logging")
  /\ UNCHANGED <<approved, log, versionVars, gap>>

\* Mutation: a decision without a reason leaves the request undecided.
UpdatesToNothing(d) ==
  /\ decision[d] = "updating"
  /\ status' \in {Verdict(d), "undecided"}
  /\ decision' = [decision EXCEPT ![d] = "logging"]
  /\ crossed' = (crossed \/ \E e \in Deciders \ {d} : decision[e] = "logging")
  /\ UNCHANGED <<approved, log, versionVars, gap>>

\* A request that is decided already may be decided again.
Updates(d) ==
  /\ decision[d] = "updating"
  /\ status' = Verdict(d)
  /\ decision' = [decision EXCEPT ![d] = "logging"]
  /\ crossed' = (crossed \/ \E e \in Deciders \ {d} : decision[e] = "logging")
  /\ UNCHANGED <<approved, log, versionVars, gap>>

Logs(d) ==
  /\ decision[d] = "logging"
  /\ log' = Append(log, Verdict(d))
  /\ decision' = [decision EXCEPT ![d] = "done"]
  /\ UNCHANGED <<status, approved, crossed, versionVars, gap>>

DecisionFails(d) ==
  /\ decision[d] \in {"updating", "logging"}
  /\ decision' = [decision EXCEPT ![d] = "done"]
  /\ gap' = TRUE
  /\ UNCHANGED <<status, approved, log, crossed, versionVars>>

-----------------------------------------------------------------------------
(* Editing the configuration, and going back.                              *)

SaveGoes(w, step) == save' = [save EXCEPT ![w] = step]

\* PATCH selects the agent.
EditReads(w) ==
  /\ save[w] = "idle"
  /\ snapshot' = [snapshot EXCEPT ![w] = config]
  /\ behind' = behind \ {w}
  /\ SaveGoes(w, "updating")
  /\ UNCHANGED <<decisionVars, config, number, versions, mixed, undone, gap>>

\* Mutation: the fields of the request replace the configuration.
EditReplaces(w) ==
  /\ save[w] = "updating"
  /\ config' = {w}
  /\ snapshot' = [snapshot EXCEPT ![w] = config']
  /\ behind' = {v \in Editors \ {w} : save[v] = "updating"}
  /\ SaveGoes(w, "numbering")
  /\ UNCHANGED <<decisionVars, number, versions, mixed, undone, gap>>

\* Mutation: the version is of what was there before.
EditSavesOld(w) ==
  /\ save[w] = "updating"
  /\ config' = snapshot[w] \cup {w}
  /\ UNCHANGED snapshot
  /\ behind' = {v \in Editors \ {w} : save[v] = "updating"}
  /\ SaveGoes(w, "numbering")
  /\ UNCHANGED <<decisionVars, number, versions, mixed, undone, gap>>

\* It updates the row with what it has read and its own fields; the row that comes
\* back is the one to save.
EditWrites(w) ==
  /\ save[w] = "updating"
  /\ config' = snapshot[w] \cup {w}
  /\ snapshot' = [snapshot EXCEPT ![w] = config']
  /\ behind' = {v \in Editors \ {w} : save[v] = "updating"}
  /\ SaveGoes(w, "numbering")
  /\ UNCHANGED <<decisionVars, number, versions, mixed, undone, gap>>

\* rollbackConfig reads the version to go back to.
RollbackReads(w, i) ==
  /\ save[w] = "idle"
  /\ snapshot' = [snapshot EXCEPT ![w] = versions[i].snapshot]
  /\ SaveGoes(w, "numbering")
  /\ UNCHANGED <<decisionVars, config, number, versions, behind, mixed, undone, gap>>

\* Savings, and edits whose saving is to come.
Saving(v) == save[v] \in {"numbering", "inserting"}

\* Mutation: the number is the number of rows.
NumbersByCount(w) ==
  /\ save[w] = "numbering"
  /\ number' = [number EXCEPT ![w] = Len(versions) + 1]
  /\ mixed' = (mixed \/ \E v \in Savers \ {w} : Saving(v))
  /\ SaveGoes(w, "inserting")
  /\ UNCHANGED <<decisionVars, config, snapshot, versions, behind, undone, gap>>

\* Mutation: the versions are not ordered, and the first one counts.
NumbersByFirst(w) ==
  /\ save[w] = "numbering"
  /\ number' = [number EXCEPT ![w] = IF versions = <<>> THEN 1 ELSE versions[1].number + 1]
  /\ mixed' = (mixed \/ \E v \in Savers \ {w} : Saving(v))
  /\ SaveGoes(w, "inserting")
  /\ UNCHANGED <<decisionVars, config, snapshot, versions, behind, undone, gap>>

\* saveConfigVersion reads the latest number.
Numbers(w) ==
  /\ save[w] = "numbering"
  /\ \E n \in {0} \cup {versions[i].number : i \in DOMAIN versions} :
       /\ \A i \in DOMAIN versions : versions[i].number <= n
       /\ number' = [number EXCEPT ![w] = n + 1]
  /\ mixed' = (mixed \/ \E v \in Savers \ {w} : Saving(v))
  /\ SaveGoes(w, "inserting")
  /\ UNCHANGED <<decisionVars, config, snapshot, versions, behind, undone, gap>>

\* The insert; the audit entries that follow are not kept.
InsertsVersion(w) ==
  /\ save[w] = "inserting"
  /\ versions' = Append(versions, [number |-> number[w], snapshot |-> snapshot[w]])
  /\ undone' = (undone \/ w \in Rollbacks)
  /\ SaveGoes(w, "done")
  /\ UNCHANGED <<decisionVars, config, snapshot, number, behind, mixed, gap>>

\* A query fails: PATCH goes on without a version, a rollback ends.
SaveFails(w) ==
  /\ save[w] \notin {"idle", "done"}
  /\ gap' = TRUE
  /\ behind' = behind \ {w}
  /\ SaveGoes(w, "done")
  /\ UNCHANGED <<decisionVars, config, snapshot, number, versions, mixed, undone>>

-----------------------------------------------------------------------------
GovNext ==
  \/ \E d \in Deciders :
       \/ \E yes \in BOOLEAN : Decide(d, yes)
       \/ Updates(d) \/ Logs(d) \/ DecisionFails(d)
  \/ \E w \in Editors : EditReads(w) \/ EditWrites(w)
  \/ \E w \in Rollbacks, i \in DOMAIN versions : RollbackReads(w, i)
  \/ \E w \in Savers : Numbers(w) \/ InsertsVersion(w) \/ SaveFails(w)

GovSpec == GovInit /\ [][GovNext]_govVars

-----------------------------------------------------------------------------
(* Properties.                                                             *)

\* The last decision in the audit log is the one the request has, when no decision
\* is on its way, none has failed and no two have crossed.
LogAgrees ==
  ~crossed /\ ~gap /\ (\A d \in Deciders : decision[d] \in {"idle", "done"}) /\ log # <<>>
    => log[Len(log)] = status

\* The numbers of the versions begin with 1 and leave none out.
NumbersGapless ==
  \A i \in DOMAIN versions :
    \/ versions[i].number = 1
    \/ \E j \in 1..(i - 1) : versions[j].number = versions[i].number - 1

\* governance.ts:141, "Auto-increments the version number per entity": a number is
\* given once, unless two savings were under way at once.
NumbersOnce ==
  mixed \/ \A i, j \in DOMAIN versions : versions[i].number = versions[j].number => i = j

\* The newest version is the configuration of the agent, when nothing is on its way,
\* nothing has failed, no two savings were under way at once, and nobody went back.
NewestIsCurrent ==
  ~mixed /\ ~gap /\ ~undone /\ versions # <<>> /\ (\A w \in Editors : save[w] \in {"idle", "done"})
    => versions[Len(versions)].snapshot = config

\* What one edit wrote is never lost, unless a later one that has not seen it writes.
EditsKept ==
  [][\/ config \subseteq config'
     \/ \E w \in behind : save[w] = "updating" /\ save'[w] = "numbering"]_govVars

\* What is recorded of an agent is what happened: the audit log of the decision, and
\* the versions, by number and content, of the edits.
HistoryTrue ==
  /\ GovTypeOK /\ LogAgrees /\ NumbersGapless /\ NumbersOnce /\ NewestIsCurrent
=============================================================================

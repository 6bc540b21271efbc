---------------------------- MODULE FindOrCreate ----------------------------
(***************************************************************************)
(* Looking a row up and creating it when it is missing, by requests that   *)
(* know nothing of each other: the workspace of one owner                  *)
(* (ensureCompanyWorkspace, ensurePersonalWorkspace of                     *)
(* src/src/lib/workspace.ts) and the session of one conversation           *)
(* (resolveSessionId of src/src/app/api/chat/route.ts), with the retries   *)
(* of withRetry (src/src/db/index.ts).                                     *)
(*                                                                         *)
(* An action is one attempt at a query.  The code tells errors apart by    *)
(* their text; whether that is the driver's own text or that of a wrapper, *)
(* which names the query only (src/src/app/api/agents/route.ts:31-46 is    *)
(* ready for either), is left open.                                        *)
(***************************************************************************)
EXTENDS Integers

CONSTANTS
  Ensurers,  \* calls that need the workspace
  Resolvers, \* messages of the conversation
  Retries,   \* of withRetry
  MaxRows    \* bound: rows ever inserted in either table

ASSUME CallersAssumption == Ensurers \cap Resolvers = {}
ASSUME RetriesAssumption == Retries \in Nat /\ MaxRows \in Nat \ {0}

Callers == Ensurers \cup Resolvers
Rows == 1..MaxRows
Null == 0
Thrown == -1

VARIABLES
  wrapped,  \* the text of an error is the wrapper's
  owner,    \* the company or the user is there
  spaces,   \* its workspaces
  sessions, \* of the conversation
  newest,   \* the one updated last
  query,    \* the query a caller is at
  attempts, \* attempts at it that are to be repeated
  got,      \* what the caller has returned
  lost,     \* ghost: callers a query of which has failed
  late,     \* ghost: callers whose look has been overtaken by an insert
  again     \* ghost: an insert that was carried out has been repeated

focVars == <<wrapped, owner, spaces, sessions, newest, query, attempts, got, lost, late, again>>

Queries == {"look", "owner", "insert", "reread"}

FocTypeOK ==
  /\ {wrapped, owner, again} \subseteq BOOLEAN
  /\ spaces \subseteq Rows /\ sessions \subseteq Rows
  /\ newest \in sessions \cup {Null}
  /\ query \in [Callers -> Queries \cup {"idle", "done"}]
  /\ attempts \in [Callers -> 0..Retries]
  /\ got \in [Callers -> Rows \cup {Null, Thrown}]
  /\ lost \subseteq Callers /\ late \subseteq Callers

FocInit ==
  /\ wrapped \in BOOLEAN
  /\ owner = TRUE
  /\ spaces = {} /\ sessions = {} /\ newest = Null
  /\ query = [c \in Callers |-> "idle"]
  /\ attempts = [c \in Callers |-> 0]
  /\ got = [c \in Callers |-> Null]
  /\ lost = {} /\ late = {}
  /\ again = FALSE

\* The query has an answer, and the caller goes on.
GoesTo(c, to) ==
  /\ query' = [query EXCEPT ![c] = to]
  /\ attempts' = [attempts EXCEPT ![c] = 0]

Returns(c, row) ==
  /\ GoesTo(c, "done")
  /\ got' = [got EXCEPT ![c] = row]

\* An id that no row has.
Fresh(rows) == CHOOSE i \in Rows : i \notin rows

\* Those that have looked and not inserted.
Between(callers) == {c \in callers : query[c] \in {"owner", "insert"}}

CallerBegins(c) ==
  /\ query[c] = "idle"
  /\ GoesTo(c, "look")
  /\ UNCHANGED <<wrapped, owner, spaces, sessions, newest, got, lost, late, again>>

-----------------------------------------------------------------------------
(* The workspace, whose index admits one row for an owner.                 *)

SpaceLooks(c) ==
  /\ query[c] = "look"
  /\ IF spaces = {}
       THEN GoesTo(c, "owner") /\ UNCHANGED got
       ELSE \E row \in spaces : Returns(c, row)
  /\ UNCHANGED <<wrapped, owner, spaces, sessions, newest, lost, late, again>>

OwnerRead(c) ==
  /\ query[c] = "owner"
  /\ IF owner THEN GoesTo(c, "insert") /\ UNCHANGED got ELSE Returns(c, Null)
  /\ UNCHANGED <<wrapped, owner, spaces, sessions, newest, lost, late, again>>

\* Mutation: a conflict is ignored, and nothing comes back.
InsertIgnoresConflict(c) ==
  /\ query[c] = "insert"
  /\ IF ~owner THEN Returns(c, Thrown) /\ UNCHANGED <<spaces, late>>
     ELSE IF spaces # {} THEN Returns(c, Null) /\ UNCHANGED <<spaces, late>>
     ELSE /\ Returns(c, Fresh(spaces))
          /\ spaces' = {Fresh(spaces)}
          /\ late' = late \cup (Between(Ensurers) \ {c})
  /\ UNCHANGED <<wrapped, owner, sessions, newest, lost, again>>

\* Mutation: there is no index, so every insert adds a row.
InsertAlways(c) ==
  /\ query[c] = "insert"
  /\ IF ~owner THEN Returns(c, Thrown) /\ UNCHANGED <<spaces, late>>
     ELSE /\ Returns(c, Fresh(spaces))
          /\ spaces' = spaces \cup {Fresh(spaces)}
          /\ late' = late \cup (Between(Ensurers) \ {c})
  /\ UNCHANGED <<wrapped, owner, sessions, newest, lost, again>>

\* Mutation: a conflict is an error like any other.
InsertThrows(c) ==
  /\ query[c] = "insert"
  /\ IF ~owner \/ spaces # {} THEN Returns(c, Thrown) /\ UNCHANGED <<spaces, late>>
     ELSE /\ Returns(c, Fresh(spaces))
          /\ spaces' = {Fresh(spaces)}
          /\ late' = late \cup (Between(Ensurers) \ {c})
  /\ UNCHANGED <<wrapped, owner, sessions, newest, lost, again>>

\* A conflict is recognised by the name of the index in the driver's text.
SpaceInserts(c) ==
  /\ query[c] = "insert"
  /\ \/ /\ ~owner \/ (spaces # {} /\ wrapped)
        /\ Returns(c, Thrown)
        /\ UNCHANGED <<spaces, late>>
     \/ /\ owner /\ spaces # {} /\ ~wrapped
        /\ GoesTo(c, "reread")
        /\ UNCHANGED <<got, spaces, late>>
     \/ /\ owner /\ spaces = {}
        /\ Returns(c, Fresh(spaces))
        /\ spaces' = {Fresh(spaces)}
        /\ late' = late \cup (Between(Ensurers) \ {c})
  /\ UNCHANGED <<wrapped, owner, sessions, newest, lost, again>>

SpaceRereads(c) ==
  /\ query[c] = "reread"
  /\ \/ spaces = {} /\ Returns(c, Null)
     \/ \E row \in spaces : Returns(c, row)
  /\ UNCHANGED <<wrapped, owner, spaces, sessions, newest, lost, late, again>>

\* The owner is deleted, and the workspace with it.
OwnerGoes ==
  /\ owner
  /\ owner' = FALSE
  /\ spaces' = {}
  /\ UNCHANGED <<wrapped, sessions, newest, query, attempts, got, lost, late, again>>

-----------------------------------------------------------------------------
(* The session, for which there is no index.                               *)

\* Mutation: the look asks for a session without a key.
SessionOverlooked(c) ==
  /\ query[c] = "look"
  /\ GoesTo(c, "insert")
  /\ UNCHANGED <<wrapped, owner, spaces, sessions, newest, got, lost, late, again>>

SessionLooks(c) ==
  /\ query[c] = "look"
  /\ IF sessions = {} THEN GoesTo(c, "insert") /\ UNCHANGED got ELSE Returns(c, newest)
  /\ UNCHANGED <<wrapped, owner, spaces, sessions, newest, lost, late, again>>

SessionInserts(c) ==
  /\ query[c] = "insert"
  /\ sessions # Rows
  /\ LET row == Fresh(sessions) IN
       /\ Returns(c, row)
       /\ sessions' = sessions \cup {row}
       /\ newest' = row
  /\ late' = late \cup (Between(Resolvers) \ {c})
  /\ UNCHANGED <<wrapped, owner, spaces, lost, again>>

\* The message that was sent touches the session.
Touches(c) ==
  /\ query[c] = "done" /\ got[c] \in sessions
  /\ newest' = got[c]
  /\ UNCHANGED <<wrapped, owner, spaces, sessions, query, attempts, got, lost, late, again>>

-----------------------------------------------------------------------------
(* Failures.                                                               *)

\* Mutation: whatever fails is repeated without end.
LostUnbounded(c) ==
  /\ lost' = lost \cup {c}
  /\ attempts' = [attempts EXCEPT ![c] = @ + 1]
  /\ UNCHANGED <<query, got>>

\* withRetry repeats what failed on the way, if the text of the error says so, and
\* gives up when it has done so for Retries times.
Lost(c) ==
  /\ lost' = lost \cup {c}
  /\ \/ /\ ~wrapped /\ attempts[c] < Retries
        /\ attempts' = [attempts EXCEPT ![c] = @ + 1]
        /\ UNCHANGED <<query, got>>
     \/ /\ wrapped \/ attempts[c] = Retries
        /\ Returns(c, Thrown)

\* The query, or the answer to a select, is lost on the way.
QueryLost(c) ==
  /\ query[c] \in Queries
  /\ Lost(c)
  /\ UNCHANGED <<wrapped, owner, spaces, sessions, newest, late, again>>

\* The insert is carried out, and its answer is lost.
SpaceAnswerLost(c) ==
  /\ query[c] = "insert" /\ owner /\ spaces = {}
  /\ Lost(c)
  /\ spaces' = {Fresh(spaces)}
  /\ late' = late \cup (Between(Ensurers) \ {c})
  /\ again' = (again \/ query'[c] = "insert")
  /\ UNCHANGED <<wrapped, owner, sessions, newest>>

SessionAnswerLost(c) ==
  /\ query[c] = "insert" /\ sessions # Rows
  /\ Lost(c)
  /\ sessions' = sessions \cup {Fresh(sessions)}
  /\ newest' = Fresh(sessions)
  /\ late' = late \cup (Between(Resolvers) \ {c})
  /\ again' = (again \/ query'[c] = "insert")
  /\ UNCHANGED <<wrapped, owner, spaces>>

\* Any other error is thrown at once.
QueryFails(c) ==
  /\ query[c] \in Queries
  /\ lost' = lost \cup {c}
  /\ Returns(c, Thrown)
  /\ UNCHANGED <<wrapped, owner, spaces, sessions, newest, late, again>>

-----------------------------------------------------------------------------
FocNext ==
  \/ \E c \in Ensurers :
       SpaceLooks(c) \/ OwnerRead(c) \/ SpaceInserts(c) \/ SpaceRereads(c) \/ SpaceAnswerLost(c)
  \/ \E c \in Resolvers :
       SessionLooks(c) \/ SessionInserts(c) \/ Touches(c) \/ SessionAnswerLost(c)
  \/ \E c \in Callers : CallerBegins(c) \/ QueryLost(c) \/ QueryFails(c)
  \/ OwnerGoes

FocSpec == FocInit /\ [][FocNext]_focVars

-----------------------------------------------------------------------------
(* Properties.                                                             *)

\* Whoever was given a workspace was given the one its owner has.
OneWorkspace ==
  \A c \in Ensurers : owner /\ got[c] \in Rows => spaces = {got[c]}

\* Only an owner that is gone has no workspace.
OwnersHaveOne ==
  \A c \in Ensurers : query[c] = "done" /\ got[c] = Null => ~owner

\* A call fails because a query failed, because the owner went, or because another
\* call created the workspace first and the text of the error does not say so.
FailsForAReason ==
  \A c \in Callers : got[c] = Thrown =>
    c \in lost \/ (c \in Ensurers /\ (~owner \/ (wrapped /\ c \in late)))

\* The conversation has a second session only when two messages looked before
\* either had created the first, or an insert was repeated.
OneSession ==
  late \cap Resolvers = {} /\ ~again => \A i, j \in sessions : i = j

\* Looking and then inserting finds or makes one row, however many requests do so at
\* once and whichever of their queries fail, conflict or are repeated.
FoundOnce ==
  /\ FocTypeOK /\ OneWorkspace /\ OwnersHaveOne /\ OneSession /\ FailsForAReason
=============================================================================

------------------------------- MODULE Joining -------------------------------
(***************************************************************************)
(* How a person gets an account and a place in a company: the sign-up      *)
(* route (src/src/app/api/auth/signup/route.ts), the acceptance of an      *)
(* invitation (src/src/app/api/invite/accept/route.ts) and the join page   *)
(* that calls both (src/src/app/join/page.tsx).                            *)
(*                                                                         *)
(* One company with one invitation, for no address in particular.  An      *)
(* action ends at the next query of a route.  Rate limits, the checks of   *)
(* the form and the sign-in service are left out, other than that a        *)
(* sign-in may fail.                                                       *)
(***************************************************************************)
EXTENDS Naturals, FiniteSets

CONSTANTS
  People, \* who may sign up or accept
  NoPerson  \* the invitation is open

ASSUME NoPersonAssumption == NoPerson \notin People

Vias == {"effect", "form"} \* the two places of the join page that accept

VARIABLES
  users,    \* people with an account
  admins,   \* those of them that are super_admin
  invited,  \* those that signed up with the invitation
  founder,  \* who made the company and its invitation
  acceptedBy, \* of the invitation, with acceptedAt
  expired,  \* expiresAt is over
  rows,     \* rows of companyMembers for each person
  signup,   \* the query a sign-up is at
  withToken,\* it carries the invitation
  isFirst,  \* it has counted no users
  signedIn, \* people with a session
  ask,      \* the query an acceptance is at
  page,     \* what the sign-up form of the join page has come to
  raced,    \* ghost: two acceptances of the invitation were under way at once
  firsts,   \* ghost: two sign-ups have counted no users
  unmarked  \* ghost: an acceptance or a sign-up failed on its way

inviteVars == <<founder, acceptedBy, expired>>
signupVars == <<users, admins, invited, signup, withToken, isFirst, firsts>>
acceptVars == <<rows, ask, raced>>
joinVars == <<inviteVars, signupVars, acceptVars, signedIn, page, unmarked>>

SignupSteps == {"no", "counting", "checking", "inserting"}
AskSteps == {"no", "reading", "looking", "inserting", "marking"}
Pages == {"open", "signing up", "signing in", "joining", "dashboard", "error"}

JoinTypeOK ==
  /\ users \subseteq People /\ admins \subseteq users /\ invited \subseteq users
  /\ signedIn \subseteq users
  /\ {founder, acceptedBy} \subseteq People \cup {NoPerson}
  /\ {expired, raced, firsts, unmarked} \subseteq BOOLEAN
  /\ rows \in [People -> Nat]
  /\ signup \in [People -> SignupSteps]
  /\ withToken \in [People -> BOOLEAN] /\ isFirst \in [People -> BOOLEAN]
  /\ ask \in [People -> [Vias -> AskSteps]]
  /\ page \in [People -> Pages]

JoinInit ==
  /\ users = {} /\ admins = {} /\ invited = {} /\ signedIn = {}
  /\ founder = NoPerson /\ acceptedBy = NoPerson /\ expired = FALSE
  /\ rows = [p \in People |-> 0]
  /\ signup = [p \in People |-> "no"]
  /\ withToken = [p \in People |-> FALSE] /\ isFirst = [p \in People |-> FALSE]
  /\ ask = [p \in People |-> [v \in Vias |-> "no"]]
  /\ page = [p \in People |-> "open"]
  /\ raced = FALSE /\ firsts = FALSE /\ unmarked = FALSE

-----------------------------------------------------------------------------
(* The sign-up route.                                                      *)

\* What a request knows goes with it.
SignupGoes(p, step) ==
  /\ signup' = [signup EXCEPT ![p] = step]
  /\ withToken' = IF step = "no" THEN [withToken EXCEPT ![p] = FALSE] ELSE withToken

SignupOver(p) == SignupGoes(p, "no") /\ isFirst' = [isFirst EXCEPT ![p] = FALSE]

\* The join page hears of the end of the request; the landing page is not followed.
Hears(p, to) ==
  page' = IF page[p] = "signing up" THEN [page EXCEPT ![p] = to] ELSE page

\* The first page has no invitation, the join page has the one there is.
SignsUp(p, token) ==
  /\ signup[p] = "no" /\ page[p] = "open" /\ p \notin signedIn
  /\ token => founder # NoPerson
  /\ signup' = [signup EXCEPT ![p] = "counting"]
  /\ withToken' = [withToken EXCEPT ![p] = token]
  /\ page' = IF token THEN [page EXCEPT ![p] = "signing up"] ELSE page
  /\ UNCHANGED <<inviteVars, users, admins, invited, isFirst, firsts, acceptVars, signedIn,
                 unmarked>>

\* Mutation: one user is none.
CountsOneTooMany(p) ==
  /\ signup[p] = "counting"
  /\ IF withToken[p] \/ Cardinality(users) <= 1
     THEN /\ SignupGoes(p, IF withToken[p] THEN "checking" ELSE "inserting")
          /\ isFirst' = [isFirst EXCEPT ![p] = Cardinality(users) <= 1]
          /\ UNCHANGED page
     ELSE SignupOver(p) /\ Hears(p, "error")
  /\ firsts' = (firsts \/ (users = {} /\ \E q \in People \ {p} : isFirst[q]))
  /\ UNCHANGED <<inviteVars, users, admins, invited, acceptVars, signedIn, unmarked>>

CountsUsers(p) ==
  /\ signup[p] = "counting"
  /\ IF withToken[p] \/ users = {}
     THEN /\ SignupGoes(p, IF withToken[p] THEN "checking" ELSE "inserting")
          /\ isFirst' = [isFirst EXCEPT ![p] = users = {}]
          /\ UNCHANGED page
     ELSE SignupOver(p) /\ Hears(p, "error")
  /\ firsts' = (firsts \/ (users = {} /\ \E q \in People \ {p} : isFirst[q]))
  /\ UNCHANGED <<inviteVars, users, admins, invited, acceptVars, signedIn, unmarked>>

Checks(p) ==
  /\ signup[p] = "checking"
  /\ IF acceptedBy = NoPerson /\ ~expired
     THEN SignupGoes(p, "inserting") /\ UNCHANGED <<isFirst, page>>
     ELSE SignupOver(p) /\ Hears(p, "error")
  /\ UNCHANGED <<inviteVars, users, admins, invited, firsts, acceptVars, signedIn, unmarked>>

SignupRefused(p) ==
  /\ SignupOver(p) /\ Hears(p, "error")
  /\ UNCHANGED <<inviteVars, users, admins, invited, firsts, acceptVars, signedIn, unmarked>>

\* Mutation: what the account's insert has done is lost, the rest is kept.
RegistersWithoutAccount(p) ==
  /\ UNCHANGED users /\ SignupOver(p) /\ Hears(p, "signing in")
  /\ admins' = IF isFirst[p] THEN admins \cup {p} ELSE admins
  /\ invited' = IF withToken[p] THEN invited \cup {p} ELSE invited
  /\ acceptedBy' = IF withToken[p] THEN p ELSE acceptedBy
  /\ UNCHANGED <<founder, expired, firsts, acceptVars, signedIn, unmarked>>

\* The transaction commits.
Registers(p) ==
  /\ users' = users \cup {p} /\ SignupOver(p) /\ Hears(p, "signing in")
  /\ admins' = IF isFirst[p] THEN admins \cup {p} ELSE admins
  /\ invited' = IF withToken[p] THEN invited \cup {p} ELSE invited
  /\ acceptedBy' = IF withToken[p] THEN p ELSE acceptedBy
  /\ UNCHANGED <<founder, expired, firsts, acceptVars, signedIn, unmarked>>

\* Mutation: the update of the invitation does not ask whether it is open.
MayRegisterAnyway(p) == p \notin users

\* The address is new, and the invitation is still open when it is marked.
MayRegister(p) == p \notin users /\ (withToken[p] => acceptedBy = NoPerson)

Inserts(p) ==
  /\ signup[p] = "inserting"
  /\ IF MayRegister(p) THEN Registers(p) ELSE SignupRefused(p)

\* An error, of the network or the database, before the transaction.
SignupFails(p) ==
  /\ signup[p] # "no"
  /\ SignupOver(p) /\ Hears(p, "error")
  /\ unmarked' = TRUE
  /\ UNCHANGED <<inviteVars, users, admins, invited, firsts, acceptVars, signedIn>>

-----------------------------------------------------------------------------
(* The acceptance of an invitation.                                        *)

AskGoes(p, v, step) == ask' = [ask EXCEPT ![p][v] = step]

\* The form of the join page goes to the dashboard whatever the answer is.
AskEnds(p, v) ==
  /\ AskGoes(p, v, "no")
  /\ page' = IF v = "form" /\ page[p] = "joining" THEN [page EXCEPT ![p] = "dashboard"] ELSE page

AskReads(p, v) ==
  /\ ask[p][v] = "reading"
  /\ IF acceptedBy = NoPerson /\ ~expired THEN AskGoes(p, v, "looking") /\ UNCHANGED page
     ELSE AskEnds(p, v)
  /\ raced' = (raced \/ \E q \in People, w \in Vias :
                          <<q, w>> # <<p, v>> /\ ask[q][w] \in AskSteps \ {"no", "reading"})
  /\ UNCHANGED <<inviteVars, signupVars, rows, signedIn, unmarked>>

\* Mutation: a member gets another row with the role of the invitation.
LooksAway(p, v) ==
  /\ ask[p][v] = "looking"
  /\ AskGoes(p, v, "inserting")
  /\ UNCHANGED <<inviteVars, signupVars, rows, raced, signedIn, page, unmarked>>

\* Mutation: the invitation is marked before the row is written.
LooksMarking(p, v) ==
  /\ ask[p][v] = "looking"
  /\ acceptedBy' = p
  /\ AskGoes(p, v, IF rows[p] > 0 THEN "marking" ELSE "inserting")
  /\ UNCHANGED <<founder, expired, signupVars, rows, raced, signedIn, page, unmarked>>

Looks(p, v) ==
  /\ ask[p][v] = "looking"
  /\ AskGoes(p, v, IF rows[p] > 0 THEN "marking" ELSE "inserting")
  /\ UNCHANGED <<inviteVars, signupVars, rows, raced, signedIn, page, unmarked>>

Joins(p, v) ==
  /\ ask[p][v] = "inserting"
  /\ rows' = [rows EXCEPT ![p] = @ + 1]
  /\ AskGoes(p, v, "marking")
  /\ UNCHANGED <<inviteVars, signupVars, raced, signedIn, page, unmarked>>

\* Mutation: only the row of the member is written.
MarksNothing(p, v) ==
  /\ ask[p][v] = "marking"
  /\ AskEnds(p, v)
  /\ UNCHANGED <<inviteVars, signupVars, rows, raced, signedIn, unmarked>>

Marks(p, v) ==
  /\ ask[p][v] = "marking"
  /\ acceptedBy' = p
  /\ AskEnds(p, v)
  /\ UNCHANGED <<founder, expired, signupVars, rows, raced, signedIn, unmarked>>

\* An error before the query of this step has changed anything.
AskFails(p, v) ==
  /\ ask[p][v] # "no"
  /\ AskEnds(p, v)
  /\ unmarked' = TRUE
  /\ UNCHANGED <<inviteVars, signupVars, rows, raced, signedIn>>

\* Somebody makes the company, is its owner, and invites.
Founds(p) ==
  /\ p \in signedIn /\ founder = NoPerson
  /\ founder' = p
  /\ rows' = [rows EXCEPT ![p] = 1]
  /\ UNCHANGED <<acceptedBy, expired, signupVars, ask, raced, signedIn, page, unmarked>>

Expire ==
  /\ founder # NoPerson /\ ~expired
  /\ expired' = TRUE
  /\ UNCHANGED <<founder, acceptedBy, signupVars, acceptVars, signedIn, page, unmarked>>

-----------------------------------------------------------------------------
(* The join page.                                                          *)

\* The sign-in of handleSubmit, and its acceptance.
SignsIn(p) ==
  /\ page[p] = "signing in"
  /\ \/ /\ signedIn' = signedIn \cup {p}
        /\ page' = [page EXCEPT ![p] = "joining"]
        /\ AskGoes(p, "form", "reading")
     \/ /\ page' = [page EXCEPT ![p] = "error"]
        /\ UNCHANGED <<ask, signedIn>>
  /\ UNCHANGED <<inviteVars, signupVars, rows, raced, unmarked>>

\* Somebody with an account signs in elsewhere.
LogsIn(p) ==
  /\ p \in users \ signedIn
  /\ page[p] # "signing in"
  /\ signedIn' = signedIn \cup {p}
  /\ UNCHANGED <<inviteVars, signupVars, acceptVars, page, unmarked>>

\* The effect of the join page, when it learns of the session; it has seen a valid
\* invitation.
EffectAccepts(p) ==
  /\ p \in signedIn /\ founder # NoPerson /\ ask[p]["effect"] = "no"
  /\ page[p] # "dashboard"
  /\ AskGoes(p, "effect", "reading")
  /\ UNCHANGED <<inviteVars, signupVars, rows, raced, signedIn, page, unmarked>>

\* The page is opened again; requests that are under way go on.
Reopens(p) ==
  /\ page[p] \in {"error", "dashboard"}
  /\ signup[p] = "no" /\ ask[p]["form"] = "no"
  /\ page' = [page EXCEPT ![p] = "open"]
  /\ UNCHANGED <<inviteVars, signupVars, acceptVars, signedIn, unmarked>>

-----------------------------------------------------------------------------
JoinNext ==
  \/ Expire
  \/ \E p \in People :
       \/ \E token \in BOOLEAN : SignsUp(p, token)
       \/ CountsUsers(p) \/ Checks(p) \/ Inserts(p) \/ SignupFails(p)
       \/ Founds(p) \/ SignsIn(p) \/ LogsIn(p) \/ EffectAccepts(p) \/ Reopens(p)
       \/ \E v \in Vias :
            AskReads(p, v) \/ Looks(p, v) \/ Joins(p, v) \/ Marks(p, v) \/ AskFails(p, v)

JoinSpec == JoinInit /\ [][JoinNext]_joinVars

-----------------------------------------------------------------------------
(* Properties.                                                             *)

\* An invitation makes one account at the most, however many sign-ups have checked it
\* at once.
OneInvitee == \A p, q \in invited : p = q

\* There is one super_admin, unless two sign-ups have counted no users before either
\* had an account.
OneAdmin == firsts \/ \A p, q \in admins : p = q

\* A person is in the company once, unless two acceptances were under way at once.
MemberOnce == raced \/ \A p \in People : rows[p] <= 1

\* The invitation brings one person into the company, unless two acceptances were
\* under way at once or one of them failed.
JoinsOne ==
  \/ raced \/ unmarked
  \/ \A p, q \in People \ {founder} : rows[p] > 0 /\ rows[q] > 0 => p = q

\* Who is named as having accepted is a member or has signed up with the invitation.
AcceptedBelongs == acceptedBy # NoPerson => rows[acceptedBy] > 0 \/ acceptedBy \in invited

\* Whom the join page has taken from the sign-up form to the dashboard, without an
\* error, has joined the company.
SignUpJoins == unmarked \/ \A p \in People : page[p] = "dashboard" => rows[p] > 0

\* An invitation brings in one person, once, as what the code makes of the first and
\* of the others, however sign-ups and acceptances overlap.
JoinSound ==
  /\ JoinTypeOK /\ OneInvitee /\ OneAdmin /\ MemberOnce /\ JoinsOne /\ AcceptedBelongs
=============================================================================

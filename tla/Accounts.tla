-------------------------------- MODULE Accounts --------------------------------
(* User accounts: the first administrator, who is created without a session,   *)
(* and the role and state of every account under requests that look first and  *)
(* write later.                                                                *)
(* Translated from apps/server/src/auth.ts and its routes in http.ts,          *)
(* admin.ts and ops-routes.ts.  An account is its username, which is unique in *)
(* the table.  Every query is a step; a transaction has the database to itself *)
(* on SQLite.  Passwords, sessions and keys are left out: a session is looked  *)
(* up together with the role and state its user has at that moment.            *)
EXTENDS Naturals, FiniteSets

CONSTANTS Users,          \* usernames
          AccountRequests, \* requests in progress at a time
          MaxAccountRequests,    \* bound on the requests
          MaxCuts,        \* bound on requests and processes that fail midway
          Absent

ASSUME AccountBounds == {MaxAccountRequests, MaxCuts} \subseteq Nat
ASSUME AbsentAssumption == Absent \notin [role : {"admin", "viewer"}, active : BOOLEAN]

VARIABLES account,    \* [Users -> a row, or Absent]
          request,    \* [AccountRequests -> a request, or Free]
          holder,     \* requests in a transaction
          accountsLeft,
          founders,   \* history: accounts created without a session
          overlap     \* history: two requests took administrators away at a time

accountVars == <<account, request, holder, accountsLeft, founders, overlap>>

Roles    == {"admin", "viewer"}
Free     == [at |-> "idle"]
Known    == {u \in Users : account[u] # Absent}
Admins   == {u \in Known : account[u].role = "admin" /\ account[u].active}
Admin    == [role |-> "admin", active |-> TRUE]

AccountTypeOK ==
    /\ account \in [Users -> [role : Roles, active : BOOLEAN] \cup {Absent}]
    /\ \A r \in AccountRequests :
          request[r].at \in {"idle", "lock", "check", "insert", "look", "count", "write"}
    /\ holder \subseteq AccountRequests /\ founders \subseteq Users /\ overlap \in BOOLEAN

AccountInit ==
    /\ account = [u \in Users |-> Absent]
    /\ request = [r \in AccountRequests |-> Free]
    /\ holder = {} /\ founders = {} /\ overlap = FALSE
    /\ accountsLeft = [changes |-> MaxAccountRequests, cuts |-> MaxCuts]

------------------------------------------------------------------------------
\* A query of request r, in a transaction or not.
Queries(r)    == holder \subseteq {r}
AtPlace(r, at) == request[r].at = at /\ Queries(r)
Turns(r, to)  == request' = [request EXCEPT ![r] = to]
GoesTo(r, at) == Turns(r, [request[r] EXCEPT !.at = at])
Arrives(r, to) ==
    /\ request[r] = Free /\ accountsLeft.changes > 0
    /\ accountsLeft' = [accountsLeft EXCEPT !.changes = @ - 1]
    /\ Turns(r, to)
    /\ UNCHANGED <<account, holder, founders, overlap>>

\* The first administrator: the lock row, the look and the insert are one
\* transaction.
BootstrapAsks(r) == \E u \in Users : Arrives(r, [at |-> "lock", op |-> "bootstrap", of |-> u])
Locks(r) ==
    /\ AtPlace(r, "lock")
    /\ holder' = holder \cup {r} /\ GoesTo(r, "check")
    /\ UNCHANGED <<account, accountsLeft, founders, overlap>>
\* Somebody is there: the endpoint is closed.  If not, the password is hashed.
ChecksFirst(r) ==
    /\ request[r].at = "check" /\ r \in holder
    /\ IF Known = {} THEN GoesTo(r, "insert") /\ UNCHANGED holder
       ELSE Turns(r, Free) /\ holder' = holder \ {r}
    /\ UNCHANGED <<account, accountsLeft, founders, overlap>>
Founds(r) ==
    /\ request[r].at = "insert" /\ r \in holder
    /\ LET u == request[r].of IN
          IF account[u] = Absent
            THEN /\ account' = [account EXCEPT ![u] = Admin]
                 /\ founders' = founders \cup {u}
            ELSE UNCHANGED <<account, founders>>
    /\ Turns(r, Free) /\ holder' = holder \ {r}
    /\ UNCHANGED <<accountsLeft, overlap>>

------------------------------------------------------------------------------
\* The routes of administrators: somebody who is one asks.  A new account.
Creates(r) == \E u \in Users, role \in Roles :
    /\ Queries(r) /\ Admins # {} /\ account[u] = Absent
    /\ request[r] = Free /\ accountsLeft.changes > 0
    /\ accountsLeft' = [accountsLeft EXCEPT !.changes = @ - 1]
    /\ account' = [account EXCEPT ![u] = [role |-> role, active |-> TRUE]]
    /\ UNCHANGED <<request, holder, founders, overlap>>

\* setUserRole and setUserActive.  Nobody deactivates the own account.
Changes == {"promote", "demote", "activate", "deactivate"}
ChangeAsks(r) == \E by \in Admins, u \in Known, op \in Changes :
    /\ Queries(r) /\ ~(op = "deactivate" /\ by = u)
    /\ Arrives(r, [at |-> "look", op |-> op, of |-> u])

Removes(r) == request[r].op \in {"demote", "deactivate"}
AnotherRemoves(r) ==
    \E q \in AccountRequests \ {r} : request[q].at \in {"look", "count", "write"} /\ Removes(q)
LooksUp(r) ==
    /\ AtPlace(r, "look")
    /\ GoesTo(r, IF Removes(r) /\ request[r].of \in Admins THEN "count" ELSE "write")
    /\ UNCHANGED <<account, holder, accountsLeft, founders, overlap>>
\* One of several administrators may go.
SpareOne(n) == n > 0
Spare(n)    == n > 1
Counts(r) ==
    /\ AtPlace(r, "count")
    /\ IF Spare(Cardinality(Admins)) THEN GoesTo(r, "write") ELSE Turns(r, Free)
    /\ overlap' = (overlap \/ AnotherRemoves(r))
    /\ UNCHANGED <<account, holder, accountsLeft, founders>>
Set(row, op) ==
    CASE op = "promote"    -> [row EXCEPT !.role = "admin"]
      [] op = "demote"     -> [row EXCEPT !.role = "viewer"]
      [] op = "activate"   -> [row EXCEPT !.active = TRUE]
      [] op = "deactivate" -> [row EXCEPT !.active = FALSE]
WritesRow(r) ==
    /\ AtPlace(r, "write")
    /\ account' = [account EXCEPT ![request[r].of] = Set(@, request[r].op)]
    /\ overlap' = (overlap \/ (Removes(r) /\ AnotherRemoves(r)))
    /\ Turns(r, Free)
    /\ UNCHANGED <<holder, accountsLeft, founders>>

\* A query fails, or the process dies: a transaction is rolled back.
CutShort(r) ==
    /\ request[r] # Free /\ accountsLeft.cuts > 0
    /\ accountsLeft' = [accountsLeft EXCEPT !.cuts = @ - 1]
    /\ Turns(r, Free) /\ holder' = holder \ {r}
    /\ UNCHANGED <<account, founders, overlap>>

AccountNext ==
    \E r \in AccountRequests :
       \/ BootstrapAsks(r) \/ Locks(r) \/ ChecksFirst(r) \/ Founds(r)
       \/ Creates(r) \/ ChangeAsks(r) \/ LooksUp(r) \/ Counts(r) \/ WritesRow(r) \/ CutShort(r)

AccountSpec == AccountInit /\ [][AccountNext]_accountVars

------------------------------------------------------------------------------
\* Hazard: several browsers finish the first start at the same time
\* (auth.ts:69).  One administrator at most is created without a session, and
\* only an account that was there first.
OneFounder == Cardinality(founders) <= 1 /\ (Known # {} => founders # {})

\* Hazard: an administrator is demoted or deactivated after a count that is old
\* by then (auth.ts:240, 272).  As long as no two such requests overlapped there
\* is an administrator who can sign in.
AdminRemains == Known # {} /\ ~overlap => Admins # {}

\* The first start and every later change leave somebody who can sign in.
AccountsKept == AccountTypeOK /\ OneFounder /\ AdminRemains
==============================================================================

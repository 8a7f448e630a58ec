------------------------------- MODULE Accounts -------------------------------
(***************************************************************************)
(* Registrations, logins, token checks and projects (app/services/         *)
(* auth_service.py and project_service.py behind their routes) as requests *)
(* that run concurrently, each in a transaction of its own.                *)
(*                                                                         *)
(* An action is one statement.  PostgreSQL runs READ COMMITTED: a SELECT   *)
(* sees what is committed then, and an INSERT that meets an uncommitted    *)
(* row with its unique key waits for it.  The session commits when the     *)
(* response has been sent (FastAPI leaves dependencies with yield last).   *)
(* Requests are numbered in the order they come; a row has the number of   *)
(* the request that inserted it.  There is one domain.                     *)
(***************************************************************************)
EXTENDS Integers, FiniteSets

CONSTANTS
  Addresses,    \* the e-mail addresses clients give
  None,         \* no row, no address
  MaxRequests,  \* bound on the requests clients send
  MaxFaults     \* bound on statements and commits the database fails

ASSUME NamesAssumption == None \notin Nat \cup Addresses
ASSUME BoundsAssumption == MaxRequests \in Nat /\ MaxFaults \in Nat

Requests == 1 .. MaxRequests

VARIABLES
  kind,       \* what each request asks for
  address,    \* the address it registers or logs in with
  named,      \* the project it names
  subject,    \* the user its token names or its SELECT finds
  org,        \* the organization it finds or creates
  pc,         \* where its handler is
  wrote,      \* the tables its transaction inserted a row in
  committed,  \* the requests whose transaction committed
  answer,     \* what its client was told
  faults      \* failures so far

vars == <<kind, address, named, subject, org, pc, wrote, committed, answer, faults>>
askVars == <<kind, address, named>>
dbVars == <<wrote, committed>>

Kinds == {"register", "login", "refresh", "project", "lookup"}
Places == {"idle", "findUser", "findOrg", "insertOrg", "insertUser", "checkUser", "insertProject",
           "findProject", "answer", "commit", "done"}
Tables == {"org", "user", "project"}

Init ==
  /\ kind = [r \in Requests |-> "none"] /\ address = [r \in Requests |-> None]
  /\ named = [r \in Requests |-> None] /\ subject = [r \in Requests |-> None]
  /\ org = [r \in Requests |-> None]
  /\ pc = [r \in Requests |-> "idle"]
  /\ wrote = [r \in Requests |-> {}] /\ committed = {}
  /\ answer = [r \in Requests |-> "none"]
  /\ faults = 0

Rows(table) == {r \in Requests : table \in wrote[r]}
Visible(table) == Rows(table) \cap committed
WithAddress(a) == {r \in Visible("user") : address[r] = a}

GoTo(r, place) == pc' = [pc EXCEPT ![r] = place]

\* (variant) The transaction is left open.
RaiseLeavingOpen(r, status) ==
  /\ answer' = [answer EXCEPT ![r] = status]
  /\ GoTo(r, "done")
  /\ UNCHANGED dbVars

\* An exception in the handler reaches the session: it rolls back.
Raise(r, status) ==
  /\ answer' = [answer EXCEPT ![r] = status]
  /\ wrote' = [wrote EXCEPT ![r] = {}]
  /\ GoTo(r, "done")
  /\ UNCHANGED committed

--------------------------------------------------------------------------------
(* What clients send: a token is one that a login returned, a project one that *)
(* its creation returned                                                       *)

Answered(k) == {r \in Requests : kind[r] = k /\ answer[r] = "ok"}
Tokens == {subject[r] : r \in Answered("login")}

Ask(r, k, place) ==
  /\ pc[r] = "idle" /\ \A q \in 1 .. r - 1 : pc[q] # "idle"
  /\ kind' = [kind EXCEPT ![r] = k]
  /\ GoTo(r, place)
  /\ UNCHANGED <<org, dbVars, answer, faults>>

AskRegister(r) == Ask(r, "register", "findUser")
                  /\ \E a \in Addresses : address' = [address EXCEPT ![r] = a]
                  /\ UNCHANGED <<named, subject>>
AskLogin(r) == Ask(r, "login", "findUser")
               /\ \E a \in Addresses : address' = [address EXCEPT ![r] = a]
               /\ UNCHANGED <<named, subject>>
AskRefresh(r) == Ask(r, "refresh", "checkUser")
                 /\ \E u \in Tokens : subject' = [subject EXCEPT ![r] = u]
                 /\ UNCHANGED <<address, named>>
AskProject(r) == Ask(r, "project", "checkUser")
                 /\ \E u \in Tokens : subject' = [subject EXCEPT ![r] = u]
                 /\ UNCHANGED <<address, named>>
AskLookup(r) == Ask(r, "lookup", "checkUser")
                /\ \E u \in Tokens : subject' = [subject EXCEPT ![r] = u]
                /\ \E p \in Answered("project") : named' = [named EXCEPT ![r] = p]
                /\ UNCHANGED address

--------------------------------------------------------------------------------
(* The handlers *)

\* (variant) The token names the address.
FindUserByAddress(r) ==
  /\ pc[r] = "findUser"
  /\ IF WithAddress(address[r]) = {}
       THEN GoTo(r, "findOrg") /\ UNCHANGED subject
       ELSE subject' = [subject EXCEPT ![r] = address[r]] /\ GoTo(r, "answer")
  /\ UNCHANGED <<askVars, org, dbVars, answer, faults>>

\* find_by_email: 409 for a registration, 401 for a login.  (The password is the right one.)
FindUser(r) ==
  /\ pc[r] = "findUser"
  /\ IF kind[r] = "register"
       THEN /\ IF WithAddress(address[r]) = {} THEN GoTo(r, "findOrg") /\ UNCHANGED <<answer, dbVars>>
                                               ELSE Raise(r, "refused")
            /\ UNCHANGED subject
       ELSE IF WithAddress(address[r]) = {}
              THEN Raise(r, "refused") /\ UNCHANGED subject
              ELSE /\ \E u \in WithAddress(address[r]) : subject' = [subject EXCEPT ![r] = u]
                   /\ GoTo(r, "answer")
                   /\ UNCHANGED <<answer, dbVars>>
  /\ UNCHANGED <<askVars, org, faults>>

FindOrg(r) ==
  /\ pc[r] = "findOrg"
  /\ IF Visible("org") = {}
       THEN GoTo(r, "insertOrg") /\ UNCHANGED org
       ELSE /\ \E o \in Visible("org") : org' = [org EXCEPT ![r] = o]
            /\ GoTo(r, "insertUser")
  /\ UNCHANGED <<askVars, subject, dbVars, answer, faults>>

\* (variants) The tables have no unique columns; each INSERT is committed at once.
InsertAnyway(r, table, rivals, next) ==
  /\ wrote' = [wrote EXCEPT ![r] = @ \cup {table}] /\ UNCHANGED <<committed, answer>>
  /\ GoTo(r, next)
InsertAndCommit(r, table, rivals, next) ==
  /\ rivals \subseteq committed
  /\ IF rivals = {}
       THEN /\ wrote' = [wrote EXCEPT ![r] = @ \cup {table}] /\ committed' = committed \cup {r}
            /\ GoTo(r, next) /\ UNCHANGED answer
       ELSE Raise(r, "error")

\* The INSERT waits for the rivals' transactions; one that has committed makes it fail.
InsertUnique(r, table, rivals, next) ==
  /\ rivals \subseteq committed
  /\ IF rivals = {}
       THEN /\ wrote' = [wrote EXCEPT ![r] = @ \cup {table}] /\ UNCHANGED <<committed, answer>>
            /\ GoTo(r, next)
       ELSE Raise(r, "error")

InsertOrg(r) ==
  /\ pc[r] = "insertOrg"
  /\ InsertUnique(r, "org", Rows("org"), "insertUser")
  /\ org' = [org EXCEPT ![r] = r]
  /\ UNCHANGED <<askVars, subject, faults>>

InsertUser(r) ==
  /\ pc[r] = "insertUser"
  /\ InsertUnique(r, "user", {q \in Rows("user") : address[q] = address[r]}, "answer")
  /\ UNCHANGED <<askVars, subject, org, faults>>

\* get_current_user and refresh: the token's user is looked up; its organization goes on to the service.
CheckUser(r) ==
  /\ pc[r] = "checkUser"
  /\ IF subject[r] \notin Visible("user")
       THEN Raise(r, "refused") /\ UNCHANGED org
       ELSE /\ org' = [org EXCEPT ![r] = org[subject[r]]]
            /\ GoTo(r, CASE kind[r] = "project" -> "insertProject"
                         [] kind[r] = "lookup" -> "findProject"
                         [] OTHER -> "answer")
            /\ UNCHANGED <<answer, dbVars>>
  /\ UNCHANGED <<askVars, subject, faults>>

InsertProject(r) ==
  /\ pc[r] = "insertProject"
  /\ InsertUnique(r, "project", {}, "answer")
  /\ UNCHANGED <<askVars, subject, org, faults>>

\* find_by_id_and_org_id, for get_project and validate_project_access: 404 or 403 when the
\* organization has no such project.
FindProject(r) ==
  /\ pc[r] = "findProject"
  /\ IF named[r] \in Visible("project") /\ org[named[r]] = org[r]
       THEN GoTo(r, "answer") /\ UNCHANGED <<answer, dbVars>>
       ELSE Raise(r, "refused")
  /\ UNCHANGED <<askVars, subject, org, faults>>

\* The response leaves, then the session commits.
Answer(r) ==
  /\ pc[r] = "answer"
  /\ answer' = [answer EXCEPT ![r] = "ok"]
  /\ GoTo(r, "commit")
  /\ UNCHANGED <<askVars, subject, org, dbVars, faults>>

Commit(r) ==
  /\ pc[r] = "commit"
  /\ committed' = committed \cup {r}
  /\ GoTo(r, "done")
  /\ UNCHANGED <<askVars, subject, org, wrote, answer, faults>>

\* The database is gone: a 500, or too late for one.
Fault == faults < MaxFaults /\ faults' = faults + 1

StatementFails(r) ==
  /\ pc[r] \notin {"idle", "answer", "commit", "done"}
  /\ Fault
  /\ Raise(r, "error")
  /\ UNCHANGED <<askVars, subject, org>>

CommitFails(r) ==
  /\ pc[r] = "commit"
  /\ Fault
  /\ Raise(r, "ok")
  /\ UNCHANGED <<askVars, subject, org>>

--------------------------------------------------------------------------------

Asked(r) == AskRegister(r) \/ AskLogin(r) \/ AskRefresh(r) \/ AskProject(r) \/ AskLookup(r)

HandlerStep(r) ==
  \/ FindUser(r) \/ FindOrg(r) \/ InsertOrg(r) \/ InsertUser(r)
  \/ CheckUser(r) \/ InsertProject(r) \/ FindProject(r)
  \/ Answer(r) \/ Commit(r)

FaultStep(r) == StatementFails(r) \/ CommitFails(r)

Next == \E r \in Requests : Asked(r) \/ HandlerStep(r) \/ FaultStep(r)

Spec == Init /\ [][Next]_vars

(* The server runs its requests and the database answers; nobody need ask and  *)
(* nothing need fail.                                                          *)
Fairness == \A r \in Requests : WF_vars(HandlerStep(r))

FairSpec == Spec /\ Fairness

--------------------------------------------------------------------------------
(* Properties *)

\* Every variable has its type: see the declarations.
TypeOK ==
  /\ kind \in [Requests -> Kinds \cup {"none"}]
  /\ address \in [Requests -> Addresses \cup {None}]
  /\ named \in [Requests -> Requests \cup {None}] /\ subject \in [Requests -> Requests \cup {None}]
  /\ org \in [Requests -> Requests \cup {None}]
  /\ pc \in [Requests -> Places]
  /\ wrote \in [Requests -> SUBSET Tables] /\ committed \subseteq Requests
  /\ answer \in [Requests -> {"none", "ok", "refused", "error"}]
  /\ faults \in Nat

\* However registrations overlap between their SELECTs and INSERTs, an address has one user and the
\* domain one organization.
OneOfEach ==
  /\ Cardinality(Visible("org")) <= 1
  /\ \A a \in Addresses : Cardinality(WithAddress(a)) <= 1

\* Whatever fails between an INSERT and the commit (auth_service.py:35-53, session.py:26-32), what is
\* stored is whole: an organization has the user it was created for, users and projects have their
\* organization, a failure leaves no row to wait for, and the user a token names is there.
WholeTransactions ==
  /\ Visible("org") \subseteq Visible("user")
  /\ \A r \in Visible("user") \cup Visible("project") : org[r] \in Visible("org")
  /\ \A r \in Requests : answer[r] \in {"refused", "error"} => wrote[r] = {} /\ r \notin committed
  /\ Tokens \subseteq Visible("user")

\* Requests do not wait for each other for ever: every one is answered and its transaction ended.
EveryRequestEnds == \A r \in Requests : pc[r] # "idle" ~> pc[r] = "done"

--------------------------------------------------------------------------------
(* A claim of docs/auth_implementation.md the code does not keep *)

\* "System creates: user ... Returns: user info" (lines 31-32): a login's SELECT does not miss a user
\* whose registration has been answered.  The session commits after the answer.
RegisteredCanLogIn ==
  [][\A r \in Requests :
       (kind[r] = "login" /\ \E q \in Answered("register") : address[q] = address[r])
         => (FindUser(r) => answer'[r] # "refused")]_vars
================================================================================

---------------------------- MODULE AccountsProofs ----------------------------
(***************************************************************************)
(* What holds of Accounts for any number of requests, addresses and        *)
(* failures.                                                               *)
(***************************************************************************)
EXTENDS Accounts, FiniteSetTheorems, TLAPS

\* A login inserts nothing: it goes from its SELECT to its answer.
LoginPath ==
  \A r \in Requests : kind[r] = "login" => pc[r] \in {"findUser", "answer", "commit", "done"}

\* Where a request has inserted nothing yet.
Reading == {"idle", "findUser", "findOrg", "insertOrg", "checkUser", "insertProject", "findProject"}

\* A transaction ends with its request; an answer says how far the request is; one that is
\* before its first INSERT has no row.
Transactional ==
  \A r \in Requests :
    /\ r \in committed => pc[r] = "done"
    /\ pc[r] \in Reading => wrote[r] = {}
    /\ answer[r] \in {"refused", "error"} => pc[r] = "done" /\ wrote[r] = {} /\ r \notin committed
    /\ answer[r] = "ok" => pc[r] \in {"commit", "done"}

\* The unique columns hold for all rows, committed or not.
UniqueRows ==
  /\ \A r, q \in Rows("org") : r = q
  /\ \A r, q \in Rows("user") : address[r] = address[q] => r = q

\* A login past its SELECT has found a user that is stored.
FoundIsStored ==
  \A r \in Requests :
    kind[r] = "login" /\ (pc[r] \in {"answer", "commit"} \/ answer[r] = "ok")
      => subject[r] \in Visible("user")

\* The organization a request has is stored, or is one it has inserted itself.
HasOrg(r) == org[r] \in Visible("org") \/ (org[r] = r /\ "org" \in wrote[r])

\* A request has its organization before it inserts a user or a project, and one that inserted an
\* organization answers with its user beside it.
OwnOrganization ==
  \A r \in Requests :
    /\ pc[r] \in {"insertUser", "insertProject"} \/ "user" \in wrote[r] \/ "project" \in wrote[r] => HasOrg(r)
    /\ "org" \in wrote[r] => org[r] = r /\ (pc[r] = "insertUser" \/ "user" \in wrote[r])

Inv == TypeOK /\ LoginPath /\ Transactional /\ UniqueRows /\ FoundIsStored /\ OwnOrganization

LEMMA InitInv == Init => Inv
<1> SUFFICES ASSUME Init PROVE Inv
  OBVIOUS
<1>1. TypeOK
  BY BoundsAssumption DEF Init, TypeOK, Places
<1>2. LoginPath /\ Transactional /\ UniqueRows /\ FoundIsStored /\ OwnOrganization
  BY DEF Init, LoginPath, Transactional, UniqueRows, FoundIsStored, OwnOrganization, Rows
<1> QED
  BY <1>1, <1>2 DEF Inv

LEMMA NextType == TypeOK /\ [Next]_vars => TypeOK'
<1> SUFFICES ASSUME TypeOK, [Next]_vars PROVE TypeOK'
  OBVIOUS
<1> USE DEF TypeOK, Places
<1>1. CASE UNCHANGED vars
  BY <1>1 DEF vars
<1>2. ASSUME NEW r \in Requests, Asked(r) PROVE TypeOK'
  <2>1. Tokens \subseteq Requests \cup {None}
    BY DEF Tokens, Answered
  <2>2. Answered("project") \subseteq Requests
    BY DEF Answered
  <2>3. kind' \in [Requests -> Kinds \cup {"none"}] /\ pc' \in [Requests -> Places]
    BY <1>2 DEF Asked, AskRegister, AskLogin, AskRefresh, AskProject, AskLookup, Ask, GoTo, Kinds
  <2>4. address' \in [Requests -> Addresses \cup {None}]
        /\ named' \in [Requests -> Requests \cup {None}] /\ subject' \in [Requests -> Requests \cup {None}]
    BY <1>2, <2>1, <2>2 DEF Asked, AskRegister, AskLogin, AskRefresh, AskProject, AskLookup
  <2>5. UNCHANGED <<org, dbVars, answer, faults>>
    BY <1>2 DEF Asked, AskRegister, AskLogin, AskRefresh, AskProject, AskLookup, Ask
  <2> QED
    BY <2>3, <2>4, <2>5 DEF dbVars
<1>3. ASSUME NEW r \in Requests, HandlerStep(r) PROVE TypeOK'
  <2> USE DEF GoTo, Raise, askVars, dbVars
  <2>1. CASE FindUser(r)
    BY <2>1 DEF FindUser, WithAddress, Visible, Rows
  <2>2. CASE FindOrg(r)
    BY <2>2 DEF FindOrg, Visible, Rows
  <2>3. CASE InsertOrg(r)
    BY <2>3 DEF InsertOrg, InsertUnique, Tables
  <2>4. CASE InsertUser(r)
    BY <2>4 DEF InsertUser, InsertUnique, Tables
  <2>5. CASE CheckUser(r)
    BY <2>5 DEF CheckUser, Visible, Rows
  <2>6. CASE InsertProject(r)
    BY <2>6 DEF InsertProject, InsertUnique, Tables
  <2>7. CASE FindProject(r)
    BY <2>7 DEF FindProject
  <2>8. CASE Answer(r) \/ Commit(r)
    BY <2>8 DEF Answer, Commit
  <2> QED
    BY <1>3, <2>1, <2>2, <2>3, <2>4, <2>5, <2>6, <2>7, <2>8 DEF HandlerStep
<1>4. ASSUME NEW r \in Requests, FaultStep(r) PROVE TypeOK'
  BY <1>4 DEF FaultStep, StatementFails, CommitFails, Fault, Raise, GoTo, askVars
<1> QED
  BY <1>1, <1>2, <1>3, <1>4 DEF Next

--------------------------------------------------------------------------------
(***************************************************************************)
(* A step is one request's and touches nothing of another's: what others   *)
(* stored stays stored.                                                    *)
(***************************************************************************)

OthersKept(r) ==
  /\ \A q \in Requests \ {r} :
       /\ kind'[q] = kind[q] /\ address'[q] = address[q] /\ subject'[q] = subject[q] /\ org'[q] = org[q]
       /\ pc'[q] = pc[q] /\ wrote'[q] = wrote[q] /\ answer'[q] = answer[q]
  /\ committed' \in {committed, committed \cup {r}}
  /\ pc[r] # "done"

LEMMA OneRequestSteps ==
  ASSUME TypeOK, NEW r \in Requests, Asked(r) \/ HandlerStep(r) \/ FaultStep(r)
  PROVE  OthersKept(r)
<1> USE DEF TypeOK, GoTo, Raise, askVars, dbVars, OthersKept
<1>1. CASE Asked(r)
  BY <1>1 DEF Asked, AskRegister, AskLogin, AskRefresh, AskProject, AskLookup, Ask
<1>2. CASE FindUser(r)
  BY <1>2 DEF FindUser
<1>3. CASE FindOrg(r) \/ CheckUser(r) \/ FindProject(r)
  BY <1>3 DEF FindOrg, CheckUser, FindProject
<1>4. CASE InsertOrg(r) \/ InsertUser(r) \/ InsertProject(r)
  BY <1>4 DEF InsertOrg, InsertUser, InsertProject, InsertUnique
<1>5. CASE Answer(r) \/ Commit(r)
  BY <1>5 DEF Answer, Commit
<1>6. CASE FaultStep(r)
  BY <1>6 DEF FaultStep, StatementFails, CommitFails
<1> QED
  BY <1>1, <1>2, <1>3, <1>4, <1>5, <1>6 DEF HandlerStep

LEMMA StoredStays ==
  ASSUME TypeOK, Transactional, NEW r \in Requests, OthersKept(r), NEW table \in Tables
  PROVE  Visible(table) \subseteq Visible(table)'
  BY DEF TypeOK, Transactional, OthersKept, Visible, Rows

LEMMA NextLoginPath == Inv /\ [Next]_vars => LoginPath'
<1> SUFFICES ASSUME Inv, [Next]_vars PROVE LoginPath'
  OBVIOUS
<1> USE DEF Inv, TypeOK, LoginPath
<1>1. CASE UNCHANGED vars
  BY <1>1 DEF vars
<1>2. ASSUME NEW r \in Requests, Asked(r) \/ HandlerStep(r) \/ FaultStep(r) PROVE LoginPath'
  <2>1. OthersKept(r)
    BY <1>2, OneRequestSteps
  <2>2. kind'[r] = "login" => pc'[r] \in {"findUser", "answer", "commit", "done"}
    <3> USE DEF GoTo, Raise, askVars
    <3>1. CASE Asked(r)
      BY <3>1 DEF Asked, AskRegister, AskLogin, AskRefresh, AskProject, AskLookup, Ask
    <3>2. CASE HandlerStep(r)
      BY <3>2 DEF HandlerStep, FindUser, FindOrg, InsertOrg, InsertUser, CheckUser, InsertProject,
                  FindProject, Answer, Commit
    <3>3. CASE FaultStep(r)
      BY <3>3 DEF FaultStep, StatementFails, CommitFails
    <3> QED
      BY <1>2, <3>1, <3>2, <3>3
  <2> QED
    BY <2>1, <2>2 DEF OthersKept
<1> QED
  BY <1>1, <1>2 DEF Next

LEMMA NextTransactional == Inv /\ [Next]_vars => Transactional'
<1> SUFFICES ASSUME Inv, [Next]_vars PROVE Transactional'
  OBVIOUS
<1> USE DEF Inv, TypeOK, Transactional, Reading
<1>1. CASE UNCHANGED vars
  BY <1>1 DEF vars
<1>2. ASSUME NEW r \in Requests, Asked(r) \/ HandlerStep(r) \/ FaultStep(r) PROVE Transactional'
  <2>1. OthersKept(r)
    BY <1>2, OneRequestSteps
  <2> DEFINE Own == /\ r \in committed' => pc'[r] = "done"
                    /\ pc'[r] \in Reading => wrote'[r] = {}
                    /\ answer'[r] \in {"refused", "error"}
                         => pc'[r] = "done" /\ wrote'[r] = {} /\ r \notin committed'
                    /\ answer'[r] = "ok" => pc'[r] \in {"commit", "done"}
  <2>2. Own
    <3> USE DEF GoTo, Raise, askVars, dbVars
    <3>1. CASE Asked(r)
      BY <3>1 DEF Asked, AskRegister, AskLogin, AskRefresh, AskProject, AskLookup, Ask
    <3>2. CASE FindUser(r) \/ FindOrg(r) \/ CheckUser(r) \/ FindProject(r)
      BY <3>2 DEF FindUser, FindOrg, CheckUser, FindProject
    <3>3. CASE InsertOrg(r) \/ InsertUser(r) \/ InsertProject(r)
      BY <3>3 DEF InsertOrg, InsertUser, InsertProject, InsertUnique
    <3>4. CASE Answer(r) \/ Commit(r)
      BY <3>4 DEF Answer, Commit
    <3>5. CASE FaultStep(r)
      BY <3>5 DEF FaultStep, StatementFails, CommitFails
    <3> QED
      BY <1>2, <3>1, <3>2, <3>3, <3>4, <3>5 DEF HandlerStep
  <2>3. ASSUME NEW q \in Requests \ {r}
        PROVE  /\ q \in committed' => pc'[q] = "done"
               /\ pc'[q] \in Reading => wrote'[q] = {}
               /\ answer'[q] \in {"refused", "error"}
                    => pc'[q] = "done" /\ wrote'[q] = {} /\ q \notin committed'
               /\ answer'[q] = "ok" => pc'[q] \in {"commit", "done"}
    BY <2>1 DEF OthersKept
  <2> QED
    BY <2>2, <2>3
<1> QED
  BY <1>1, <1>2 DEF Next

\* An INSERT that has waited adds no second row with its key.
LEMMA InsertsAreUnique ==
  ASSUME Inv, NEW r \in Requests, Asked(r) \/ HandlerStep(r) \/ FaultStep(r)
  PROVE  /\ wrote'[r] # {} => address'[r] = address[r]
         /\ "org" \in wrote'[r] => "org" \in wrote[r] \/ Rows("org") = {}
         /\ "user" \in wrote'[r]
              => "user" \in wrote[r] \/ {q \in Rows("user") : address[q] = address[r]} = {}
<1> USE DEF Inv, TypeOK, GoTo, Raise, askVars, dbVars
<1>1. CASE Asked(r)
  BY <1>1 DEF Asked, AskRegister, AskLogin, AskRefresh, AskProject, AskLookup, Ask, Transactional, Reading
<1>2. CASE FindUser(r) \/ FindOrg(r) \/ CheckUser(r) \/ FindProject(r) \/ Answer(r) \/ Commit(r)
  BY <1>2 DEF FindUser, FindOrg, CheckUser, FindProject, Answer, Commit
<1>3. CASE InsertOrg(r)
  BY <1>3 DEF InsertOrg, InsertUnique
<1>4. CASE InsertUser(r)
  BY <1>4 DEF InsertUser, InsertUnique
<1>5. CASE InsertProject(r)
  BY <1>5 DEF InsertProject, InsertUnique
<1>6. CASE FaultStep(r)
  BY <1>6 DEF FaultStep, StatementFails, CommitFails
<1> QED
  BY <1>1, <1>2, <1>3, <1>4, <1>5, <1>6 DEF HandlerStep

LEMMA NextUniqueRows == Inv /\ [Next]_vars => UniqueRows'
<1> SUFFICES ASSUME Inv, [Next]_vars PROVE UniqueRows'
  OBVIOUS
<1>1. CASE UNCHANGED vars
  BY <1>1 DEF Inv, vars, UniqueRows, Rows
<1>2. ASSUME NEW r \in Requests, Asked(r) \/ HandlerStep(r) \/ FaultStep(r) PROVE UniqueRows'
  <2>1. OthersKept(r)
    BY <1>2, OneRequestSteps DEF Inv
  <2>2. \A q \in Requests \ {r} : wrote'[q] = wrote[q] /\ address'[q] = address[q]
    BY <2>1 DEF OthersKept
  <2>3. ASSUME NEW p \in Rows("org")', NEW q \in Rows("org")' PROVE p = q
    BY <1>2, <2>2, InsertsAreUnique DEF Inv, UniqueRows, Rows
  <2>4. ASSUME NEW p \in Rows("user")', NEW q \in Rows("user")', address'[p] = address'[q]
        PROVE  p = q
    BY <1>2, <2>2, <2>4, InsertsAreUnique DEF Inv, UniqueRows, Rows
  <2> QED
    BY <2>3, <2>4 DEF UniqueRows
<1> QED
  BY <1>1, <1>2 DEF Next

LEMMA NextFoundIsStored == Inv /\ [Next]_vars => FoundIsStored'
<1> SUFFICES ASSUME Inv, [Next]_vars PROVE FoundIsStored'
  OBVIOUS
<1> USE DEF Inv
<1>1. CASE UNCHANGED vars
  BY <1>1 DEF vars, FoundIsStored, Visible, Rows
<1>2. ASSUME NEW r \in Requests, Asked(r) \/ HandlerStep(r) \/ FaultStep(r) PROVE FoundIsStored'
  <2>1. OthersKept(r)
    BY <1>2, OneRequestSteps
  <2>2. Visible("user") \subseteq Visible("user")'
    BY <2>1, StoredStays DEF Tables
  <2>3. ASSUME kind'[r] = "login", pc'[r] \in {"answer", "commit"} \/ answer'[r] = "ok"
        PROVE  subject'[r] \in Visible("user")
    <3> USE DEF TypeOK, LoginPath, Transactional, FoundIsStored, GoTo, Raise, askVars, dbVars
    <3>1. CASE Asked(r)
      BY <2>3, <3>1 DEF Asked, AskRegister, AskLogin, AskRefresh, AskProject, AskLookup, Ask
    <3>2. CASE FindUser(r)
      <4>1. answer[r] # "ok" /\ kind[r] = "login"
        BY <2>3, <3>2 DEF FindUser
      <4>2. \E u \in WithAddress(address[r]) : subject' = [subject EXCEPT ![r] = u]
        BY <2>3, <3>2, <4>1 DEF FindUser
      <4> QED
        BY <4>2 DEF WithAddress
    <3>3. CASE FindOrg(r) \/ InsertOrg(r) \/ InsertUser(r) \/ CheckUser(r) \/ InsertProject(r)
                 \/ FindProject(r)
      BY <2>3, <3>3 DEF FindOrg, InsertOrg, InsertUser, CheckUser, InsertProject, FindProject
    <3>4. CASE Answer(r) \/ Commit(r)
      BY <2>3, <3>4 DEF Answer, Commit
    <3>5. CASE FaultStep(r)
      BY <2>3, <3>5 DEF FaultStep, StatementFails, CommitFails
    <3> QED
      BY <1>2, <3>1, <3>2, <3>3, <3>4, <3>5 DEF HandlerStep
  <2>4. ASSUME NEW q \in Requests \ {r},
               kind'[q] = "login", pc'[q] \in {"answer", "commit"} \/ answer'[q] = "ok"
        PROVE  subject'[q] \in Visible("user")
    BY <2>1, <2>4 DEF OthersKept, FoundIsStored
  <2> QED
    BY <2>2, <2>3, <2>4 DEF FoundIsStored
<1> QED
  BY <1>1, <1>2 DEF Next

LEMMA NextOwnOrganization == Inv /\ [Next]_vars => OwnOrganization'
<1> SUFFICES ASSUME Inv, [Next]_vars PROVE OwnOrganization'
  OBVIOUS
<1> USE DEF Inv
<1>1. CASE UNCHANGED vars
  BY <1>1 DEF vars, OwnOrganization, HasOrg, Visible, Rows
<1>2. ASSUME NEW r \in Requests, Asked(r) \/ HandlerStep(r) \/ FaultStep(r) PROVE OwnOrganization'
  <2>1. OthersKept(r)
    BY <1>2, OneRequestSteps
  <2>2. Visible("org") \subseteq Visible("org")'
    BY <2>1, StoredStays DEF Tables
  <2> DEFINE Stored(q) == org'[q] \in Visible("org") \/ (org'[q] = q /\ "org" \in wrote'[q])
             Own(q) == /\ pc'[q] \in {"insertUser", "insertProject"} \/ "user" \in wrote'[q] \/ "project" \in wrote'[q]
                            => Stored(q)
                       /\ "org" \in wrote'[q] => org'[q] = q /\ (pc'[q] = "insertUser" \/ "user" \in wrote'[q])
  <2>3. Own(r)
    <3> USE DEF TypeOK, Transactional, Reading, OwnOrganization, HasOrg, GoTo, Raise, askVars, dbVars
    <3>1. CASE Asked(r)
      BY <3>1 DEF Asked, AskRegister, AskLogin, AskRefresh, AskProject, AskLookup, Ask
    <3>2. CASE FindUser(r) \/ FindProject(r)
      BY <3>2 DEF FindUser, FindProject
    <3>3. CASE FindOrg(r)
      BY <3>3 DEF FindOrg
    <3>4. CASE CheckUser(r)
      <4>1. CASE subject[r] \in Visible("user")
        <5>1. subject[r] \in Requests /\ subject[r] \in committed /\ "user" \in wrote[subject[r]]
          BY <4>1 DEF Visible, Rows
        <5>2. org[subject[r]] \in Visible("org")
          BY <5>1 DEF Visible, Rows
        <5> QED
          BY <3>4, <4>1, <5>2 DEF CheckUser
      <4>2. CASE subject[r] \notin Visible("user")
        BY <3>4, <4>2 DEF CheckUser
      <4> QED
        BY <4>1, <4>2
    <3>5. CASE InsertOrg(r)
      BY <3>5 DEF InsertOrg, InsertUnique
    <3>6. CASE InsertUser(r) \/ InsertProject(r)
      BY <3>6 DEF InsertUser, InsertProject, InsertUnique
    <3>7. CASE Answer(r) \/ Commit(r)
      BY <3>7 DEF Answer, Commit
    <3>8. CASE FaultStep(r)
      BY <3>8 DEF FaultStep, StatementFails, CommitFails
    <3> QED
      BY <1>2, <3>1, <3>2, <3>3, <3>4, <3>5, <3>6, <3>7, <3>8 DEF HandlerStep
  <2>4. ASSUME NEW q \in Requests \ {r} PROVE Own(q)
    BY <2>1 DEF OthersKept, OwnOrganization, HasOrg
  <2>5. \A q \in Requests : Stored(q) => HasOrg(q)'
    BY <2>2 DEF HasOrg
  <2>6. \A q \in Requests : Own(q)
    BY <2>3, <2>4
  <2> HIDE DEF Stored
  <2> QED
    BY <2>5, <2>6 DEF OwnOrganization
<1> QED
  BY <1>1, <1>2 DEF Next

THEOREM Invariant == Spec => []Inv
<1>1. Inv /\ [Next]_vars => Inv'
  BY NextType, NextLoginPath, NextTransactional, NextUniqueRows, NextFoundIsStored,
     NextOwnOrganization DEF Inv
<1> QED
  BY <1>1, InitInv, PTL DEF Spec

--------------------------------------------------------------------------------

\* Every variable keeps its type, for any number of requests and failures.
THEOREM TypeCorrect == Spec => []TypeOK
<1>1. Inv => TypeOK
  BY DEF Inv
<1> QED
  BY <1>1, Invariant, PTL

LEMMA AtMostOne ==
  ASSUME NEW S, \A x, y \in S : x = y
  PROVE  Cardinality(S) <= 1
<1>1. CASE S = {}
  BY <1>1, FS_EmptySet
<1>2. CASE S # {}
  <2>1. PICK x \in S : TRUE
    BY <1>2
  <2>2. S = {x}
    BY <2>1
  <2> QED
    BY <2>2, FS_Singleton
<1> QED
  BY <1>1, <1>2

\* However many registrations overlap between their SELECTs and their INSERTs, the committed users
\* have different addresses and there is one organization.
THEOREM OneOfEachTheorem == Spec => []OneOfEach
<1>1. Inv => OneOfEach
  <2> SUFFICES ASSUME Inv PROVE OneOfEach
    OBVIOUS
  <2>1. Cardinality(Visible("org")) <= 1
    BY AtMostOne DEF Inv, UniqueRows, Visible
  <2>2. ASSUME NEW a \in Addresses PROVE Cardinality(WithAddress(a)) <= 1
    BY AtMostOne DEF Inv, UniqueRows, WithAddress, Visible
  <2> QED
    BY <2>1, <2>2 DEF OneOfEach
<1> QED
  BY <1>1, Invariant, PTL

\* However requests overlap and whichever of their statements and commits fail: an organization has
\* its user, users and projects have their organization, a failure leaves no row, and the user a
\* token names is stored.
THEOREM WholeTransactionsTheorem == Spec => []WholeTransactions
<1>1. Inv => WholeTransactions
  <2> SUFFICES ASSUME Inv PROVE WholeTransactions
    OBVIOUS
  <2> USE DEF Inv
  <2>1. Visible("org") \subseteq Visible("user")
    BY DEF OwnOrganization, Transactional, Visible, Rows
  <2>2. ASSUME NEW r \in Visible("user") \cup Visible("project") PROVE org[r] \in Visible("org")
    BY DEF OwnOrganization, HasOrg, Visible, Rows
  <2>3. \A r \in Requests : answer[r] \in {"refused", "error"} => wrote[r] = {} /\ r \notin committed
    BY DEF Transactional
  <2>4. Tokens \subseteq Visible("user")
    BY DEF FoundIsStored, Tokens, Answered
  <2> QED
    BY <2>1, <2>2, <2>3, <2>4 DEF WholeTransactions
<1> QED
  BY <1>1, Invariant, PTL
================================================================================

------------------------- MODULE ProjectSelectionProofs -------------------------
(***************************************************************************)
(* What holds of the dashboard's session and of its project selection for  *)
(* any users, projects, clicks and failures.                               *)
(***************************************************************************)
EXTENDS ProjectSelection, FiniteSetTheorems, TLAPS

Kinds == {"register", "login", "first", "me"}
IsCall(c) ==
  /\ c = [id |-> c.id, kind |-> c.kind, who |-> c.who, token |-> c.token, here |-> c.here]
  /\ c.kind \in Kinds /\ c.who \in Users /\ c.token \in 0 .. Len(issued) /\ c.here \in {"yes", "no"}

SessionType ==
  /\ accounts \subseteq Users \ Rejected /\ issued \in Seq(accounts)
  /\ expired \in 0 .. Len(issued) /\ token \in 0 .. Len(issued)
  /\ page \in {"login", "register", "dashboard", "crashed"}
  /\ going \in {"none", "login", "register", "dashboard"}
  /\ user \in accounts \cup {None}
  /\ {isLoading, submitting, overtaken} \subseteq {"yes", "no"}
  /\ \A c \in calls : IsCall(c)

\* A call of AuthProvider asks for the user of a token that was issued.  While its page is shown it
\* is the only one, nobody is shown yet, and its token is the one stored unless that was overtaken.
Asking ==
  \A c \in calls :
    /\ c.kind = "me" => c.token # 0 /\ issued[c.token] = c.who
    /\ c.kind = "me" /\ c.here = "yes" =>
         /\ page = "dashboard" /\ user = None /\ (overtaken = "no" => token = c.token)
         /\ \A d \in calls : d.kind = "me" /\ d.here = "yes" => d = c

\* The calls of a form are its page's, or of a page left.
OfForms == \A c \in calls : c.kind # "me" /\ c.here = "yes" => page \in {"login", "register"}

UserOnDashboard == user # None => page = "dashboard"

SessionInv == SessionType /\ Asking /\ OfForms /\ UserOnDashboard /\ UserFitsToken

IsRequest(r) ==
  /\ r = [id |-> r.id, form |-> r.form, phase |-> r.phase, token |-> r.token, seen |-> r.seen,
          here |-> r.here]
  /\ r.form \in Forms \cup {"list", "gone"} /\ r.phase \in {"sent", "served"} /\ r.seen \in 0 .. made
  /\ r.here \in {"yes", "no"} /\ (r.here = "yes" => Shown)

ProjectType ==
  /\ made \in 0 .. MaxProjects /\ current \in 0 .. made /\ saved \in 0 .. made /\ choice \in 0 .. made
  /\ list \in [Projects -> 0 .. 2]
  /\ showForm \in [Forms -> {"yes", "no"}] /\ creating \in [Forms -> {"yes", "no"}]
  /\ patient \in {"yes", "no"}
  /\ IsFiniteSet(requests) /\ \A r \in requests : IsRequest(r)
  /\ Shown \/ (list = Empty /\ current = 0)

\* Every project under way has its number.
Numbered == made + Cardinality(Making) <= MaxProjects

\* An answer to a form brings a project of its own, which the list has once at most.
Answering(r) == r.form # "list" /\ r.phase = "served"
EachOnce ==
  /\ \A r, s \in requests : Answering(r) /\ Answering(s) /\ r.seen = s.seen => r = s
  /\ \A r \in requests : Answering(r) => r.seen # 0 /\ list[r.seen] <= 1
  /\ \A p \in Projects : p > made => list[p] = 0

UpTo(n) == [p \in Projects |-> IF p <= n THEN 1 ELSE 0]
Remembered == choice # 0 => saved = choice
Settled ==
  /\ list = UpTo(made) /\ saved = current
  /\ IF choice # 0 THEN current = choice ELSE current = 0 <=> made = 0

\* For a user who waits there is one call at a time, and the selection is where that call left it.
WhileWaiting ==
  patient = "yes" =>
    /\ \A r, s \in requests : r = s
    /\ requests = {} => IF Shown THEN Settled ELSE Remembered
    /\ \A r \in requests :
         /\ r.here = "yes"
         /\ r.form = "list" => current = 0 /\ Remembered
         /\ r.form = "list" /\ r.phase = "served" => r.seen = made
         /\ r.form # "list" /\ r.phase = "sent" => Settled
         /\ Answering(r) => r.seen = made /\ choice = made /\ list = UpTo(made - 1)

ProjectInv == ProjectType /\ Numbered /\ EachOnce /\ WhileWaiting

Inv == SessionInv /\ ProjectInv
--------------------------------------------------------------------------------
(* The session *)

Call(i, kind, who, t) == [id |-> i, kind |-> kind, who |-> who, token |-> t, here |-> "yes"]

\* A new call differs from those there by its number at most.
LEMMA CallAdded ==
  \A S, kind, who : \E i : With(S, kind, who) = S \cup {Call(i, kind, who, Bearer(kind))}
BY DEF With, Call

\* A sequence over some accounts is one over more of them.
LEMMA OverMore ==
  ASSUME NEW A, NEW B, A \subseteq B, NEW s \in Seq(A)
  PROVE  s \in Seq(B) /\ Len(s) \in Nat /\ \A i \in 1 .. Len(s) : s[i] \in A
<1>1. Len(s) \in Nat /\ s \in [1 .. Len(s) -> A] OBVIOUS
<1>2. s \in [1 .. Len(s) -> B] BY <1>1
<1> QED BY <1>1, <1>2

\* The tokens given out and the accounts stay as they are.
Lasting == issued' = issued /\ expired' = expired /\ accounts \subseteq accounts' /\ accounts' \subseteq Users \ Rejected

LEMMA StillIssued ==
  ASSUME SessionType, Lasting
  PROVE  /\ issued' \in Seq(accounts') /\ Len(issued') = Len(issued) /\ expired' \in 0 .. Len(issued')
         /\ \A i \in 1 .. Len(issued) : issued[i] \in accounts
BY OverMore DEF SessionType, Lasting

\* Some calls are gone, the rest are as they were.
LEMMA CallsGo ==
  ASSUME SessionInv, Lasting, calls' \subseteq calls, token' = token, UNCHANGED <<page, overtaken>>,
         going' \in {"none", "login", "register", "dashboard"},
         user' = user, isLoading' \in {"yes", "no"}, submitting' \in {"yes", "no"}
  PROVE  SessionInv'
<1>1. SessionType' BY StillIssued DEF SessionInv, SessionType, IsCall, Lasting
<1>2. Asking' BY DEF SessionInv, Asking, Lasting
<1>3. OfForms' BY DEF SessionInv, OfForms
<1>4. UserOnDashboard' /\ UserFitsToken' BY DEF SessionInv, UserOnDashboard, UserFitsToken, Lasting
<1> QED BY <1>1, <1>2, <1>3, <1>4 DEF SessionInv

LEMMA MountKeeps ==
  ASSUME SessionInv, Lasting, NEW p \in {"login", "register", "dashboard"}, NEW S, Mount(p, S),
         S = {} \/ S = Left(calls)
  PROVE  SessionInv'
<1> USE DEF SessionInv
<1>1. page' = p /\ going' = "none" /\ overtaken' = "no" /\ user' = None /\ submitting' = "no"
      /\ token' = token /\ issued' = issued /\ isLoading' \in {"yes", "no"}
  BY DEF Mount
<1>2. \A c \in S : /\ IsCall(c) /\ c.here = "no"
                   /\ c.kind = "me" => c.token # 0 /\ issued[c.token] = c.who
  <2>1. CASE S = {} BY <2>1
  <2>2. CASE S = Left(calls) BY <2>2 DEF Left, SessionType, IsCall, Asking
  <2> QED BY <2>1, <2>2
<1> DEFINE Asks(i) == Call(i, "me", issued[token], token)
           Added(i) == p = "dashboard" /\ token # 0 /\ calls' = S \cup {Asks(i)}
<1>3. \E i : calls' = S \/ Added(i)
  <2>1. CASE p = "dashboard" /\ token # 0
    <3>1. calls' = With(S, "me", issued[token]) BY <2>1 DEF Mount
    <3>2. PICK i : With(S, "me", issued[token]) = S \cup {Call(i, "me", issued[token], token)}
      BY CallAdded DEF Bearer
    <3>3. Added(i) BY <2>1, <3>1, <3>2
    <3> HIDE DEF Added
    <3> QED BY <3>3
  <2>2. CASE ~(p = "dashboard" /\ token # 0)
    <3>1. calls' = S BY <2>2 DEF Mount
    <3> QED BY <3>1
  <2> QED BY <2>1, <2>2
<1>10. PICK i : calls' = S \/ Added(i) BY <1>3
<1> DEFINE new == Asks(i)
<1>4. token # 0 => IsCall(new) /\ new.kind = "me" /\ new.token = token /\ new.who = issued[token]
  BY StillIssued DEF SessionType, IsCall, Kinds, Call
<1>5. \A c \in calls' : c \in S \/ (c = new /\ p = "dashboard" /\ token # 0)
  BY <1>10
<1> HIDE DEF new, Asks, Added
<1>6. SessionType'
  <2>1. \A c \in calls' : IsCall(c)' BY <1>1, <1>2, <1>4, <1>5 DEF IsCall
  <2> QED BY <1>1, <2>1, StillIssued DEF SessionType, Lasting
<1>7. Asking'
  BY <1>1, <1>2, <1>4, <1>5 DEF Asking
<1>8. OfForms' BY <1>2, <1>4, <1>5 DEF OfForms
<1>9. UserOnDashboard' /\ UserFitsToken' BY <1>1 DEF UserOnDashboard, UserFitsToken
<1> QED BY <1>6, <1>7, <1>8, <1>9

LEMMA LeavingKeeps ==
  ASSUME SessionInv, Arrive
  PROVE  SessionInv'
<1>0. accounts' = accounts /\ issued' = issued /\ expired' = expired BY DEF Arrive, Mount, server
<1>1. Lasting BY <1>0 DEF Lasting, SessionInv, SessionType
<1>2. CASE going = page
  <2>1. going' = "none" /\ UNCHANGED <<token, page, user, isLoading, submitting, calls, overtaken>>
    BY <1>2 DEF Arrive, provider
  <2> QED BY <1>1, <2>1, CallsGo DEF SessionInv, SessionType
<1>3. CASE going # page
  <2>1. Mount(going, Left(calls)) BY <1>3 DEF Arrive
  <2>2. going \in {"login", "register", "dashboard"} BY DEF Arrive, SessionInv, SessionType
  <2> QED BY <1>1, <2>1, <2>2, MountKeeps
<1> QED BY <1>2, <1>3

LEMMA LoadKeeps ==
  ASSUME SessionInv, NEW p \in {"login", "register", "dashboard"}, Load(p)
  PROVE  SessionInv'
<1>1. Mount(p, {}) BY DEF Load
<1>2. accounts \subseteq accounts' /\ accounts' \subseteq Users \ Rejected
  BY DEF Load, SessionInv, SessionType, IsCall
<1>3. Lasting BY <1>1, <1>2 DEF Mount, Lasting
<1> QED BY <1>1, <1>3, MountKeeps

LEMMA SubmitKeeps ==
  ASSUME SessionInv, NEW u \in Users, Submit(u)
  PROVE  SessionInv'
<1> USE DEF SessionInv
<1>1. PICK i : calls' = calls \cup {Call(i, page, u, 0)}
  <2>1. calls' = With(calls, page, u) BY DEF Submit
  <2>2. page # "me" BY DEF Submit, LoginReady, RegisterReady
  <2>3. PICK i : With(calls, page, u) = calls \cup {Call(i, page, u, 0)}
    BY <2>2, CallAdded DEF Bearer
  <2> QED BY <2>1, <2>3
<1> DEFINE new == Call(i, page, u, 0)
<1>2. page \in {"login", "register"} BY DEF Submit, LoginReady, RegisterReady
<1>3. Len(issued) \in Nat BY OverMore DEF SessionType
<1>4. IsCall(new) /\ new.kind # "me" BY <1>2, <1>3 DEF IsCall, Kinds, Call
<1>5. \A c \in calls' : c \in calls \/ c = new BY <1>1
<1> HIDE DEF new
<1>6. UNCHANGED <<accounts, issued, expired, token, page, going, user, isLoading, overtaken>>
      /\ submitting' = "yes"
  BY DEF Submit, server, provider
<1>7. SessionType'
  <2>1. \A c \in calls' : IsCall(c)' BY <1>4, <1>5, <1>6 DEF SessionType, IsCall
  <2> QED BY <1>6, <2>1 DEF SessionType
<1>8. Asking' BY <1>4, <1>5, <1>6 DEF Asking
<1>9. OfForms' BY <1>2, <1>6 DEF OfForms
<1>10. UserOnDashboard' /\ UserFitsToken' BY <1>6 DEF UserOnDashboard, UserFitsToken
<1> QED BY <1>7, <1>8, <1>9, <1>10

LEMMA RegisterOkKeeps ==
  ASSUME SessionInv, NEW c \in calls, RegisterOk(c)
  PROVE  SessionInv'
<1> USE DEF SessionInv
<1> DEFINE new == [c EXCEPT !.kind = "first"]
<1>1. UNCHANGED <<issued, expired, token, page, going, user, isLoading, submitting, overtaken>>
      /\ accounts' = accounts \cup {c.who} /\ c.who \in Users \ Rejected
  BY DEF RegisterOk, provider, SessionType, IsCall
<1>2. IsCall(new) /\ new.kind = "first" /\ new.here = c.here /\ c.kind = "register"
  BY DEF RegisterOk, SessionType, IsCall, Kinds
<1>3. \A d \in calls' : d \in calls \/ d = new BY DEF RegisterOk
<1> HIDE DEF new
<1>4. Lasting BY <1>1 DEF Lasting, SessionType
<1>5. SessionType'
  <2>1. \A d \in calls' : IsCall(d)' BY <1>1, <1>2, <1>3 DEF SessionType, IsCall
  <2> QED BY <1>1, <1>4, <2>1, StillIssued DEF SessionType, Lasting
<1>6. Asking' BY <1>1, <1>2, <1>3 DEF Asking
<1>7. OfForms' BY <1>1, <1>2, <1>3 DEF OfForms
<1>8. UserOnDashboard' /\ UserFitsToken' BY <1>1 DEF UserOnDashboard, UserFitsToken
<1> QED BY <1>5, <1>6, <1>7, <1>8

\* A form's call fails, or an answer to it is an error.
LEMMA FormFailsKeeps ==
  ASSUME SessionInv, NEW c \in calls, RegisterFails(c) \/ RegisterInvalid(c) \/ LoginFails(c)
  PROVE  SessionInv'
<1> USE DEF SessionInv
<1>1. Lasting /\ token' = token /\ UNCHANGED <<overtaken, user, isLoading>>
  BY DEF RegisterFails, RegisterInvalid, LoginFails, FormFails, Lasting, provider, SessionType, IsCall
<1>2. CASE FormFails(c) /\ page' = page
  <2>1. calls' \subseteq calls /\ going' = going /\ submitting' \in {"yes", "no"}
    BY <1>2 DEF FormFails, SessionType
  <2> QED BY <1>1, <1>2, <2>1, CallsGo DEF SessionType
<1>3. CASE /\ c.kind = "register" /\ c.here = "yes" /\ page' = "crashed" /\ going' = "none"
           /\ calls' = Left(calls \ {c}) /\ submitting' = "no"
  <2>1. user = None BY <1>3 DEF OfForms, UserOnDashboard
  <2>2. \A d \in calls' : /\ IsCall(d) /\ d.here = "no"
                          /\ d.kind = "me" => d.token # 0 /\ issued[d.token] = d.who
    BY <1>3 DEF Left, SessionType, IsCall, Asking
  <2>3. SessionType'
    <3>1. \A d \in calls' : IsCall(d)' BY <1>1, <2>2 DEF IsCall, Lasting
    <3> QED BY <1>1, <1>3, <3>1, StillIssued DEF SessionType, Lasting
  <2>4. Asking' /\ OfForms' BY <1>1, <2>2 DEF Asking, OfForms, Lasting
  <2>5. UserOnDashboard' /\ UserFitsToken' BY <1>1, <2>1 DEF UserOnDashboard, UserFitsToken
  <2> QED BY <2>3, <2>4, <2>5
<1> QED BY <1>2, <1>3 DEF RegisterFails, RegisterInvalid, LoginFails

LEMMA LoginOkKeeps ==
  ASSUME SessionInv, NEW c \in calls, LoginOk(c)
  PROVE  SessionInv'
<1> USE DEF SessionInv
<1> DEFINE n == Len(issued)
<1>1. UNCHANGED <<accounts, expired, page, user, isLoading>> /\ calls' \subseteq calls
      /\ c.kind \in {"login", "first"} /\ c.who \in accounts
  BY DEF LoginOk, provider
<1>2. /\ issued' \in Seq(accounts) /\ n \in Nat /\ Len(issued') = n + 1 /\ token' = n + 1
      /\ \A i \in 1 .. n : issued'[i] = issued[i]
  BY OverMore DEF LoginOk, SessionType
<1>3. overtaken' = IF page = "dashboard" /\ c.here = "no" THEN "yes" ELSE overtaken
  BY DEF LoginOk, Overtakes
<1>4. going' \in {"none", "login", "register", "dashboard"} /\ submitting' \in {"yes", "no"}
  BY DEF LoginOk, SessionType
<1>5. c.here = "yes" => page # "dashboard" BY <1>1 DEF OfForms
<1>6. c.here \in {"yes", "no"} /\ expired \in 0 .. n /\ \A d \in calls : d.token \in 0 .. n
  BY DEF SessionType, IsCall
<1>7. SessionType'
  <2>1. \A d \in calls' : IsCall(d)'
    <3>1. \A k \in 0 .. n : k \in 0 .. n + 1 BY <1>2
    <3> QED BY <1>1, <1>2, <3>1 DEF SessionType, IsCall
  <2>2. expired' \in 0 .. Len(issued') /\ token' \in 0 .. Len(issued') BY <1>1, <1>2, <1>6
  <2> QED BY <1>1, <1>2, <1>3, <1>4, <2>1, <2>2 DEF SessionType
<1>8. Asking'
  <2>1. \A d \in calls : d.kind = "me" => issued'[d.token] = d.who /\ d.token # 0
    BY <1>2, <1>6 DEF Asking
  <2> QED BY <1>1, <1>3, <1>5, <1>6, <2>1 DEF Asking
<1>9. OfForms' BY <1>1 DEF OfForms
<1>10. UserOnDashboard' /\ UserFitsToken'
  BY <1>1, <1>3, <1>5, <1>6 DEF UserOnDashboard, UserFitsToken
<1> QED BY <1>7, <1>8, <1>9, <1>10

LEMMA MeOkKeeps ==
  ASSUME SessionInv, NEW c \in calls, MeOk(c)
  PROVE  SessionInv'
<1> USE DEF SessionInv
<1>1. UNCHANGED <<accounts, issued, expired, token, page, going, submitting, overtaken>>
      /\ calls' = calls \ {c} /\ c.kind = "me"
  BY DEF MeOk, server
<1>2. CASE c.here = "no"
  <2>1. UNCHANGED <<user, isLoading>> BY <1>2 DEF MeOk, Show, provider
  <2>2. Lasting BY <1>1 DEF Lasting, SessionType
  <2> QED BY <1>1, <2>1, <2>2, CallsGo DEF SessionType
<1>3. CASE c.here = "yes"
  <2>1. user' = c.who /\ isLoading' = "no" BY <1>3 DEF MeOk, Show
  <2>2. page = "dashboard" /\ (overtaken = "no" => token = c.token) /\ c.token # 0
        /\ issued[c.token] = c.who /\ \A d \in calls' : ~(d.kind = "me" /\ d.here = "yes")
    BY <1>1, <1>3 DEF Asking
  <2>3. c.who \in accounts
    <3>1. c.token \in 1 .. Len(issued) BY <2>2, OverMore DEF SessionType, IsCall
    <3> QED BY <2>2, <3>1, OverMore DEF SessionType
  <2>4. SessionType' BY <1>1, <2>1, <2>3 DEF SessionType, IsCall
  <2>5. Asking' BY <1>1, <2>2 DEF Asking
  <2>6. OfForms' BY <1>1 DEF OfForms
  <2>7. UserOnDashboard' /\ UserFitsToken' BY <1>1, <2>1, <2>2 DEF UserOnDashboard, UserFitsToken
  <2> QED BY <2>4, <2>5, <2>6, <2>7
<1> QED BY <1>2, <1>3 DEF SessionType, IsCall

\* A call of the dashboard shown finds nobody shown yet; one of a page left overtakes the token.
LEMMA MeFailsKeeps ==
  ASSUME SessionInv, NEW c \in calls, MeFails(c)
  PROVE  SessionInv'
<1> USE DEF SessionInv
<1>1. UNCHANGED <<accounts, issued, expired, page, going, user, submitting>> /\ token' = 0
      /\ calls' = calls \ {c} /\ c.kind = "me" /\ isLoading' \in {"yes", "no"}
  BY DEF MeFails, LoadingEnds, server, SessionType
<1>2. overtaken' = (IF page = "dashboard" /\ c.here = "no" THEN "yes" ELSE overtaken)
      /\ c.here \in {"yes", "no"}
  BY DEF MeFails, Overtakes, SessionType, IsCall
<1>3. c.here = "yes" => user = None /\ \A d \in calls' : ~(d.kind = "me" /\ d.here = "yes")
  BY <1>1 DEF Asking
<1>4. SessionType'
  <2>1. Len(issued) \in Nat BY OverMore DEF SessionType
  <2> QED BY <1>1, <1>2, <2>1 DEF SessionType, IsCall
<1>5. Asking' BY <1>1, <1>2, <1>3 DEF Asking
<1>6. OfForms' BY <1>1 DEF OfForms
<1>7. UserOnDashboard' /\ UserFitsToken' BY <1>1, <1>2, <1>3 DEF UserOnDashboard, UserFitsToken
<1> QED BY <1>4, <1>5, <1>6, <1>7

LEMMA LogoutKeeps ==
  ASSUME SessionInv, Logout
  PROVE  SessionInv'
<1> USE DEF SessionInv
<1>1. UNCHANGED <<accounts, issued, expired, page, isLoading, submitting, calls, overtaken>>
      /\ token' = 0 /\ user' = None /\ going' = "login" /\ user # None
  BY DEF Logout, ForgetSession, server
<1>2. SessionType'
  <2>1. Len(issued) \in Nat BY OverMore DEF SessionType
  <2> QED BY <1>1, <2>1 DEF SessionType, IsCall
<1>3. Asking' BY <1>1 DEF Asking
<1>4. OfForms' BY <1>1 DEF OfForms
<1>5. UserOnDashboard' /\ UserFitsToken' BY <1>1 DEF UserOnDashboard, UserFitsToken
<1> QED BY <1>2, <1>3, <1>4, <1>5

LEMMA ExpireKeeps ==
  ASSUME SessionInv, Expire
  PROVE  SessionInv'
<1> USE DEF SessionInv
<1>1. UNCHANGED <<accounts, issued, token, page, going, user, isLoading, submitting, calls, overtaken>>
      /\ expired' = expired + 1 /\ expired < Len(issued)
  BY DEF Expire, provider
<1>2. SessionType'
  <2>1. expired' \in 0 .. Len(issued)
    <3> DEFINE n == Len(issued)
    <3>1. n \in Nat /\ expired \in 0 .. n /\ expired' = expired + 1 /\ expired < n
      BY <1>1, OverMore DEF SessionType
    <3> HIDE DEF n
    <3>2. expired' \in 0 .. n BY <3>1
    <3> QED BY <3>2 DEF n
  <2> QED BY <1>1, <2>1 DEF SessionType, IsCall
<1>3. Asking' BY <1>1 DEF Asking
<1>4. OfForms' BY <1>1 DEF OfForms
<1>5. UserOnDashboard' /\ UserFitsToken' BY <1>1 DEF UserOnDashboard, UserFitsToken
<1> QED BY <1>2, <1>3, <1>4, <1>5

\* A link or the guard leads elsewhere.
LEMMA GoingKeeps ==
  ASSUME SessionInv, Guard \/ \E p \in {"login", "register", "dashboard"} : Go(p)
  PROVE  SessionInv'
<1>1. UNCHANGED <<accounts, issued, expired, token, page, user, isLoading, submitting, calls, overtaken>>
      /\ going' \in {"none", "login", "register", "dashboard"}
  BY DEF Guard, Go, server, provider
<1>2. Lasting BY <1>1 DEF Lasting, SessionInv, SessionType
<1> QED BY <1>1, <1>2, CallsGo DEF SessionInv, SessionType

LEMMA SessionStepKeeps ==
  ASSUME SessionInv, SessionStep
  PROVE  SessionInv'
<1>1. CASE Arrive BY <1>1, LeavingKeeps
<1>2. CASE Guard \/ \E p \in {"login", "register", "dashboard"} : Go(p) BY <1>2, GoingKeeps
<1>3. CASE \E u \in Users : Submit(u) BY <1>3, SubmitKeeps
<1>4. CASE \E c \in calls : Answered(c)
  <2>1. PICK c \in calls : Answered(c) BY <1>4
  <2> QED BY <2>1, RegisterOkKeeps, FormFailsKeeps, LoginOkKeeps, MeOkKeeps, MeFailsKeeps DEF Answered
<1>5. CASE Logout BY <1>5, LogoutKeeps
<1>6. CASE Expire BY <1>6, ExpireKeeps
<1> QED BY <1>1, <1>2, <1>3, <1>4, <1>5, <1>6 DEF SessionStep

LEMMA SessionSame ==
  ASSUME SessionInv, UNCHANGED inner
  PROVE  SessionInv'
<1>1. UNCHANGED <<accounts, issued, expired, token, page, going, user, isLoading, submitting, calls, overtaken>>
  BY DEF inner, server, provider
<1>2. Lasting BY <1>1 DEF Lasting, SessionInv, SessionType
<1> QED BY <1>1, <1>2, CallsGo DEF SessionInv, SessionType

LEMMA InitSession ==
  ASSUME SInit
  PROVE  SessionInv
<1>1. SessionType
  <2>1. issued \in Seq(accounts) /\ Len(issued) = 0 BY DEF SInit
  <2> QED BY <2>1 DEF SInit, SessionType, provider
<1>2. Asking /\ OfForms /\ UserOnDashboard /\ UserFitsToken
  BY DEF SInit, Asking, OfForms, UserOnDashboard, UserFitsToken
<1> QED BY <1>1, <1>2 DEF SessionInv

--------------------------------------------------------------------------------
(* Counting what is under way *)

\* A set that a function on a finite set covers is no larger.
LEMMA Covered ==
  ASSUME NEW S, IsFiniteSet(S), NEW T, NEW f, \A t \in T : \E s \in S : t = f[s]
  PROVE  IsFiniteSet(T) /\ Cardinality(T) <= Cardinality(S)
<1> DEFINE A == {s \in S : f[s] \in T}
           g == [s \in A |-> f[s]]
<1>1. IsFiniteSet(A) /\ Cardinality(A) <= Cardinality(S)
  <2>1. A \in SUBSET S OBVIOUS
  <2> QED BY <2>1, FS_Subset
<1>2. g \in Surjection(A, T) BY DEF Surjection
<1>3. IsFiniteSet(T) /\ Cardinality(T) <= Cardinality(A) BY <1>1, <1>2, FS_Surjection
<1>4. Cardinality(S) \in Nat /\ Cardinality(A) \in Nat /\ Cardinality(T) \in Nat
  BY <1>1, <1>3, FS_CardinalityType
<1> QED BY <1>1, <1>3, <1>4

LEMMA MakingCount ==
  ASSUME ProjectType
  PROVE  IsFiniteSet(Making) /\ Cardinality(Making) \in Nat
<1>1. Making \in SUBSET requests BY DEF Making
<1>2. IsFiniteSet(Making) BY <1>1, FS_Subset DEF ProjectType
<1> QED BY <1>2, FS_CardinalityType

\* No project more, and no call for one that was not there.
LEMMA NumberedStays ==
  ASSUME ProjectInv, made' = made, Making' \subseteq Making
  PROVE  Numbered'
<1>1. IsFiniteSet(Making) /\ Cardinality(Making) \in Nat BY MakingCount DEF ProjectInv
<1>2. Cardinality(Making') <= Cardinality(Making) BY <1>1, FS_Subset
<1>3. Cardinality(Making') \in Nat BY <1>1, FS_Subset, FS_CardinalityType
<1>4. made \in Nat /\ MaxProjects \in Nat BY ProjectBounds DEF ProjectInv, ProjectType
<1> QED BY <1>1, <1>2, <1>3, <1>4 DEF ProjectInv, Numbered

\* No request is left.
LEMMA NumberedAlone ==
  ASSUME made' \in 0 .. MaxProjects, Making' = {}
  PROVE  Numbered'
BY FS_EmptySet, ProjectBounds DEF Numbered

--------------------------------------------------------------------------------
(* The provider comes and goes *)

LEMMA ProjectsSame ==
  ASSUME ProjectInv, UNCHANGED projectVars, Shown' = Shown
  PROVE  ProjectInv'
<1>1. UNCHANGED <<made, list, current, saved, showForm, creating, requests, choice, patient>>
  BY DEF projectVars, ui, history
<1> USE <1>1 DEF ProjectInv
<1>2. ProjectType' BY DEF ProjectType, IsRequest
<1>3. Numbered' BY NumberedStays DEF Making
<1>4. EachOnce' BY DEF EachOnce, Answering
<1>5. WhileWaiting' BY DEF WhileWaiting, Settled, Remembered, Answering
<1> QED BY <1>2, <1>3, <1>4, <1>5

LEMMA BareType ==
  ASSUME Bare
  PROVE  /\ list' = Empty /\ current' = 0 /\ list' \in [Projects -> 0 .. 2]
         /\ showForm' \in [Forms -> {"yes", "no"}] /\ creating' \in [Forms -> {"yes", "no"}]
         /\ \A p \in Projects : list'[p] = 0
BY DEF Bare, Empty, No

\* The answer to a form is about a project there can be.
LEMMA SeenIsProject ==
  ASSUME ProjectInv, NEW r \in requests, Answering(r)
  PROVE  r.seen \in Projects
<1>1. r.seen \in 0 .. made /\ r.seen # 0 /\ made \in 0 .. MaxProjects /\ MaxProjects \in Nat
  BY ProjectBounds DEF ProjectInv, ProjectType, EachOnce, IsRequest
<1> QED BY <1>1 DEF Projects

LEMMA AppearKeeps ==
  ASSUME ProjectInv, Appear, ~Shown, Shown'
  PROVE  ProjectInv'
<1> USE DEF ProjectInv
<1> DEFINE new == Request(FreeIn(requests), "list")
<1>1. UNCHANGED <<made, saved, choice, patient>> /\ requests' = requests \cup {new} /\ Bare
  BY DEF Appear, history
<1>2. /\ new = [id |-> new.id, form |-> new.form, phase |-> new.phase, token |-> new.token,
                seen |-> new.seen, here |-> new.here]
      /\ new.form = "list" /\ new.phase = "sent" /\ new.seen = 0 /\ new.here = "yes"
  BY DEF Request
<1> HIDE DEF new
<1>3. \A r \in requests : IsRequest(r) /\ r.here = "no" BY DEF ProjectType, IsRequest
<1>4. ProjectType'
  <2>1. IsFiniteSet(requests') BY <1>1, FS_AddElement DEF ProjectType
  <2>2. \A r \in requests' : IsRequest(r)'
    BY <1>1, <1>2, <1>3 DEF IsRequest, ProjectType
  <2> QED BY <1>1, <2>1, <2>2, BareType DEF ProjectType
<1>5. Numbered'
  <2>1. Making' \subseteq Making BY <1>1, <1>2 DEF Making
  <2> QED BY <1>1, <2>1, NumberedStays
<1>6. EachOnce'
  <2>1. \A r \in requests' : Answering(r) => r \in requests BY <1>1, <1>2 DEF Answering
  <2>2. \A r \in requests' : Answering(r)' => r.seen \in Projects
    BY <1>1, <2>1, SeenIsProject DEF Answering
  <2> QED BY <1>1, <2>1, <2>2, BareType DEF EachOnce, Answering
<1>7. WhileWaiting'
  <2>1. SUFFICES ASSUME patient = "yes" PROVE WhileWaiting' BY <1>1 DEF WhileWaiting
  <2>2. requests = {} /\ Remembered BY <1>3, <2>1 DEF WhileWaiting
  <2> QED BY <1>1, <1>2, <2>2, BareType DEF WhileWaiting, Remembered, Answering
<1> QED BY <1>4, <1>5, <1>6, <1>7

LEMMA VanishKeeps ==
  ASSUME ProjectInv, Vanish, Shown, ~Shown'
  PROVE  ProjectInv'
<1> USE DEF ProjectInv
<1> DEFINE Orphan(r) == [id |-> r.id, form |-> r.form, phase |-> r.phase, token |-> r.token,
                         seen |-> r.seen, here |-> "no"]
           f == [r \in requests |-> Orphan(r)]
<1>1. UNCHANGED <<made, saved, choice>> /\ Bare /\ requests' = Orphans
      /\ patient' = IF requests = {} THEN patient ELSE "no"
  BY DEF Vanish, Waits
<1>2. \A s \in requests' : \E r \in requests : s = Orphan(r) /\ IsRequest(r)
  BY <1>1 DEF Orphans, ProjectType, IsRequest
<1>3. \A s \in requests' : \E r \in requests :
        /\ s = f[r] /\ s.form = r.form /\ s.phase = r.phase /\ s.seen = r.seen /\ s.here = "no"
        /\ s = Orphan(r)
  BY <1>2
<1>8. \A s \in requests' : IsRequest(s)' BY <1>1, <1>2 DEF IsRequest
<1> HIDE DEF f, Orphan
<1>4. ProjectType'
  <2>1. IsFiniteSet(requests') BY <1>3, Covered DEF ProjectType
  <2> QED BY <1>1, <1>8, <2>1, BareType DEF ProjectType
<1>5. Numbered'
  <2>1. IsFiniteSet(Making) /\ Cardinality(Making) \in Nat BY MakingCount
  <2>2. \A t \in Making' : \E r \in Making : t = f[r] BY <1>3 DEF Making
  <2>3. IsFiniteSet(Making') /\ Cardinality(Making') <= Cardinality(Making) BY <2>1, <2>2, Covered
  <2>4. Cardinality(Making') \in Nat BY <2>3, FS_CardinalityType
  <2>5. made \in Nat /\ MaxProjects \in Nat BY ProjectBounds DEF ProjectType
  <2> QED BY <1>1, <2>1, <2>3, <2>4, <2>5 DEF Numbered
<1>6. EachOnce'
  <2>1. \A s \in requests' : Answering(s) => \E r \in requests : /\ s = Orphan(r) /\ s.seen = r.seen
                                                               /\ Answering(r) /\ r.seen \in Projects
    BY <1>3, SeenIsProject DEF Answering
  <2>2. \A r, s \in requests' : Answering(r) /\ Answering(s) /\ r.seen = s.seen => r = s
    BY <2>1 DEF EachOnce
  <2>3. \A s \in requests' : Answering(s) => s.seen # 0 /\ s.seen \in Projects
    BY <2>1 DEF EachOnce
  <2> QED BY <1>1, <2>2, <2>3, BareType DEF EachOnce, Answering
<1>7. WhileWaiting'
  <2>1. SUFFICES ASSUME patient' = "yes" PROVE WhileWaiting' BY DEF WhileWaiting
  <2>2. requests = {} /\ requests' = {} /\ Settled BY <1>1, <1>3, <2>1 DEF WhileWaiting
  <2> QED BY <1>1, <2>2 DEF WhileWaiting, Settled, Remembered
<1> QED BY <1>4, <1>5, <1>6, <1>7

LEMMA ReloadKeeps ==
  ASSUME ProjectInv, Reload, ~Shown'
  PROVE  ProjectInv'
<1> USE DEF ProjectInv
<1>1. UNCHANGED <<saved, choice>> /\ Bare /\ requests' = {}
      /\ patient' = IF requests = {} THEN patient ELSE "no"
  BY DEF Reload, Waits
<1> DEFINE n == Cardinality({r \in Making : Served(r)})
<1>2. made' \in made .. made + n /\ n \in Nat /\ n <= Cardinality(Making)
      /\ Cardinality(Making) \in Nat
  <2>1. IsFiniteSet(Making) /\ Cardinality(Making) \in Nat BY MakingCount
  <2>2. {r \in Making : Served(r)} \in SUBSET Making OBVIOUS
  <2> QED BY <2>1, <2>2, FS_Subset, FS_CardinalityType DEF Reload
<1>3. made' \in 0 .. MaxProjects /\ made <= made'
  <2>1. made \in Nat /\ MaxProjects \in Nat BY ProjectBounds DEF ProjectType
  <2> HIDE DEF n
  <2> QED BY <1>2, <2>1 DEF Numbered
<1>4. requests = {} => made' = made
  <2>1. SUFFICES ASSUME requests = {} PROVE made' = made OBVIOUS
  <2>2. n = 0 BY <2>1, FS_EmptySet DEF Making
  <2> HIDE DEF n
  <2>3. made \in Nat BY DEF ProjectType
  <2> QED BY <1>2, <2>2, <2>3
<1>5. ProjectType'
  <2>1. \A k \in 0 .. made : k \in 0 .. made' BY <1>3, ProjectBounds DEF ProjectType
  <2> QED BY <1>1, <1>3, <2>1, BareType, FS_EmptySet DEF ProjectType
<1>6. Numbered'
  <2>1. Making' = {} BY <1>1 DEF Making
  <2> QED BY <1>3, <2>1, NumberedAlone
<1>7. EachOnce' BY <1>1, BareType DEF EachOnce
<1>8. WhileWaiting'
  <2>1. SUFFICES ASSUME patient' = "yes" PROVE WhileWaiting' BY DEF WhileWaiting
  <2>2. Remembered BY <1>1, <2>1 DEF WhileWaiting, Settled, Remembered
  <2> QED BY <1>1, <2>2 DEF WhileWaiting, Remembered
<1> QED BY <1>5, <1>6, <1>7, <1>8

--------------------------------------------------------------------------------
(* The API and its answers *)

\* A record with two fields changed.
LEMMA TwoChanged ==
  ASSUME NEW r, NEW p, NEW n,
         r = [id |-> r.id, form |-> r.form, phase |-> r.phase, token |-> r.token, seen |-> r.seen,
              here |-> r.here]
  PROVE  [r EXCEPT !.phase = p, !.seen = n]
         = [id |-> r.id, form |-> r.form, phase |-> p, token |-> r.token, seen |-> n, here |-> r.here]
<1> DEFINE q == [r EXCEPT !.phase = p]
<1>1. q = [id |-> r.id, form |-> r.form, phase |-> p, token |-> r.token, seen |-> r.seen,
           here |-> r.here]
  OBVIOUS
<1>2. [r EXCEPT !.phase = p, !.seen = n] = [q EXCEPT !.seen = n] OBVIOUS
<1> HIDE DEF q
<1>3. [q EXCEPT !.seen = n]
      = [id |-> r.id, form |-> r.form, phase |-> p, token |-> r.token, seen |-> n, here |-> r.here]
  BY <1>1
<1> QED BY <1>2, <1>3

LEMMA ServeKeeps ==
  ASSUME ProjectInv, NEW r \in requests, Serve(r), user' = user
  PROVE  ProjectInv'
<1> USE DEF ProjectInv
<1> DEFINE done == [id |-> r.id, form |-> r.form, phase |-> "served", token |-> r.token,
                    seen |-> made', here |-> r.here]
<1>1. UNCHANGED <<list, current, saved, showForm, creating, patient>> /\ r.phase = "sent"
      /\ Shown' = Shown
  BY DEF Serve, Served, ui, Shown
<1>2. IsRequest(r) BY DEF ProjectType
<1>3. requests' = (requests \ {r}) \cup {done}
  <2>3. r = [id |-> r.id, form |-> r.form, phase |-> r.phase, token |-> r.token, seen |-> r.seen,
             here |-> r.here]
    BY <1>2 DEF IsRequest
  <2>1. [r EXCEPT !.phase = "served", !.seen = made'] = done BY <2>3, TwoChanged, Zenon
  <2>2. requests' = (requests \ {r}) \cup {[r EXCEPT !.phase = "served", !.seen = made']}
    BY DEF Serve
  <2> QED BY <2>1, <2>2
<1>4. done.form = r.form /\ done.phase = "served" /\ done.seen = made' /\ done.here = r.here
      /\ done = [id |-> done.id, form |-> done.form, phase |-> done.phase, token |-> done.token,
                 seen |-> done.seen, here |-> done.here]
  OBVIOUS
<1> HIDE DEF done
<1>5. CASE r.form = "list"
  <2>1. made' = made /\ choice' = choice BY <1>5 DEF Serve
  <2>2. ProjectType'
    <3>1. IsFiniteSet(requests')
      BY <1>3, FS_RemoveElement, FS_AddElement DEF ProjectType
    <3>3. \A s \in requests' : IsRequest(s)' BY <1>1, <1>3, <1>4, <2>1, <1>2 DEF IsRequest, ProjectType
    <3> QED BY <1>1, <2>1, <3>1, <3>3 DEF ProjectType
  <2>3. Numbered'
    <3>1. Making' \subseteq Making BY <1>3, <1>4 DEF Making
    <3> QED BY <2>1, <3>1, NumberedStays
  <2>4. EachOnce'
    <3>1. \A s \in requests' : Answering(s) => s \in requests BY <1>3, <1>4, <1>5 DEF Answering
    <3> QED BY <1>1, <2>1, <3>1 DEF EachOnce, Answering
  <2>5. WhileWaiting'
    <3>1. SUFFICES ASSUME patient = "yes" PROVE WhileWaiting' BY <1>1 DEF WhileWaiting
    <3>2. requests' = {done} /\ r.here = "yes" /\ current = 0 /\ Remembered
      BY <1>3, <1>5, <3>1 DEF WhileWaiting
    <3> QED BY <1>1, <1>4, <1>5, <2>1, <3>2 DEF WhileWaiting, Remembered, Answering
  <2> QED BY <2>2, <2>3, <2>4, <2>5
<1>6. CASE r.form # "list"
  <2>1. made' = made + 1 /\ choice' = made' BY <1>6 DEF Serve
  <2>2. /\ Making' = Making \ {r} /\ IsFiniteSet(Making) /\ Cardinality(Making) \in Nat
        /\ Cardinality(Making') = Cardinality(Making) - 1
    <3>1. r \in Making BY <1>1, <1>6 DEF Making
    <3>2. Making' = Making \ {r} BY <1>3, <1>4 DEF Making
    <3> QED BY <3>1, <3>2, MakingCount, FS_RemoveElement
  <2>3. Cardinality(Making') \in Nat BY <2>2, FS_RemoveElement, FS_CardinalityType
  <2>4. made \in Nat /\ MaxProjects \in Nat /\ made' \in 0 .. MaxProjects /\ made' \in Projects
        /\ Numbered'
    BY <2>1, <2>2, <2>3, ProjectBounds DEF ProjectType, Numbered, Projects
  <2>5. \A k \in 0 .. made : k \in 0 .. made' BY <2>1, <2>4
  <2>6. ProjectType'
    <3>1. IsFiniteSet(requests')
      BY <1>3, FS_RemoveElement, FS_AddElement DEF ProjectType
    <3>2. \A s \in requests' : IsRequest(s)'
      <4>1. \A s \in requests : IsRequest(s)' BY <1>1, <2>5 DEF IsRequest, ProjectType
      <4>2. made' \in 0 .. made' BY <2>4
      <4>3. \A s : s = done => IsRequest(s)' BY <1>1, <1>2, <1>4, <4>2 DEF IsRequest
      <4> QED BY <1>3, <4>1, <4>3
    <3>3. choice' \in 0 .. made' BY <2>1, <2>4
    <3> QED BY <1>1, <2>4, <2>5, <3>1, <3>2, <3>3 DEF ProjectType
  <2>7. EachOnce'
    <3>1. \A s \in requests' : Answering(s) => s = done \/ (s \in requests /\ s.seen \in 0 .. made)
      BY <1>3 DEF ProjectType, IsRequest
    <3>2. list[made'] = 0 /\ made' # 0 /\ \A k \in 0 .. made : k # made'
      BY <2>1, <2>4 DEF EachOnce
    <3>3. \A p \in Projects : p > made' => p > made BY <2>1, <2>4 DEF Projects
    <3>4. \A s, t \in requests' : Answering(s) /\ Answering(t) /\ s.seen = t.seen => s = t
      BY <1>4, <3>1, <3>2 DEF EachOnce
    <3>5. \A s \in requests' : Answering(s) => s.seen # 0 /\ list[s.seen] <= 1
      BY <1>4, <3>1, <3>2 DEF EachOnce
    <3> QED BY <1>1, <3>3, <3>4, <3>5 DEF EachOnce, Answering
  <2>8. WhileWaiting'
    <3>1. SUFFICES ASSUME patient = "yes" PROVE WhileWaiting' BY <1>1 DEF WhileWaiting
    <3>2. requests' = {done} /\ r.here = "yes" /\ list = UpTo(made)
      BY <1>1, <1>3, <1>6, <3>1 DEF WhileWaiting, Settled
    <3>3. list' = UpTo(made' - 1)
      <4>1. made' - 1 = made BY <2>1, <2>4
      <4> QED BY <1>1, <3>2, <4>1
    <3> QED BY <1>1, <1>4, <1>6, <2>1, <3>2, <3>3 DEF WhileWaiting, Answering
  <2> QED BY <2>4, <2>6, <2>7, <2>8
<1> QED BY <1>5, <1>6

LEMMA PageFormType ==
  ASSUME ProjectType, PageFormGoes
  PROVE  showForm' \in [Forms -> {"yes", "no"}] /\ creating' \in [Forms -> {"yes", "no"}]
BY DEF ProjectType, PageFormGoes

\* One call less.
LEMMA RequestGone ==
  ASSUME ProjectInv, NEW r \in requests, requests' = requests \ {r}, made' = made, user' = user
  PROVE  /\ IsFiniteSet(requests') /\ \A s \in requests' : IsRequest(s)'
         /\ Numbered'
         /\ \A s \in requests' : Answering(s) => s.seen # r.seen \/ ~Answering(r)
         /\ patient = "yes" => requests' = {}
<1> USE DEF ProjectInv
<1>1. IsFiniteSet(requests') BY FS_RemoveElement DEF ProjectType
<1>2. \A s \in requests' : IsRequest(s)' BY DEF ProjectType, IsRequest, Shown
<1>3. Making' \subseteq Making BY DEF Making
<1>4. \A s \in requests' : Answering(s) => s.seen # r.seen \/ ~Answering(r)
  BY DEF EachOnce
<1>5. patient = "yes" => requests' = {} BY DEF WhileWaiting
<1> QED BY <1>1, <1>2, <1>3, <1>4, <1>5, NumberedStays

LEMMA ListedKeeps ==
  ASSUME ProjectInv, NEW r \in requests, Listed(r), user' = user
  PROVE  ProjectInv'
<1> USE DEF ProjectInv
<1>1. UNCHANGED <<made, choice, patient>> /\ requests' = requests \ {r} /\ Shown' = Shown
      /\ r.form = "list" /\ r.phase = "served"
  BY DEF Listed, history, Shown
<1>2. IsRequest(r) BY DEF ProjectType
<1>3. r.seen \in Nat /\ r.seen <= made /\ made \in Nat /\ made <= MaxProjects /\ MaxProjects \in Nat
  BY <1>2, ProjectBounds DEF ProjectType, IsRequest
<1>4. list' = IF r.here = "yes" THEN UpTo(r.seen) ELSE list BY DEF Listed, UpTo
<1>5. /\ r.seen = 0 => current' = current /\ saved' = saved
      /\ r.seen # 0 =>
           /\ saved' \in 1 .. r.seen /\ (saved \in 1 .. r.seen => saved' = saved)
           /\ current' = IF r.here = "yes" THEN saved' ELSE current
  BY DEF Listed, Restore
<1>6. /\ UpTo(r.seen) \in [Projects -> 0 .. 2]
      /\ \A p \in Projects : UpTo(r.seen)[p] <= 1 /\ (p > made => UpTo(r.seen)[p] = 0)
  BY <1>3 DEF UpTo, Projects
<1> HIDE DEF UpTo
<1>7. ProjectType'
  <2>1. saved' \in 0 .. made /\ current' \in 0 .. made
    <3>1. CASE r.seen = 0 BY <1>5, <3>1 DEF ProjectType
    <3>2. CASE r.seen # 0
      <4>1. saved' \in 0 .. made BY <1>3, <1>5, <3>2
      <4> QED BY <1>5, <3>2, <4>1 DEF ProjectType
    <3> QED BY <3>1, <3>2
  <2>2. Shown \/ (list' = Empty /\ current' = 0)
    BY <1>2, <1>4, <1>5 DEF ProjectType, IsRequest
  <2>3. showForm' \in [Forms -> {"yes", "no"}] /\ creating' \in [Forms -> {"yes", "no"}]
    BY PageFormType DEF Listed
  <2>4. list' \in [Projects -> 0 .. 2] BY <1>4, <1>6 DEF ProjectType
  <2> QED BY <1>1, <2>1, <2>2, <2>3, <2>4, RequestGone DEF ProjectType
<1>8. Numbered' BY <1>1, RequestGone
<1>9. EachOnce'
  <2>1. \A s \in requests' : Answering(s) => s.seen \in Projects BY <1>1, SeenIsProject
  <2>2. \A s \in requests' : Answering(s) => s.seen # 0 /\ list'[s.seen] <= 1
    BY <1>1, <1>4, <1>6, <2>1 DEF EachOnce
  <2>3. \A p \in Projects : p > made => list'[p] = 0 BY <1>4, <1>6 DEF EachOnce
  <2> QED BY <1>1, <2>2, <2>3 DEF EachOnce, Answering
<1>10. WhileWaiting'
  <2>1. SUFFICES ASSUME patient = "yes" PROVE WhileWaiting' BY <1>1 DEF WhileWaiting
  <2>2. requests' = {} BY <1>1, <2>1, RequestGone
  <2>3. r.here = "yes" /\ r.seen = made /\ current = 0 /\ Remembered /\ Shown
    BY <1>1, <1>2, <2>1 DEF WhileWaiting, IsRequest
  <2>4. list' = UpTo(made) BY <1>4, <2>3
  <2>5. choice \in 0 .. made /\ saved \in 0 .. made BY DEF ProjectType
  <2>6. CASE made = 0
    <3>1. current' = 0 /\ saved' = 0 /\ choice = 0 BY <1>5, <2>3, <2>5, <2>6
    <3> QED BY <1>1, <2>2, <2>3, <2>4, <2>6, <3>1 DEF WhileWaiting, Settled
  <2>7. CASE made # 0
    <3>1. current' = saved' /\ saved' \in 1 .. made /\ (saved \in 1 .. made => saved' = saved)
      BY <1>5, <2>3, <2>7
    <3>2. choice # 0 => saved' = choice
      <4>1. choice # 0 => choice \in 1 .. made BY <1>3, <2>5
      <4> QED BY <2>3, <3>1, <4>1 DEF Remembered
    <3>3. current' # 0 BY <3>1
    <3> QED BY <1>1, <2>2, <2>3, <2>4, <2>7, <3>1, <3>2, <3>3 DEF WhileWaiting, Settled
  <2> QED BY <2>6, <2>7
<1> QED BY <1>7, <1>8, <1>9, <1>10

LEMMA CreatedKeeps ==
  ASSUME ProjectInv, NEW r \in requests, Created(r), user' = user
  PROVE  ProjectInv'
<1> USE DEF ProjectInv
<1>1. UNCHANGED <<made, choice, patient>> /\ requests' = requests \ {r} /\ Shown' = Shown
      /\ Answering(r)
  BY DEF Created, history, Shown, Answering
<1>2. IsRequest(r) /\ r.seen \in Projects /\ list[r.seen] <= 1 /\ r.seen # 0
  BY <1>1, SeenIsProject DEF ProjectType, EachOnce
<1>3. r.seen \in 0 .. made /\ made \in Nat /\ MaxProjects \in Nat /\ list[r.seen] \in 0 .. 2
  BY <1>2, ProjectBounds DEF ProjectType, IsRequest
<1>4. saved' = r.seen /\ current' = IF r.here = "no" THEN current ELSE r.seen
  BY DEF Created, Select
<1>5. list' = IF r.here = "no" THEN list ELSE [list EXCEPT ![r.seen] = @ + 1]
  BY DEF Created
<1>6. ProjectType'
  <2>1. list' \in [Projects -> 0 .. 2]
    <3>1. list[r.seen] + 1 \in 0 .. 2 BY <1>2, <1>3
    <3> QED BY <1>2, <1>5, <3>1 DEF ProjectType
  <2>2. showForm' \in [Forms -> {"yes", "no"}] /\ creating' \in [Forms -> {"yes", "no"}]
    BY DEF Created, ProjectType
  <2>3. Shown \/ (list' = Empty /\ current' = 0) BY <1>2, <1>4, <1>5 DEF ProjectType, IsRequest
  <2> QED BY <1>1, <1>3, <1>4, <2>1, <2>2, <2>3, RequestGone DEF ProjectType
<1>7. Numbered' BY <1>1, RequestGone
<1>8. EachOnce'
  <2>1. \A s \in requests' : Answering(s) => s.seen # r.seen /\ s.seen \in Projects
    BY <1>1, SeenIsProject, RequestGone
  <2>2. \A p \in Projects : p # r.seen => list'[p] = list[p] BY <1>5 DEF ProjectType
  <2>3. \A s \in requests' : Answering(s) => s.seen # 0 /\ list'[s.seen] <= 1
    BY <1>1, <2>1, <2>2 DEF EachOnce
  <2>4. \A p \in Projects : p > made => list'[p] = 0
    <3>1. ~(r.seen > made) BY <1>3
    <3> QED BY <2>2, <3>1 DEF EachOnce
  <2> QED BY <1>1, <2>3, <2>4 DEF EachOnce, Answering
<1>9. WhileWaiting'
  <2>1. SUFFICES ASSUME patient = "yes" PROVE WhileWaiting' BY <1>1 DEF WhileWaiting
  <2>2. requests' = {} BY <1>1, <2>1, RequestGone
  <2>3. r.here = "yes" /\ r.seen = made /\ choice = made /\ list = UpTo(made - 1) /\ Shown
    BY <1>1, <1>2, <2>1 DEF WhileWaiting, IsRequest
  <2>4. list' = UpTo(made)
    <3>1. list' = [list EXCEPT ![made] = @ + 1] BY <1>5, <2>3
    <3>2. made \in Projects BY <1>2, <2>3
    <3>3. \A p \in Projects : list'[p] = IF p <= made THEN 1 ELSE 0
      <4>1. \A p \in Projects : p # made => (p <= made - 1 <=> p <= made) BY <1>3 DEF Projects
      <4>2. list[made] = 0 BY <1>3, <2>3, <3>2 DEF UpTo
      <4>3. list'[made] = 1 BY <3>1, <3>2, <4>2 DEF ProjectType
      <4>4. \A p \in Projects : p # made => list'[p] = list[p] BY <3>1, <3>2 DEF ProjectType
      <4>5. \A p \in Projects : list[p] = IF p <= made - 1 THEN 1 ELSE 0 BY <2>3 DEF UpTo
      <4> QED BY <1>3, <4>1, <4>3, <4>4, <4>5
    <3>4. list' \in [Projects -> 0 .. 2] BY <1>6 DEF ProjectType
    <3> QED BY <3>3, <3>4 DEF UpTo
  <2> QED BY <1>1, <1>2, <1>4, <2>2, <2>3, <2>4 DEF WhileWaiting, Settled
<1> QED BY <1>6, <1>7, <1>8, <1>9

LEMMA FailedKeeps ==
  ASSUME ProjectInv, NEW r \in requests, Failed(r), user' = user
  PROVE  ProjectInv'
<1> USE DEF ProjectInv
<1>1. UNCHANGED <<made, list, current, saved, showForm, choice>> /\ requests' = requests \ {r}
      /\ Shown' = Shown /\ patient' = "no" /\ creating' \in [Forms -> {"yes", "no"}]
  BY DEF Failed, Shown, ProjectType
<1>2. ProjectType' BY <1>1, RequestGone DEF ProjectType
<1>3. Numbered' BY <1>1, RequestGone
<1>4. EachOnce' BY <1>1 DEF EachOnce, Answering
<1>5. WhileWaiting' BY <1>1 DEF WhileWaiting
<1> QED BY <1>2, <1>3, <1>4, <1>5

--------------------------------------------------------------------------------
(* The sidebar and the page *)

\* What is said of the calls depends on them, the projects, the selection and the list alone.
LEMMA RequestsSame ==
  ASSUME ProjectInv, UNCHANGED <<made, requests, user>>
  PROVE  /\ IsFiniteSet(requests') /\ \A s \in requests' : IsRequest(s)'
         /\ Numbered' /\ Shown' = Shown
<1>1. Making' \subseteq Making BY DEF Making
<1> QED BY <1>1, NumberedStays DEF ProjectInv, ProjectType, IsRequest, Shown

LEMMA SwitchKeeps ==
  ASSUME ProjectInv, NEW p \in Projects, Switch(p), user' = user
  PROVE  ProjectInv'
<1> USE DEF ProjectInv
<1>1. UNCHANGED <<made, list, requests>> /\ Shown /\ list[p] > 0
      /\ current' = p /\ saved' = p /\ choice' = p
      /\ patient' = IF requests = {} THEN patient ELSE "no"
  BY DEF Switch, Select, Waits
<1>2. p \in 0 .. made /\ p # 0
  <2>1. made \in Nat /\ MaxProjects \in Nat /\ p \in 1 .. MaxProjects
    BY ProjectBounds DEF ProjectType, Projects
  <2>2. ~(p > made) BY <1>1 DEF EachOnce
  <2> QED BY <2>1, <2>2
<1>3. ProjectType'
  <2>1. showForm' \in [Forms -> {"yes", "no"}] /\ creating' \in [Forms -> {"yes", "no"}]
    BY PageFormType DEF Switch
  <2>2. patient' \in {"yes", "no"} BY <1>1 DEF ProjectType
  <2> QED BY <1>1, <1>2, <2>1, <2>2, RequestsSame DEF ProjectType
<1>4. Numbered' BY <1>1, RequestsSame
<1>5. EachOnce' BY <1>1 DEF EachOnce, Answering
<1>6. WhileWaiting'
  <2>1. SUFFICES ASSUME patient' = "yes" PROVE WhileWaiting' BY DEF WhileWaiting
  <2>2. requests' = {} /\ list = UpTo(made) BY <1>1, <2>1 DEF WhileWaiting, Settled
  <2>3. Shown' BY <1>1, RequestsSame
  <2> QED BY <1>1, <1>2, <2>2, <2>3 DEF WhileWaiting, Settled
<1> QED BY <1>3, <1>4, <1>5, <1>6

LEMMA OpenOrEscapeKeeps ==
  ASSUME ProjectInv, NEW f \in Forms, OpenOrEscape(f), user' = user
  PROVE  ProjectInv'
<1> USE DEF ProjectInv
<1>1. UNCHANGED <<made, list, current, saved, creating, requests, choice, patient>>
      /\ showForm' \in [Forms -> {"yes", "no"}]
  BY DEF OpenOrEscape, history, ProjectType
<1>2. ProjectType' BY <1>1, RequestsSame DEF ProjectType
<1>3. Numbered' /\ Shown' = Shown BY <1>1, RequestsSame
<1>4. EachOnce' BY <1>1 DEF EachOnce, Answering
<1>5. WhileWaiting' BY <1>1, <1>3 DEF WhileWaiting, Settled, Remembered, Answering
<1> QED BY <1>2, <1>3, <1>4, <1>5

LEMMA CreateKeeps ==
  ASSUME ProjectInv, NEW f \in Forms, Create(f), user' = user
  PROVE  ProjectInv'
<1> USE DEF ProjectInv
<1> DEFINE new == Request(FreeIn(requests), f)
<1>1. UNCHANGED <<made, list, current, saved, showForm, choice>> /\ requests' = requests \cup {new}
      /\ Shown /\ Shown' /\ made + Cardinality(Making) < MaxProjects
      /\ patient' = IF requests = {} THEN patient ELSE "no"
  BY DEF Create, MayCreate, OnScreen, Shown, Waits
<1>2. creating' \in [Forms -> {"yes", "no"}] BY DEF Create, ProjectType
<1>3. /\ new = [id |-> new.id, form |-> new.form, phase |-> new.phase, token |-> new.token,
                seen |-> new.seen, here |-> new.here]
      /\ new.form = f /\ new.phase = "sent" /\ new.seen = 0 /\ new.here = "yes"
      /\ f # "list"
  BY DEF Request, Forms
<1> HIDE DEF new
<1>4. ProjectType'
  <2>1. IsFiniteSet(requests') BY <1>1, FS_AddElement DEF ProjectType
  <2>2. \A r \in requests' : IsRequest(r)'
    <3>1. \A r \in requests : IsRequest(r)' BY <1>1 DEF ProjectType, IsRequest
    <3>2. 0 \in 0 .. made BY ProjectBounds DEF ProjectType
    <3>3. \A r : r = new => IsRequest(r)' BY <1>1, <1>3, <3>2 DEF IsRequest
    <3> QED BY <1>1, <3>1, <3>3
  <2>3. patient' \in {"yes", "no"} BY <1>1 DEF ProjectType
  <2> QED BY <1>1, <1>2, <2>1, <2>2, <2>3 DEF ProjectType
<1>5. Numbered'
  <2>1. IsFiniteSet(Making) /\ Cardinality(Making) \in Nat BY MakingCount
  <2>2. Making' \subseteq Making \cup {new} BY <1>1 DEF Making
  <2>3. IsFiniteSet(Making \cup {new}) /\ Cardinality(Making \cup {new}) <= Cardinality(Making) + 1
    BY <2>1, FS_AddElement
  <2>4. IsFiniteSet(Making') /\ Cardinality(Making') <= Cardinality(Making \cup {new})
    BY <2>2, <2>3, FS_Subset
  <2>5. Cardinality(Making') \in Nat /\ Cardinality(Making \cup {new}) \in Nat
    BY <2>3, <2>4, FS_CardinalityType
  <2>6. made \in Nat /\ MaxProjects \in Nat BY ProjectBounds DEF ProjectType
  <2> QED BY <1>1, <2>1, <2>3, <2>4, <2>5, <2>6 DEF Numbered
<1>6. EachOnce'
  <2>1. \A r \in requests' : Answering(r) => r \in requests BY <1>1, <1>3 DEF Answering
  <2> QED BY <1>1, <2>1 DEF EachOnce, Answering
<1>7. WhileWaiting'
  <2>1. SUFFICES ASSUME patient' = "yes" PROVE WhileWaiting' BY DEF WhileWaiting
  <2>2. requests' = {new} /\ Settled BY <1>1, <2>1 DEF WhileWaiting
  <2> QED BY <1>1, <1>3, <2>2 DEF WhileWaiting, Settled, Answering
<1> QED BY <1>4, <1>5, <1>6, <1>7

LEMMA TurnKeeps ==
  ASSUME ProjectInv, Turn, user' = user
  PROVE  ProjectInv'
<1> USE DEF ProjectInv
<1> DEFINE Turned(r) == [id |-> r.id, form |-> IF r.form = "page" THEN "gone" ELSE r.form,
                         phase |-> r.phase, token |-> r.token, seen |-> r.seen, here |-> r.here]
           f == [r \in requests |-> Turned(r)]
<1>1. UNCHANGED <<made, list, current, saved, choice, patient>> /\ Shown' = Shown /\ Shown
      /\ showForm' \in [Forms -> {"yes", "no"}] /\ creating' \in [Forms -> {"yes", "no"}]
  BY DEF Turn, history, Shown, ProjectType
<1>2. \A s \in requests' : \E r \in requests : s = Turned(r) /\ IsRequest(r)
  <2>1. \A r \in requests : IsRequest(r) BY DEF ProjectType
  <2>2. \A r \in requests : r.form = "page" => [r EXCEPT !.form = "gone"] = Turned(r)
    BY <2>1 DEF IsRequest
  <2>3. \A r \in requests : r.form # "page" => r = Turned(r) BY <2>1 DEF IsRequest
  <2>4. requests' = {IF r.form = "page" THEN [r EXCEPT !.form = "gone"] ELSE r : r \in requests}
    BY DEF Turn
  <2> HIDE DEF Turned
  <2> QED BY <2>1, <2>2, <2>3, <2>4
<1>3. \A s \in requests' : \E r \in requests :
        /\ s = f[r] /\ s.phase = r.phase /\ s.seen = r.seen /\ s.here = r.here
        /\ (s.form = "list" <=> r.form = "list") /\ s = Turned(r)
  BY <1>2
<1>4. \A s \in requests' : IsRequest(s)' BY <1>1, <1>2 DEF IsRequest
<1> HIDE DEF f, Turned
<1>5. ProjectType'
  <2>1. IsFiniteSet(requests') BY <1>3, Covered DEF ProjectType
  <2> QED BY <1>1, <1>4, <2>1 DEF ProjectType
<1>6. Numbered'
  <2>1. IsFiniteSet(Making) /\ Cardinality(Making) \in Nat BY MakingCount
  <2>2. \A t \in Making' : \E r \in Making : t = f[r] BY <1>3 DEF Making
  <2>3. IsFiniteSet(Making') /\ Cardinality(Making') <= Cardinality(Making) BY <2>1, <2>2, Covered
  <2>4. Cardinality(Making') \in Nat BY <2>3, FS_CardinalityType
  <2>5. made \in Nat /\ MaxProjects \in Nat BY ProjectBounds DEF ProjectType
  <2> QED BY <1>1, <2>1, <2>3, <2>4, <2>5 DEF Numbered
<1>7. EachOnce'
  <2>1. \A s \in requests' : Answering(s) =>
          \E r \in requests : s = Turned(r) /\ s.seen = r.seen /\ Answering(r)
    BY <1>3 DEF Answering
  <2>2. \A r, s \in requests' : Answering(r) /\ Answering(s) /\ r.seen = s.seen => r = s
    BY <2>1 DEF EachOnce
  <2>3. \A s \in requests' : Answering(s) => s.seen # 0 /\ list[s.seen] <= 1
    BY <2>1 DEF EachOnce
  <2> QED BY <1>1, <2>2, <2>3 DEF EachOnce, Answering
<1>8. WhileWaiting'
  <2>1. SUFFICES ASSUME patient = "yes" PROVE WhileWaiting' BY <1>1 DEF WhileWaiting
  <2>2. requests' = {} => requests = {} BY DEF Turn
  <2>3. \A r, s \in requests' : r = s BY <1>3, <2>1 DEF WhileWaiting
  <2>4. requests' = {} => Settled' BY <1>1, <2>1, <2>2 DEF WhileWaiting, Settled
  <2>5. \A s \in requests' :
         /\ s.here = "yes"
         /\ s.form = "list" => current = 0 /\ Remembered
         /\ s.form = "list" /\ s.phase = "served" => s.seen = made
         /\ s.form # "list" /\ s.phase = "sent" => Settled
         /\ Answering(s) => s.seen = made /\ choice = made /\ list = UpTo(made - 1)
    BY <1>3, <2>1 DEF WhileWaiting, Answering
  <2>6. Settled' = Settled /\ Remembered' = Remembered BY <1>1 DEF Settled, Remembered
  <2> QED BY <1>1, <2>3, <2>4, <2>5, <2>6 DEF WhileWaiting, Answering
<1> QED BY <1>5, <1>6, <1>7, <1>8

--------------------------------------------------------------------------------
(* Every step of the tab *)

LEMMA NextInv ==
  ASSUME Inv, [Next]_vars
  PROVE  Inv'
<1> USE DEF Inv
<1>1. CASE SessionStep /\ Follow
  <2>1. SessionInv' BY <1>1, SessionStepKeeps
  <2>2. ProjectInv'
    <3>1. CASE Shown = (user' # None)
      <4>1. UNCHANGED projectVars BY <1>1, <3>1 DEF Follow
      <4> QED BY <3>1, <4>1, ProjectsSame DEF Shown
    <3>2. CASE Shown /\ ~(user' # None)
      <4>1. Vanish BY <1>1, <3>2 DEF Follow
      <4> QED BY <3>2, <4>1, VanishKeeps DEF Shown
    <3>3. CASE ~Shown /\ user' # None
      <4>1. Appear BY <1>1, <3>3 DEF Follow
      <4> QED BY <3>3, <4>1, AppearKeeps DEF Shown
    <3> QED BY <3>1, <3>2, <3>3 DEF Shown
  <2> QED BY <2>1, <2>2
<1>2. CASE \E p \in {"login", "register", "dashboard"} : Load(p) /\ Reload
  <2>1. PICK p \in {"login", "register", "dashboard"} : Load(p) /\ Reload BY <1>2
  <2>2. SessionInv' BY <2>1, LoadKeeps
  <2>3. ~Shown' BY <2>1 DEF Load, Mount, Shown
  <2> QED BY <2>1, <2>2, <2>3, ReloadKeeps
<1>3. CASE ProjectStep /\ UNCHANGED sessionVars
  <2>1. user' = user /\ UNCHANGED inner BY <1>3 DEF sessionVars, provider, inner
  <2>2. SessionInv' BY <2>1, SessionSame
  <2>3. ProjectInv'
    BY <1>3, <2>1, ServeKeeps, ListedKeeps, CreatedKeeps, SwitchKeeps, OpenOrEscapeKeeps DEF ProjectStep
  <2> QED BY <2>2, <2>3
<1>4. CASE (Turn \/ (\E f \in Forms : Create(f)) \/ \E r \in requests : Failed(r)) /\ UNCHANGED inner
  <2>1. user' = user BY <1>4 DEF provider, inner
  <2>2. SessionInv' BY <1>4, SessionSame
  <2>3. ProjectInv' BY <1>4, <2>1, TurnKeeps, CreateKeeps, FailedKeeps
  <2> QED BY <2>2, <2>3
<1>5. CASE UNCHANGED vars
  <2>1. UNCHANGED inner /\ UNCHANGED projectVars /\ user' = user
    BY <1>5 DEF vars, sessionVars, provider, inner
  <2> QED BY <2>1, SessionSame, ProjectsSame DEF Shown
<1> QED BY <1>1, <1>2, <1>3, <1>4, <1>5 DEF Next

LEMMA InitInv ==
  ASSUME Init
  PROVE  Inv
<1>1. SessionInv BY InitSession DEF Init
<1>2. made \in 0 .. MaxProjects /\ list = Empty /\ current = 0 /\ saved = 0 /\ showForm = No
      /\ creating = No /\ requests = {} /\ choice = 0 /\ patient = "yes" /\ ~Shown
  BY DEF Init, SInit, Shown
<1>3. ProjectType
  <2>1. list \in [Projects -> 0 .. 2] /\ showForm \in [Forms -> {"yes", "no"}]
        /\ creating \in [Forms -> {"yes", "no"}]
    BY <1>2 DEF Empty, No
  <2>2. 0 \in 0 .. made BY <1>2, ProjectBounds
  <2> QED BY <1>2, <2>1, <2>2, FS_EmptySet DEF ProjectType
<1>4. Numbered
  <2>1. Making = {} BY <1>2 DEF Making
  <2> QED BY <1>2, <2>1, FS_EmptySet, ProjectBounds DEF Numbered
<1>5. EachOnce BY <1>2 DEF EachOnce, Empty
<1>6. WhileWaiting BY <1>2 DEF WhileWaiting, Remembered
<1> QED BY <1>1, <1>3, <1>4, <1>5, <1>6 DEF Inv, ProjectInv

\* The inductive invariant: who asks, whose calls and answers are under way, and where the one call
\* of a user who waits has left the list and the selection.
THEOREM Invariant == Spec => []Inv
<1>1. Init => Inv BY InitInv
<1>2. Inv /\ [Next]_vars => Inv' BY NextInv
<1> QED BY <1>1, <1>2, PTL DEF Spec

--------------------------------------------------------------------------------
(* What follows *)

\* Every variable of the session and of the selection is of its kind, and a user is shown on the
\* dashboard alone.
THEOREM TypeCorrect == Spec => []TypeOK
<1>1. Inv => TypeOK
  <2> SUFFICES ASSUME Inv PROVE TypeOK OBVIOUS
  <2> USE DEF Inv, SessionInv, ProjectInv
  <2>2. \A c \in calls : c.kind \in {"register", "login", "first", "me"} /\ c.token \in 0 .. Len(issued)
    BY DEF SessionType, IsCall, Kinds
  <2>3. \A r \in requests : r.form \in Forms \cup {"list", "gone"} /\ r.seen \in 0 .. made
    BY DEF ProjectType, IsRequest
  <2>4. \A f \in Forms : {showForm[f], creating[f]} \subseteq {"yes", "no"} BY DEF ProjectType
  <2>5. {isLoading, submitting, overtaken, patient} \subseteq {"yes", "no"}
    BY DEF SessionType, ProjectType
  <2>6. {current, saved, choice} \subseteq 0 .. made BY DEF ProjectType
  <2> QED BY <2>2, <2>3, <2>4, <2>5, <2>6 DEF TypeOK, SessionType, ProjectType, UserOnDashboard
<1> QED BY <1>1, Invariant, PTL

\* The dashboard shows the user of the token its calls carry, unless a late answer of a page left
\* has put another token, or none, under it.
THEOREM UserFitsTokenTheorem == Spec => []UserFitsToken
<1>1. Inv => UserFitsToken BY DEF Inv, SessionInv
<1> QED BY <1>1, Invariant, PTL

\* For a user who waits for answers the sidebar lists every project once, and the project shown is
\* the one chosen or created last.
THEOREM LastChoiceShownTheorem == Spec => []LastChoiceShown
<1>1. Inv => LastChoiceShown
  BY DEF Inv, ProjectInv, WhileWaiting, Settled, UpTo, LastChoiceShown
<1> QED BY <1>1, Invariant, PTL
================================================================================

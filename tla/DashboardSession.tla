---------------------------- MODULE DashboardSession ----------------------------
(***************************************************************************)
(* Login, registration and the session of the dashboard in one browser tab *)
(* (app/login, app/register, app/dashboard/layout.tsx and                  *)
(* lib/providers/auth-provider.tsx).                                       *)
(*                                                                         *)
(* The access token in localStorage outlives a page; the user shown, the   *)
(* spinner and the form are state of the page's components.  A call to the *)
(* API outlives its page too: its continuation still writes localStorage   *)
(* and navigates, only what it sets on components is dropped.  An action   *)
(* is a click, an answer, or a page that the router has made ready.        *)
(***************************************************************************)
EXTENDS Integers, Sequences, FiniteSets

CONSTANTS
  Users,        \* the addresses people register and log in with
  Rejected,     \* those the form accepts and the API's schema refuses (one letter, say)
  None,         \* nobody
  MaxClicks,    \* bound on forms submitted, links, Back, addresses typed and sign-outs
  MaxFaults     \* bound on calls the network or the API fails

ASSUME UsersAssumption == Rejected \subseteq Users /\ None \notin Users
ASSUME SessionBounds == MaxClicks \in Nat /\ MaxFaults \in Nat

VARIABLES
  accounts,     \* the users the API has
  issued,       \* the user of each token the API gave out
  expired,      \* how many of them, the oldest, are over their 30 minutes
  token,        \* the token in localStorage by number, 0 for none
  page,         \* the page shown
  going,        \* where router.push or a link is leading
  user,         \* the user the provider has
  isLoading,    \* the provider's spinner
  submitting,   \* the form's spinner
  calls,        \* calls under way; "here" while the component that made them is mounted
  overtaken,    \* history: "yes" once an older page's call changed the token under this dashboard
  clicks, faults   \* counted against their bounds

provider == <<user, isLoading>>
server == <<accounts, issued, expired>>
counts == <<clicks, faults>>
sessionVars == <<server, token, page, going, provider, submitting, calls, overtaken, counts>>

\* A tab is opened at one of the forms (/ leads to /login); some people registered before.
SInit ==
  /\ accounts \in SUBSET (Users \ Rejected) /\ issued = <<>> /\ expired = 0 /\ token = 0
  /\ page \in {"login", "register"} /\ going = "none"
  /\ user = None /\ isLoading = "no" /\ submitting = "no"
  /\ calls = {} /\ overtaken = "no"
  /\ clicks = 0 /\ faults = 0

--------------------------------------------------------------------------------
(* Calls *)

Left(S) == {[c EXCEPT !.here = "no"] : c \in S}

\* The token stored goes along with me(); login and register skip it.
Bearer(kind) == IF kind = "me" THEN token ELSE 0

With(S, kind, who) ==
  LET id == CHOOSE i \in 1 .. Cardinality(S) + 1 :
              (\A c \in S : c.id # i) /\ \A j \in 1 .. i - 1 : \E c \in S : c.id = j
  IN S \cup {[id |-> id, kind |-> kind, who |-> who, token |-> Bearer(kind), here |-> "yes"]}

Fault == faults < MaxFaults /\ faults' = faults + 1 /\ UNCHANGED clicks
NoFault == UNCHANGED counts
Click == clicks < MaxClicks /\ clicks' = clicks + 1 /\ UNCHANGED faults

\* An answer changes localStorage: an older page's one does it under the dashboard shown.
Overtakes(c) == overtaken' = IF page = "dashboard" /\ c.here = "no" THEN "yes" ELSE overtaken

--------------------------------------------------------------------------------
(* Pages *)

\* A component is mounted: AuthProvider calls me() if there is a token.
Mount(p, S) ==
  /\ page' = p /\ going' = "none" /\ overtaken' = "no"
  /\ user' = None /\ submitting' = "no"
  /\ IF p = "dashboard" /\ token # 0
       THEN isLoading' = "yes" /\ calls' = With(S, "me", issued[token])
       ELSE isLoading' = "no" /\ calls' = S
  /\ UNCHANGED <<issued, expired, token>>

\* The router shows the page asked for; the one that is there already stays.
Arrive ==
  /\ going # "none"
  /\ IF going = page
       THEN going' = "none" /\ UNCHANGED <<server, token, page, provider, submitting, calls, overtaken, counts>>
       ELSE Mount(going, Left(calls)) /\ UNCHANGED <<accounts, counts>>

\* A link between the forms, Back or Forward.
Go(p) ==
  /\ Click
  /\ page # "crashed" /\ p # page /\ going' = p
  /\ UNCHANGED <<server, token, page, provider, submitting, calls, overtaken>>

\* A page is loaded afresh (by its address, or again): nothing of the old one is left, but the
\* API may still carry out a registration.
Load(p) ==
  /\ Click
  /\ Mount(p, {})
  /\ accounts' \in {accounts} \cup {accounts \cup {c.who} : c \in {d \in calls : d.kind = "register" /\ d.who \notin Rejected}}

\* DashboardGuard
Guard ==
  /\ page = "dashboard" /\ isLoading = "no" /\ user = None /\ going # "login"
  /\ going' = "login"
  /\ UNCHANGED <<server, token, page, provider, submitting, calls, overtaken, counts>>

--------------------------------------------------------------------------------
(* The two forms *)

\* The two forms: complete, as their required fields are, and with a button that is disabled while
\* handleSubmit runs.
LoginReady == page = "login" /\ submitting = "no"
RegisterReady == page = "register" /\ submitting = "no"

\* handleSubmit up to its first call.
Submit(u) ==
  /\ Click
  /\ LoginReady \/ RegisterReady
  /\ submitting' = "yes"
  /\ calls' = With(calls, page, u)
  /\ UNCHANGED <<server, token, page, going, provider, overtaken>>

\* The catch and the finally of handleSubmit.
FormFails(c) ==
  /\ calls' = calls \ {c}
  /\ submitting' = IF c.here = "yes" THEN "no" ELSE submitting
  /\ UNCHANGED <<issued, expired, token, going, provider, overtaken>>

\* The registration succeeded: the form logs in, in the same function.  The API commits the
\* account after it has answered, so this first login may come too early.
RegisterOk(c) ==
  /\ c.kind = "register" /\ c.who \notin accounts \cup Rejected
  /\ accounts' = accounts \cup {c.who}
  /\ calls' = (calls \ {c}) \cup {[c EXCEPT !.kind = "first"]}
  /\ NoFault
  /\ UNCHANGED <<issued, expired, token, page, going, provider, submitting, overtaken>>

\* 409, or the call fails; the account may have been made.
RegisterFails(c) ==
  /\ c.kind = "register" /\ c.who \notin Rejected
  /\ \/ c.who \in accounts /\ NoFault /\ UNCHANGED accounts
     \/ Fault /\ accounts' \in {accounts, accounts \cup {c.who}}
  /\ FormFails(c) /\ UNCHANGED page

\* 422: detail is a list of objects, which the form renders as if it were text: React gives up.
RegisterInvalid(c) ==
  /\ c.kind = "register" /\ c.who \in Rejected
  /\ NoFault /\ UNCHANGED accounts
  /\ IF c.here = "yes"
       THEN /\ page' = "crashed" /\ going' = "none" /\ calls' = Left(calls \ {c})
            /\ submitting' = "no"
            /\ UNCHANGED <<issued, expired, token, provider, overtaken>>
       ELSE FormFails(c) /\ UNCHANGED page

LoginOk(c) ==
  /\ c.kind \in {"login", "first"} /\ c.who \in accounts
  /\ issued' = Append(issued, c.who) /\ token' = Len(issued') /\ Overtakes(c)
  /\ calls' = calls \ {c}
  /\ going' = IF page = "crashed" THEN going ELSE "dashboard"
  /\ submitting' = IF c.here = "yes" THEN "no" ELSE submitting
  /\ NoFault
  /\ UNCHANGED <<accounts, expired, page, provider>>

\* 401, or the call fails.
LoginFails(c) ==
  /\ c.kind \in {"login", "first"}
  /\ IF c.kind = "login" /\ c.who \in accounts THEN Fault ELSE NoFault
  /\ FormFails(c) /\ UNCHANGED <<accounts, page>>

--------------------------------------------------------------------------------
(* AuthProvider *)

\* (variant) The user is set whichever mount asked.
ShowAnyway(c) == user' = c.who /\ isLoading' = "no"

Show(c) == IF c.here = "yes" THEN user' = c.who /\ isLoading' = "no" ELSE UNCHANGED provider

MeOk(c) ==
  /\ c.kind = "me" /\ c.token > expired
  /\ Show(c)
  /\ calls' = calls \ {c} /\ NoFault
  /\ UNCHANGED <<server, token, page, going, submitting, overtaken>>

\* (variant) finally is gone: the spinner goes on.
LoadingGoesOn(c) == isLoading' = isLoading

LoadingEnds(c) == isLoading' = IF c.here = "yes" THEN "no" ELSE isLoading

\* An expired token, a failing network or API alike: the token stored now is removed.
MeFails(c) ==
  /\ c.kind = "me"
  /\ IF c.token <= expired THEN NoFault ELSE Fault
  /\ token' = 0 /\ Overtakes(c) /\ LoadingEnds(c)
  /\ calls' = calls \ {c}
  /\ UNCHANGED <<server, page, going, user, submitting>>

\* (variant) The token is removed and the user stays until the page is left.
ForgetTokenOnly == token' = 0 /\ UNCHANGED user

ForgetSession == token' = 0 /\ user' = None

\* logout: the answer to its call changes nothing here.
Logout ==
  /\ Click
  /\ page = "dashboard" /\ user # None
  /\ ForgetSession /\ going' = "login"
  /\ UNCHANGED <<server, page, isLoading, submitting, calls, overtaken>>

\* The oldest token is over its 30 minutes.
Expire ==
  /\ expired < Len(issued) /\ expired' = expired + 1
  /\ UNCHANGED <<accounts, issued, token, page, going, provider, submitting, calls, overtaken, counts>>

--------------------------------------------------------------------------------
Answered(c) == RegisterOk(c) \/ RegisterFails(c) \/ RegisterInvalid(c) \/ LoginOk(c) \/ LoginFails(c)
               \/ MeOk(c) \/ MeFails(c)

SNext ==
  \/ Arrive
  \/ \E p \in {"login", "register", "dashboard"} : Go(p) \/ Load(p)
  \/ Guard
  \/ \E u \in Users : Submit(u)
  \/ \E c \in calls : Answered(c)
  \/ Logout
  \/ Expire

SessionSpec == SInit /\ [][SNext]_sessionVars
================================================================================

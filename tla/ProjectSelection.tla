---------------------------- MODULE ProjectSelection ----------------------------
(***************************************************************************)
(* The list of projects, the selected one and the forms that create one    *)
(* (lib/providers/project-provider.tsx, components/layout/sidebar.tsx and  *)
(* no-project.tsx), mounted and unmounted by the session: the provider     *)
(* lives while a user is shown.  Calls go out with the token stored then.  *)
(*                                                                         *)
(* A call has three steps: it is sent, the API serves it, its answer       *)
(* arrives.  Projects are numbered in the order the API makes them.  That  *)
(* the API commits shortly after its answer is in Accounts, not here.      *)
(***************************************************************************)
EXTENDS DashboardSession

CONSTANT MaxProjects   \* bound on the projects created

ASSUME ProjectBounds == MaxProjects \in Nat

VARIABLES
  made,         \* how many projects the API has
  list,         \* how often the provider's list has each project
  current,      \* currentProject, 0 for none
  saved,        \* the selection in localStorage, 0 for none
  showForm,     \* which forms for a new project are open (a name is typed at will)
  creating,     \* each form's guard
  requests,     \* calls under way
  choice,       \* history: the project the user selected or created last
  patient       \* history: "no" once the user did not wait for an answer, or a call failed

Projects == 1 .. MaxProjects
Forms == {"sidebar", "page"}

ui == <<showForm, creating>>
history == <<choice, patient>>
inner == <<server, token, page, going, provider, submitting, calls, overtaken>>
projectVars == <<made, list, current, saved, ui, requests, history>>
vars == <<sessionVars, projectVars>>

Empty == [p \in Projects |-> 0]
No == [f \in Forms |-> "no"]

\* The API may have projects already; this browser has selected none.
Init ==
  /\ SInit
  /\ made \in 0 .. MaxProjects /\ list = Empty /\ current = 0 /\ saved = 0
  /\ showForm = No /\ creating = No
  /\ requests = {} /\ choice = 0 /\ patient = "yes"

--------------------------------------------------------------------------------
(* The provider comes and goes with the user *)

Shown == user # None
Request(id, f) == [id |-> id, form |-> f, phase |-> "sent", token |-> token, seen |-> 0, here |-> "yes"]
FreeIn(S) == CHOOSE i \in 1 .. Cardinality(S) + 1 : \A r \in S : r.id # i
Orphans == {[r EXCEPT !.here = "no"] : r \in requests}
Bare == list' = Empty /\ current' = 0 /\ showForm' = No /\ creating' = No
Making == {r \in requests : r.form # "list" /\ r.phase = "sent"}

\* The API takes a call whose token is stored and within its 30 minutes.
Served(r) == r.phase = "sent" /\ r.token > expired

\* The user does something while calls are under way.
Waits == patient' = IF requests = {} THEN patient ELSE "no"

\* ProjectProvider is mounted with its user and fetches the list.
Appear ==
  /\ Bare /\ requests' = requests \cup {Request(FreeIn(requests), "list")}
  /\ UNCHANGED <<made, saved, history>>

\* The provider is unmounted: its calls go on without it.
Vanish == Bare /\ requests' = Orphans /\ Waits /\ UNCHANGED <<made, saved, choice>>

Follow ==
  IF Shown = (user' # None) THEN UNCHANGED projectVars
  ELSE IF Shown THEN Vanish ELSE Appear

\* The page is loaded afresh: no call is left, but the API may carry out what was sent.
Reload ==
  /\ Bare /\ requests' = {} /\ Waits
  /\ made' \in made .. made + Cardinality({r \in Making : Served(r)})
  /\ UNCHANGED <<saved, choice>>

--------------------------------------------------------------------------------
(* The API *)

\* It answers a list with the projects there are, in any order, or makes a project.
Serve(r) ==
  /\ Served(r)
  /\ IF r.form = "list" THEN UNCHANGED <<made, choice>>
     ELSE made' = made + 1 /\ choice' = made'
  /\ requests' = (requests \ {r}) \cup {[r EXCEPT !.phase = "served", !.seen = made']}
  /\ UNCHANGED <<list, current, saved, ui, patient>>

--------------------------------------------------------------------------------
(* The answers *)

\* The saved selection, or data[0]: the API's SELECT has no ORDER BY, so that is any of them.
Restore(r) ==
  IF r.seen = 0 THEN UNCHANGED <<current, saved>>
  ELSE \E p \in IF saved \in 1 .. r.seen THEN {saved} ELSE 1 .. r.seen :
         saved' = p /\ current' = IF r.here = "yes" THEN p ELSE current

\* NoProjectSelected is on the page while nothing is selected: its state goes with it.
PageFormGoes ==
  IF current' = 0 THEN UNCHANGED <<showForm, creating>>
  ELSE showForm' = [showForm EXCEPT !["page"] = "no"] /\ creating' = [creating EXCEPT !["page"] = "no"]

\* fetchProjects
Listed(r) ==
  /\ r.form = "list" /\ r.phase = "served"
  /\ list' = IF r.here = "yes" THEN [p \in Projects |-> IF p <= r.seen THEN 1 ELSE 0] ELSE list
  /\ Restore(r) /\ PageFormGoes
  /\ requests' = requests \ {r}
  /\ UNCHANGED <<made, history>>

\* (variant) A created project is not remembered.
SelectForNow(p) == current' = p /\ UNCHANGED saved

Select(p) == current' = p /\ saved' = p

\* createProject and the rest of handleCreateProject: the new project becomes the selection,
\* whatever was selected meanwhile; without its provider only localStorage notices.
Created(r) ==
  /\ r.form # "list" /\ r.phase = "served"
  /\ IF r.here = "no" THEN saved' = r.seen /\ UNCHANGED <<list, current, showForm, creating>>
     ELSE
       /\ list' = [list EXCEPT ![r.seen] = @ + 1]
       /\ Select(r.seen)
       /\ showForm' = [f \in Forms |-> IF f = "page" \/ f = r.form THEN "no" ELSE showForm[f]]
       /\ creating' = [f \in Forms |-> IF f = "page" \/ f = r.form THEN "no" ELSE creating[f]]
  /\ requests' = requests \ {r}
  /\ UNCHANGED <<made, history>>

\* A token that is missing or over, a name the API refuses (one letter), a failing network or
\* API: nothing is said, and the form can be used again.
Failed(r) ==
  /\ \/ r.phase = "sent" /\ r.token <= expired /\ NoFault
     \/ r.phase = "sent" /\ r.form # "list" /\ NoFault
     \/ Fault
  /\ creating' = IF r.here = "yes" /\ r.form \in Forms THEN [creating EXCEPT ![r.form] = "no"] ELSE creating
  /\ requests' = requests \ {r} /\ patient' = "no"
  /\ UNCHANGED <<made, list, current, saved, showForm, choice>>

--------------------------------------------------------------------------------
(* The sidebar and the page *)

\* A form is within reach in the sidebar's drop-down, which opens at any click and keeps the
\* form as it is, or on a page that has no project.
OnScreen(f) == Shown /\ (f = "page" => current = 0)

\* switchProject
Switch(p) ==
  /\ Shown /\ list[p] > 0
  /\ Select(p) /\ choice' = p /\ Waits
  /\ PageFormGoes
  /\ UNCHANGED <<made, list, requests>>

\* "New project" opens the form, Escape closes it, a call under way or not.
OpenOrEscape(f) ==
  /\ OnScreen(f) /\ showForm' = [showForm EXCEPT ![f] = IF @ = "no" THEN "yes" ELSE "no"]
  /\ UNCHANGED <<made, list, current, saved, creating, requests, history>>

MayCreate(f) == OnScreen(f) /\ showForm[f] = "yes" /\ creating[f] = "no"

\* handleCreateProject, handleCreate
Create(f) ==
  /\ MayCreate(f) /\ Click /\ made + Cardinality(Making) < MaxProjects
  /\ creating' = [creating EXCEPT ![f] = "yes"]
  /\ requests' = requests \cup {Request(FreeIn(requests), f)}
  /\ Waits
  /\ UNCHANGED <<made, list, current, saved, showForm, choice>>

\* Another page of the dashboard has a NoProjectSelected of its own.
Turn ==
  /\ Shown /\ Click
  /\ showForm' = [showForm EXCEPT !["page"] = "no"] /\ creating' = [creating EXCEPT !["page"] = "no"]
  /\ requests' = {IF r.form = "page" THEN [r EXCEPT !.form = "gone"] ELSE r : r \in requests}
  /\ UNCHANGED <<made, list, current, saved, history>>

--------------------------------------------------------------------------------
(* The tab *)

SessionStep ==
  \/ Arrive
  \/ \E p \in {"login", "register", "dashboard"} : Go(p)
  \/ Guard
  \/ \E u \in Users : Submit(u)
  \/ \E c \in calls : Answered(c)
  \/ Logout
  \/ Expire

ProjectStep ==
  \/ \E r \in requests : Serve(r) \/ Listed(r) \/ Created(r)
  \/ \E p \in Projects : Switch(p)
  \/ \E f \in Forms : OpenOrEscape(f)

Next ==
  \/ SessionStep /\ Follow
  \/ \E p \in {"login", "register", "dashboard"} : Load(p) /\ Reload
  \/ ProjectStep /\ UNCHANGED sessionVars
  \/ (Turn \/ (\E f \in Forms : Create(f)) \/ \E r \in requests : Failed(r)) /\ UNCHANGED inner

Spec == Init /\ [][Next]_vars

\* The browser shows the page asked for, and every call is answered or fails.
Fairness ==
  /\ WF_vars(Arrive /\ Follow) /\ WF_vars(Guard /\ Follow)
  /\ WF_vars((\E c \in calls : Answered(c)) /\ Follow)
  /\ WF_vars(\E r \in requests :
       \/ (Serve(r) \/ Listed(r) \/ Created(r)) /\ UNCHANGED sessionVars
       \/ Failed(r) /\ UNCHANGED inner)

FairSpec == Spec /\ Fairness

--------------------------------------------------------------------------------
(* Properties *)

TypeOK ==
  /\ accounts \subseteq Users \ Rejected /\ issued \in Seq(accounts)
  /\ expired \in 0 .. Len(issued) /\ token \in 0 .. Len(issued)
  /\ page \in {"login", "register", "dashboard", "crashed"}
  /\ going \in {"none", "login", "register", "dashboard"}
  /\ user \in accounts \cup {None} /\ (user # None => page = "dashboard")
  /\ {isLoading, submitting, overtaken, patient} \subseteq {"yes", "no"}
  /\ \A c \in calls : c.kind \in {"register", "login", "first", "me"} /\ c.token \in 0 .. Len(issued)
  /\ made \in 0 .. MaxProjects /\ {current, saved, choice} \subseteq 0 .. made
  /\ list \in [Projects -> 0 .. 2]
  /\ \A f \in Forms : {showForm[f], creating[f]} \subseteq {"yes", "no"}
  /\ \A r \in requests : r.form \in Forms \cup {"list", "gone"} /\ r.seen \in 0 .. made
  /\ (Shown \/ (list = Empty /\ current = 0))

\* The dashboard shows the user of the token its calls carry (auth-provider.tsx:32-51, 80-85),
\* through logins, sign-outs and calls of pages left; except where a late answer of such a page
\* has put another token, or none, under the dashboard shown since (:46).
UserFitsToken == user # None /\ overtaken = "no" => token # 0 /\ issued[token] = user

\* For a user who waits for answers, and as long as calls succeed, the sidebar lists every
\* project of the API once, and the project shown is the one chosen or created last, on this
\* page and after a reload or another sign-in (project-provider.tsx:42-50, 62-82).
LastChoiceShown ==
  patient = "yes" /\ Shown /\ requests = {} =>
    /\ list = [p \in Projects |-> IF p <= made THEN 1 ELSE 0]
    /\ saved = current
    /\ IF choice # 0 THEN current = choice ELSE current = 0 <=> made = 0

\* No page waits for ever: a dashboard shows a user or gives way to the login page, and a
\* submitted form is usable again or left (layout.tsx:17-38, the forms' finally, :48).
SessionSettles ==
  /\ page = "dashboard" /\ user = None ~> page # "dashboard" \/ user # None
  /\ submitting = "yes" ~> submitting = "no"
================================================================================

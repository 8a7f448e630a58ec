-------------------------------- MODULE LiveTail --------------------------------
(***************************************************************************)
(* The Live Tail page over the provider of LiveLogs: the level filter      *)
(* (app/dashboard/live/page.tsx) and the list of the logs received with    *)
(* its open row and its scrolling (components/logs/live-log-stream.tsx).   *)
(*                                                                         *)
(* A step of the provider renders the page again at once.  The browser     *)
(* scrolls smoothly and tells of it later, by a scroll event (external).   *)
(***************************************************************************)
EXTENDS LiveLogs

CONSTANTS
  Levels,       \* the levels of logs
  LevelOf,      \* the level of each log broadcast
  MaxLooks      \* bound on what the user does on the page itself

ASSUME LevelsAssumption == "all" \notin Levels /\ LevelOf \in [1 .. MaxPublished -> Levels]
ASSUME LooksAssumption == MaxLooks \in Nat

VARIABLES
  levelFilter,     \* a level, or "all"
  expandedIndex,   \* the place of the open row, 0 for none
  opened,          \* history: the log whose row the user opened after a pause, 0 for none
  autoScroll,      \* "on" or "off"
  scrollTop,       \* "top" (within 10 pixels) or "below"
  gliding,         \* "yes" while the browser scrolls to the top
  scrolled,        \* "yes" while a scroll event is due
  looks            \* counted against its bound

row == <<expandedIndex, opened>>
scroll == <<autoScroll, scrollTop, gliding, scrolled>>
page == <<levelFilter, row, scroll>>
tailVars == <<vars, page, looks>>

TailInit ==
  /\ Init
  /\ levelFilter = "all" /\ expandedIndex = 0 /\ opened = 0
  /\ autoScroll = "on" /\ scrollTop = "top" /\ gliding = "no" /\ scrolled = "no"
  /\ looks = 0

--------------------------------------------------------------------------------
(* What the page shows *)

\* filteredMessages, and "N events" above them
Shown == SelectSeq(messages, LAMBDA m : levelFilter \in {"all", LevelOf[m.n]})
EventsShown == Len(Shown)

\* messageStats: a card for each level in the buffer, with its count.
CountOf(l) == Cardinality({i \in DOMAIN messages : LevelOf[messages[i].n] = l})
Cards == {l \in Levels : CountOf(l) > 0}

\* "Listening for events"
Listening == Shown = <<>>

\* The open row, by its log: its text in full, its metadata below.
OpenRow == IF expandedIndex \in DOMAIN Shown THEN Shown[expandedIndex].n ELSE 0

\* "Jump to latest"
JumpShown == autoScroll = "off"

--------------------------------------------------------------------------------
(* Renders *)

\* The rows change.  Fewer rows may pull the list to its top; after that the effect scrolls it
\* there, if it is to follow and the number of rows is another.
Rerender ==
  /\ scrollTop' \in IF Shown' = <<>> THEN {"top"}
                    ELSE IF Len(Shown') < Len(Shown) THEN {scrollTop, "top"} ELSE {scrollTop}
  /\ scrolled' = IF scrollTop' # scrollTop THEN "yes" ELSE scrolled
  /\ gliding' = IF scrollTop' = "top" THEN "no"
                ELSE IF Len(Shown') # Len(Shown) /\ autoScroll = "on" THEN "yes" ELSE gliding
  /\ UNCHANGED autoScroll

\* The page is mounted anew.
Mount ==
  /\ levelFilter' = "all" /\ expandedIndex' = 0 /\ opened' = 0
  /\ autoScroll' = "on" /\ scrollTop' = "top" /\ gliding' = "no" /\ scrolled' = "no"

\* A step of the provider: the page is rendered again, or is gone.
Follow ==
  /\ UNCHANGED looks
  /\ IF mounted' = "no" THEN Mount
     ELSE /\ UNCHANGED <<levelFilter, expandedIndex>> /\ Rerender
          /\ opened' = IF isStreaming' = "off" /\ messages' # <<>> THEN opened ELSE 0

--------------------------------------------------------------------------------
(* The user on the page *)

Look == PageShown /\ looks < MaxLooks /\ looks' = looks + 1

\* A card picks its level, or all if it is picked; the selection has them all.
PickCard(l) == l \in Cards /\ levelFilter' = IF levelFilter = l THEN "all" ELSE l
PickLevel(f) == f # levelFilter /\ levelFilter' = f

Filter ==
  /\ Look
  /\ (\E l \in Levels : PickCard(l)) \/ (\E f \in Levels \cup {"all"} : PickLevel(f))
  /\ Rerender
  /\ opened' = 0 /\ UNCHANGED expandedIndex

\* A click on a row opens it, or closes it.
ToggleRow(i) ==
  /\ Look /\ i \in DOMAIN Shown
  /\ expandedIndex' = IF expandedIndex = i THEN 0 ELSE i
  /\ opened' = IF expandedIndex' # 0 /\ isStreaming = "off" THEN Shown[i].n ELSE 0
  /\ UNCHANGED <<levelFilter, scroll>>

\* "Jump to latest"
Jump ==
  /\ Look /\ JumpShown
  /\ autoScroll' = "on" /\ gliding' = IF scrollTop = "below" THEN "yes" ELSE "no"
  /\ UNCHANGED <<levelFilter, row, scrollTop, scrolled>>

\* The user scrolls, which ends the browser's own scrolling.
UserScrolls ==
  /\ Look /\ ~Listening
  /\ scrollTop' = (IF scrollTop = "top" THEN "below" ELSE "top") /\ gliding' = "no" /\ scrolled' = "yes"
  /\ UNCHANGED <<levelFilter, row, autoScroll>>

\* To another page and back.
Revisit == Look /\ Mount

--------------------------------------------------------------------------------
(* The browser *)

\* A frame of the smooth scrolling, the last one or not.
Glide ==
  /\ gliding = "yes" /\ scrolled' = "yes"
  /\ \/ scrollTop' = "top" /\ gliding' = "no"
     \/ UNCHANGED <<scrollTop, gliding>>
  /\ UNCHANGED <<levelFilter, row, autoScroll, looks>>

\* (variant) Scrolling away is noticed, coming back is not.
Noticed == IF scrollTop = "below" THEN "off" ELSE autoScroll

AtTop == IF scrollTop = "top" THEN "on" ELSE "off"

\* handleScroll
HandleScroll ==
  /\ scrolled = "yes" /\ scrolled' = "no"
  /\ autoScroll' = AtTop
  /\ UNCHANGED <<levelFilter, row, scrollTop, gliding, looks>>

--------------------------------------------------------------------------------
PageStep == Filter \/ (\E i \in 1 .. MaxMessages : ToggleRow(i)) \/ Jump \/ UserScrolls \/ Revisit \/ Glide \/ HandleScroll

TailNext ==
  \/ Next /\ Follow
  \/ mounted = "yes" /\ UNCHANGED vars /\ PageStep

TailSpec == TailInit /\ [][TailNext]_tailVars

\* The browser runs its tasks: sockets open (or close), timers fire, React runs its effects.
FairSpec ==
  /\ TailSpec
  /\ WF_tailVars(mounted = "yes" /\ (\E s \in sockets : OnOpen(s)) /\ Follow)
  /\ WF_tailVars(mounted = "yes" /\ (\E s \in sockets : OnMessage(s)) /\ Follow)
  /\ WF_tailVars(mounted = "yes" /\ TimerFires /\ Follow)
  /\ WF_tailVars(mounted = "yes" /\ RunEffects /\ Follow)

--------------------------------------------------------------------------------
\* What the tail shows: the logs that pass the filter, newest first and each once; as many as the
\* card of the level says, or as were received and kept; a row opened during a pause stays the one
\* that was opened; and, once scrolling has come to rest, "Jump to latest" is offered exactly while
\* the newest are out of sight.  (While logs arrive the open row is the one at its place.)
TailFits ==
  /\ \A i, j \in DOMAIN Shown : i < j => Shown[i].n > Shown[j].n
  /\ EventsShown = IF levelFilter \in Levels THEN CountOf(levelFilter)
                   ELSE IF totalReceived < MaxMessages THEN totalReceived ELSE MaxMessages
  /\ opened # 0 => OpenRow = opened
  /\ gliding = "no" /\ scrolled = "no" => (JumpShown <=> scrollTop = "below") /\ ~(JumpShown /\ Listening)
================================================================================

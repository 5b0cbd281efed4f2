----------------------------- MODULE TaskScreens ----------------------------
(***************************************************************************)
(* The screens of mapache tui that spawn a task and watch it: restore,     *)
(* snapshot and find (ui/tui/screens).  The task reports through a channel *)
(* of events and a one-shot result; the screen reads them when App::run    *)
(* draws it, and between two drawings handles at most one key.  The task   *)
(* runs on in between, also between two reads of one drawing.  What the    *)
(* tasks do to files and repository is modules Restorer and Archiver.      *)
(***************************************************************************)
EXTENDS Integers, Sequences, FiniteSets, SequencesExt

CONSTANTS
    Screens,        \* of {"restore", "snapshot", "find"}
    MaxItems,       \* bound: items a task reports
    Searched,       \* the number of snapshots find goes through
    MaxSearches     \* bound: searches of one find screen

VARIABLE ts
\* [screen, phase, turn, quit,                  the screen and where App::run is
\*  task, chan, result, signal,                 the task, what it sent, shutdown_signal
\*  items, finished, shown,                     what the screen has counted and shows
\*  pattern, next, found, failed, results, searches,   find
\*  sent, outcome]                              history: what the task did

Unset == <<>>

TaskStart(s) ==
    [screen |-> s, phase |-> "config", turn |-> "poll", quit |-> FALSE,
     task |-> "none", chan |-> <<>>, result |-> Unset, signal |-> FALSE,
     items |-> 0, finished |-> FALSE, shown |-> Unset,
     pattern |-> 0, next |-> 1, found |-> <<>>, failed |-> {},
     results |-> <<>>, searches |-> 0, sent |-> 0, outcome |-> "none"]
TaskInit == \E s \in Screens : ts = TaskStart(s)

TaskIs(screen, step) == ts.screen = screen /\ ts.task = step
Polls == ~ts.quit /\ ts.turn = "poll"
SendEvent(t, event) == [t EXCEPT !.chan = Append(@, event)]

-----------------------------------------------------------------------------
(* Keys.  start_restore asks for a target, start_snapshot for a path; the    *)
(* form that lacks it stays.                                                 *)
StartTask ==
    /\ Polls /\ ts.screen \in {"restore", "snapshot"} /\ ts.phase = "config"
    /\ ts' = [ts EXCEPT !.phase = "progress", !.signal = FALSE, !.turn = "draw",
                        !.task = IF ts.screen = "restore" THEN "plan" ELSE "parent"]

(* Esc while the task runs asks it to stop; the screen stays.                *)
CancelTask ==
    /\ Polls /\ ts.phase = "progress" /\ ts.screen # "find"
    /\ ts' = [ts EXCEPT !.signal = TRUE, !.turn = "draw"]

(* start_search: a channel of its own for every search.  Keys are not looked *)
(* at while one runs.                                                        *)
StartSearch ==
    /\ Polls /\ ts.screen = "find" /\ ts.phase # "progress" /\ ts.searches < MaxSearches
    /\ \E p \in 1 .. 2 :
          ts' = [ts EXCEPT !.phase = "progress", !.turn = "draw", !.searches = @ + 1,
                           !.pattern = p, !.results = <<>>, !.chan = <<>>,
                           !.task = "search", !.next = 1, !.found = <<>>, !.failed = {}]

(* Pop and Quit end the screen; poll may also time out.                      *)
LeaveScreen ==
    /\ Polls /\ (ts.screen = "find" => ts.phase # "progress")
    /\ ts' = [ts EXCEPT !.quit = TRUE]

NoKey == Polls /\ ts' = [ts EXCEPT !.turn = "draw"]

-----------------------------------------------------------------------------
(* The task of start_restore: the plan, the items, Finished, the result.     *)
RestorePlan ==
    /\ TaskIs("restore", "plan")
    /\ \/ ts' = [SendEvent(ts, "plan") EXCEPT !.task = "work"]
       \/ ts' = [ts EXCEPT !.task = "finish", !.outcome = "error"]

(* restorer::restore looks at the signal between two items: it may end well  *)
(* although Esc was pressed, and badly although it was not.                  *)
RestoreItem ==
    /\ TaskIs("restore", "work")
    /\ \/ /\ ts.sent < MaxItems
          /\ ts' = [SendEvent(ts, "item") EXCEPT !.sent = @ + 1]
       \/ \E o \in {"ok", "error"} :
             ts' = [ts EXCEPT !.task = "finish", !.outcome = o]

RestoreAnswer ==
    \/ /\ TaskIs("restore", "finish")
       /\ ts' = [SendEvent(ts, "finished") EXCEPT !.task = "answer"]
    \/ /\ TaskIs("restore", "answer")
       /\ ts' = [ts EXCEPT !.task = "none", !.result = <<ts.outcome>>]

(* The task of start_snapshot: resolve_parent_snapshot, whose error is the   *)
(* result at once.                                                           *)
ResolveParent ==
    /\ TaskIs("snapshot", "parent")
    /\ \/ ts' = [ts EXCEPT !.task = "work"]
       \/ ts' = [ts EXCEPT !.task = "none", !.outcome = "error", !.result = <<"error">>]

(* run_with_repo: events, then one of its outcomes.  It is interrupted only  *)
(* by the signal; a save whose answer is lost is an error.                   *)
SnapshotItem ==
    /\ TaskIs("snapshot", "work") /\ ts.sent < MaxItems
    /\ ts' = [SendEvent(ts, "item") EXCEPT !.sent = @ + 1]

SnapshotOutcome ==
    /\ TaskIs("snapshot", "work")
    /\ \E o \in {"saved", "nochanges", "interrupted", "error"} :
          /\ o = "interrupted" => ts.signal
          /\ ts' = [ts EXCEPT !.outcome = o, !.task = "answer"]

(* The outcome as the screen tells it.                                       *)
SummaryOf(o, signal) ==
    CASE o = "saved" -> "success"
      [] o = "nochanges" -> "nochanges"
      [] o = "interrupted" -> "cancelled"
      [] o = "error" -> IF signal THEN "cancelled" ELSE "error"

SnapshotAnswer ==
    /\ TaskIs("snapshot", "answer")
    /\ ts' = [ts EXCEPT !.task = "none", !.result = <<SummaryOf(ts.outcome, ts.signal)>>]

(* The task of start_search: one snapshot after the other; one that cannot   *)
(* be searched is passed over.  Pattern p is found in the snapshots that p   *)
(* divides.                                                                  *)
Hits(p, s) == IF s % p = 0 THEN <<s>> ELSE <<>>

SearchOne ==
    /\ TaskIs("find", "search") /\ ts.next <= Searched
    /\ \E ok \in BOOLEAN :
          ts' = [SendEvent(ts, "progress") EXCEPT
                   !.next = @ + 1,
                   !.found = IF ok THEN @ \o Hits(ts.pattern, ts.next) ELSE @,
                   !.failed = IF ok THEN @ ELSE @ \cup {ts.next}]

SearchDone ==
    /\ TaskIs("find", "search") /\ ts.next = Searched + 1
    /\ ts' = [SendEvent(ts, "done") EXCEPT !.task = "none"]

-----------------------------------------------------------------------------
(* Drawing.  The restore screen takes the result first and then the events,  *)
(* the snapshot screen the other way round; find has the channel alone.      *)
DrawOrder(screen) ==
    CASE screen = "restore" -> <<"draw", "take", "drain", "poll">>
      [] screen = "snapshot" -> <<"draw", "drain", "take", "poll">>
      [] screen = "find" -> <<"draw", "drain", "poll">>

NextTurn(t) ==
    LET order == DrawOrder(t.screen)
        at == CHOOSE i \in DOMAIN order : order[i] = t.turn
    IN  [t EXCEPT !.turn = order[at + 1]]

BeginDraw == ~ts.quit /\ ts.turn = "draw" /\ ts' = NextTurn(ts)

TakeResult ==
    /\ ~ts.quit /\ ts.turn = "take"
    /\ ts' = NextTurn(IF ts.result = Unset THEN ts
                      ELSE [ts EXCEPT !.phase = "summary", !.shown = ts.result, !.result = Unset])

(* progress::handle_event and check_search_updates: one event.               *)
HandleEvent(t, event) ==
    CASE event = "plan" -> [t EXCEPT !.items = 0]
      [] event = "item" -> [t EXCEPT !.items = @ + 1]
      [] event = "finished" -> [t EXCEPT !.finished = TRUE]
      [] event = "progress" -> t
      [] event = "done" -> [t EXCEPT !.phase = "summary", !.results = t.found]

(* One turn of the loop on try_recv; check_completion looks only while the   *)
(* task runs.                                                                *)
DrainEvent ==
    /\ ~ts.quit /\ ts.turn = "drain" /\ ts.chan # <<>>
    /\ ts.screen = "snapshot" => ts.phase = "progress"
    /\ ts' = [HandleEvent(ts, Head(ts.chan)) EXCEPT !.chan = Tail(@)]

DrainEnds ==
    /\ ~ts.quit /\ ts.turn = "drain"
    /\ ts.chan = <<>> \/ (ts.screen = "snapshot" /\ ts.phase # "progress")
    /\ ts' = NextTurn(ts)

TaskRests == ts.quit /\ UNCHANGED ts

TaskStep ==
    /\ ~ts.quit
    /\ \/ RestorePlan \/ RestoreItem \/ RestoreAnswer
       \/ ResolveParent \/ SnapshotItem \/ SnapshotOutcome \/ SnapshotAnswer
       \/ SearchOne \/ SearchDone

LoopStep ==
    \/ StartTask \/ CancelTask \/ StartSearch \/ LeaveScreen \/ NoKey
    \/ BeginDraw \/ TakeResult \/ DrainEvent \/ DrainEnds

TaskNext == TaskStep \/ LoopStep \/ TaskRests

TaskSpec == TaskInit /\ [][TaskNext]_ts

(* App::run draws again after every key or 100 milliseconds, and the runtime *)
(* runs a spawned task to its end.                                           *)
TaskFairness == WF_ts(LoopStep) /\ WF_ts(TaskStep)
TaskFairSpec == TaskSpec /\ TaskFairness

-----------------------------------------------------------------------------
(* The summary of a restore counts every item the task restored and knows    *)
(* when it ended: between the result and the drawing of the summary no event *)
(* is lost, at whatever point the task answered.                             *)
RestoreSummaryWhole ==
    ts.screen = "restore" /\ ts.phase = "summary" /\ ts.turn = "poll" =>
        ts.items = ts.sent /\ ts.finished

(* What find lists is every match of the last pattern in the snapshots it    *)
(* could read, never a part of it or the matches of an earlier search.       *)
FindAnswers ==
    ts.screen = "find" /\ ts.phase = "summary" =>
        ts.results = SelectSeq([s \in 1 .. Searched |-> s],
                               LAMBDA s : s % ts.pattern = 0 /\ s \notin ts.failed)

(* A task that was started comes to its summary: the screens that ignore     *)
(* keys or cannot be left meanwhile do not stay so.                          *)
ProgressOver == ts.phase # "progress" \/ ts.quit

(* The restore, snapshot and find screens tell what their task did, whenever *)
(* it answers and whatever keys are pressed meanwhile.                       *)
TasksTold == RestoreSummaryWhole /\ FindAnswers
=============================================================================

------------------------------ MODULE Dashboard ------------------------------
(***************************************************************************)
(* The interactive screens over the list of snapshots: the stack of        *)
(* screens (ui/tui/app.rs), the dashboard, the forget screen and the       *)
(* snapshot details (ui/tui/screens).  mapache tui holds a shared lock, so *)
(* another session may save, drop and recall snapshots while the dashboard *)
(* keeps a list it read earlier, indices into it, and screens that copied  *)
(* it.  A snapshot is its age: 1 is the oldest.  The screens that run a    *)
(* task are module TaskScreens, the two that browse trees module Browsers; *)
(* here they are names on the stack.                                       *)
(***************************************************************************)
EXTENDS Integers, Sequences, FiniteSets, SequencesExt

CONSTANTS
    DashStarts,     \* [snaps, config]: which of the first snapshots are active, and
                    \*   the keep-last of the configuration file, <<>> or <<n>>
    MaxSnaps,       \* bound: snapshots in the repository
    MaxOthers,      \* bound: what other sessions do
    MaxKeep,        \* bound: the largest keep-last that is typed
    PageSize        \* last_height: the rows of the table

VARIABLE db
\* [snaps, others, config,                    the repository, the configuration
\*  list, shown, sel, filter, diff,           DashboardScreen
\*  stale, first, load,                       load_snapshots: due, never done, under way
\*  stack, quit,                              App
\*  marked,                                   history: the snapshot marked with 5
\*  since, unsure]                            history: what changed behind the list

Absent == <<>>
Ids(d) == 1 .. Len(d.snaps)
Top == Last(db.stack)

(* What the filter of the dashboard can hold: the empty text, and a text     *)
(* found in every other snapshot.                                            *)
Queries == {"", "odd"}
Matches(query, id) == query = "" \/ id % 2 = 1

-----------------------------------------------------------------------------
(* StateNavigation: where a key moves the selected row of len.               *)
NavKeys == {"down", "up", "pagedown", "pageup", "home", "end"}
Clip(i, len) == IF i < 1 THEN 1 ELSE IF i > len THEN len ELSE i
HandleNavKey(sel, key, len) ==
    CASE len = 0 -> sel
      [] len > 0 /\ key = "home" -> <<1>>
      [] len > 0 /\ key = "end" -> <<len>>
      [] len > 0 /\ key \notin {"home", "end"} /\ sel = Absent -> <<1>>
      [] len > 0 /\ key = "down" /\ sel # Absent -> <<IF sel[1] >= len THEN 1 ELSE sel[1] + 1>>
      [] len > 0 /\ key = "up" /\ sel # Absent -> <<IF sel[1] = 1 THEN len ELSE sel[1] - 1>>
      [] len > 0 /\ key = "pagedown" /\ sel # Absent -> <<Clip(sel[1] + PageSize, len)>>
      [] len > 0 /\ key = "pageup" /\ sel # Absent -> <<Clip(sel[1] - PageSize, len)>>

(* display_entry of the selected row, or of the first row without one.       *)
DisplayIndex(d) == IF d.sel = Absent THEN 1 ELSE d.sel[1]
HasEntry(d) == DisplayIndex(d) <= Len(d.shown)
DisplayEntry(d) == d.list[d.shown[DisplayIndex(d)]]

-----------------------------------------------------------------------------
(* load_snapshots up to its first read: the selected snapshot is remembered. *)
StartLoad(d) ==
    [d EXCEPT !.load = <<[active |-> Absent, dropped |-> Absent, read |-> {},
                          back |-> IF d.sel # Absent /\ HasEntry(d)
                                   THEN <<DisplayEntry(d).id>> ELSE Absent]>>,
              !.since = {}]

(* on_become_active of the screen now on top.                                *)
OnBecomeActive(d) == IF d.stack = <<>> /\ d.stale THEN StartLoad(d) ELSE d

(* Transition::Push and Transition::Pop.  The dashboard never pops itself.   *)
Push(d, screen) == OnBecomeActive([d EXCEPT !.stack = Append(@, screen)])
Pop(d) == OnBecomeActive([d EXCEPT !.stack = Front(@)])

(* App::new and the first on_become_active.                                  *)
DashStart(start) ==
    StartLoad([snaps |-> start.snaps, others |-> 0, config |-> start.config,
               list |-> <<>>, shown |-> <<>>, sel |-> Absent, filter |-> Absent,
               diff |-> Absent, stale |-> TRUE, first |-> TRUE, load |-> Absent,
               stack |-> <<>>, quit |-> FALSE,
               marked |-> Absent, since |-> {}, unsure |-> {}])
DashInit == \E start \in DashStarts : db = DashStart(start)

-----------------------------------------------------------------------------

ApplyFilter(d) ==
    LET shown == SelectSeq([i \in 1 .. Len(d.list) |-> i],
                           LAMBDA i : d.filter # Absent => Matches(d.filter[1], d.list[i].id))
    IN  [d EXCEPT !.shown = shown, !.sel = IF shown = <<>> THEN Absent ELSE <<1>>]

(* The row of the snapshot that was selected, if it is still shown.          *)
Reselect(d, back) ==
    LET rows == {r \in 1 .. Len(d.shown) : back # Absent /\ d.list[d.shown[r]].id = back[1]}
    IN  IF rows = {} THEN d
        ELSE [d EXCEPT !.sel = <<CHOOSE r \in rows : \A q \in rows : r <= q>>]

(* The end of load_snapshots, with the entries read.                         *)
Loaded(d, list) ==
    [Reselect(ApplyFilter([d EXCEPT !.list = list]), d.load[1].back)
     EXCEPT !.diff = Absent, !.stale = FALSE, !.first = FALSE, !.load = Absent,
            !.unsure = d.since, !.since = {}]

(* The program ends, and with it what its screens hold.                      *)
Ended(d) ==
    [d EXCEPT !.quit = TRUE, !.list = <<>>, !.shown = <<>>, !.sel = Absent, !.diff = Absent,
              !.stack = <<>>, !.load = Absent, !.marked = Absent, !.since = {}, !.unsure = {}]

(* The list is left as it was; the first load of all ends the program.       *)
LoadFailed(d) ==
    IF d.first THEN Ended(d)
    ELSE [d EXCEPT !.load = Absent, !.unsure = @ \cup d.since, !.since = {}]

Listed(ids, active) == {[id |-> i, active |-> active] : i \in ids}

(* SnapshotStream::new and ::dropped: two listings, in either order.         *)
ListActive ==
    /\ db.load # Absent /\ db.load[1].active = Absent
    /\ db' = [db EXCEPT !.load[1].active = <<{i \in Ids(db) : db.snaps[i]}>>]

ListDropped ==
    /\ db.load # Absent /\ db.load[1].dropped = Absent
    /\ db' = [db EXCEPT !.load[1].dropped = <<{i \in Ids(db) : ~db.snaps[i]}>>]

Unread(load) ==
    (Listed(load.active[1], TRUE) \cup Listed(load.dropped[1], FALSE)) \ load.read

(* collect_entries reads the files one by one; a file that was renamed since *)
(* it was listed ends the load with an error.                                *)
BothListed == db.load # Absent /\ db.load[1].active # Absent /\ db.load[1].dropped # Absent

ReadEntry ==
    /\ BothListed
    /\ \E e \in Unread(db.load[1]) :
          db' = IF db.snaps[e.id] = e.active THEN [db EXCEPT !.load[1].read = @ \cup {e}]
                ELSE LoadFailed(db)

(* The newest first; entries of equal age in either order.                   *)
FinishLoad ==
    /\ BothListed /\ Unread(db.load[1]) = {}
    /\ \E tie \in BOOLEAN :
          LET Before(a, b) == a.id > b.id \/ (a.id = b.id /\ a.active = tie /\ b.active # tie)
          IN  db' = Loaded(db, SetToSortSeq(db.load[1].read, Before))

FailLoad == db.load # Absent /\ db' = LoadFailed(db)

-----------------------------------------------------------------------------
(* A key is handled only when no other is: handle_key awaits what it calls.  *)
Ready == ~db.quit /\ db.load = Absent
OnDash == Ready /\ db.stack = <<>>
Keys == OnDash /\ db.filter = Absent
On(kind) == Ready /\ db.stack # <<>> /\ Top.kind = kind

(* handle_filter_key: with a filter every key is its own.                    *)
FilterKey ==
    /\ OnDash /\ db.filter # Absent
    /\ \/ db' = ApplyFilter([db EXCEPT !.filter = Absent])
       \/ \E q \in Queries : db' = ApplyFilter([db EXCEPT !.filter = <<q>>])

OpenFilter == Keys /\ db' = [db EXCEPT !.filter = <<"">>]

DashNav == Keys /\ \E k \in NavKeys : db' = [db EXCEPT !.sel = HandleNavKey(@, k, Len(db.shown))]

OpenSnapshot ==
    Keys /\ db' = Push([db EXCEPT !.stale = TRUE], [kind |-> "snapshot"])

OpenRestore ==
    /\ Keys /\ HasEntry(db)
    /\ db' = Push(db, [kind |-> "restore", id |-> DisplayEntry(db).id])

OpenFind == Keys /\ db' = Push(db, [kind |-> "find"])

(* Key 5: the first time it marks a row, the second time it compares.        *)
MarkOrDiff ==
    /\ Keys /\ db.sel # Absent
    /\ LET target == db.shown[db.sel[1]]
       IN  db' = IF db.diff # Absent
                 THEN Push([db EXCEPT !.diff = Absent],
                           [kind |-> "diff", source |-> db.list[db.diff[1]].id,
                            target |-> db.list[target].id])
                 ELSE [db EXCEPT !.diff = <<target>>, !.marked = <<db.list[target].id>>]

CancelDiff == Keys /\ db' = [db EXCEPT !.diff = Absent, !.marked = Absent]

Refresh == Keys /\ db' = StartLoad([db EXCEPT !.stale = TRUE])

(* Key u: recall_dropped_snapshot renames the file back, if it is there.  A  *)
(* refresh that fails after it is not tried again.                           *)
Recall ==
    /\ Keys /\ HasEntry(db) /\ ~DisplayEntry(db).active
    /\ LET id == DisplayEntry(db).id
       IN  /\ ~db.snaps[id]
           /\ db' = StartLoad([db EXCEPT !.snaps[id] = TRUE, !.unsure = @ \cup {id}])

(* Enter, without a marked row: the details of the selected one.             *)
OpenDetail ==
    /\ Keys /\ db.diff = Absent /\ db.sel # Absent /\ db.sel[1] <= Len(db.shown)
    /\ db' = Push(db, [kind |-> "detail", entries |-> db.list, at |-> db.shown[db.sel[1]]])

Quit == Ready /\ (db.stack = <<>> => db.filter = Absent) /\ db' = Ended(db)

-----------------------------------------------------------------------------
(* navigate_snapshot of the details.                                         *)
NavigateDetail(step) ==
    /\ Top.at + step \in 1 .. Len(Top.entries)
    /\ db' = [db EXCEPT !.stack[Len(db.stack)].at = @ + step]

(* Their keys, with the two screens they open.                               *)
DetailKey ==
    /\ On("detail")
    /\ \/ \E step \in {-1, 1} : NavigateDetail(step)
       \/ \E kind \in {"explorer", "restore"} :
             db' = Push(db, [kind |-> kind, id |-> Top.entries[Top.at].id])
       \/ db' = Pop(db)

(* Esc on the screens that are modelled elsewhere.  The snapshot screen is   *)
(* not left while its task runs.                                             *)
CloseScreen ==
    \/ \E k \in {"snapshot", "restore", "find", "explorer"} : On(k) /\ db' = Pop(db)
    \/ On("diff") /\ db' = Pop([db EXCEPT !.marked = Absent])

(* The task of the snapshot screen saves its snapshot.                       *)
SaveSnapshot ==
    /\ On("snapshot") /\ Len(db.snaps) < MaxSnaps
    /\ db' = [db EXCEPT !.snaps = Append(@, TRUE)]

-----------------------------------------------------------------------------
(* apply_retention_rules with the rules of the form: no rule keeps nothing.  *)
KeepIds(entries, keep) ==
    {id \in Range(entries) :
        keep # Absent /\ Cardinality({x \in Range(entries) : x > id}) < keep[1]}

MarkExpired(entries, keep) ==
    [i \in 1 .. Len(entries) |-> entries[i] \notin KeepIds(entries, keep)]

(* ForgetScreen::new.  Without a rule nothing is marked.                     *)
NewForget(entries, keep) ==
    [kind |-> "forget", phase |-> "selection", entries |-> entries,
     bits |-> IF keep = Absent THEN [i \in 1 .. Len(entries) |-> FALSE]
              ELSE MarkExpired(entries, keep),
     at |-> IF entries = <<>> THEN Absent ELSE <<1>>,
     keep |-> keep, editing |-> FALSE, todo |-> <<>>, count |-> 0, result |-> Absent]

(* Key 3, with the active entries of the list.                               *)
ActiveIds(list) ==
    LET active == SelectSeq(list, LAMBDA e : e.active)
    IN  [i \in 1 .. Len(active) |-> active[i].id]

OpenForget ==
    Keys /\ db' = Push([db EXCEPT !.stale = TRUE], NewForget(ActiveIds(db.list), db.config))

Forget(s) == db' = [db EXCEPT !.stack[Len(db.stack)] = s]

Marks(s) == {i \in 1 .. Len(s.entries) : s.bits[i]}

(* The snapshots execute_forget goes through.                                *)
ToRemove(d, s) ==
    LET rows == SelectSeq([i \in 1 .. Len(s.entries) |-> i], LAMBDA i : s.bits[i])
    IN  [r \in 1 .. Len(rows) |-> s.entries[rows[r]]]

Executing(d, s) ==
    [s EXCEPT !.phase = "executing", !.todo = ToRemove(d, s), !.count = 0]

(* handle_selection_key.  Enter with nothing marked has nothing to confirm.  *)
SelectionKey ==
    /\ On("forget") /\ Top.phase = "selection"
    /\ \/ db' = Pop(db)
       \/ /\ Top.at # Absent /\ Top.at[1] <= Len(Top.entries)
          /\ Forget([Top EXCEPT !.bits[Top.at[1]] = ~@])
       \/ Forget(IF Marks(Top) # {} THEN [Top EXCEPT !.phase = "confirm"] ELSE Executing(db, Top))
       \/ Forget([Top EXCEPT !.phase = "retention"])
       \/ Forget([Top EXCEPT !.bits = [i \in DOMAIN @ |-> \E j \in DOMAIN @ : ~@[j]]])
       \/ \E k \in NavKeys : Forget([Top EXCEPT !.at = HandleNavKey(@, k, Len(Top.entries))])

(* Form::handle_key on the field of keep-last: Enter begins and ends the     *)
(* typing, a digit is appended.                                              *)
FormKey(s) ==
    {[s EXCEPT !.editing = ~@]} \cup
    {[s EXCEPT !.keep = <<n>>] :
        n \in {k \in 1 .. MaxKeep :
                  s.editing /\ k = IF s.keep = Absent THEN 1 ELSE 10 * s.keep[1] + 1}}

(* handle_retention_key.  The key 0 clears every field, also while a number  *)
(* is typed; Esc and Apply work on a form where nothing is being typed.      *)
RetentionKey ==
    /\ On("forget") /\ Top.phase = "retention"
    /\ \/ Forget([Top EXCEPT !.keep = Absent])
       \/ \E form \in FormKey(Top) : Forget(form)
       \/ /\ ~Top.editing
          /\ \/ Forget([Top EXCEPT !.phase = "selection"])
             \/ Forget([Top EXCEPT !.phase = "selection",
                                   !.bits = MarkExpired(Top.entries, Top.keep)])

(* handle_confirm_key, under the dialog that tells how many are marked.      *)
ConfirmKey ==
    /\ On("forget") /\ Top.phase = "confirm"
    /\ \/ Forget([Top EXCEPT !.phase = "selection"])
       \/ Forget(Executing(db, Top))

(* One turn of the loop of execute_forget: set_extension renames the file,   *)
(* fails, or renames it and fails.                                           *)
DropNext ==
    /\ On("forget") /\ Top.phase = "executing" /\ Top.todo # <<>>
    /\ \E id \in {Head(Top.todo)}, done \in BOOLEAN, heard \in BOOLEAN :
          /\ done => db.snaps[id]
          /\ heard => done
          /\ db' = [db EXCEPT
                      !.snaps[id] = @ /\ ~done,
                      !.stack[Len(db.stack)] =
                         [@ EXCEPT !.todo = Tail(@),
                                   !.count = IF heard THEN @ + 1 ELSE @]]

ForgetDone ==
    /\ On("forget") /\ Top.phase = "executing" /\ Top.todo = <<>>
    /\ Forget([Top EXCEPT !.phase = "result",
                          !.result = <<IF Top.count = 0 THEN "none" ELSE "success">>])

ResultKey ==
    /\ On("forget") /\ Top.phase = "result"
    /\ IF Top.result = <<"success">> THEN db' = Pop(db)
       ELSE Forget([Top EXCEPT !.phase = "selection"])

-----------------------------------------------------------------------------
(* Another session under its own shared lock.                                *)
ChangedBehind(d, id) ==
    [d EXCEPT !.others = @ + 1, !.unsure = @ \cup {id},
              !.since = IF d.load = Absent THEN @ ELSE @ \cup {id}]

Other ==
    /\ ~db.quit /\ db.others < MaxOthers
    /\ \/ \E id \in Ids(db) : db' = ChangedBehind([db EXCEPT !.snaps[id] = ~@], id)
       \/ /\ Len(db.snaps) < MaxSnaps
          /\ db' = ChangedBehind([db EXCEPT !.snaps = Append(@, TRUE)], Len(db.snaps) + 1)

DashRests == db.quit /\ UNCHANGED db

DashNext ==
    \/ ListActive \/ ListDropped \/ ReadEntry \/ FinishLoad \/ FailLoad
    \/ FilterKey \/ OpenFilter \/ DashNav \/ OpenSnapshot \/ OpenRestore \/ OpenFind
    \/ MarkOrDiff \/ CancelDiff \/ Refresh \/ Recall \/ OpenDetail \/ Quit
    \/ DetailKey \/ CloseScreen \/ SaveSnapshot
    \/ OpenForget \/ SelectionKey \/ RetentionKey \/ ConfirmKey \/ DropNext \/ ForgetDone
    \/ ResultKey \/ Other \/ DashRests

DashSpec == DashInit /\ [][DashNext]_db

-----------------------------------------------------------------------------
(* Every row the dashboard and the details index is a row of the list they   *)
(* hold, whatever filters, reloads and other sessions came in between: key 5 *)
(* and the details index their lists without a check.                        *)
RowsInRange ==
    /\ db.sel # Absent => db.sel[1] \in 1 .. Len(db.shown)
    /\ Range(db.shown) \subseteq 1 .. Len(db.list)
    /\ \A s \in Range(db.stack) : s.kind = "detail" => s.at \in 1 .. Len(s.entries)

(* The row marked for a diff is the row of the snapshot that was marked, and *)
(* the diff screen compares that one, although the mark is a row number and  *)
(* the rows move when the list is read again.                                *)
DiffAsMarked ==
    /\ db.diff # Absent =>
          db.diff[1] \in DOMAIN db.list /\ <<db.list[db.diff[1]].id>> = db.marked
    /\ \A s \in Range(db.stack) : s.kind = "diff" => <<s.source>> = db.marked

(* When the dashboard is back on top and holds its list for current, each    *)
(* snapshot that nobody else touched since the list was read is in it once,  *)
(* as active or dropped as it is: what this session's own screens saved or   *)
(* dropped shows.                                                            *)
ListCurrent ==
    OnDash /\ ~db.stale =>
        \A id \in Ids(db) \ db.unsure :
            /\ \E r \in 1 .. Len(db.list) : db.list[r] = [id |-> id, active |-> db.snaps[id]]
            /\ Cardinality({r \in 1 .. Len(db.list) : db.list[r].id = id}) = 1

(* dashboard.rs, forget.rs: whatever filters, marks, reloads and other       *)
(* sessions come in between, rows are rows of the list, the diff compares    *)
(* what was marked, and a list held for current is.                          *)
DashboardTrue ==
    /\ RowsInRange
    /\ DiffAsMarked
    /\ ListCurrent
=============================================================================

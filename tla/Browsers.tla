------------------------------ MODULE Browsers -------------------------------
(***************************************************************************)
(* The two screens of mapache tui that browse trees.  DiffScreen           *)
(* (ui/tui/screens/diff.rs) has a task compare two snapshots and shows the *)
(* answer as a tree of lines that fold, that a filter narrows and that     *)
(* hide what is unchanged; it moves on to the neighbouring pair while it   *)
(* keeps the filter.  FileExplorerScreen (file_explorer.rs) walks down and *)
(* up the trees of one snapshot.  A path is a sequence of names.           *)
(***************************************************************************)
EXTENDS Integers, Sequences, FiniteSets, SequencesExt, FiniteSetsExt

CONSTANTS
    DiffLists,      \* DiffLists[s][t]: the entries [path, dir, changed] between two
                    \*   snapshots, directories before what they hold
    Pairs,          \* the pairs <<s, t>> the screen is opened with
    FilterNames,    \* the texts of the filter: names, and 0 for the empty text
    Trees,          \* Trees[t]: the nodes [name, tree] of a tree; <<>> is no tree
    MaxMoves        \* bound: other pairs that are looked at

VARIABLE br
\* the diff screen:     [screen, source, target, rx, task, loading, error, stuck, entries,
\*                       expanded, changes, visible, sel, all, filter, query, moves]
\* the file explorer:   [screen, tree, stack, path, sel, restore]

Nil == <<>>
Snaps == DOMAIN DiffLists

-----------------------------------------------------------------------------
(* The entries are a tree by their depth alone.                              *)
Depth(es, i) == Len(es[i].path)
Beneath(es, i) == {j \in i + 1 .. Len(es) : \A k \in i + 1 .. j : Depth(es, k) > Depth(es, i)}

(* From the last entry to the first, a directory has the changes under it.   *)
ComputeHasChanges(es) ==
    LET has[i \in 1 .. Len(es)] ==
            es[i].changed \/ (es[i].dir /\ \E j \in Beneath(es, i) : has[j])
    IN  [i \in 1 .. Len(es) |-> has[i]]

(* The text that filters: the one being typed, or else the one kept.         *)
FilterText(d) ==
    IF d.filter # Nil THEN d.filter[1] ELSE IF d.query # Nil THEN d.query[1] ELSE 0

(* The entries the text matches, and the parents of those: from the last on, *)
(* the nearest entry before it that is less deep.                            *)
Filtered(d, text) ==
    LET es == d.entries
        Parent(k) == {j \in 1 .. k - 1 : /\ Depth(es, j) < Depth(es, k)
                                         /\ \A x \in j + 1 .. k - 1 : Depth(es, x) >= Depth(es, k)}
        show[i \in 1 .. Len(es)] ==
            \/ (d.all \/ d.changes[i]) /\ Contains(es[i].path, text)
            \/ \E k \in i + 1 .. Len(es) : show[k] /\ i \in Parent(k)
    IN  {i \in 1 .. Len(es) : show[i]}

ShowEntries(d) ==
    IF FilterText(d) = 0 THEN {i \in 1 .. Len(d.entries) : d.all \/ d.changes[i]}
    ELSE Filtered(d, FilterText(d))

(* The loop of build_visible: from a folded directory on to what is not      *)
(* under it.                                                                 *)
Walk(d, show) ==
    LET n == Len(d.entries)
        After(i) == IF d.entries[i].dir /\ i \notin d.expanded
                    THEN i + 1 + Cardinality(Beneath(d.entries, i)) ELSE i + 1
        from[i \in 1 .. n + 1] ==
            IF i > n THEN <<>> ELSE (IF i \in show THEN <<i>> ELSE <<>>) \o from[After(i)]
    IN  from[1]

(* build_visible, with the selected row moved back into range.               *)
BuildVisible(d) ==
    LET visible == Walk(d, ShowEntries(d))
    IN  [d EXCEPT !.visible = visible,
                  !.sel = CASE visible = <<>> -> Nil
                            [] visible # <<>> /\ @ = Nil -> Nil
                            [] visible # <<>> /\ @ # Nil -> <<Min({@[1], Len(visible)})>>]

(* expand_filter_dirs unfolds what has a match under it.                     *)
ExpandFilterDirs(d) ==
    IF FilterText(d) = 0 THEN d
    ELSE [d EXCEPT !.expanded = @ \cup
            {i \in 1 .. Len(d.entries) :
                d.entries[i].dir /\ Beneath(d.entries, i) \cap Filtered(d, FilterText(d)) # {}}]

-----------------------------------------------------------------------------
(* A task that compares the two snapshots, and the channel it answers on.    *)
SpawnDiff(d) == [d EXCEPT !.rx = Nil, !.task = <<<<d.source, d.target>>>>]

NewDiff(pair) ==
    [screen |-> "diff", source |-> pair[1], target |-> pair[2], rx |-> Nil, task |-> Nil,
     loading |-> TRUE, error |-> FALSE, stuck |-> FALSE, entries |-> <<>>, expanded |-> {},
     changes |-> <<>>, visible |-> <<>>, sel |-> Nil, all |-> FALSE, filter |-> Nil,
     query |-> Nil, moves |-> 0]

SortNodes(nodes) ==
    SetToSortSeq(nodes, LAMBDA a, b : IF (a.tree # Nil) = (b.tree # Nil) THEN a.name < b.name
                                      ELSE a.tree # Nil)

NewExplorer ==
    [screen |-> "explorer", tree |-> SortNodes(Trees[1]), stack |-> <<>>, path |-> <<>>,
     sel |-> IF Trees[1] = {} THEN Nil ELSE <<1>>, restore |-> Nil]

(* on_become_active of the diff screen reloads the index; when that fails no *)
(* task runs, and the screen stays as it is.                                 *)
BrowseInit ==
    \/ \E p \in Pairs, ok \in BOOLEAN :
          br = IF ok THEN SpawnDiff(NewDiff(p)) ELSE [NewDiff(p) EXCEPT !.stuck = TRUE]
    \/ br = NewExplorer

OnDiff == br.screen = "diff"
DiffKeys == OnDiff /\ ~br.loading /\ br.filter = Nil

(* diff_entries, with its answer or error sent.                              *)
DiffTask ==
    /\ OnDiff /\ br.task # Nil
    /\ \/ br' = [br EXCEPT !.rx = <<br.task[1]>>, !.task = Nil]
       \/ br' = [br EXCEPT !.rx = <<Nil>>, !.task = Nil]

(* expand_changed_dirs.                                                      *)
Changed(es, has) == {i \in 1 .. Len(es) : es[i].dir /\ has[i]}

(* The answer as render takes it.                                            *)
DiffLoaded(d, es) ==
    LET has == ComputeHasChanges(es)
        e == BuildVisible([d EXCEPT !.entries = es, !.changes = has,
                                    !.expanded = Changed(es, has)])
    IN  [e EXCEPT !.loading = FALSE, !.sel = IF e.visible = <<>> THEN @ ELSE <<1>>]

RenderDiff ==
    /\ OnDiff /\ br.rx # Nil
    /\ br' = [(IF br.rx[1] = Nil THEN [br EXCEPT !.error = TRUE, !.loading = FALSE]
               ELSE DiffLoaded(br, DiffLists[br.rx[1][1]][br.rx[1][2]]))
              EXCEPT !.rx = Nil]

(* Mutant of MovedTo: the neighbour is taken of the source left behind.      *)
MovedToLate(d, source) ==
    [d EXCEPT !.source = source,
              !.target = IF d.source < Cardinality(Snaps) THEN d.source + 1 ELSE d.source - 1]

(* The pair the screen moves on to: the new source and its neighbour.        *)
MovedTo(d, source) ==
    [d EXCEPT !.source = source,
              !.target = IF source < Cardinality(Snaps) THEN source + 1 ELSE source - 1]

(* navigate_snapshot.                                                        *)
NavigateSnapshot ==
    /\ DiffKeys /\ br.moves < MaxMoves
    /\ \E source \in {br.source - 1, br.source + 1} \cap Snaps :
          /\ source # br.target
          /\ br' = SpawnDiff([MovedTo(br, source) EXCEPT
                                !.loading = TRUE, !.entries = <<>>, !.visible = <<>>,
                                !.changes = <<>>, !.expanded = {}, !.sel = Nil,
                                !.error = FALSE, !.moves = @ + 1])

(* toggle_current, and Left and Backspace that only fold.                    *)
ToggleCurrent ==
    /\ DiffKeys /\ br.sel # Nil /\ br.sel[1] <= Len(br.visible)
    /\ LET i == br.visible[br.sel[1]]
       IN  /\ br.entries[i].dir
           /\ br' = BuildVisible([br EXCEPT !.expanded = IF i \in @ THEN @ \ {i} ELSE @ \cup {i}])

ShowUnchanged == DiffKeys /\ br' = BuildVisible([br EXCEPT !.all = ~@])

OpenDiffFilter ==
    /\ DiffKeys
    /\ br' = [br EXCEPT !.filter = <<IF br.query = Nil THEN 0 ELSE br.query[1]>>, !.query = Nil]

(* handle_filter_key: Esc, Enter, a text.                                    *)
DiffFilterKey ==
    /\ OnDiff /\ ~br.loading /\ br.filter # Nil
    /\ \/ br' = BuildVisible([br EXCEPT !.filter = Nil, !.query = Nil])
       \/ br' = BuildVisible(ExpandFilterDirs([br EXCEPT !.query = br.filter, !.filter = Nil]))
       \/ \E n \in FilterNames : br' = BuildVisible(ExpandFilterDirs([br EXCEPT !.filter = <<n>>]))

ClearDiffFilter ==
    DiffKeys /\ br.query # Nil /\ br' = BuildVisible([br EXCEPT !.query = Nil])

DiffRow ==
    /\ DiffKeys /\ br.visible # <<>>
    /\ \E i \in 1 .. Len(br.visible) : br' = [br EXCEPT !.sel = <<i>>]

-----------------------------------------------------------------------------
OnExplorer == br.screen = "explorer" /\ br.restore = Nil

(* Before a key the screen is drawn, and an empty list takes its selection   *)
(* away (external: ratatui's List).                                          *)
Drawn(e) == IF e.tree = <<>> THEN [e EXCEPT !.sel = Nil] ELSE e

ExplorerRow ==
    /\ OnExplorer /\ br.tree # <<>>
    /\ \E i \in 1 .. Len(br.tree) : br' = [br EXCEPT !.sel = <<i>>]

(* Enter on a directory: its tree is loaded, or nothing changes.             *)
EnterDir ==
    /\ OnExplorer /\ Drawn(br).sel # Nil
    /\ LET node == br.tree[br.sel[1]]
       IN  /\ node.tree # Nil
           /\ br' = [br EXCEPT !.tree = SortNodes(Trees[node.tree[1]]),
                               !.stack = Append(@, [tree |-> br.tree, sel |-> br.sel[1]]),
                               !.path = Append(@, node.name), !.sel = <<1>>]

(* Left: the parent, with the row it was left at.                            *)
LeaveDir ==
    /\ OnExplorer /\ br.stack # <<>>
    /\ br' = [br EXCEPT !.tree = Last(br.stack).tree, !.sel = <<Last(br.stack).sel>>,
                        !.stack = Front(@), !.path = Front(@)]

(* Key r opens the restore screen for the path of the selected node.         *)
RestoreSelected ==
    /\ OnExplorer /\ Drawn(br).sel # Nil
    /\ br' = [br EXCEPT !.restore = <<Append(br.path, br.tree[br.sel[1]].name)>>]

CloseRestore ==
    br.screen = "explorer" /\ br.restore # Nil /\ br' = [br EXCEPT !.restore = Nil]

(* Leaving, and keys that find nothing to do.                                *)
BrowseRests == UNCHANGED br

BrowseNext ==
    \/ DiffTask \/ RenderDiff \/ NavigateSnapshot \/ ToggleCurrent \/ ShowUnchanged
    \/ OpenDiffFilter \/ DiffFilterKey \/ ClearDiffFilter \/ DiffRow
    \/ ExplorerRow \/ EnterDir \/ LeaveDir \/ RestoreSelected \/ CloseRestore \/ BrowseRests

BrowseSpec == BrowseInit /\ [][BrowseNext]_br
(* The runtime runs the task, and App::run draws at least every 100 ms.      *)
BrowseFairness == WF_br(DiffTask) /\ WF_br(RenderDiff)
BrowseFairSpec == BrowseSpec /\ BrowseFairness

-----------------------------------------------------------------------------
Prefix(p, q) == Len(p) < Len(q) /\ SubSeq(q, 1, Len(p)) = p

(* What the tree of differences is meant to show, by paths instead of by     *)
(* depths: an entry that is wanted itself or leads to a wanted one, and      *)
(* under no folded directory.                                                *)
Wanted(i) ==
    LET es == br.entries
        Differs(k) == es[k].changed \/ (es[k].dir /\ \E j \in 1 .. Len(es) :
                                           Prefix(es[k].path, es[j].path) /\ es[j].changed)
        Itself(k) == /\ br.all \/ Differs(k)
                     /\ FilterText(br) = 0 \/ Contains(es[k].path, FilterText(br))
    IN  /\ \/ Itself(i)
           \/ /\ FilterText(br) # 0
              /\ \E k \in 1 .. Len(es) : Prefix(es[i].path, es[k].path) /\ Itself(k)
        /\ \A a \in 1 .. Len(es) : es[a].dir /\ Prefix(es[a].path, es[i].path) => a \in br.expanded

(* After every key and every answer the lines on the diff screen are those   *)
(* that the filter, the folding and the choice of unchanged files ask for,   *)
(* in order, and the selected one is among them.                             *)
DiffShowsWanted ==
    OnDiff /\ ~br.loading =>
        /\ br.visible = SelectSeq([i \in 1 .. Len(br.entries) |-> i], Wanted)
        /\ br.sel # Nil => br.sel[1] \in 1 .. Len(br.visible)

(* The differences on the screen are those of the pair in its header, which  *)
(* are two different snapshots, whenever the screen moved on and whatever    *)
(* answers were still on their way.                                          *)
DiffOfHeader ==
    OnDiff =>
        /\ br.moves > 0 => br.source # br.target
        /\ ~br.loading /\ ~br.error => br.entries = DiffLists[br.source][br.target]

(* The directory an explorer shows is the one its breadcrumb names, and the  *)
(* path handed to the restore screen is that of the selected node.           *)
DirectoryAt(path) ==
    FoldLeft(LAMBDA t, name : (CHOOSE n \in Trees[t] : n.name = name).tree[1], 1, path)

ExplorerAtPath ==
    br.screen = "explorer" =>
        /\ ToSet(br.tree) = Trees[DirectoryAt(br.path)]
        /\ br.restore # Nil =>
              br.restore[1] = Append(br.path, br.tree[br.sel[1]].name)

(* A comparison that was started is shown or reported as failed: the screen  *)
(* looks at no key before that.                                              *)
DiffAnswered == OnDiff /\ ~br.stuck => ~br.loading

(* The diff screen and the explorer show what they say they show, after any  *)
(* keys and any answers.                                                     *)
BrowsersTrue == DiffShowsWanted /\ DiffOfHeader /\ ExplorerAtPath
=============================================================================

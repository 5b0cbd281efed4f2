--------------------------- MODULE TreeSerializer ---------------------------
(***************************************************************************)
(* The tree serializer (archiver/tree_serializer.rs): directories are      *)
(* built bottom up and saved when their last child has arrived.            *)
(*                                                                         *)
(* The state is a record: the pending trees (by path), the root, its tree  *)
(* once it is saved, and whether an error was returned.  count is -1 while *)
(* the number of children is unknown.                                      *)
(***************************************************************************)
EXTENDS NodeStreams

Unknown == -1
NewPending == [count |-> Unknown, node |-> <<>>, children |-> <<>>]

IsPending(t) == t.count = Unknown \/ Len(t.children) < t.count

Known(n) == [NewPending EXCEPT !.count = n]

(* Mutant of InitPendingTrees: the directories above the sources are left to *)
(* the stream.                                                               *)
InitPendingTreesRootOnly(root, sources) ==
    [d \in {root} |-> Known(IntermediatePaths(root, sources).root)]

(* init_pending_trees: the root and every directory above a source are known *)
(* from the start; of the latter the stream may tell nothing.                *)
InitPendingTrees(root, sources) ==
    LET inter == IntermediatePaths(root, sources)
    IN  [d \in {root} \cup DOMAIN inter.dirs |->
           Known(IF d = root THEN inter.root ELSE inter.dirs[d])]

Serializer(root, sources) ==
    [pending |-> InitPendingTrees(root, sources), root |-> root, tree |-> <<>>, err |-> FALSE]

Entry(pending, path) == IF path \in DOMAIN pending THEN pending[path] ELSE NewPending
With(pending, path, t) ==
    [d \in (DOMAIN pending) \cup {path} |-> IF d = path THEN t ELSE pending[d]]
Without(pending, path) == [d \in (DOMAIN pending) \ {path} |-> pending[d]]

InsertFinalizedNode(ts, path, node) ==
    LET t == Entry(ts.pending, path)
    IN  [ts EXCEPT !.pending = With(@, path, [t EXCEPT !.children = Append(@, node)])]

(* Tree::save_to_store sorts the nodes by name.                              *)
Sorted(children) == SortSeq(children, LAMBDA a, b : a.name < b.name)

(* The checks of finalize_and_save: the number of children, and that no two  *)
(* neighbours in the order of arrival have the same name.                    *)
Consistent(t) ==
    /\ t.count = Unknown \/ Len(t.children) = t.count
    /\ \A i \in 1 .. Len(t.children) - 1 : t.children[i].name # t.children[i + 1].name

(* finalize_if_complete with finalize_and_save: a complete directory is      *)
(* saved and becomes a child of its parent, which may be complete then.      *)
(* unsaved are the directories whose tree cannot be written.                 *)
RECURSIVE FinalizeIfComplete(_, _, _)
FinalizeIfComplete(ts, path, unsaved) ==
    IF path \notin DOMAIN ts.pending \/ IsPending(Entry(ts.pending, path)) THEN ts
    ELSE LET t == ts.pending[path]
             rest == [ts EXCEPT !.pending = Without(@, path)]
             tree == Sorted(t.children)
             parent == IF Parent(path) = NoPath /\ ts.root = <<>> THEN <<>> ELSE Parent(path)
             node == IF t.node # <<>> THEN t.node[1]
                     ELSE Node(IF path = <<>> THEN -1 ELSE Last(path), "dir", 0)
         IN  CASE ~Consistent(t) \/ path \in unsaved -> [rest EXCEPT !.err = TRUE]
               [] Consistent(t) /\ path \notin unsaved /\ path = ts.root ->
                    [rest EXCEPT !.tree = <<tree>>]
               [] Consistent(t) /\ path \notin unsaved /\ path # ts.root /\ parent = NoPath ->
                    [rest EXCEPT !.err = TRUE]
               [] OTHER ->
                    FinalizeIfComplete(
                      InsertFinalizedNode(rest, parent, [node EXCEPT !.tree = <<tree>>]),
                      parent, unsaved)

(* handle_processed_item: a directory sets its own entry, anything else goes *)
(* to its parent's.                                                          *)
HandleProcessedItem(ts, item, unsaved) ==
    IF IsDir(item.node)
    THEN LET t == Entry(ts.pending, item.path)
             known == [t EXCEPT !.node = <<item.node>>, !.count = item.n]
         IN  FinalizeIfComplete([ts EXCEPT !.pending = With(@, item.path, known)],
                                item.path, unsaved)
    ELSE IF Parent(item.path) = NoPath THEN [ts EXCEPT !.err = TRUE]
    ELSE FinalizeIfComplete(InsertFinalizedNode(ts, Parent(item.path), item.node),
                            Parent(item.path), unsaved)

FinalizeRoot(ts, unsaved) == FinalizeIfComplete(ts, ts.root, unsaved)
=============================================================================

---------------------------- MODULE NodeStreams -----------------------------
(***************************************************************************)
(* The path functions of fs/mod.rs, and the streams of nodes of            *)
(* fs/tree.rs, as the sequences of items that they yield: the walk of a    *)
(* file system, the walk of a saved tree, and the differences between two  *)
(* walks.                                                                  *)
(*                                                                         *)
(* A path is the sequence of its components: RootDir, if there, is 0, and  *)
(* names are naturals from 1, in the order of the names.                   *)
(*                                                                         *)
(* A node is its name, its kind, what is_modified_hint compares (stamp:    *)
(* size, modification and creation time, inode) and either the contents of *)
(* a file or the tree of a directory.  An absent field is <<>>, a present  *)
(* one <<value>>.  A saved tree is the sequence of its nodes: equal trees  *)
(* have equal IDs.                                                         *)
(*                                                                         *)
(* A file system fs has the kind, stamp and data of every path, the        *)
(* directories that cannot be listed (closed), the entries that are listed *)
(* but gone when their metadata is read (gone) and the excluded paths      *)
(* (hidden).                                                               *)
(***************************************************************************)
EXTENDS Integers, Sequences, SequencesExt, FiniteSets, FiniteSetsExt

RootDir == 0
NoPath == <<-9>>

(* Path::parent: neither the root nor the empty path has one.                *)
Parent(p) == IF p \in {<<>>, <<RootDir>>} THEN NoPath ELSE Front(p)

(* The order of Path is the order of the components, one after the other.    *)
RECURSIVE Before(_, _)
Before(p, q) ==
    /\ q # <<>>
    /\ \/ p = <<>>
       \/ Head(p) < Head(q)
       \/ Head(p) = Head(q) /\ Before(Tail(p), Tail(q))

InOrder(paths) ==
    [k \in 1 .. Cardinality(paths) |->
       CHOOSE p \in paths : Cardinality({q \in paths : Before(q, p)}) = k - 1]

Ancestors(p) == {q \in {SubSeq(p, 1, n) : n \in 0 .. Len(p)} : q # p}
Under(p, q) == p # q /\ IsPrefix(p, q)

(* extract_parent.                                                           *)
ExtractParent(p) == Parent(p)

(* calculate_lcp, with strict_prefix false: one path has its parent as root. *)
CalculateLcp(paths) ==
    IF paths = {} THEN <<>>
    ELSE IF Cardinality(paths) = 1
    THEN LET p == ExtractParent(CHOOSE p \in paths : TRUE)
         IN  IF p = NoPath THEN <<>> ELSE p
    ELSE LongestCommonPrefix(paths)

(* The walk of get_intermediate_paths from one path up to the root: the      *)
(* pairs of a directory and the name of a child that it notes, and where it  *)
(* ends.  An empty root is never reached: the walk goes on to the top.       *)
RECURSIVE WalkUp(_, _)
WalkUp(root, cur) ==
    LET parent == Parent(cur)
    IN  IF parent = NoPath THEN [at |-> cur, noted |-> {}, root |-> FALSE]
        ELSE IF root # <<>> /\ ~Before(root, parent)
        THEN [at |-> cur, noted |-> {}, root |-> parent = root]
        ELSE LET up == WalkUp(root, parent)
             IN  [up EXCEPT !.noted = @ \cup {<<parent, Last(cur)>>}]

(* get_intermediate_paths: the number of distinct children of the root, and  *)
(* of every directory between the root and a path.                           *)
IntermediatePaths(root, paths) ==
    LET walks == {WalkUp(root, p) : p \in paths}
        noted == UNION {w.noted : w \in walks}
        dirs == {n[1] : n \in noted}
        top == {Last(w.at) : w \in {w \in walks :
                  w.root \/ (root = <<>> /\ w.at # <<>>)}}
    IN  [root |-> Cardinality(top),
         dirs |-> [d \in dirs |-> Cardinality({n \in noted : n[1] = d})]]

-----------------------------------------------------------------------------
(* The streams of fs/tree.rs.                                                *)

Node(name, kind, stamp) ==
    [name |-> name, kind |-> kind, stamp |-> stamp, blobs |-> <<>>, tree |-> <<>>]

NoNode == Node(-1, "none", 0)

IsDir(node) == node.kind = "dir"
IsFile(node) == node.kind = "file"

IsModifiedHint(a, b) == a.stamp # b.stamp

Item(path, node, n) == [path |-> path, ok |-> TRUE, node |-> node, n |-> n]
ErrItem(path) == [path |-> path, ok |-> FALSE, node |-> NoNode, n |-> 0]

(* The stream itself fails: the last item it yields.                         *)
Broken == ErrItem(NoPath)

----------------------------------------------------------------------------
(* FSNodeStream.                                                             *)

Allowed(fs, p) == \A h \in fs.hidden : ~IsPrefix(h, p)

FsNode(fs, p) ==
    Node(IF p = <<>> THEN -1 ELSE Last(p), fs.kind[p], fs.stamp[p])

Entries(fs, dir) == {p \in DOMAIN fs.kind : p # <<>> /\ Parent(p) = dir /\ Allowed(fs, p)}

(* read_dir and the metadata of every entry: one entry that is gone fails    *)
(* the whole directory.                                                      *)
Listable(fs, dir) == dir # <<>> /\ dir \notin fs.closed /\ Entries(fs, dir) \cap fs.gone = {}

(* make_inner_stream: inter are the directories above the sources, stack the *)
(* paths to visit, both with the next one first.  A directory comes before   *)
(* its entries.  Sources have been read before (their metadata is at hand);  *)
(* a source without a file name, the root directory, becomes the empty path. *)
RECURSIVE FsWalk(_, _, _)
FsWalk(fs, inter, stack) ==
    IF inter = <<>> /\ stack = <<>> THEN <<>>
    ELSE IF stack = <<>> \/ (inter # <<>> /\ Before(inter[1].path, stack[1]))
    THEN LET i == inter[1]
         IN  <<IF i.path \in fs.gone THEN ErrItem(i.path)
               ELSE Item(i.path, FsNode(fs, i.path), i.n)>>
             \o FsWalk(fs, Tail(inter), stack)
    ELSE LET p == stack[1]
             node == FsNode(fs, p)
             entries == Entries(fs, p)
         IN  CASE ~IsDir(node) ->
                    <<Item(p, node, 0)>> \o FsWalk(fs, inter, Tail(stack))
               [] IsDir(node) /\ Listable(fs, p) ->
                    <<Item(p, node, Cardinality(entries))>>
                    \o FsWalk(fs, inter, InOrder(entries) \o Tail(stack))
               [] OTHER ->
                    <<Item(p, node, 0), ErrItem(p)>> \o FsWalk(fs, inter, Tail(stack))

(* from_paths.                                                               *)
FsStream(fs, sources) ==
    LET allowed == {s \in sources : Allowed(fs, s)}
        inter == IntermediatePaths(CalculateLcp(allowed), allowed).dirs
        dirs == InOrder({d \in DOMAIN inter : Allowed(fs, d)})
        stack == InOrder(allowed)
    IN  FsWalk(fs, [i \in 1 .. Len(dirs) |-> [path |-> dirs[i], n |-> inter[dirs[i]]]],
               [i \in 1 .. Len(stack) |-> IF stack[i] = <<RootDir>> THEN <<>> ELSE stack[i]])

----------------------------------------------------------------------------
(* SerializedNodeStream: a depth-first walk of a saved tree, whose nodes are *)
(* sorted.  lost are the directories whose tree cannot be loaded.            *)

Visible(tree, parent, hidden) ==
    SelectSeq([i \in 1 .. Len(tree) |-> [at |-> Append(parent, tree[i].name), node |-> tree[i]]],
              LAMBDA e : \A h \in hidden : ~IsPrefix(h, e.at))

RECURSIVE SavedWalk(_, _, _)
SavedWalk(stack, hidden, lost) ==
    IF stack = <<>> THEN <<>>
    ELSE LET top == stack[1]
             below == IF top.node.tree = <<>> THEN <<>>
                      ELSE Visible(top.node.tree[1], top.at, hidden)
         IN  IF top.node.tree # <<>> /\ top.at \in lost THEN <<Broken>>
             ELSE <<Item(top.at, top.node, Len(below))>>
                  \o SavedWalk(below \o Tail(stack), hidden, lost)

SavedStream(tree, base, hidden, lost) == SavedWalk(Visible(tree, base, hidden), hidden, lost)

(* SerializedTreeStream: the directories only, each with its tree.           *)
RECURSIVE TreeWalk(_, _, _)
TreeWalk(stack, hidden, lost) ==
    IF stack = <<>> THEN <<>>
    ELSE LET top == stack[1]
             dirs == SelectSeq(Visible(top.tree, top.at, hidden),
                               LAMBDA e : e.node.tree # <<>>)
         IN  IF top.at \in lost THEN <<Broken>>
             ELSE <<[path |-> top.at, ok |-> TRUE, tree |-> top.tree]>>
                  \o TreeWalk([i \in 1 .. Len(dirs) |->
                                 [at |-> dirs[i].at, tree |-> dirs[i].node.tree[1]]]
                              \o Tail(stack), hidden, lost)

TreeStream(tree, base, hidden, lost) == TreeWalk(<<[at |-> base, tree |-> tree]>>, hidden, lost)

----------------------------------------------------------------------------
(* NodeDiffStream.                                                           *)

Diff(path, prev, next, diff) ==
    [path |-> path, prev |-> prev, next |-> next, diff |-> diff]
Deleted(p) == Diff(p.path, <<p>>, <<>>, "deleted")
Added(n) == Diff(n.path, <<>>, <<n>>, "new")
Both(p, n) ==
    Diff(p.path, <<p>>, <<n>>,
         IF p.ok /\ n.ok /\ ~IsModifiedHint(p.node, n.node) THEN "unchanged" ELSE "changed")
Failure == Diff(NoPath, <<>>, <<>>, "error")

RECURSIVE DiffStream(_, _)
DiffStream(prev, next) ==
    CASE prev = <<>> /\ next = <<>> -> <<>>
      [] prev # <<>> /\ prev[1] = Broken -> <<Failure>>
      [] prev # <<>> /\ next = <<>> -> <<Deleted(prev[1])>> \o DiffStream(Tail(prev), next)
      [] prev = <<>> /\ next # <<>> -> <<Added(next[1])>> \o DiffStream(prev, Tail(next))
      [] OTHER ->
           CASE Before(prev[1].path, next[1].path) ->
                  <<Deleted(prev[1])>> \o DiffStream(Tail(prev), next)
             [] Before(next[1].path, prev[1].path) ->
                  <<Added(next[1])>> \o DiffStream(prev, Tail(next))
             [] OTHER -> <<Both(prev[1], next[1])>> \o DiffStream(Tail(prev), Tail(next))

----------------------------------------------------------------------------
(* find_serialized_node: a binary search in every tree on the way.  The      *)
(* answer is a node, nothing, or an error where a name on the way is not a   *)
(* directory.                                                                *)
RECURSIVE BinarySearch(_, _, _, _)
BinarySearch(tree, name, lo, hi) ==
    IF lo > hi THEN 0
    ELSE LET mid == (lo + hi) \div 2
         IN  CASE tree[mid].name = name -> mid
               [] tree[mid].name < name -> BinarySearch(tree, name, mid + 1, hi)
               [] OTHER -> BinarySearch(tree, name, lo, mid - 1)

RECURSIVE FindNode(_, _)
FindNode(tree, path) ==
    IF path = <<>> THEN [found |-> "no", node |-> NoNode]
    ELSE LET i == BinarySearch(tree, Head(path), 1, Len(tree))
         IN  CASE i = 0 -> [found |-> "no", node |-> NoNode]
               [] i > 0 /\ Len(path) = 1 -> [found |-> "yes", node |-> tree[i]]
               [] i > 0 /\ Len(path) > 1 /\ tree[i].tree = <<>> ->
                    [found |-> "error", node |-> NoNode]
               [] OTHER -> FindNode(tree[i].tree[1], Tail(path))
=============================================================================

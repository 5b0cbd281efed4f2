------------------------------- MODULE Bundle -------------------------------
(***************************************************************************)
(* mapache bundle (commands/cmd_bundle.rs, bundle/): the sources are       *)
(* written to one file by concurrent readers, and extracted again by a     *)
(* walk of the trees and concurrent workers.  A bundle is the sequence of  *)
(* its sections: blobs, index, manifest, trailer.  A blob is <<"data", c>> *)
(* or <<"tree", t>>; file contents are sequences of chunks.                *)
(***************************************************************************)
EXTENDS TreeSerializer

CONSTANTS
    BundleJobs,     \* [fs, sources, unreadable, sealed, rotten, dest, faults]
    Readers,        \* --readers
    DirCap          \* capacity of the channel of directories, 4096 in the code

VARIABLE bn

BundleFault(f) == f \in bn.job.faults
BnAt(stage) == bn.stage = stage

(* snapshot_root_path: a single source has its parent as root, and the root  *)
(* directory, which has none, itself.                                        *)
RootFor(sources) ==
    IF sources = {<<RootDir>>} THEN <<RootDir>> ELSE CalculateLcp(sources)
BundleRoot == RootFor(bn.job.sources)

-----------------------------------------------------------------------------
(* BundleWriter.  A blob is written once; its place goes into the index.     *)
WriteBlob(w, id) ==
    IF id \in w.seen THEN w
    ELSE [w EXCEPT !.seen = @ \union {id}, !.file = Append(@, id),
                   !.index = Append(@, [id |-> id, at |-> Len(w.file) + 1])]

(* A write that fails leaves part of the blob, which counts as seen.         *)
SaveBlobFails(w, id) == [w EXCEPT !.seen = @ \union {id}, !.file = Append(@, <<"part">>)]

RECURSIVE TreesIn(_)
TreesIn(tree) ==
    {tree} \union UNION {TreesIn(n.tree[1]) : n \in {m \in Range(tree) : m.tree # <<>>}}

SavedTrees(ts) ==
    UNION {TreesIn(t) : t \in Range(ts.tree)
                              \union {n.tree[1] : n \in {m \in UNION {Range(ts.pending[d].children) : d \in DOMAIN ts.pending} :
                                                           m.tree # <<>>}}}

RECURSIVE SaveTrees(_, _)
SaveTrees(w, trees) ==
    IF trees = {} THEN w
    ELSE LET t == CHOOSE t \in trees : TRUE
         IN  SaveTrees(WriteBlob(w, <<"tree", t>>), trees \ {t})

(* run_create: the nodes of the sources go to concurrent readers.            *)
StartNode ==
    /\ BnAt("create") /\ bn.stream # <<>> /\ Len(bn.flight) < Readers
    /\ bn' = IF bn.stream[1].ok
             THEN [bn EXCEPT !.stream = Tail(@), !.flight = Append(@, [item |-> bn.stream[1], done |-> 0])]
             ELSE [bn EXCEPT !.stream = Tail(@), !.errors = @ + 1]

Chunks(item) == IF IsFile(item.node) THEN bn.job.fs.data[item.path] ELSE <<>>

(* chunk_and_store_file.                                                     *)
StoreChunk ==
    /\ BnAt("create")
    /\ \E k \in DOMAIN bn.flight : LET f == bn.flight[k] IN
         /\ f.done < Len(Chunks(f.item)) /\ f.item.path \notin bn.job.unreadable
         /\ LET id == <<"data", Chunks(f.item)[f.done + 1]>>
            IN  \/ bn' = [bn EXCEPT !.flight[k].done = @ + 1, !.w = WriteBlob(@, id)]
                \/ /\ BundleFault("write") /\ bn.errors = 0 /\ id \notin bn.w.seen
                   /\ bn' = [bn EXCEPT !.flight = RemoveAt(@, k), !.w = SaveBlobFails(@, id), !.errors = @ + 1]

(* Mutant of NodeRead: a file that cannot be read goes on without contents.  *)
NodeReadAnyway ==
    /\ BnAt("create")
    /\ \E k \in DOMAIN bn.flight : LET f == bn.flight[k] IN
         /\ f.done = Len(Chunks(f.item)) \/ f.item.path \in bn.job.unreadable
         /\ LET item == IF IsFile(f.item.node) THEN [f.item EXCEPT !.node.blobs = <<Chunks(f.item)>>] ELSE f.item
            IN  bn' = [bn EXCEPT !.flight = RemoveAt(@, k), !.queue = Append(@, item)]

(* A node whose contents are stored goes to the serializer; one that cannot  *)
(* be read is reported and left out.                                         *)
NodeRead ==
    /\ BnAt("create")
    /\ \E k \in DOMAIN bn.flight : LET f == bn.flight[k] IN
         \/ /\ f.done = Len(Chunks(f.item)) /\ f.item.path \notin bn.job.unreadable
            /\ LET item == IF IsFile(f.item.node) THEN [f.item EXCEPT !.node.blobs = <<Chunks(f.item)>>] ELSE f.item
               IN  bn' = [bn EXCEPT !.flight = RemoveAt(@, k), !.queue = Append(@, item)]
         \/ /\ f.item.path \in bn.job.unreadable
            /\ bn' = [bn EXCEPT !.flight = RemoveAt(@, k), !.errors = @ + 1]

SerializeNode ==
    /\ BnAt("create") /\ bn.queue # <<>>
    /\ \E ts \in {HandleProcessedItem(bn.ts, bn.queue[1], {})} :
           bn' = [bn EXCEPT !.queue = Tail(@), !.ts = ts, !.w = SaveTrees(@, SavedTrees(ts)),
                            !.stage = IF ts.err THEN "unbundled" ELSE @]

(* Without a root tree the bundle is given up.                               *)
FinishTrees ==
    /\ BnAt("create") /\ bn.stream = <<>> /\ bn.flight = <<>> /\ bn.queue = <<>>
    /\ \E ts \in {FinalizeRoot(bn.ts, {})} :
           bn' = [bn EXCEPT !.ts = ts, !.w = SaveTrees(@, SavedTrees(ts)),
                            !.stage = IF ts.tree = <<>> THEN "unbundled" ELSE "finalize"]

Sections == <<"index", "manifest", "trailer">>

(* finalize: the trailer, which leads to the index, comes last.              *)
WriteSection ==
    /\ BnAt("finalize")
    /\ LET k == Len(SelectSeq(bn.w.file, LAMBDA s : s[1] \in Range(Sections))) + 1
       IN  bn' = [bn EXCEPT !.w.file = Append(@, <<Sections[k]>>),
                            !.stage = IF k = Len(Sections) THEN "bundled" ELSE @,
                            !.whole = (k = Len(Sections))]

-----------------------------------------------------------------------------
(* BundleReader: open, and load_blob through the index.                      *)
OpenBundle ==
    /\ bn.stage \in {"bundled", "unbundled"}
    /\ bn' = [bn EXCEPT !.stage = IF bn.w.file # <<>> /\ Last(bn.w.file)[1] = "trailer" THEN "scan" ELSE "refused"]

BundleLoads(id) ==
    /\ id \notin bn.job.rotten
    /\ \E e \in Range(bn.w.index) : e.id = id /\ bn.w.file[e.at] = id

(* scan_bundle_tree, and the walk starts at the root.                        *)
ScanBundle ==
    /\ BnAt("scan")
    /\ bn' = IF \A t \in TreesIn(bn.ts.tree[1]) : BundleLoads(<<"tree", t>>)
             THEN [bn EXCEPT !.stage = "extract", !.stack = <<[at |-> <<>>, tree |-> bn.ts.tree[1]]>>]
             ELSE [bn EXCEPT !.stage = "failed"]

Place(dest, path, entry) ==
    [p \in DOMAIN dest \union {path} |->
       IF p = path THEN entry ELSE IF p = Front(path) /\ path \notin DOMAIN dest THEN [dest[p] EXCEPT !.meta = "touched"] ELSE dest[p]]

(* walk_task: a directory is made and announced on its own channel before    *)
(* its node and its tree.                                                    *)
WalkTree ==
    /\ BnAt("extract") /\ bn.nodes = <<>> /\ bn.stack # <<>>
    /\ LET top == Last(bn.stack)
       IN  bn' = [bn EXCEPT !.stack = Front(@),
                            !.nodes = [k \in DOMAIN top.tree |-> [at |-> Append(top.at, top.tree[k].name), node |-> top.tree[k]]]]

WalkNode ==
    /\ BnAt("extract") /\ bn.nodes # <<>>
    /\ LET n == bn.nodes[1]
       IN  /\ IsDir(n.node) => Len(bn.dirs) < DirCap
           /\ bn' = [bn EXCEPT !.nodes = Tail(@), !.todo = Append(@, n),
                               !.dirs = IF IsDir(n.node) THEN Append(@, n.at) ELSE @,
                               !.dest = IF IsDir(n.node) /\ n.at \notin DOMAIN @
                                        THEN Place(@, n.at, [kind |-> "dir", data |-> <<>>, meta |-> "new"]) ELSE @,
                               !.stack = IF n.node.tree # <<>> THEN Append(@, [at |-> n.at, tree |-> n.node.tree[1]]) ELSE @]

(* The workers: a file is created and filled chunk by chunk, a link is made  *)
(* unless something is there.                                                *)
TakeNode ==
    /\ BnAt("extract") /\ bn.todo # <<>> /\ Len(bn.work) < Readers
    /\ LET n == bn.todo[1]
           rest == [bn EXCEPT !.todo = Tail(@)]
       IN  bn' = CASE IsFile(n.node) ->
                        [rest EXCEPT !.work = Append(@, [n |-> n, done |-> 0]),
                                     !.dest = Place(@, n.at, [kind |-> "file", data |-> <<>>, meta |-> "new"])]
                   [] n.node.kind = "link" /\ n.at \notin DOMAIN bn.dest ->
                        [rest EXCEPT !.dest = Place(@, n.at, [kind |-> "link", data |-> <<>>, meta |-> "set"])]
                   [] OTHER -> rest

(* A write at the position of the handle, which another worker may have left *)
(* beyond the end.                                                           *)
WriteChunk(data, at, chunk) ==
    [k \in 1 .. Max({Len(data), at}) |->
       IF k = at THEN chunk ELSE IF k <= Len(data) THEN data[k] ELSE 0]

(* A blob that cannot be loaded ends the file, which is reported.            *)
WriteExtracted ==
    /\ BnAt("extract")
    /\ \E k \in DOMAIN bn.work :
         LET f == bn.work[k]
             blobs == f.n.node.blobs[1]
         IN  bn' = CASE f.done = Len(blobs) ->
                          [bn EXCEPT !.work = RemoveAt(@, k), !.dest[f.n.at].meta = "set"]
                     [] f.done < Len(blobs) /\ BundleLoads(<<"data", blobs[f.done + 1]>>) ->
                          [bn EXCEPT !.work[k].done = @ + 1,
                                     !.dest[f.n.at].data = WriteChunk(@, f.done + 1, blobs[f.done + 1])]
                     [] OTHER -> [bn EXCEPT !.work = RemoveAt(@, k), !.failed = @ \union {f.n.at}]

(* The directories are read from their channel only when all nodes are done. *)
NodesDone ==
    /\ BnAt("extract") /\ bn.stack = <<>> /\ bn.nodes = <<>> /\ bn.todo = <<>> /\ bn.work = <<>>
    /\ bn' = [bn EXCEPT !.stage = "dirs"]

(* Longer paths first.                                                       *)
BundleDirOrder(dirs) == SortSeq(dirs, LAMBDA p, q : Len(p) > Len(q))

(* Metadata of the directories; below one that was sealed nothing is set.    *)
RestoreDirs ==
    /\ BnAt("dirs")
    /\ LET order == BundleDirOrder(bn.dirs)
           At(p) == CHOOSE k \in DOMAIN order : order[k] = p
           Reached(p) == \A q \in Range(order) \intersect bn.job.sealed : Under(q, p) => At(q) > At(p)
       IN  bn' = [bn EXCEPT !.stage = "extracted",
                            !.dest = [p \in DOMAIN @ |-> IF p \in Range(order) /\ Reached(p)
                                                         THEN [@[p] EXCEPT !.meta = "set"] ELSE @[p]]]

-----------------------------------------------------------------------------
(* The process that bundles is killed.                                       *)
KillBundle ==
    /\ BundleFault("kill") /\ bn.stage \in {"create", "finalize"}
    /\ bn' = [bn EXCEPT !.stage = "unbundled"]

BundleOver == bn.stage \in {"refused", "failed", "extracted"}

(* A blocked extraction stutters for ever.                                   *)
BundleRests == UNCHANGED bn

BundleStart(job) ==
    [job |-> job, stage |-> "create", stream |-> FsStream(job.fs, job.sources), flight |-> <<>>,
     queue |-> <<>>, ts |-> Serializer(RootFor(job.sources), job.sources), errors |-> 0,
     whole |-> FALSE, w |-> [file |-> <<>>, index |-> <<>>, seen |-> {}], stack |-> <<>>,
     nodes |-> <<>>, todo |-> <<>>, work |-> <<>>, dirs |-> <<>>, dest |-> job.dest, failed |-> {}]
BundleInit == \E job \in BundleJobs : bn = BundleStart(job)

BundleNext ==
    \/ StartNode \/ StoreChunk \/ NodeRead \/ SerializeNode \/ FinishTrees \/ WriteSection \/ OpenBundle
    \/ ScanBundle \/ WalkTree \/ WalkNode \/ TakeNode \/ WriteExtracted \/ NodesDone \/ RestoreDirs
    \/ KillBundle \/ BundleRests

BundleSpec == BundleInit /\ [][BundleNext]_bn /\ WF_bn(BundleNext)

-----------------------------------------------------------------------------
(* Properties.                                                               *)

(* The paths below the root that the sources hold, without excluded ones and *)
(* the contents of directories that cannot be listed, which are reported.    *)
Bundled ==
    {p \in DOMAIN bn.job.fs.kind :
       /\ Allowed(bn.job.fs, p) /\ \A c \in bn.job.fs.closed : ~Under(c, p)
       /\ \E s \in bn.job.sources : IsPrefix(s, p) \/ (Under(p, s) /\ Under(BundleRoot, p))}
BelowRoot(p) == SubSeq(p, Len(BundleRoot) + 1, Len(p))

(* The readers and BundleWriter: a bundle that is completed holds, each      *)
(* once, all blobs of its root tree and of the files: what two readers store *)
(* at the same time, and what one of them failed to store, included.         *)
BundleWhole ==
    bn.whole =>
      /\ \A t \in TreesIn(bn.ts.tree[1]) : \E e \in Range(bn.w.index) : e.id = <<"tree", t>>
      /\ \A p \in Bundled : bn.job.fs.kind[p] = "file" =>
           \A c \in Range(bn.job.fs.data[p]) :
             Cardinality({k \in DOMAIN bn.w.file : bn.w.file[k] = <<"data", c>>}) = 1

(* BundleReader::open: what is left of a bundle that was given up is never   *)
(* extracted, and a completed one is.                                        *)
OpensWhole ==
    /\ bn.stage \in {"scan", "extract", "dirs", "extracted"} => bn.whole
    /\ bn.stage = "refused" => ~bn.whole

(* extract_nodes_parallel: unless files were reported, the destination holds *)
(* what was bundled, with the metadata of directories into which other       *)
(* workers put files, and of those below a directory without access.  When   *)
(* one source lies in another, the tree serializer may have left entries out *)
(* (it counts those of the other walk too), but none comes back wrong.       *)
ExtractFaithful ==
    bn.stage = "extracted" =>
      \A p \in Bundled :
        LET at == BelowRoot(p)
            fs == bn.job.fs
        IN  \/ at \in bn.failed \union DOMAIN bn.job.dest
            \/ (\E s, q \in bn.job.sources : Under(s, q)) /\ at \notin DOMAIN bn.dest
            \/ /\ at \in DOMAIN bn.dest /\ bn.dest[at].kind = fs.kind[p] /\ bn.dest[at].meta = "set"
               /\ fs.kind[p] = "file" => bn.dest[at].data = fs.data[p]

DirsBundled == {p \in Bundled : bn.job.fs.kind[p] = "dir"}

(* extract_nodes_parallel: the extraction ends, if the channel of the        *)
(* directories, which nobody reads meanwhile, has room for all of them.      *)
ExtractEnded == Cardinality(DirsBundled) <= DirCap => BundleOver

(* cmd_bundle.rs, bundle/: whatever readers and workers do at the same time, *)
(* a bundle that is completed is whole, only such a one can be opened, and   *)
(* extracting it gives back what was bundled.                                *)
BundleFaithful == BundleWhole /\ OpensWhole /\ ExtractFaithful
=============================================================================

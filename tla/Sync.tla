-------------------------------- MODULE Sync --------------------------------
(***************************************************************************)
(* mapache sync (commands/cmd_sync.rs): one repository is mirrored file by *)
(* file to another backend, while backups go on in the source.  A backend  *)
(* is a function of its paths to sizes.  Names are numbers in the order of *)
(* the directories' names.                                                 *)
(***************************************************************************)
EXTENDS Integers, Sequences, FiniteSets, NodeStreams, Functions

CONSTANTS
    SyncJobs,       \* [src, dst, delete, nolock, changes, needs, faults]: changes
                    \*   is what others write to or remove from the source
                    \*   meanwhile, needs what each snapshot cannot do without
    CopyTasks       \* 4 in the code

VARIABLE sy

DirSize == -1
LocksDir == <<3>>
ManifestPath == <<4>>
IsSnapshotPath(p) == Len(p) = 2 /\ p[1] = 6

SyncFault(f) == f \in sy.job.faults

(* The filter of both listings.                                              *)
InMirror(p) == ~IsPrefix(LocksDir, p) /\ p # ManifestPath

NodesOf(fs) == {<<p, fs[p]>> : p \in DOMAIN fs}
SortedNodes(nodes) ==
    LET paths == InOrder({n[1] : n \in {m \in nodes : InMirror(m[1])}})
    IN  [k \in DOMAIN paths |-> CHOOSE n \in nodes : n[1] = paths[k]]

-----------------------------------------------------------------------------
(* diff: the two sorted lists are merged.                                    *)
RECURSIVE MergeNodes(_, _, _, _)
MergeNodes(src, dst, copy, delete) ==
    CASE src = <<>> /\ dst = <<>> -> [copy |-> copy, delete |-> delete]
      [] dst = <<>> \/ (src # <<>> /\ dst # <<>> /\ Before(src[1][1], dst[1][1])) ->
           MergeNodes(Tail(src), dst, Append(copy, src[1]), delete)
      [] src = <<>> \/ (src # <<>> /\ dst # <<>> /\ Before(dst[1][1], src[1][1])) ->
           MergeNodes(src, Tail(dst), copy, Append(delete, dst[1]))
      [] OTHER ->
           LET mismatch == (src[1][2] = DirSize) # (dst[1][2] = DirSize)
           IN  MergeNodes(Tail(src), Tail(dst),
                          IF src[1] # dst[1] THEN Append(copy, src[1]) ELSE copy,
                          IF mismatch THEN Append(delete, dst[1]) ELSE delete)

(* Mutant of DiffNodes: what is to be deleted is not sorted again.           *)
DiffNodesForward(src, dst) == MergeNodes(SortedNodes(src), SortedNodes(dst), <<>>, <<>>)

DiffNodes(src, dst) ==
    LET merged == MergeNodes(SortedNodes(src), SortedNodes(dst), <<>>, <<>>)
    IN  [merged EXCEPT !.delete = Reverse(@)]

-----------------------------------------------------------------------------
(* Calls of the destination.                                                 *)
WithFile(fs, p, size) ==
    [q \in DOMAIN fs \union {p} \union (Ancestors(p) \ {<<>>}) |->
       IF q = p THEN size ELSE IF q \in DOMAIN fs THEN fs[q] ELSE DirSize]
WithoutPath(fs, p) == Restrict(fs, {q \in DOMAIN fs : ~IsPrefix(p, q)})
Writable(fs, p, size) ==
    /\ \A a \in Ancestors(p) \intersect DOMAIN fs : fs[a] = DirSize
    /\ p \in DOMAIN fs => (fs[p] = DirSize) = (size = DirSize)

SyncEnds(x, result) == [x EXCEPT !.result = result]

(* run: both repositories are opened; a destination that cannot be opened    *)
(* and locked is mirrored without a lock.                                    *)
OpenSync ==
    /\ sy.pc = "open" /\ sy.result = "running"
    /\ \/ \E locked \in BOOLEAN :
            /\ locked => ManifestPath \in DOMAIN sy.dst /\ ~sy.job.nolock
            /\ sy' = [sy EXCEPT !.pc = "list", !.locked = locked]
       \/ SyncFault("storage") /\ sy' = SyncEnds(sy, "failed")

(* read_backend_dir of the source: one directory after another.              *)
ListSource ==
    /\ sy.pc = "list" /\ sy.result = "running" /\ sy.todo # {}
    /\ \/ \E dir \in sy.todo :
            LET entries == {p \in DOMAIN sy.src : Len(p) = Len(dir) + 1 /\ IsPrefix(dir, p)}
            IN  sy' = [sy EXCEPT !.todo = (@ \ {dir}) \union {p \in entries : sy.src[p] = DirSize},
                                 !.nodes = @ \union {<<p, sy.src[p]>> : p \in entries}]
       \/ SyncFault("storage") /\ sy' = SyncEnds(sy, "failed")

CompareTrees ==
    /\ sy.pc = "list" /\ sy.result = "running" /\ sy.todo = {}
    /\ LET diff == DiffNodes(sy.nodes, NodesOf(sy.dst))
       IN  sy' = [sy EXCEPT !.pc = "delete", !.copy = diff.copy, !.delete = diff.delete]

(* Obsolete files are deleted first.                                         *)
DeleteNext ==
    /\ sy.pc = "delete" /\ sy.result = "running"
    /\ IF ~sy.job.delete \/ sy.delete = <<>> THEN sy' = [sy EXCEPT !.pc = "copy"]
       ELSE IF sy.signal THEN sy' = SyncEnds(sy, "interrupted")
       ELSE \/ sy' = [sy EXCEPT !.delete = Tail(@), !.dst = WithoutPath(@, sy.delete[1][1])]
            \/ SyncFault("storage") /\ sy' = SyncEnds(sy, "failed")

(* Several copies run at a time; each first looks at the signal.             *)
StartCopy ==
    /\ sy.pc = "copy" /\ sy.result = "running" /\ sy.copy # <<>>
    /\ Cardinality(sy.flight) < CopyTasks
    /\ sy' = IF sy.signal THEN [sy EXCEPT !.copy = Tail(@), !.errors = @ \union {"interrupted"}]
             ELSE [sy EXCEPT !.copy = Tail(@), !.flight = @ \union {sy.copy[1]}]

EndCopy ==
    /\ sy.pc = "copy" /\ sy.result = "running"
    /\ \E node \in sy.flight :
         \/ /\ node[1] \in DOMAIN sy.src /\ Writable(sy.dst, node[1], node[2])
            /\ sy' = [sy EXCEPT !.flight = @ \ {node}, !.dst = WithFile(@, node[1], sy.src[node[1]])]
         \/ /\ SyncFault("storage") \/ node[1] \notin DOMAIN sy.src \/ ~Writable(sy.dst, node[1], node[2])
            /\ sy' = [sy EXCEPT !.flight = @ \ {node}, !.errors = @ \union {"failed"}]

(* All copies are made before the first error is reported.                   *)
CopiesOver ==
    /\ sy.pc = "copy" /\ sy.result = "running" /\ sy.copy = <<>> /\ sy.flight = {}
    /\ sy' = IF sy.errors = {} THEN [sy EXCEPT !.pc = "manifest"]
             ELSE SyncEnds(sy, IF sy.signal THEN "interrupted" ELSE "failed")

(* A manifest that cannot be read is left out; nothing is reported.          *)
CopyManifest ==
    /\ sy.pc = "manifest" /\ sy.result = "running"
    /\ \/ sy' = SyncEnds([sy EXCEPT !.dst = WithFile(@, ManifestPath, sy.src[ManifestPath])], "ok")
       \/ SyncFault("storage") /\ sy' \in {SyncEnds(sy, "ok"), SyncEnds(sy, "failed")}

-----------------------------------------------------------------------------
(* A backup in the source, or without a lock a forget and clean, file by     *)
(* file; the lock of sync is shared.                                         *)
SourceChanges ==
    /\ sy.changed < Len(sy.job.changes) /\ sy.result = "running"
    /\ LET p == sy.job.changes[sy.changed + 1]
           drops == p \in DOMAIN sy.src
       IN  /\ drops => sy.job.nolock
           /\ sy' = [sy EXCEPT !.changed = @ + 1, !.raced = @ \/ (sy.pc = "list" /\ sy.nodes # {}),
                               !.src = IF drops THEN WithoutPath(@, p) ELSE WithFile(@, p, 1)]

SyncSignal ==
    /\ SyncFault("interrupt") /\ ~sy.signal /\ sy.result = "running"
    /\ sy' = [sy EXCEPT !.signal = TRUE]

KillSync ==
    /\ SyncFault("kill") /\ sy.result = "running"
    /\ sy' = SyncEnds(sy, "killed")

SyncRests == sy.result # "running" /\ UNCHANGED sy

SyncStart(job) ==
    [job |-> job, src |-> job.src, dst |-> job.dst, pc |-> "open", locked |-> FALSE,
     todo |-> {<<>>}, nodes |-> {}, copy |-> <<>>, delete |-> <<>>, flight |-> {},
     errors |-> {}, signal |-> FALSE, changed |-> 0, raced |-> FALSE, result |-> "running"]
SyncInit == \E job \in SyncJobs : sy = SyncStart(job)

SyncNext ==
    \/ OpenSync \/ ListSource \/ CompareTrees \/ DeleteNext \/ StartCopy \/ EndCopy \/ CopiesOver
    \/ CopyManifest \/ SourceChanges \/ SyncSignal \/ KillSync \/ SyncRests

SyncSpec == SyncInit /\ [][SyncNext]_sy /\ WF_sy(SyncNext)

-----------------------------------------------------------------------------
(* Properties.                                                               *)

Mirrored == {n \in sy.nodes : InMirror(n[1])}

(* sync_backends: a sync that reports success leaves every file and          *)
(* directory it found in the source in the destination, and with --delete    *)
(* nothing else.                                                             *)
SyncMirrors ==
    sy.result = "ok" =>
      /\ \A n \in Mirrored : n[1] \in DOMAIN sy.dst /\ sy.dst[n[1]] = n[2]
      /\ sy.job.delete => \A p \in DOMAIN sy.dst :
                            InMirror(p) => \E n \in Mirrored : n[1] = p

(* sync_backends: a destination without a manifest gets it last, so that     *)
(* wherever the sync stops a manifest means a complete mirror: every         *)
(* snapshot can be restored, if the source did not change during the listing.*)
ManifestLast ==
    ManifestPath \in (DOMAIN sy.dst) \ DOMAIN sy.job.dst =>
      /\ \A n \in Mirrored : n[1] \in DOMAIN sy.dst
      /\ \A p \in DOMAIN sy.dst : IsSnapshotPath(p) /\ ~sy.raced => sy.job.needs[p] \subseteq DOMAIN sy.dst

(* diff: a snapshot that is to be deleted goes before the packs and indexes  *)
(* it needs, so that a sync stopped among its deletions leaves no snapshot   *)
(* behind whose data it has deleted on the way.                              *)
SnapshotsGoFirst ==
    sy.pc = "delete" /\ sy.job.delete =>
      \A n \in Range(sy.delete) :
        IsSnapshotPath(n[1]) /\ sy.job.needs[n[1]] \subseteq DOMAIN sy.job.dst
          => sy.job.needs[n[1]] \subseteq DOMAIN sy.dst

(* sync_backends: a sync that succeeds has mirrored what it found, and one   *)
(* that stops anywhere has neither made a manifest over a partial mirror nor *)
(* deleted the data of a snapshot before the snapshot.                       *)
MirrorSound == SyncMirrors /\ ManifestLast /\ SnapshotsGoFirst
=============================================================================

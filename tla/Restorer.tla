------------------------------ MODULE Restorer ------------------------------
(***************************************************************************)
(* Restoring a snapshot (restorer/, commands/cmd_restore.rs): the walk of  *)
(* the tree collects files into chunks; a full chunk is restored pack by   *)
(* pack, segments and files concurrently; then come hard links, metadata   *)
(* bottom up and, with --delete, the removal of what the snapshot lacks.   *)
(*                                                                         *)
(* job is what is restored and how: the tree, whose nodes carry mtime,     *)
(* size, the hard link group (0: none) and whether a directory is shut in  *)
(* their stamp; the trees that cannot be loaded; the index; the filters;   *)
(* the options; which of the faults "read", "write", "link", "stop" and    *)
(* "crash" may happen; and how often the command is run, each time on what *)
(* the run before has left.  rs is the state of the command.               *)
(***************************************************************************)
EXTENDS NodeStreams, LocalDisk

CONSTANTS
    Jobs,            \* what may be restored
    MaxHandles,      \* open files of one shard of the handle cache
    Shards,          \* number of shards
    Prefetch,        \* restore_pack_prefetch: segments under way
    Budget,          \* restore_decoded_budget
    MergeGap,        \* restore_pack_read_merge_threshold
    SegmentMax       \* restore_pack_segment_max_size

VARIABLES job, disk, rs

restoreVars == <<job, disk, rs>>

Started(j, d, n) ==
    [at |-> "walk", todo |-> SavedStream(j.tree, <<>>, j.hidden, j.lost),
     files |-> <<>>, requests |-> {}, segs |-> {},
     open |-> [s \in 0 .. Shards - 1 |-> <<>>], init |-> {},
     primary |-> <<>>, links |-> <<>>, dirs |-> <<>>,
     trees |-> TreeStream(j.tree, <<>>, j.hidden, j.lost),
     err |-> FALSE, stop |-> FALSE, outcome |-> "running", round |-> n, before |-> d]

Over(r, outcome) == [r EXCEPT !.at = "done", !.outcome = outcome]
Erred(r) == [r EXCEPT !.err = TRUE]
(* handle_quit_on_error.                                                     *)
Tolerated(r) == IF job.quit THEN Over(r, "failed") ELSE Erred(r)

----------------------------------------------------------------------------
(* The contents of a file as the index locates them; a blob that the index   *)
(* does not know is left out, and what follows moves up.                     *)

Raw(b) == job.index[b].raw
BlobCells(b) == [i \in 1 .. Raw(b) |-> <<b, i>>]

PlaceBlobs(blobs) ==
    FoldLeft(LAMBDA acc, b :
               [placed |-> Append(acc.placed, [id |-> b, offset |-> acc.end]),
                end |-> acc.end + Raw(b)],
             [placed |-> <<>>, end |-> 0],
             SelectSeq(blobs, LAMBDA b : b \in DOMAIN job.index)).placed

BlobsOf(node) == IF node.blobs = <<>> THEN <<>> ELSE node.blobs[1]

(* verify_file_content: the blobs that differ from the local file.  Unknown  *)
(* blobs and short files are errors; a symlink is followed, and leads        *)
(* nowhere; a directory is opened, and cannot be read.  A node whose         *)
(* contents were never read has none to differ.                              *)
VerifyFileContent(node, local) ==
    LET blobs == BlobsOf(node)
        placed == PlaceBlobs(blobs)
        Differs(k) == SubSeq(local.cells, placed[k].offset + 1,
                             placed[k].offset + Raw(blobs[k])) # BlobCells(blobs[k])
        ok == /\ node.blobs # <<>> => local.kind # "link"
              /\ blobs # <<>> => local.kind = "file"
              /\ Range(blobs) \subseteq DOMAIN job.index
              /\ \A k \in DOMAIN placed : placed[k].offset + Raw(blobs[k]) <= Len(local.cells)
    IN  [ok |-> ok, changed |-> IF ok THEN {k \in DOMAIN blobs : Differs(k)} ELSE {}]

(* The strategy decides about what is there already.                         *)
ByStrategy(node, local) ==
    CASE job.strategy = "overwrite" -> "full"
      [] job.strategy = "skip" -> "skip"
      [] job.strategy = "newer" ->
           IF \/ local.mtime < node.stamp.mtime
              \/ local.mtime = node.stamp.mtime /\ Len(local.cells) # node.stamp.size
           THEN "full" ELSE "skip"
      [] job.strategy = "fail" -> "error"

(* should_restore_node, for a file.  Whatever is at the path, if it has the  *)
(* size of the file (symlink_metadata: a symlink has one, and a directory),  *)
(* is kept or compared, whatever the strategy is.                            *)
ShouldRestore(node, path) ==
    IF ~PathExists(disk, path) THEN [plan |-> "full", changed |-> {}]
    ELSE LET local == InodeAt(disk, path)
             same == Len(local.cells) = node.stamp.size
             check == VerifyFileContent(node, local)
         IN  CASE same /\ local.mtime = node.stamp.mtime /\ ~job.verify ->
                    [plan |-> "skip", changed |-> {}]
               [] same /\ (local.mtime # node.stamp.mtime \/ job.verify) /\ check.ok ->
                    [plan |-> IF check.changed = {} THEN "skip"
                              ELSE IF Cardinality(check.changed) >= Len(BlobsOf(node))
                              THEN "full" ELSE "some",
                     changed |-> check.changed]
               [] OTHER -> [plan |-> ByStrategy(node, local), changed |-> {}]

----------------------------------------------------------------------------
(* The walk.                                                                 *)

(* The path below the target; a path outside the stripped prefix is left.    *)
RestorePath(path) ==
    IF Under(job.prefix, path) THEN SubSeq(path, Len(job.prefix) + 1, Len(path))
    ELSE NoPath

(* The items whose metadata is restored, and where they are.                 *)
Placed ==
    {[at |-> RestorePath(i.path), node |-> i.node] :
       i \in {i \in Range(SavedStream(job.tree, <<>>, job.hidden, job.lost)) :
                i.ok /\ RestorePath(i.path) # NoPath}}

(* detect_hardlink: a later file of a group with the same contents is linked *)
(* to the first one.                                                         *)
IsSecondary(node) ==
    /\ node.stamp.link \in DOMAIN rs.primary
    /\ rs.primary[node.stamp.link].blobs = BlobsOf(node)

DetectHardlink(r, node, path) ==
    CASE node.stamp.link = 0 -> r
      [] node.stamp.link # 0 /\ IsSecondary(node) ->
           [r EXCEPT !.links = Append(@, [new |-> path,
                                          old |-> rs.primary[node.stamp.link].path])]
      [] OTHER ->
           IF node.stamp.link \in DOMAIN rs.primary THEN r
           ELSE [r EXCEPT !.primary = (node.stamp.link :>
                                         [path |-> path, blobs |-> BlobsOf(node)]) @@ @]

(* The blobs that are written: of a selective restore those that differ.     *)
WantedBlobs(placed, plan) == IF plan.plan = "some" THEN plan.changed ELSE DOMAIN placed

(* A file joins the chunk, with a request for every blob it needs.           *)
AddFile(r, node, path, plan) ==
    LET placed == PlaceBlobs(BlobsOf(node))
        wanted == WantedBlobs(placed, plan)
        second == node.stamp.link # 0 /\ IsSecondary(node)
        file == [path |-> path, size |-> node.stamp.size, hard |-> second,
                 some |-> plan.plan = "some",
                 n |-> IF second THEN 0 ELSE Cardinality(wanted)]
        missing == Range(BlobsOf(node)) \ DOMAIN job.index # {}
        added == [DetectHardlink(r, node, path) EXCEPT
                    !.files = Append(@, file),
                    !.err = @ \/ missing,
                    !.requests = @ \cup
                      (IF second THEN {}
                       ELSE {[blob |-> placed[k].id, offset |-> placed[k].offset,
                              file |-> Len(r.files) + 1] : k \in wanted})]
    IN  IF Len(added.files) >= job.batch THEN [added EXCEPT !.at = "flush"] ELSE added

(* A symlink, with its metadata; one that cannot be made is a warning, and   *)
(* what is at its path stays.                                                *)
RestoreSymlink(d, node, path) ==
    LET home == CreateDirAll(d, Front(path))
    IN  IF ~home.ok THEN d
        ELSE IF path \in DOMAIN d.at \/ ~Reached(home.disk, path) THEN home.disk
        ELSE AddInode(home.disk, path, Inode("link", <<>>, node.stamp.mtime, FALSE))

(* One item of the walk.                                                     *)
Visit ==
    /\ rs.at = "walk" /\ rs.todo # <<>>
    /\ LET item == Head(rs.todo)
           r == [rs EXCEPT !.todo = Tail(@)]
           node == item.node
           path == RestorePath(item.path)
           plan == ShouldRestore(node, path)
           made == CreateDirAll(disk, path)
           home == CreateDirAll(disk, Front(path))
       IN  \/ rs.stop /\ rs' = Over(r, "interrupted") /\ UNCHANGED disk
           \/ ~rs.stop /\ ~item.ok /\ rs' = Erred(r) /\ UNCHANGED disk
           \/ ~rs.stop /\ item.ok /\ path = NoPath /\ rs' = r /\ UNCHANGED disk
           \/ /\ ~rs.stop /\ item.ok /\ path # NoPath /\ IsDir(node)
              /\ disk' = IF job.dry THEN disk ELSE made.disk
              /\ rs' = IF job.dry \/ made.ok THEN r ELSE Erred(r)
           \/ /\ ~rs.stop /\ item.ok /\ path # NoPath /\ node.kind = "link"
              /\ disk' = IF job.dry THEN disk ELSE RestoreSymlink(disk, node, path)
              /\ rs' = r
           \/ /\ ~rs.stop /\ item.ok /\ path # NoPath /\ IsFile(node)
              /\ rs' = CASE plan.plan = "skip" -> r
                         [] plan.plan = "error" -> Tolerated(Erred(r))
                         [] OTHER -> AddFile(r, node, path, plan)
              /\ disk' = IF ~job.dry /\ plan.plan = "full" /\ node.stamp.link # 0
                            /\ IsSecondary(node)
                         THEN home.disk ELSE disk
    /\ UNCHANGED job

WalkEnds ==
    /\ rs.at = "walk" /\ rs.todo = <<>>
    /\ rs' = [rs EXCEPT !.at = IF rs.files = <<>> THEN "links" ELSE "flush"]
    /\ UNCHANGED <<job, disk>>

----------------------------------------------------------------------------
(* The handle cache.                                                         *)

Shard(f) == f % Shards

(* Mutant of OpenFirst: nothing remembers that the file was begun.           *)
OpenFirstAlways(f) == TRUE

OpenFirst(f) == f \notin rs.init

(* Opening a file for the first time: a symlink is replaced; the file is     *)
(* emptied and gets its length at once, unless only some blobs are written.  *)
OpenedIn(home, bare, file) ==
    LET kind == KindAt(home.disk, file.path)
        fresh == Inode("file", Resized(<<>>, file.size), Now, FALSE)
        fails == ~home.ok \/ ~Reached(home.disk, file.path) \/ kind = "dir"
                 \/ (file.some /\ kind # "file")
    IN  CASE fails -> [ok |-> FALSE, disk |-> bare]
          [] ~fails /\ file.some -> [ok |-> TRUE, disk |-> home.disk]
          [] ~fails /\ ~file.some /\ kind = "file" ->
               [ok |-> TRUE, disk |-> [home.disk EXCEPT !.node[home.disk.at[file.path]] = fresh]]
          [] OTHER -> [ok |-> TRUE, disk |-> AddInode(home.disk, file.path, fresh)]

Opened(d, file) ==
    LET bare == IF KindAt(d, file.path) = "link" THEN Unlink(d, file.path) ELSE d
    IN  OpenedIn(CreateDirAll(bare, Front(file.path)), bare, file)

(* get_handle: the least recently used handle gives way when the shard is    *)
(* full.  A handle is the inode that was opened.                             *)
NewHandle(got, open, f) ==
    LET cache == open[Shard(f)]
        room == IF Len(cache) >= MaxHandles THEN Tail(cache) ELSE cache
        i == got.disk.at[rs.files[f].path]
    IN  IF got.ok
        THEN [ok |-> TRUE, disk |-> got.disk, inode |-> i,
              open |-> [open EXCEPT ![Shard(f)] = Append(room, [file |-> f, inode |-> i])]]
        ELSE [ok |-> FALSE, disk |-> got.disk, inode |-> 0,
              open |-> [open EXCEPT ![Shard(f)] = room]]

GetHandle(d, open, f) ==
    LET file == rs.files[f]
        hits == SelectSeq(open[Shard(f)], LAMBDA h : h.file = f)
        rest == SelectSeq(open[Shard(f)], LAMBDA h : h.file # f)
    IN  IF hits # <<>>
        THEN [ok |-> TRUE, disk |-> d, inode |-> hits[1].inode,
              open |-> [open EXCEPT ![Shard(f)] = rest \o hits]]
        ELSE NewHandle(IF OpenFirst(f) THEN Opened(d, file)
                       ELSE [ok |-> KindAt(d, file.path) = "file", disk |-> d], open, f)

----------------------------------------------------------------------------
(* restore_packs.                                                            *)

(* Files without blobs are made at once, where nothing is or a symlink that  *)
(* leads nowhere.  One that cannot be made ends the command, even without    *)
(* --quit-on-error.                                                          *)
MadeAtOnce(f) ==
    LET file == rs.files[f]
    IN  /\ ~file.some
        /\ \/ file.n = 0 /\ ~file.hard /\ KindAt(disk, file.path) \in {"none", "link"}
           \/ file.size = 0

Begun(h, init) == [ok |-> h.ok, disk |-> h.disk, open |-> h.open, init |-> init]

MakeEmpty ==
    FoldLeft(LAMBDA acc, f :
               IF ~acc.ok \/ ~MadeAtOnce(f) THEN acc
               ELSE Begun(GetHandle(acc.disk, acc.open, f), acc.init \cup {f}),
             [ok |-> TRUE, disk |-> disk, open |-> rs.open, init |-> rs.init],
             [f \in 1 .. Len(rs.files) |-> f])

(* Reading blobs out of a pack (repository/loader.rs).  A locator says where *)
(* a blob lies: its pack, and its offset and length there.  Requests that    *)
(* are near each other are read together, as one segment of the pack.        *)

End(loc) == loc.offset + loc.length

NoSegment == [min |-> 0, max |-> 0, blobs |-> <<>>]

(* A blob joins the segment if the gap before it is small and the segment    *)
(* does not grow too long.                                                   *)
Merges(seg, loc) ==
    /\ loc.offset <= seg.max + MergeGap
    /\ Max({seg.max, End(loc)}) - seg.min <= SegmentMax

(* segment_blobs: the segments of one pack, and the one that is being built. *)
SegmentStep(acc, loc) ==
    LET seg == acc.cur
    IN  CASE seg.blobs = <<>> ->
               [acc EXCEPT !.cur = [min |-> loc.offset, max |-> End(loc), blobs |-> <<loc>>]]
          [] seg.blobs # <<>> /\ Merges(seg, loc) ->
               [acc EXCEPT !.cur = [min |-> seg.min, max |-> Max({seg.max, End(loc)}),
                                    blobs |-> Append(seg.blobs, loc)]]
          [] OTHER ->
               [done |-> Append(acc.done, seg),
                cur |-> [min |-> loc.offset, max |-> End(loc), blobs |-> <<loc>>]]

SegmentBlobs(locs) ==
    LET last == FoldLeft(SegmentStep, [done |-> <<>>, cur |-> NoSegment],
                         SetToSortSeq(locs, LAMBDA a, b : a.offset < b.offset))
    IN  IF last.cur.blobs = <<>> THEN last.done ELSE Append(last.done, last.cur)

(* The segments of all packs that the chunk needs.                           *)
Segments ==
    LET locs == {job.index[q.blob] : q \in rs.requests}
    IN  UNION {{[pack |-> p, todo |-> seg.blobs, flying |-> {}, busy |-> FALSE] :
                  seg \in Range(SegmentBlobs({l \in locs : l.pack = p}))} :
               p \in {l.pack : l \in locs}}

Flush ==
    /\ rs.at = "flush"
    /\ \/ /\ job.dry
          /\ rs' = [rs EXCEPT !.at = "walk", !.files = <<>>, !.requests = {}]
          /\ UNCHANGED disk
       \/ /\ ~job.dry
          /\ \E made \in {MakeEmpty} :
               /\ disk' = made.disk
               /\ rs' = IF made.ok
                        THEN [rs EXCEPT !.at = "packs", !.segs = Segments,
                                        !.open = made.open, !.init = made.init]
                        ELSE Over(rs, "failed")
    /\ UNCHANGED job

Replaced(r, old, new) == [r EXCEPT !.segs = (@ \ {old}) \cup new]

(* A segment is read; it may fail, and with it the command.                  *)
ReadSegment(s) ==
    /\ rs.at = "packs" /\ ~s.busy
    /\ Cardinality({x \in rs.segs : x.busy}) < Prefetch
    /\ \/ rs.stop /\ rs' = Over(rs, "interrupted")
       \/ ~rs.stop /\ rs' = Replaced(rs, s, {[s EXCEPT !.busy = TRUE]})
       \/ ~rs.stop /\ "read" \in job.faults /\ rs' = Over(rs, "failed")
    /\ UNCHANGED <<job, disk>>

(* The last blobs of the segment, up to the budget for decoded data.         *)
RECURSIVE BatchLength(_, _)
BatchLength(todo, sum) ==
    IF todo = <<>> \/ sum >= Budget THEN 0
    ELSE 1 + BatchLength(Front(todo), sum + Last(todo).raw)

(* A batch is decoded and its writes are sorted by file.                     *)
DecodeBatch(s) ==
    /\ rs.at = "packs" /\ s.busy /\ s.flying = {}
    /\ LET n == BatchLength(s.todo, 0)
           batch == {l.id : l \in Range(SubSeq(s.todo, Len(s.todo) - n + 1, Len(s.todo)))}
           mine == {q \in rs.requests : q.blob \in batch}
           writes == {[file |-> f, what |-> {q \in mine : q.file = f}] :
                        f \in {q.file : q \in mine}}
       IN  rs' = IF rs.stop THEN Over(rs, "interrupted")
                 ELSE Replaced(rs, s, {[s EXCEPT !.todo = SubSeq(@, 1, Len(@) - n),
                                              !.flying = writes]})
    /\ UNCHANGED <<job, disk>>

WriteCells(d, inode, what) ==
    FoldLeft(LAMBDA e, q : WriteAt(e, inode, q.offset, BlobCells(q.blob)), d, SetToSeq(what))

(* The writes of one file, under the lock of its shard.  An error is noted   *)
(* and the next file goes on, unless --quit-on-error.                        *)
WriteFile(s, w) ==
    /\ rs.at = "packs" /\ w \in s.flying
    /\ \E h \in {GetHandle(disk, rs.open, w.file)} :
         LET left == s.flying \ {w}
             next == IF left = {} /\ s.todo = <<>> THEN {} ELSE {[s EXCEPT !.flying = left]}
             r == [Replaced(rs, s, next) EXCEPT !.open = h.open]
             begun == [r EXCEPT !.init = @ \cup {w.file}]
         IN  \/ h.ok /\ disk' = WriteCells(h.disk, h.inode, w.what) /\ rs' = begun
             \/ ~h.ok /\ disk' = h.disk /\ rs' = Tolerated(r)
             \/ /\ h.ok /\ "write" \in job.faults
                /\ \E done \in (SUBSET w.what) \ {w.what} :
                     disk' = WriteCells(h.disk, h.inode, done)
                /\ rs' = Tolerated(begun)
    /\ UNCHANGED job

PacksEnd ==
    /\ rs.at = "packs" /\ rs.segs = {}
    /\ \/ rs.stop /\ rs.requests # {} /\ rs' = Over(rs, "interrupted")
       \/ rs' = [rs EXCEPT !.at = "walk", !.files = <<>>, !.requests = {}, !.init = {},
                           !.open = [s \in DOMAIN @ |-> <<>>]]
    /\ UNCHANGED <<job, disk>>

----------------------------------------------------------------------------
(* Hard links, metadata, deletion.                                           *)

(* A hard link that cannot be made becomes a copy.                           *)
MakeLink ==
    /\ rs.at = "links" /\ rs.links # <<>> /\ ~job.dry
    /\ LET l == Head(rs.links)
           r == [rs EXCEPT !.links = Tail(@)]
           home == CreateDirAll(disk, Front(l.new))
           gone == IF KindAt(home.disk, l.new) \in {"file", "link"}
                   THEN Unlink(home.disk, l.new) ELSE home.disk
           linked == HardLink(gone, l.old, l.new)
           copied == AddInode(gone, l.new, [InodeAt(gone, l.old) EXCEPT !.mtime = Now])
       IN  \/ rs.stop /\ rs' = Over(r, "interrupted") /\ UNCHANGED disk
           \/ /\ ~rs.stop
              /\ disk' = IF home.ok THEN linked.disk ELSE disk
              /\ rs' = IF home.ok /\ linked.ok THEN r ELSE Tolerated(r)
           \/ /\ ~rs.stop /\ "link" \in job.faults /\ home.ok /\ linked.ok
              /\ disk' = IF job.quit THEN gone ELSE copied
              /\ rs' = Tolerated(r)
    /\ UNCHANGED job

SetMetadata(d, p, stamp) ==
    IF ~PathExists(d, p) THEN d
    ELSE [d EXCEPT !.node[d.at[p]].mtime = stamp.mtime, !.node[d.at[p]].shut = stamp.shut]

(* The longer path comes first, so what is below a directory is done when it *)
(* may be shut.                                                              *)
DirOrder(a, b) == Len(a.at) > Len(b.at)

(* The first pass of restore_metadata: all that are not directories.         *)
LinksEnd ==
    /\ rs.at = "links" /\ (rs.links = <<>> \/ job.dry)
    /\ LET leaves == SetToSeq({i \in Placed : ~IsDir(i.node)})
           dirs == SetToSeq({i \in Placed : IsDir(i.node)})
       IN  /\ disk' = IF job.dry THEN disk
                      ELSE FoldLeft(LAMBDA d, i : SetMetadata(d, i.at, i.node.stamp),
                                    disk, leaves)
           /\ rs' = [rs EXCEPT !.at = "meta",
                               !.dirs = IF job.dry THEN <<>> ELSE SortSeq(dirs, DirOrder)]
    /\ UNCHANGED job

RestoreDirMetadata ==
    /\ rs.at = "meta" /\ rs.dirs # <<>>
    /\ IF rs.stop THEN rs' = Over(rs, "interrupted") /\ UNCHANGED disk
       ELSE /\ disk' = SetMetadata(disk, Head(rs.dirs).at, Head(rs.dirs).node.stamp)
            /\ rs' = [rs EXCEPT !.dirs = Tail(@)]
    /\ UNCHANGED job

MetadataEnds ==
    /\ rs.at = "meta" /\ rs.dirs = <<>>
    /\ rs' = IF job.delete
             THEN [rs EXCEPT !.at = "delete",
                             !.trees = IF job.noPreserveRoot \/ @ = <<>> THEN @ ELSE Tail(@)]
             ELSE Over(rs, "ok")
    /\ UNCHANGED <<job, disk>>

PathIsBelowIncludes(p) == job.include = {} \/ \E i \in job.include : IsPrefix(i, p)

(* The local entries of a directory that are not in the tree of the          *)
(* snapshot.                                                                 *)
Foreign(d, dir, names) ==
    {p \in DOMAIN d.at : p # <<>> /\ Front(p) = dir /\ Last(p) \notin names}

(* delete_nodes, for one directory.  A directory that is not there is left   *)
(* out; one that cannot be read, or deleted, is an error.                    *)
DeleteNodes ==
    /\ rs.at = "delete" /\ rs.trees # <<>>
    /\ LET t == Head(rs.trees)
           r == [rs EXCEPT !.trees = Tail(@)]
           names == {t.tree[k].name : k \in DOMAIN t.tree}
           dead == Foreign(disk, t.path, names)
       IN  \/ rs.stop /\ rs' = Over(r, "interrupted") /\ UNCHANGED disk
           \/ /\ ~rs.stop
              /\ ~t.ok \/ ~PathIsBelowIncludes(t.path) \/ ~PathExists(disk, t.path)
              /\ rs' = r /\ UNCHANGED disk
           \/ /\ ~rs.stop /\ t.ok /\ PathIsBelowIncludes(t.path) /\ PathExists(disk, t.path)
              /\ IF IsDirAt(disk, t.path) /\ ~InodeAt(disk, t.path).shut
                 THEN /\ disk' = IF job.dry THEN disk
                                 ELSE FoldLeft(LAMBDA d, p : IF IsDirAt(d, p) THEN RemoveAll(d, p)
                                                             ELSE Unlink(d, p),
                                               disk, SetToSeq(dead))
                      /\ rs' = r
                 ELSE rs' = Over(r, "failed") /\ UNCHANGED disk
    /\ UNCHANGED job

DeletionEnds ==
    /\ rs.at = "delete" /\ rs.trees = <<>>
    /\ rs' = Over(rs, "ok")
    /\ UNCHANGED <<job, disk>>

----------------------------------------------------------------------------
(* The signal handler sets the flag; the process may be killed; and the      *)
(* command may be run again.                                                 *)

StopRestore ==
    /\ "stop" \in job.faults /\ rs.at # "done" /\ ~rs.stop
    /\ rs' = [rs EXCEPT !.stop = TRUE]
    /\ UNCHANGED <<job, disk>>

KillRestore ==
    /\ "crash" \in job.faults /\ rs.at # "done"
    /\ rs' = Over(rs, "killed")
    /\ UNCHANGED <<job, disk>>

(* The process is killed after it emptied a file and before it set its       *)
(* length.                                                                   *)
KillWhileOpening(w) ==
    LET file == rs.files[w.file]
        got == Opened(disk, file)
    IN  /\ "crash" \in job.faults /\ rs.at = "packs"
        /\ OpenFirst(w.file) /\ ~file.some /\ got.ok
        /\ disk' = [got.disk EXCEPT !.node[got.disk.at[file.path]].cells = <<>>]
        /\ rs' = Over(rs, "killed")
        /\ UNCHANGED job

RestoreAgain ==
    /\ rs.at = "done" /\ rs.round < job.rounds
    /\ rs' = Started(job, disk, rs.round + 1)
    /\ UNCHANGED <<job, disk>>

RestoreIdle == rs.at = "done" /\ UNCHANGED restoreVars

RestoreStart(j) == job = j /\ disk = j.disk /\ rs = Started(j, j.disk, 1)
RestoreInit == \E j \in Jobs : RestoreStart(j)

RestoreNext ==
    \/ Visit \/ WalkEnds \/ Flush
    \/ \E s \in rs.segs : ReadSegment(s) \/ DecodeBatch(s)
                      \/ \E w \in s.flying : WriteFile(s, w) \/ KillWhileOpening(w)
    \/ PacksEnd \/ MakeLink \/ LinksEnd \/ RestoreDirMetadata \/ MetadataEnds
    \/ DeleteNodes \/ DeletionEnds
    \/ StopRestore \/ KillRestore \/ RestoreAgain \/ RestoreIdle

RestoreSpec == RestoreInit /\ [][RestoreNext]_restoreVars

----------------------------------------------------------------------------
(* Properties.                                                               *)

Expected(node) == FlattenSeq([k \in DOMAIN BlobsOf(node) |-> BlobCells(BlobsOf(node)[k])])

CleanEnd == rs.at = "done" /\ rs.outcome = "ok" /\ ~rs.err /\ ~job.dry

PlacedFiles == {i \in Placed : IsFile(i.node)}

(* A file that could not be read when it was backed up.                      *)
NeverRead(node) == node.blobs = <<>>

(* restorer/mod.rs, pack_restorer.rs: a restore that ends without an error   *)
(* leaves every file either with exactly the contents of the snapshot or,    *)
(* where the plan was to keep it, with exactly the contents it had before:   *)
(* never a mixture, whatever order segments, batches and handles came in.    *)
(* What is kept under --strategy overwrite, be it a file or not, has the     *)
(* size and the time of the node, and --verify was not given.  A file whose  *)
(* contents were never read becomes zeros, or leaves what is there.          *)
Restored ==
    CleanEnd =>
      \A i \in PlacedFiles :
        /\ i.at \in DOMAIN disk.at
        /\ LET now == InodeAt(disk, i.at)
               old == InodeAt(rs.before, i.at)
           IN  \/ now.kind = "file" /\ now.cells = Expected(i.node)
               \/ /\ i.at \in DOMAIN rs.before.at
                  /\ now.kind = old.kind /\ now.cells = old.cells
                  /\ \/ job.strategy # "overwrite"
                     \/ ~job.verify /\ old.mtime = i.node.stamp.mtime
                        /\ Len(old.cells) = i.node.stamp.size
                     \/ NeverRead(i.node)
               \/ /\ NeverRead(i.node)
                  /\ now.kind = "file" /\ now.cells = Resized(<<>>, i.node.stamp.size)

(* A restore with --strategy overwrite that was killed at any point, and is  *)
(* run again until it ends without an error, leaves the contents of the      *)
(* snapshot: what the first run had begun is never taken for finished.       *)
RestoredAfterKill ==
    CleanEnd /\ job.disk = EmptyDisk /\ job.strategy = "overwrite" /\ "write" \notin job.faults =>
      \A i \in PlacedFiles :
        /\ i.at \in DOMAIN disk.at
        /\ ~NeverRead(i.node) => InodeAt(disk, i.at).cells = Expected(i.node)

(* detect_hardlink: in an empty target the files of one inode are one inode  *)
(* again, in whatever chunks they came, and no two others are.               *)
HardlinksRestored ==
    CleanEnd /\ job.disk = EmptyDisk /\ rs.round = 1 =>
      \A i, j \in PlacedFiles :
        disk.at[i.at] = disk.at[j.at] <=>
          \/ i.at = j.at
          \/ i.node.stamp.link # 0 /\ i.node.stamp.link = j.node.stamp.link
             /\ i.node.blobs = j.node.blobs

(* metadata.rs: at the end every item has the times and the mode of the      *)
(* snapshot, those below a directory that is now shut included, and nothing  *)
(* done later has touched a directory again.                                 *)
MetadataRestored ==
    CleanEnd /\ ~job.delete =>
      \A i \in Placed :
        /\ i.at \in DOMAIN disk.at
        /\ InodeAt(disk, i.at).mtime = i.node.stamp.mtime
        /\ InodeAt(disk, i.at).shut = i.node.stamp.shut

(* sync.rs: with --delete nothing is left in a directory of the snapshot     *)
(* that its tree does not name, and only such things and what is below them  *)
(* have gone.                                                                *)
Swept(t) == PathIsBelowIncludes(t.path) /\ (t.path # <<>> \/ job.noPreserveRoot)

DeletedExactly ==
    CleanEnd /\ job.delete /\ job.prefix = <<>> =>
      LET trees == {t \in Range(TreeStream(job.tree, <<>>, job.hidden, job.lost)) : t.ok}
          Named(t) == {t.tree[k].name : k \in DOMAIN t.tree}
          dead == {p \in DOMAIN rs.before.at :
                     \E t \in trees : Swept(t) /\ p # <<>> /\ Front(p) = t.path /\ Last(p) \notin Named(t)}
      IN  \A p \in DOMAIN rs.before.at :
            p \notin DOMAIN disk.at <=> \E q \in dead : IsPrefix(q, p)

(* restorer/: a restore that ends without an error, also one that follows    *)
(* runs that were killed, leaves the contents, hard links and metadata of    *)
(* the snapshot, and with --delete nothing more and nothing less.            *)
RestoreFaithful ==
    /\ Restored
    /\ RestoredAfterKill
    /\ HardlinksRestored
    /\ MetadataRestored
    /\ DeletedExactly
=============================================================================

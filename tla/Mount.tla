------------------------------- MODULE Mount --------------------------------
(***************************************************************************)
(* mapache mount (mount/fuse/, commands/cmd_mount.rs): snapshots or a      *)
(* bundle as a read-only file system.  Directories are loaded when they    *)
(* are first asked for, trees and blobs go through two LRU caches.  The    *)
(* session has one thread, so a request is one step; the command beside it *)
(* waits for its end or for an interrupt.                                  *)
(*                                                                         *)
(* A name is a natural, in the order of the map that holds the names.      *)
(***************************************************************************)
EXTENDS Integers, Sequences, SequencesExt, FiniteSets, FiniteSetsExt

CONSTANTS
    MountJobs,      \* [snaps, root, trees, len, rotten, mp, create, metadataOnly]
    TreeCapacity,   \* trees in the cache, 512 in the code
    BlobCapacity,   \* bytes in the cache, --cache-size-mib
    ReadSizes,      \* sizes and offsets of reads
    MaxStamp        \* bound of the model: uses of a cache

VARIABLE mt

ROOT == 1
Up == 0
Latest == 100
ByDate == 101
SnapshotIds == 102
Snapshots == 103
IdName(id) == id
DateName(s) == 10 * s.time + s.id

-----------------------------------------------------------------------------
(* Lru: entries by key with the stamp of their last use, keys by stamp.      *)
EmptyLru == [entries |-> <<>>, order |-> <<>>, next |-> 0]
Without2(f, k) == [x \in (DOMAIN f) \ {k} |-> f[x]]
Put(f, k, v) == [x \in DOMAIN f \union {k} |-> IF x = k THEN v ELSE f[x]]

RecordHit(l, k) ==
    [entries |-> Put(l.entries, k, l.next),
     order |-> Put(Without2(l.order, l.entries[k]), l.next, k), next |-> l.next + 1]

EvictOne(l) ==
    IF DOMAIN l.order = {} THEN [lru |-> l, evicted |-> {}]
    ELSE LET k == l.order[Min(DOMAIN l.order)]
         IN  [lru |-> [l EXCEPT !.order = Without2(@, Min(DOMAIN @)), !.entries = Without2(@, k)],
              evicted |-> {k} \intersect DOMAIN l.entries]

LruInsert(l, k) ==
    [entries |-> Put(l.entries, k, l.next),
     order |-> Put(IF k \in DOMAIN l.entries THEN Without2(l.order, l.entries[k]) ELSE l.order, l.next, k),
     next |-> l.next + 1]

(* TreeCache::load.                                                          *)
TreeLoad(l, t) ==
    IF t \in DOMAIN l.entries THEN RecordHit(l, t)
    ELSE LruInsert(IF Cardinality(DOMAIN l.entries) >= TreeCapacity THEN EvictOne(l).lru ELSE l, t)

(* BlobCache::load: entries are evicted until the blob fits or none is left. *)
RECURSIVE MakeRoom(_, _)
MakeRoom(b, n) ==
    IF b.size + n <= BlobCapacity THEN b
    ELSE LET e == EvictOne(b.lru)
         IN  IF e.evicted = {} THEN [b EXCEPT !.lru = e.lru]
             ELSE MakeRoom([lru |-> e.lru,
                            size |-> b.size - SumSet({mt.job.len[k] : k \in e.evicted})], n)

BlobLoad(b, id) ==
    IF id \in DOMAIN b.lru.entries THEN [b EXCEPT !.lru = RecordHit(@, id)]
    ELSE LET room == MakeRoom(b, mt.job.len[id])
         IN  [lru |-> LruInsert(room.lru, id), size |-> room.size + mt.job.len[id]]

-----------------------------------------------------------------------------
(* Stash: the nodes by inode, and the inodes by parent and name.             *)
Dir(children) == [kind |-> "dir", children |-> children]
LazyDir(t) == [kind |-> "lazy", tree |-> t]
SymLink(target) == [kind |-> "link", target |-> target]
FileNode(blobs) == [kind |-> "file", blobs |-> blobs]

NewStash == [counter |-> ROOT, nodes |-> Put(<<>>, ROOT, [parent |-> ROOT, of |-> Dir(<<>>)]), paths |-> <<>>]

InsertEntry(s, parent, name, of) ==
    LET ino == s.counter + 1
        nodes == Put(s.nodes, ino, [parent |-> parent, of |-> of])
    IN  [counter |-> ino, paths |-> Put(s.paths, <<parent, name>>, ino),
         nodes |-> IF nodes[parent].of.kind = "dir"
                   THEN [nodes EXCEPT ![parent].of.children = Put(@, name, ino)] ELSE nodes]

(* One entry for every snapshot.                                             *)
InsertAll(s, parent, snaps, Name(_), Of(_)) ==
    FoldLeft(LAMBDA acc, snap : InsertEntry(acc, parent, Name(snap), Of(snap)), s, snaps)

ByTime(snaps) == SortSeq(snaps, LAMBDA a, b : a.time < b.time)

(* Filesystem::init: the root of a bundle, or the tree of snapshots; one     *)
(* that cannot be loaded is left out.                                        *)
InitStash(job) ==
    IF job.root # <<>>
    THEN [NewStash EXCEPT !.nodes[ROOT].of = LazyDir(job.root[1])]
    ELSE LET snaps == ByTime(SelectSeq(job.snaps, LAMBDA s : s.ok))
             top == InsertEntry(NewStash, ROOT, Snapshots, Dir(<<>>))
             ids == InsertEntry(top, top.counter, SnapshotIds, Dir(<<>>))
             all == InsertAll(ids, ids.counter, snaps, LAMBDA s : IdName(s.id), LAMBDA s : LazyDir(s.tree))
             date == InsertEntry(all, top.counter, ByDate, Dir(<<>>))
             dates == InsertAll(date, date.counter, snaps, LAMBDA s : DateName(s),
                                LAMBDA s : SymLink(<<Up, SnapshotIds, IdName(s.id)>>))
             last == snaps[Len(snaps)]
             both == InsertEntry(dates, ids.counter, Latest, SymLink(<<IdName(last.id)>>))
         IN  IF snaps = <<>> THEN dates
             ELSE InsertEntry(both, date.counter, Latest, SymLink(<<DateName(last)>>))

(* A directory without a tree ID is skipped, and its inode with it.          *)
NodeOf(n) ==
    CASE n.type = "dir" -> LazyDir(n.tree[1])
      [] n.type = "link" -> SymLink(n.target)
      [] OTHER -> FileNode(n.blobs)

Children(nodes) == {i \in DOMAIN nodes : nodes[i].type = "dir" => nodes[i].tree # <<>>}

(* Mutant of UpgradeLazyDir: the directory stays lazy.                       *)
UpgradeLazyDirNot(s, ino, nodes) ==
    LET Of(i) == s.counter + i
        kids == Children(nodes)
        At(n) == CHOOSE i \in kids : n = Of(i)
    IN  [counter |-> s.counter + Len(nodes),
         paths |-> [k \in DOMAIN s.paths \union {<<ino, nodes[i].name>> : i \in kids} |->
                      IF \E i \in kids : k = <<ino, nodes[i].name>>
                      THEN Of(CHOOSE i \in kids : k = <<ino, nodes[i].name>>) ELSE s.paths[k]],
         nodes |-> [n \in DOMAIN s.nodes \union {Of(i) : i \in kids} |->
                      IF n \in DOMAIN s.nodes THEN s.nodes[n]
                      ELSE [parent |-> ino, of |-> NodeOf(nodes[At(n)])]]]

(* The children of a tree become nodes, and the directory holds them.        *)
UpgradeLazyDir(s, ino, nodes) ==
    LET Of(i) == s.counter + i
        kids == Children(nodes)
        ChildIno(name) == Of(CHOOSE i \in kids : nodes[i].name = name)
        names == {nodes[i].name : i \in kids}
        new == {Of(i) : i \in kids}
    IN  [counter |-> s.counter + Len(nodes),
         paths |-> [k \in DOMAIN s.paths \union {<<ino, name>> : name \in names} |->
                      IF k \in DOMAIN s.paths THEN s.paths[k] ELSE ChildIno(k[2])],
         nodes |-> [n \in DOMAIN s.nodes \union new |->
                      IF n \in new THEN [parent |-> ino, of |-> NodeOf(nodes[n - s.counter])]
                      ELSE IF n = ino THEN [s.nodes[n] EXCEPT !.of = Dir([name \in names |-> ChildIno(name)])]
                      ELSE s.nodes[n]]]

IsLazy(ino) == mt.stash.nodes[ino].of.kind = "lazy"
MountedTree(ino) == mt.stash.nodes[ino].of.tree

(* ensure_loaded: what it makes of the mount.                                *)
EnsureLoaded(ino) ==
    IF ~IsLazy(ino) THEN mt
    ELSE [mt EXCEPT !.trees = TreeLoad(@, MountedTree(ino)),
                    !.stash = UpgradeLazyDir(@, ino, mt.job.trees[MountedTree(ino)])]

(* A tree that is in the cache or can be read.                               *)
Loadable(ino) ==
    IsLazy(ino) => MountedTree(ino) \in DOMAIN mt.trees.entries \/ <<"tree", MountedTree(ino)>> \notin mt.job.rotten

-----------------------------------------------------------------------------
(* Requests.                                                                 *)
Serving == mt.mounted /\ mt.stage \in {"serve", "tidy"} /\ mt.trees.next < MaxStamp /\ mt.blobs.lru.next < MaxStamp
Inodes == DOMAIN mt.stash.nodes
InodeKind(ino) == mt.stash.nodes[ino].of.kind
NoAnswer == <<>>

Found(x, parent, name) == IF <<parent, name>> \in DOMAIN x.stash.paths THEN <<x.stash.paths[<<parent, name>>]>> ELSE <<>>

(* lookup: the name is looked for again once the directory is loaded; what   *)
(* cannot be loaded is not found.                                            *)
Lookup(parent, name) ==
    /\ Serving /\ InodeKind(parent) \in {"dir", "lazy"}
    /\ mt' = [(IF Found(mt, parent, name) = <<>> /\ Loadable(parent) THEN EnsureLoaded(parent) ELSE mt)
                 EXCEPT !.answer = NoAnswer]

(* Stash::read_dir from an offset.                                           *)
DirEntries(x, ino) ==
    LET of == x.stash.nodes[ino].of
        names == IF of.kind = "dir" THEN SetToSortSeq(DOMAIN of.children, <) ELSE <<>>
    IN  <<[name |-> -2, ino |-> ino], [name |-> -1, ino |-> x.stash.nodes[ino].parent]>>
        \o [i \in DOMAIN names |-> [name |-> names[i], ino |-> of.children[names[i]]]]
ReadDir(x, ino, offset) == SubSeq(DirEntries(x, ino), offset + 1, Len(DirEntries(x, ino)))

Opendir(ino) ==
    /\ Serving /\ InodeKind(ino) \in {"dir", "lazy"} /\ mt.dir = <<>>
    /\ mt' = [mt EXCEPT !.answer = NoAnswer, !.dir = <<[ino |-> ino, offset |-> 0, got |-> <<>>, over |-> FALSE]>>]

NextOffset(offset, i) == offset + i

(* readdir: as many entries as the reply has room for; the reader goes on at *)
(* the offset that came with the last one, and an empty reply is the end.    *)
Readdir(room) ==
    /\ Serving /\ mt.dir # <<>> /\ ~mt.dir[1].over
    /\ \E d \in {mt.dir[1]} :
         IF ~Loadable(d.ino) THEN mt' = [mt EXCEPT !.dir = <<>>]
         ELSE \E x \in {EnsureLoaded(d.ino)} : \E es \in {ReadDir(x, d.ino, d.offset)} :
                LET n == Min({room, Len(es)})
                IN  mt' = [x EXCEPT !.dir = <<[d EXCEPT !.got = @ \o SubSeq(es, 1, n), !.over = n = 0,
                                                        !.offset = IF n = 0 THEN @ ELSE NextOffset(@, n)]>>]

Closedir == Serving /\ mt.dir # <<>> /\ mt' = [mt EXCEPT !.dir = <<>>]

(* read: the bytes of the blobs from the offset on.                          *)
Byte(id, i) == <<id, i>>
RECURSIVE ReadBlobs(_, _)

(* Mutant of ReadBlob: a skipped blob does not move the position.            *)
ReadBlobStays(r, id) ==
    LET len == mt.job.len[id]
        start == Max({0, r.offset - r.pos})
        n == Min({len - start, r.left})
    IN  IF r.pos + len <= r.offset THEN [r EXCEPT !.cache = BlobLoad(@, id)]
        ELSE [r EXCEPT !.cache = BlobLoad(@, id), !.pos = @ + len, !.left = @ - n, !.offset = @ + n,
                       !.buf = @ \o [i \in 1 .. n |-> Byte(id, start + i)]]

ReadBlob(r, id) ==
    LET len == mt.job.len[id]
        start == Max({0, r.offset - r.pos})
        n == Min({len - start, r.left})
    IN  IF r.pos + len <= r.offset THEN [r EXCEPT !.cache = BlobLoad(@, id), !.pos = @ + len]
        ELSE [r EXCEPT !.cache = BlobLoad(@, id), !.pos = @ + len, !.left = @ - n, !.offset = @ + n,
                       !.buf = @ \o [i \in 1 .. n |-> Byte(id, start + i)]]

ReadBlobs(r, blobs) ==
    IF blobs = <<>> \/ r.left = 0 THEN r
    ELSE IF blobs[1] \notin DOMAIN r.cache.lru.entries /\ <<"data", blobs[1]>> \in mt.job.rotten
         THEN [r EXCEPT !.ok = FALSE]
         ELSE ReadBlobs(ReadBlob(r, blobs[1]), Tail(blobs))

(* open and read; open alone changes nothing.                                *)
Read(ino, offset, size) ==
    /\ Serving /\ InodeKind(ino) = "file" /\ ~mt.job.metadataOnly
    /\ \E r \in {ReadBlobs([cache |-> mt.blobs, buf |-> <<>>, pos |-> 0, left |-> size, offset |-> offset, ok |-> TRUE],
                           mt.stash.nodes[ino].of.blobs)} :
         mt' = [mt EXCEPT !.blobs = r.cache,
                          !.answer = <<[ino |-> ino, offset |-> offset, size |-> size, ok |-> r.ok, data |-> r.buf]>>]

-----------------------------------------------------------------------------
(* The command.                                                              *)
MountEnd(result) == [mt EXCEPT !.stage = "ended", !.result = result]

CheckMountpoint ==
    /\ mt.stage = "check"
    /\ \/ mt.mp = "dir" /\ mt' = [mt EXCEPT !.stage = "open"]
       \/ mt.mp = "absent" /\ mt.job.create /\ mt' = [mt EXCEPT !.stage = "open", !.mp = "dir", !.created = TRUE]
       \/ mt.mp = "absent" /\ mt' = MountEnd("error")
       \/ mt.mp = "file" /\ mt' = MountEnd("error")

(* MapacheFS::mount; mount2 may fail.                                        *)
Mounted == [mt EXCEPT !.stage = "serve", !.mounted = TRUE, !.stash = InitStash(mt.job)]

(* run: the lock and the index of the repository.                            *)
MountRepository ==
    /\ mt.stage = "open" /\ mt.job.root = <<>>
    /\ mt' = Mounted \/ mt' = MountEnd("error")

(* mount_bundle: the password and the bundle.  A mountpoint it made stays    *)
(* when it fails, as in MountRepository.                                     *)
MountBundle ==
    /\ mt.stage = "open" /\ mt.job.root # <<>>
    /\ mt' = Mounted \/ mt' = MountEnd("error")

MountSignal == mt.stage = "serve" /\ ~mt.signal /\ mt' = [mt EXCEPT !.signal = TRUE]
UserUnmounts == mt.stage = "serve" /\ mt.mounted /\ mt.dir = <<>> /\ mt' = [mt EXCEPT !.mounted = FALSE]

(* unmount: what is mounted after fusermount -u.                             *)
Unmount == mt.mounted /\ mt.dir # <<>>

(* run_mount_loop: the session is over, or fusermount -u, whose failure (a   *)
(* file system in use) is ignored.                                           *)
MountLoop ==
    /\ mt.stage = "serve"
    /\ \/ ~mt.mounted /\ mt' = [mt EXCEPT !.stage = "tidy"]
       \/ mt.signal /\ mt' = [mt EXCEPT !.stage = "tidy", !.mounted = Unmount]

(* remove_dir_all cannot remove what is mounted, read-only.                  *)
TidyMountpoint ==
    /\ mt.stage = "tidy"
    /\ mt' = [MountEnd("ok") EXCEPT !.mp = IF mt.created /\ ~mt.mounted THEN "absent" ELSE @]

MountRests == mt.stage = "ended" /\ UNCHANGED mt

MountNames == {n.name : n \in UNION {Range(mt.job.trees[t]) : t \in DOMAIN mt.job.trees}} \union {Latest, SnapshotIds}
MountNext ==
    \/ CheckMountpoint \/ MountRepository \/ MountBundle \/ MountSignal \/ UserUnmounts \/ MountLoop \/ TidyMountpoint
    \/ \E p \in Inodes, n \in MountNames : Lookup(p, n)
    \/ \E i \in Inodes : Opendir(i)
    \/ \E room \in {1, 3} : Readdir(room)
    \/ Closedir
    \/ \E i \in Inodes, o \in ReadSizes, n \in ReadSizes \ {0} : Read(i, o, n)
    \/ MountRests

MountStart(job) ==
    [job |-> job, stage |-> "check", mp |-> job.mp, created |-> FALSE, mounted |-> FALSE, signal |-> FALSE,
     stash |-> NewStash, trees |-> EmptyLru, blobs |-> [lru |-> EmptyLru, size |-> 0], dir |-> <<>>,
     answer |-> NoAnswer, result |-> "none"]
MountInit == \E job \in MountJobs : mt = MountStart(job)
MountSpec == MountInit /\ [][MountNext]_mt

-----------------------------------------------------------------------------
(* An inode that the kernel has been told keeps its place and its meaning    *)
(* for as long as the mount lasts (stash.rs, TTL): a lazy directory only     *)
(* becomes a loaded one, and no name moves to another inode.                 *)
InodesStable ==
    [][/\ mt.stage = "serve" =>
            /\ \A i \in Inodes :
                 /\ i \in DOMAIN mt'.stash.nodes /\ mt'.stash.nodes[i].parent = mt.stash.nodes[i].parent
                 /\ InodeKind(i) # "lazy" => mt'.stash.nodes[i] = mt.stash.nodes[i]
            /\ \A k \in DOMAIN mt.stash.paths : k \in DOMAIN mt'.stash.paths /\ mt'.stash.paths[k] = mt.stash.paths[k]]_mt

Follow(dir, target) ==
    FoldLeft(LAMBDA i, name : IF i = 0 THEN 0
                              ELSE IF name = Up THEN mt.stash.nodes[i].parent
                              ELSE IF Found(mt, i, name) = <<>> THEN 0 ELSE Found(mt, i, name)[1], dir, target)

(* The tree that a directory stands for, by the names that lead to it; none  *)
(* for the directories above the snapshots.                                  *)
RECURSIVE TreeOf(_)
TreeOf(i) ==
    LET p == mt.stash.nodes[i].parent
        name == (CHOOSE k \in DOMAIN mt.stash.paths : mt.stash.paths[k] = i)[2]
    IN  IF i = ROOT THEN mt.job.root
        ELSE IF mt.job.root = <<>> /\ p = Follow(ROOT, <<Snapshots, SnapshotIds>>)
             THEN <<(CHOOSE s \in Range(mt.job.snaps) : IdName(s.id) = name).tree>>
        ELSE IF TreeOf(p) = <<>> THEN <<>>
        ELSE (CHOOSE n \in Range(mt.job.trees[TreeOf(p)[1]]) : n.name = name).tree

(* What a loaded directory shows, by listing and by lookup, is what its tree *)
(* holds (fs.rs, ensure_loaded), whatever the order in which directories     *)
(* were loaded; a tree reached by two paths has two inodes.                  *)
DirsFaithful ==
    mt.mounted => \A i \in {j \in Inodes : InodeKind(j) = "dir"} :
      LET children == mt.stash.nodes[i].of.children
      IN  /\ \A name \in DOMAIN children : Found(mt, i, name) = <<children[name]>> /\ mt.stash.nodes[children[name]].parent = i
          /\ TreeOf(i) # <<>> =>
               LET kids == {n \in Range(mt.job.trees[TreeOf(i)[1]]) : n.type = "dir" => n.tree # <<>>}
               IN  /\ DOMAIN children = {n.name : n \in kids}
                   /\ \A n \in kids : \/ mt.stash.nodes[children[n.name]].of = NodeOf(n)
                                      \/ n.type = "dir" /\ InodeKind(children[n.name]) = "dir"

(* A directory read in several replies (readdir) shows every entry once, in  *)
(* order, even if it is loaded or others are in between.                     *)
ListingWhole ==
    mt.dir # <<>> =>
      LET d == mt.dir[1]
      IN  /\ IsPrefix(d.got, DirEntries(mt, d.ino)) \/ IsLazy(d.ino)
          /\ d.over => d.got = DirEntries(mt, d.ino)

(* A read returns the bytes of the file from the offset on, up to its end,   *)
(* or fails (fs.rs, read), whatever the caches hold.                         *)
ReadExact ==
    mt.answer # NoAnswer =>
      LET a == mt.answer[1]
          content == FlattenSeq([b \in DOMAIN mt.stash.nodes[a.ino].of.blobs |->
                                   LET id == mt.stash.nodes[a.ino].of.blobs[b]
                                   IN  [i \in 1 .. mt.job.len[id] |-> Byte(id, i)]])
      IN  a.ok => a.data = SubSeq(content, a.offset + 1, Min({Len(content), a.offset + a.size}))

(* The caches (lru.rs, cache.rs): each entry has one stamp and each stamp its *)
(* entry, so the oldest can always be evicted; the size is that of the       *)
(* entries, and exceeds the capacity only for one blob that alone does.      *)
LruSound(l) ==
    /\ \A k \in DOMAIN l.entries : l.entries[k] \in DOMAIN l.order /\ l.order[l.entries[k]] = k
    /\ Cardinality(DOMAIN l.order) = Cardinality(DOMAIN l.entries)
CachesSound ==
    /\ LruSound(mt.trees) /\ Cardinality(DOMAIN mt.trees.entries) <= TreeCapacity
    /\ LruSound(mt.blobs.lru)
    /\ mt.blobs.size = MapThenSumSet(LAMBDA k : mt.job.len[k], DOMAIN mt.blobs.lru.entries)
    /\ mt.blobs.size <= BlobCapacity \/ Cardinality(DOMAIN mt.blobs.lru.entries) = 1

(* Both "latest" links lead to the newest snapshot that could be loaded      *)
(* (fs.rs, init), and every link by date to the snapshot of its name.        *)
SnapLinks ==
    mt.mounted /\ mt.job.root = <<>> =>
      LET snaps == {s \in Range(mt.job.snaps) : s.ok}
          ids == Follow(ROOT, <<Snapshots, SnapshotIds>>)
          dates == Follow(ROOT, <<Snapshots, ByDate>>)
          Target(dir, name) == Follow(dir, mt.stash.nodes[Found(mt, dir, name)[1]].of.target)
      IN  /\ \A s \in snaps : /\ Target(dates, DateName(s)) = Follow(ids, <<IdName(s.id)>>)
                              /\ Follow(ids, <<IdName(s.id)>>) # 0
          /\ snaps # {} =>
               \E s \in snaps : /\ \A o \in snaps : o.time <= s.time
                                /\ Target(ids, Latest) = Follow(ids, <<IdName(s.id)>>)
                                /\ Target(dates, Latest) = Found(mt, dates, DateName(s))[1]

(* mount removes the mountpoint it made once the file system is gone, and    *)
(* never one that was there (cmd_mount.rs, created_mountpoint).              *)
MountTidy ==
    /\ mt.job.mp # "absent" => mt.mp = mt.job.mp
    /\ mt.result = "ok" /\ mt.created /\ ~mt.mounted => mt.mp = "absent"

(* fs.rs, stash.rs, cmd_mount.rs: whatever was loaded, evicted or listed     *)
(* before, the mount shows the trees and bytes of the snapshots, whole and   *)
(* in order; its caches keep their bounds, and it leaves the mountpoint as   *)
(* it was.                                                                   *)
MountFaithful ==
    /\ DirsFaithful
    /\ ListingWhole
    /\ ReadExact
    /\ CachesSound
    /\ SnapLinks
    /\ MountTidy
=============================================================================

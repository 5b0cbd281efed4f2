---------------------------- MODULE MCComponents ----------------------------
(***************************************************************************)
(* The components around the repository's content and inside it, one of    *)
(* which runs while the others rest in a first state of theirs: they share *)
(* no state, so the behaviours of each are all there is to check of it.    *)
(***************************************************************************)
EXTENDS FileStore, Limiter, Connections, Listing, Keys, PackFormat, MasterIndex, Chunker,
        Sync, Retention, Command, Verify, Filters, Mount, Dashboard, Restorer, MCTasks

-----------------------------------------------------------------------------
(* FileStore.  Transfers of one file by each backend, with the faults it can *)
(* meet.                                                                     *)

AllTransfers ==
    {[backend |-> b, op |-> op, was |-> w, size |-> n,
      faults |-> IF b = "local" THEN {"error", "kill", "power"} ELSE {"error", "lost", "kill"}] :
       b \in {"local", "sftp", "s3"}, op \in {"write", "rename", "remove"}, w \in BOOLEAN,
       n \in {2, 3, 4}}

-----------------------------------------------------------------------------
(* Limiter.  Two transfers of no, small and large payments.                  *)

AllLoads ==
    {[c \in Payers |-> [size |-> s[c], dry |-> d]] : s \in {f \in [Payers -> {0, 2, 5}] : f["p"] <= f["q"]}, d \in BOOLEAN}

-----------------------------------------------------------------------------
(* Connections.  Hosts that are known, unknown or known with another key.    *)

KnownHosts ==
    {{}, {[host |-> "name", key |-> 1]}, {[host |-> "name:port", key |-> 1]},
     {[host |-> "name", key |-> 2], [host |-> "other", key |-> 1]}}
AllOpenings ==
    {[url |-> "sftp", privatekey |-> p, dry |-> d, limits |-> TRUE, port22 |-> ~p, key |-> 1,
      known |-> k, faults |-> f] :
       p \in BOOLEAN, d \in BOOLEAN, k \in KnownHosts, f \in {{}, {"network", "rotation"}}}
    \union
    {[url |-> u, privatekey |-> FALSE, dry |-> d, limits |-> l, port22 |-> TRUE, key |-> 1,
      known |-> {}, faults |-> {}] : u \in {"local", "s3"}, d \in BOOLEAN, l \in BOOLEAN}

-----------------------------------------------------------------------------
(* Listing.  A small tree of files listed in each of the four ways.          *)

SomeFiles == {<<1>>, <<2, 1>>, <<2, 3>>, <<2, 2, 1>>, <<3, 1>>}
AllListings ==
    {[how |-> h, path |-> p, files |-> f, dirs |-> {<<2>>, <<2, 2>>, <<3>>},
      universe |-> SomeFiles, faults |-> (f = SomeFiles)] :
       h \in {"crawl", "descend", "page", "page_all"}, p \in {<<>>, <<2>>},
       f \in {SomeFiles, SomeFiles \ {<<2, 1>>}, {<<2, 2, 1>>}}}

-----------------------------------------------------------------------------
(* Keys.  Two commands on the keys of two users, and on a repository that is *)
(* made.                                                                     *)

KeyOf(u, p) == [user |-> u, pass |-> p, master |-> 1]
Op(op, u, p) == [op |-> op, user |-> u, pass |-> p, newUser |-> "new", newPass |-> 3,
                 toFile |-> FALSE, id |-> 2]
Made == (1 :> KeyOf("ann", 1)) @@ (2 :> KeyOf("bob", 2))
AllKeyJobs ==
    {[keys |-> Made, manifest |-> 1, kills |-> 1, ops |-> (1 :> a) @@ (2 :> b)] :
       a \in {Op("open", "ann", 1), Op("add", "ann", 1), Op("change", "ann", 1),
              Op("open", "ann", 2), [Op("add", "ann", 1) EXCEPT !.toFile = TRUE]},
       b \in {Op("change", "bob", 2), Op("change", "ann", 1), Op("delete", "bob", 2),
              Op("export", "bob", 2), Op("init", "ann", 1)}}
    \union
    {[keys |-> <<>>, manifest |-> 0, kills |-> 1, ops |-> (1 :> Op("init", "ann", 1)) @@ (2 :> b)] :
       b \in {Op("open", "ann", 1), Op("init", "ann", 1), Op("delete", "bob", 2)}}

-----------------------------------------------------------------------------
(* PackFormat.  Blobs that fill packs exactly, nearly, and beyond the width  *)
(* of an offset.                                                             *)

PackedBlob(id, length, raw) == [id |-> id, length |-> length, raw |-> raw]
AllPackJobs ==
    {<<PackedBlob(1, n, 2)>> : n \in {1, 2, 7, 8}}
    \union {<<PackedBlob(1, 1, 1), PackedBlob(2, 2, 3), PackedBlob(3, 1, 1)>>,
            <<PackedBlob(1, 3, 3), PackedBlob(2, 2, 9)>>,
            <<PackedBlob(1, 6, 3), PackedBlob(2, 6, 7), PackedBlob(3, 1, 0)>>,
            <<PackedBlob(1, 7, 3), PackedBlob(2, 2, 7), PackedBlob(3, 2, 1)>>}

-----------------------------------------------------------------------------
(* MasterIndex.  Packs for the index in memory. Blob 17 is in two packs,     *)
(* blob 1 is both data and a tree, and the halves of 1, 17 and 33 make Bloom *)
(* filters that answer yes for what they were not told.                      *)

Descriptor(id, type, offset) == [id |-> id, type |-> type, offset |-> offset]
TwoPacks ==
    <<<<Descriptor(17, "data", 0), Descriptor(1, "data", 4)>>,
      <<Descriptor(33, "data", 0), Descriptor(17, "data", 7), Descriptor(1, "tree", 8),
        Descriptor(0, "padding", 9)>>>>

-----------------------------------------------------------------------------
(* Chunker.  Files of two different bytes for the chunker, with even and odd *)
(* sizes.                                                                    *)

FileSizes == {0, 2, 3, 8}
Sources == UNION {[1 .. n -> 0 .. 1] : n \in FileSizes}
AllChunkJobs ==
    {[source |-> s, min |-> 3, normal |-> 5, max |-> 7, level |-> 1] : s \in Sources}
    \cup {[source |-> s, min |-> 2, normal |-> 4, max |-> 6, level |-> 1] : s \in Sources}
TwoGears == 0 :> 8 @@ 1 :> 11

-----------------------------------------------------------------------------
(* Sync.  Mirrors of a repository with one or two backups, into an empty,    *)
(* partial, foreign or older destination.                                    *)

SyncTop == (<<1>> :> DirSize) @@ (<<2>> :> DirSize) @@ (<<5>> :> DirSize) @@ (<<6>> :> DirSize)
       @@ (<<2, 1>> :> 1) @@ (<<4>> :> 1)

(* A repository with the backups in a set of numbers.                        *)
RepoWith(backups) ==
    LET files == UNION {{<<1, k>>, <<5, k>>, <<6, k>>} : k \in backups}
    IN  SyncTop @@ [p \in files |-> 1]

Needs == [p \in {<<6, 1>>, <<6, 2>>} |-> {<<1, p[2]>>, <<5, p[2]>>}]

SyncJob(src, dst, delete, nolock, changes, faults) ==
    [src |-> src, dst |-> dst, delete |-> delete, nolock |-> nolock, changes |-> changes,
     needs |-> Needs, faults |-> faults]

AllSyncJobs ==
    {SyncJob(RepoWith({1}), <<>>, FALSE, FALSE, <<>>, {"kill", "storage"}),
     SyncJob(RepoWith({1}), <<>>, FALSE, FALSE, <<<<5, 2>>, <<1, 2>>, <<6, 2>>>>, {}),
     SyncJob(RepoWith({1}), <<>>, FALSE, TRUE, <<<<6, 1>>, <<1, 1>>, <<5, 1>>>>, {}),
     SyncJob(RepoWith({2}), RepoWith({1}), TRUE, FALSE, <<>>, {"kill", "interrupt", "storage"})}
    \union UNION {
      {SyncJob(RepoWith({1}), (<<5>> :> 3), delete, FALSE, <<>>, {}),
       SyncJob(RepoWith({1}), (<<3>> :> DirSize) @@ (<<3, 1>> :> 1) @@ (<<5>> :> DirSize) @@ (<<5, 1>> :> 2),
               delete, FALSE, <<>>, {"interrupt"}),
       SyncJob(RepoWith({1}), (<<1>> :> DirSize) @@ (<<1, 9>> :> DirSize) @@ (<<1, 9, 1>> :> 1),
               delete, FALSE, <<>>, {})} : delete \in BOOLEAN}

-----------------------------------------------------------------------------
(* Retention.                                                                *)

RetSnap(k, time, host, tags) == [id |-> k, time |-> time, host |-> host, tags |-> tags]

ByAge(times) == {s \in times : \A k \in 1 .. (Len(s) - 1) : s[k] <= s[k + 1]}

(* The first moment of an hour, or later in it, with HourTicks = 4.          *)
HourAt(hour, tick) == 4 * hour + tick
ForgetNow == HourAt(58, 3)

(* Three snapshots at any times around a new year, which is hour 48.         *)
Times ==
    ByAge([1 .. 3 -> {HourAt(20, 0), HourAt(35, 1), HourAt(45, 0), HourAt(47, 3), HourAt(48, 0), HourAt(50, 2), HourAt(54, 1), HourAt(57, 0), HourAt(58, 0)}])
Plain(times) == [k \in DOMAIN times |-> RetSnap(k, times[k], "h", {})]

ForgetJob(snaps, rules, min, now) ==
    [snaps |-> snaps, rules |-> rules, ids |-> {}, hosts |-> {}, tags |-> {}, min |-> min, now |-> now,
     clock |-> [at |-> 0, by |-> 0]]

PeriodJobs ==
    {ForgetJob(Plain(times), {[kind |-> kind, n |-> n]}, min, ForgetNow) :
       times \in Times, kind \in Periods, n \in {1, 2}, min \in {<<>>, <<2>>}}

(* Two snapshots and a clock that was put forward or back between them, or   *)
(* at midnight, or a moment before now.                                      *)
ClockJobs ==
    {[ForgetJob(Plain(times), {[kind |-> kind, n |-> n]}, <<>>, ForgetNow) EXCEPT !.clock = [at |-> HourAt(hour, 0), by |-> by]] :
       times \in ByAge([1 .. 2 -> {HourAt(44, 3), HourAt(48, 0), HourAt(51, 2), HourAt(53, 1), HourAt(54, 1), HourAt(55, 3), HourAt(56, 2), HourAt(57, 2)}]),
       kind \in Periods, n \in 1 .. 3, hour \in {48, 55, 57}, by \in {-1, 1}}

Mixed ==
    <<RetSnap(1, HourAt(5, 0), "h", {"x"}), RetSnap(2, HourAt(47, 3), "i", {}), RetSnap(3, HourAt(47, 3), "none", {"x"}),
      RetSnap(4, HourAt(54, 1), "h", {"y"})>>

MixedJobs ==
    {[ForgetJob(Mixed, rules, min, ForgetNow) EXCEPT !.hosts = hosts, !.tags = tags] :
       rules \in {{}, {[kind |-> "last", n |-> 1]}, {[kind |-> "tags", tags |-> {"x"}], [kind |-> "within", n |-> 12]},
                  {[kind |-> "daily", n |-> 1], [kind |-> "yearly", n |-> 3]},
                  {[kind |-> "daily", n |-> ParseRetentionNumber("all")], [kind |-> "last", n |-> 1]}},
       min \in {<<>>, <<3>>, <<5>>}, hosts \in {{}, {"h"}, {"h", "i"}}, tags \in {{}, {"x"}, {"x", "untagged"}}}
    \union {[ForgetJob(Mixed, {}, <<>>, ForgetNow) EXCEPT !.ids = ids, !.hosts = {"h"}] : ids \in {{1}, {2, 4}}}

AllForgetJobs == PeriodJobs \union ClockJobs \union MixedJobs

-----------------------------------------------------------------------------
(* Command.  The five commands with hooks, and the ways their options come   *)
(* together.                                                                 *)

Hook(cli, toml, timeout) == [cli |-> cli, toml |-> toml, timeout |-> timeout]
NoHook == Hook(<<>>, <<>>, FALSE)
NoConfig == [ok |-> TRUE, global |-> <<>>, args |-> <<>>]
ArgsOf(name) ==
    CASE name = "snapshot" -> [paths |-> <<"src">>, exclude |-> <<1>>, skip |-> <<TRUE>>]
      [] name = "restore" -> [target |-> <<"dir">>, exclude |-> <<>>, delete |-> <<TRUE>>]
      [] name = "forget" -> [forget |-> <<>>, keep |-> <<2>>]
      [] OTHER -> <<>>
CommandJob(name) ==
    [name |-> name, cli |-> [global |-> [repo |-> <<"cli">>, noLock |-> <<>>], args |-> ArgsOf(name)],
     config |-> NoConfig, env |-> <<>>, dry |-> FALSE, stdin |-> FALSE, gc |-> TRUE, credentials |-> "prompt",
     hooks |-> [pre |-> Hook(<<>>, <<"p">>, TRUE), post |-> Hook(<<>>, <<"q">>, FALSE)]]

AllCommandJobs ==
    {CommandJob(name) : name \in {"snapshot", "restore", "forget", "clean", "verify"}}
    \union {[CommandJob("forget") EXCEPT !.dry = TRUE, !.gc = FALSE],
            [CommandJob("clean") EXCEPT !.dry = TRUE, !.cli.global.noLock = <<TRUE>>],
            [CommandJob("clean") EXCEPT !.config.ok = FALSE],
            [CommandJob("verify") EXCEPT !.cli.global.repo = <<>>],
            [CommandJob("verify") EXCEPT !.cli.global.repo = <<>>, !.env = <<"env">>, !.credentials = "given",
                                         !.hooks.pre = Hook(<<"">>, <<"p">>, TRUE), !.hooks.post = Hook(<<"q">>, <<>>, TRUE)],
            [CommandJob("snapshot") EXCEPT !.stdin = TRUE],
            [CommandJob("snapshot") EXCEPT !.stdin = TRUE, !.credentials = "given"],
            [CommandJob("snapshot") EXCEPT !.cli.args.paths = <<>>,
                !.config.args = <<[paths |-> <<"a", "b">>, exclude |-> <<2>>, skip |-> <<>>]>>, !.hooks.pre = NoHook],
            [CommandJob("snapshot") EXCEPT !.cli.args.paths = <<"missing">>],
            [CommandJob("restore") EXCEPT !.cli.args.target = <<>>],
            [CommandJob("restore") EXCEPT !.cli.args.target = <<>>, !.hooks.post = NoHook,
                !.config.args = <<[target |-> <<"dir2">>, exclude |-> <<3>>, delete |-> <<>>]>>],
            [CommandJob("restore") EXCEPT !.cli.args.delete = <<>>, !.hooks.pre = Hook(<<"p">>, <<"p2">>, TRUE)]}

-----------------------------------------------------------------------------
(* Verify.  Packs 1 and 2 hold file data in blobs of several lengths, pack 3 *)
(* trees; damage is a cell of a pack.                                        *)

Offsets(lens) == [k \in DOMAIN lens |-> FoldSeq(LAMBDA a, b : a + b, 0, SubSeq(lens, 1, k - 1))]
PackOf(ids, lens, damaged) ==
    [blobs |-> [k \in DOMAIN ids |-> [id |-> ids[k], offset |-> Offsets(lens)[k], length |-> lens[k]]],
     cells |-> [c \in 1 .. FoldSeq(LAMBDA a, b : a + b, 1, lens) |-> IF c \in damaged THEN -1 ELSE c]]

VerifyJob(lens, d1, d2, d3) ==
    [packs |-> (1 :> PackOf(<<1, 2, 3>>, lens, d1)) @@ (2 :> PackOf(<<4>>, <<2>>, d2))
               @@ (3 :> PackOf(<<10, 11, 12>>, <<1, 1, 1>>, d3)),
     index |-> [b \in {1, 2, 3, 4, 10, 11, 12} |-> IF b < 4 THEN 1 ELSE IF b = 4 THEN 2 ELSE 3],
     snaps |-> (1 :> 10) @@ (2 :> 12), refs |-> (10 :> {11, 1}) @@ (11 :> {2, 3}) @@ (12 :> {11, 4}),
     extra |-> 13, read |-> TRUE, failEarly |-> FALSE, sample |-> 0, parallel |-> 2, faults |-> {}]

Streams == {VerifyJob(lens, d, {}, {}) : lens \in {<<2, 6, 1>>, <<1, 3, 4>>, <<3, 1, 5>>, <<1, 1, 9>>}, d \in {{}} \union {{c} : c \in 1 .. 9}}
Damaged ==
    {[VerifyJob(<<2, 6, 1>>, d1, d2, d3) EXCEPT !.failEarly = early, !.read = read, !.sample = n] :
       d1 \in {{}, {4}}, d2 \in {{}, {1}, {3}}, d3 \in {{}, {2}}, early \in BOOLEAN, read \in BOOLEAN, n \in {0, 1}}
(* Blobs left out of the index, packs and snapshots lost.                    *)
BrokenParts ==
    LET whole == VerifyJob(<<1, 1, 1>>, {}, {}, {})
    IN  {[whole EXCEPT !.index = Restrict(@, (DOMAIN @) \ {b}), !.failEarly = early, !.read = FALSE] :
           b \in {2, 4, 10, 11}, early \in BOOLEAN}
        \union {[whole EXCEPT !.packs = Restrict(@, (DOMAIN @) \ {p}), !.failEarly = early, !.sample = 1] :
                  p \in {1, 2, 3}, early \in BOOLEAN}
        \union {[whole EXCEPT !.packs = <<>>, !.sample = n] : n \in {0, 1}}
        \union {[whole EXCEPT !.snaps[1] = 0, !.failEarly = early] : early \in BOOLEAN}
Disturbed ==
    LET whole == [VerifyJob(<<1, 1, 1>>, {}, {}, {}) EXCEPT !.refs = @ @@ (13 :> {11})]
    IN  {[whole EXCEPT !.read = read, !.faults = {f}] : read \in BOOLEAN, f \in {"backup", "interrupt"}}
AllVerifyJobs == Streams \union Damaged \union BrokenParts \union Disturbed

-----------------------------------------------------------------------------
(* Filters.  Patterns over the names 1, 2 and 12, up to three components     *)
(* deep.                                                                     *)

Names == {<<1>>, <<2>>, <<1, 2>>}
AllFilterPaths == UNION {[1 .. n -> Names] : n \in 0 .. 3}
Filter(includes, excludes) == [includes |-> includes, excludes |-> excludes]
AllFilterJobs ==
    {Filter(<<>>, <<>>),
     Filter(<<{}>>, <<>>),
     Filter(<<{<<<<1>>, <<2>>, <<1>>>>, <<<<1>>, <<1, 2>>>>, <<<<2>>>>}>>, <<{<<<<2>>, <<1>>>>}>>),
     Filter(<<{<<DoubleStar, <<2>>>>, <<<<1>>>>}>>, <<{<<<<1>>, <<Star, 2>>>>}>>),
     Filter(<<>>, <<{<<<<1>>, <<Star>>, <<2>>>>, <<<<2>>>>, <<<<1>>, <<1>>>>}>>),
     Filter(<<>>, <<{<<DoubleStar, <<1>>, <<Quest>>>>}>>),
     Filter(<<>>, <<{<<DoubleStar, <<1>>, DoubleStar, <<2>>>>}>>),
     Filter(<<>>, <<{<<DoubleStar, <<Star, 2>>, DoubleStar>>, <<<<1, Star>>, <<Quest, Quest>>>>}>>),
     Filter(<<>>, <<{<<DoubleStar>>}>>),
     Filter(<<>>, <<{<<<<Star, 1, Star, 2>>>>, <<<<2>>, DoubleStar, <<1>>>>}>>)}

-----------------------------------------------------------------------------
(* Mount.  Trees shared by directories, files of several blobs, and          *)
(* snapshots.                                                                *)

MFile(name, blobs) == [name |-> name, type |-> "file", blobs |-> blobs]
MDir(name, tree) == [name |-> name, type |-> "dir", tree |-> tree]
MLink(name) == [name |-> name, type |-> "link", target |-> <<1>>]
TwoTrees == [t \in {1, 2} |-> IF t = 1 THEN <<MDir(1, <<2>>), MDir(2, <<>>), MDir(3, <<2>>), MLink(4)>>
                                       ELSE <<MFile(5, <<>>)>>]
FlatTree == [t \in {1} |-> <<MFile(1, <<1, 2, 1, 4>>), MFile(2, <<3, 2>>)>>]
MountJob == [snaps |-> <<>>, root |-> <<1>>, trees |-> TwoTrees, len |-> <<2, 1, 2, 4>>, rotten |-> {},
             mp |-> "dir", create |-> FALSE, metadataOnly |-> TRUE]
MountSnap(id, time, tree, ok) == [id |-> id, time |-> time, tree |-> tree, ok |-> ok]
MSnaps == <<MountSnap(2, 3, 1, TRUE), MountSnap(1, 1, 2, TRUE), MountSnap(3, 4, 1, FALSE)>>

FlatJob == [MountJob EXCEPT !.trees = FlatTree, !.metadataOnly = FALSE]
SmallMount == [t \in {1, 2} |-> <<MFile(5, <<>>)>>]
AllMountJobs ==
    {MountJob,
     FlatJob,
     [MountJob EXCEPT !.mp = "absent", !.create = TRUE],
     [MountJob EXCEPT !.mp = "absent"],
     [MountJob EXCEPT !.mp = "file"],
     [MountJob EXCEPT !.rotten = {<<"tree", 2>>}],
     [FlatJob EXCEPT !.rotten = {<<"data", 4>>}],
     [MountJob EXCEPT !.root = <<>>, !.snaps = MSnaps, !.trees = SmallMount]}

-----------------------------------------------------------------------------
(* Dashboard.  The dashboard begins with one snapshot.                       *)

OneStart == {[snaps |-> <<TRUE>>, config |-> <<1>>]}

-----------------------------------------------------------------------------
(* Restorer.                                                                 *)

Loc(id, pack, offset, length, raw) ==
    [id |-> id, pack |-> pack, offset |-> offset, length |-> length, raw |-> raw]

(* Two packs; blob 4 lies too far away to be read with the others.           *)
Index ==
    (1 :> Loc(1, "p", 0, 2, 1)) @@ (2 :> Loc(2, "p", 2, 1, 2)) @@
    (3 :> Loc(3, "q", 0, 1, 1)) @@ (4 :> Loc(4, "p", 9, 1, 1))

RawSum(blobs) == FoldLeft(LAMBDA n, b : n + Index[b].raw, 0, blobs)

TreeFile(name, mtime, link, blobs) ==
    [Node(name, "file", [mtime |-> mtime, size |-> RawSum(blobs), link |-> link, shut |-> FALSE])
       EXCEPT !.blobs = <<blobs>>]
TreeDir(name, shut, tree) ==
    [Node(name, "dir", [mtime |-> 3, size |-> 0, link |-> 0, shut |-> shut]) EXCEPT !.tree = <<tree>>]
Symlink(name) == Node(name, "link", [mtime |-> 3, size |-> 0, link |-> 0, shut |-> FALSE])

RestoreJob(tree, localdisk, strategy, faults) ==
    [tree |-> tree, disk |-> localdisk, strategy |-> strategy, faults |-> faults,
     hidden |-> {}, lost |-> {}, index |-> Index, prefix |-> <<>>, verify |-> FALSE,
     quit |-> FALSE, batch |-> 10, dry |-> FALSE, delete |-> FALSE,
     noPreserveRoot |-> FALSE, include |-> {}, rounds |-> 1]

LocalFile(cells, mtime) == Inode("file", cells, mtime, FALSE)
LocalDir == Inode("dir", <<>>, 1, FALSE)

Old(n) == [k \in 1 .. n |-> <<-2, k>>]
DiskCells(b) == [k \in 1 .. Index[b].raw |-> <<b, k>>]

DiskWith(path, cells, mtime) == AddInode(EmptyDisk, path, LocalFile(cells, mtime))

(* Blobs of one file in three segments, blobs that are needed twice, an      *)
(* empty file.                                                               *)
SharedBlobs == <<TreeFile(1, 2, 0, <<1, 2, 4, 1>>), TreeFile(2, 3, 0, <<3, 1>>), TreeFile(4, 3, 0, <<>>)>>

(* Files of one inode; the last has changed while it was backed up.          *)
Linked ==
    <<TreeFile(1, 2, 7, <<2>>), TreeDir(2, TRUE, <<TreeFile(1, 2, 7, <<2>>), TreeDir(3, TRUE, <<Symlink(1)>>)>>),
      TreeFile(3, 3, 7, <<1>>), TreeFile(4, 3, 8, <<1>>)>>

(* A file that could not be read when it was backed up.                      *)
UnreadFile(name, mtime, size) ==
    Node(name, "file", [mtime |-> mtime, size |-> size, link |-> 0, shut |-> FALSE])

SmallRestore == <<TreeFile(1, 2, 0, <<1, 2>>), TreeFile(2, 2, 0, <<2>>)>>

FreshJobs ==
    {RestoreJob(SharedBlobs, EmptyDisk, "overwrite", {})}
    \cup {[RestoreJob(Linked, EmptyDisk, "overwrite", f) EXCEPT !.batch = b, !.quit = q] :
            f \in {{}, {"link"}}, b \in {1, 2, 10}, q \in BOOLEAN}

(* A local file 1: of other contents and another size; changed in its second *)
(* half only; a look-alike; a directory or a symlink, of the size and time   *)
(* of the file or not.                                                       *)
Locals ==
    {DiskWith(<<1>>, Old(n), m) : n \in {2, 3}, m \in {1, 2, 5}}
    \cup {DiskWith(<<1>>, DiskCells(1) \o Old(2), m) : m \in {2, 5}}
    \cup {DiskWith(<<1>>, DiskCells(1) \o DiskCells(2), 5)}
    \cup {AddInode(EmptyDisk, <<1>>, Inode(k, Old(n), m, FALSE)) :
            k \in {"dir", "link"}, n \in {0, 3}, m \in {1, 2}}

LocalJobs ==
    {[RestoreJob(SmallRestore, d, s, {}) EXCEPT !.verify = v, !.quit = q] :
       d \in Locals, s \in {"overwrite", "skip", "newer", "fail"}, v \in BOOLEAN, q \in BOOLEAN}

FaultJobs ==
    {[RestoreJob(SmallRestore, d, "overwrite", {f}) EXCEPT !.quit = q, !.rounds = 2] :
       d \in {EmptyDisk, DiskWith(<<1>>, DiskCells(1) \o Old(2), 5)},
       f \in {"read", "write", "stop", "crash"}, q \in BOOLEAN}
    \cup {RestoreJob(Linked, EmptyDisk, "overwrite", {"stop"})}

(* A blob that the index does not know; a tree that is lost; filters; a dry  *)
(* run; a file where a directory should be.                                  *)
OddJobs ==
    {[RestoreJob(SmallRestore, d, "overwrite", {}) EXCEPT !.index = [b \in {1} |-> Index[b]], !.quit = q] :
       q \in BOOLEAN, d \in {EmptyDisk, DiskWith(<<1>>, Old(3), 5)}}
    \cup {[RestoreJob(Linked, EmptyDisk, "overwrite", {}) EXCEPT !.lost = l, !.hidden = h, !.prefix = p,
                                                        !.dry = dry] :
            l \in {{}, {<<2>>}}, h \in {{}, {<<3>>}}, p \in {<<>>, <<2>>}, dry \in BOOLEAN}
    \cup {RestoreJob(Linked, DiskWith(<<2>>, Old(1), 5), "overwrite", {})}
    \cup {[RestoreJob(<<UnreadFile(1, 2, 3)>>, d, s, {}) EXCEPT !.verify = v] :
            d \in Locals \cup {EmptyDisk}, s \in {"overwrite", "newer"}, v \in BOOLEAN}

Crowd ==
    LET d1 == AddInode(AddInode(EmptyDisk, <<2>>, LocalDir), <<2, 3>>, LocalDir)
        d2 == AddInode(AddInode(d1, <<2, 3, 4>>, LocalFile(Old(1), 5)), <<2, 6>>, LocalDir)
    IN  AddInode(AddInode(d2, <<2, 6, 1>>, LocalFile(Old(1), 5)), <<9>>, LocalFile(Old(1), 5))

NestedTrees == <<TreeFile(1, 2, 0, <<1>>), TreeDir(2, FALSE, <<TreeFile(1, 2, 0, <<2>>), TreeDir(3, FALSE, <<>>)>>)>>

DeleteJobs ==
    {[RestoreJob(NestedTrees, d, "overwrite", f) EXCEPT !.delete = TRUE, !.noPreserveRoot = n, !.include = i,
                                            !.dry = dry] :
       d \in {Crowd, DiskWith(<<2>>, Old(1), 5)}, f \in {{}, {"stop"}}, n \in BOOLEAN,
       i \in {{}, {<<2, 3>>}}, dry \in BOOLEAN}

AllRestores == FreshJobs \cup LocalJobs \cup FaultJobs \cup OddJobs \cup DeleteJobs

-----------------------------------------------------------------------------

VARIABLE focus       \* the component that runs

componentVars ==
    <<focus, vars, xf, limiterVars, cn, ls, kr, sy, rt, cd, db, pk, mi, ck, fl, vf, mt, restoreVars,
      bn, cs, ts, br>>

Components ==
    {"transfer", "limiter", "connections", "listing", "keys", "sync", "retention", "command",
     "dashboard", "pack", "index", "chunker", "filter", "verify", "mount", "restore",
     "bundle", "cache", "task", "browse", "saver"}
Runs(c) == focus = c
One(S) == CHOOSE x \in S : TRUE

(* A job for each component that does not run.                               *)
Resting ==
    [bundle |-> One(BundleJobs), cache |-> One(CacheJobs), file |-> One(Cacheable),
     chunk |-> One(ChunkJobs), command |-> One(CommandJobs), dash |-> One(DashStarts),
     filter |-> One(FilterJobs), forget |-> One(ForgetJobs), restore |-> One(Jobs),
     keys |-> One(KeyJobs), listing |-> One(Listings), load |-> One(Loads),
     mount |-> One(MountJobs), opening |-> One(Openings), pack |-> One(PackJobs),
     screen |-> One(Screens), sync |-> One(SyncJobs), transfer |-> One(Transfers),
     verify |-> One(VerifyJobs)]

ComponentsInit ==
    /\ focus \in Components
    /\ saved \in IF Runs("saver") THEN SUBSET Blob ELSE {{}}
    /\ Init
    /\ IF Runs("limiter") THEN LimiterInit ELSE LimiterStart(Resting.load)
    /\ IF Runs("connections") THEN ConnectionsInit ELSE cn = ConnectionsStart(Resting.opening)
    /\ IF Runs("listing") THEN ListingInit ELSE ls = ListingStart(Resting.listing)
    /\ IF Runs("keys") THEN KeysInit ELSE kr = KeysStart(Resting.keys)
    /\ IF Runs("sync") THEN SyncInit ELSE sy = SyncStart(Resting.sync)
    /\ IF Runs("command") THEN CommandInit ELSE cd = CommandStart(Resting.command)
    /\ IF Runs("dashboard") THEN DashInit ELSE db = DashStart(Resting.dash)
    /\ IF Runs("pack") THEN PackInit ELSE pk = PackStart(Resting.pack, "data")
    /\ IndexInit
    /\ IF Runs("filter") THEN FilterInit ELSE fl = FilterStart(Expanded(Resting.filter))
    /\ IF Runs("mount") THEN MountInit ELSE mt = MountStart(Resting.mount)
    /\ IF Runs("bundle") THEN BundleInit ELSE bn = BundleStart(Resting.bundle)
    /\ IF Runs("task") THEN TaskInit ELSE ts = TaskStart(Resting.screen)
    /\ IF Runs("browse") THEN BrowseInit ELSE br = NewExplorer
    /\ IF Runs("transfer") THEN TransferInit ELSE xf = TransferStart(Resting.transfer)
    /\ IF Runs("cache") THEN CacheInit ELSE cs = CacheStart(Resting.cache, Resting.file)
    /\ IF Runs("verify") THEN VerifyInit ELSE vf = VerifyStart(Resting.verify)
    /\ IF Runs("restore") THEN RestoreInit ELSE RestoreStart(Resting.restore)
    /\ IF Runs("chunker") THEN ChunkInit ELSE ck = ChunkStart(Resting.chunk)
    /\ IF Runs("retention") THEN RetentionInit ELSE rt = RetentionStart(Resting.forget)

(* What a step of component c leaves as it is.                               *)
Rest(c) ==
    /\ UNCHANGED focus
    /\ IF c = "transfer" THEN TRUE ELSE UNCHANGED xf
    /\ IF c = "limiter" THEN TRUE ELSE UNCHANGED limiterVars
    /\ IF c = "connections" THEN TRUE ELSE UNCHANGED cn
    /\ IF c = "listing" THEN TRUE ELSE UNCHANGED ls
    /\ IF c = "keys" THEN TRUE ELSE UNCHANGED kr
    /\ IF c = "sync" THEN TRUE ELSE UNCHANGED sy
    /\ IF c = "retention" THEN TRUE ELSE UNCHANGED rt
    /\ IF c = "command" THEN TRUE ELSE UNCHANGED cd
    /\ IF c = "dashboard" THEN TRUE ELSE UNCHANGED db
    /\ IF c = "pack" THEN TRUE ELSE UNCHANGED pk
    /\ IF c = "index" THEN TRUE ELSE UNCHANGED mi
    /\ IF c = "chunker" THEN TRUE ELSE UNCHANGED ck
    /\ IF c = "filter" THEN TRUE ELSE UNCHANGED fl
    /\ IF c = "verify" THEN TRUE ELSE UNCHANGED vf
    /\ IF c = "mount" THEN TRUE ELSE UNCHANGED mt
    /\ IF c = "restore" THEN TRUE ELSE UNCHANGED restoreVars
    /\ IF c = "bundle" THEN TRUE ELSE UNCHANGED bn
    /\ IF c = "cache" THEN TRUE ELSE UNCHANGED cs
    /\ IF c = "task" THEN TRUE ELSE UNCHANGED ts
    /\ IF c = "browse" THEN TRUE ELSE UNCHANGED br
    /\ IF c = "saver" THEN TRUE ELSE UNCHANGED vars

TransferRuns == Runs("transfer") /\ Rest("transfer") /\ TransferNext
LimiterRuns == Runs("limiter") /\ Rest("limiter") /\ LimiterNext
ConnectionsRuns == Runs("connections") /\ Rest("connections") /\ ConnectionsNext
ListingRuns == Runs("listing") /\ Rest("listing") /\ ListingNext
KeysRuns == Runs("keys") /\ Rest("keys") /\ KeysNext
SyncRuns == Runs("sync") /\ Rest("sync") /\ SyncNext
RetentionRuns == Runs("retention") /\ Rest("retention") /\ RetentionNext
CommandRuns == Runs("command") /\ Rest("command") /\ CommandNext
DashRuns == Runs("dashboard") /\ Rest("dashboard") /\ DashNext
PackRuns == Runs("pack") /\ Rest("pack") /\ PackNext
IndexRuns == Runs("index") /\ Rest("index") /\ IndexNext
ChunkRuns == Runs("chunker") /\ Rest("chunker") /\ ChunkNext
FilterRuns == Runs("filter") /\ Rest("filter") /\ FilterNext
VerifyRuns == Runs("verify") /\ Rest("verify") /\ VerifyNext
MountRuns == Runs("mount") /\ Rest("mount") /\ MountNext
RestoreRuns == Runs("restore") /\ Rest("restore") /\ RestoreNext
BundleRuns == Runs("bundle") /\ Rest("bundle") /\ BundleNext
CacheRuns == Runs("cache") /\ Rest("cache") /\ CacheNext
TaskRuns == Runs("task") /\ Rest("task") /\ TaskNext
BrowseRuns == Runs("browse") /\ Rest("browse") /\ BrowseNext
SaverRuns == Runs("saver") /\ Rest("saver") /\ Next

ComponentsNext ==
    \/ TransferRuns \/ LimiterRuns \/ ConnectionsRuns \/ ListingRuns \/ KeysRuns \/ SyncRuns
    \/ RetentionRuns \/ CommandRuns \/ DashRuns \/ PackRuns \/ IndexRuns \/ ChunkRuns
    \/ FilterRuns \/ VerifyRuns \/ MountRuns \/ RestoreRuns
    \/ BundleRuns \/ CacheRuns \/ TaskRuns \/ BrowseRuns \/ SaverRuns

(* What tells states apart: resting components are always in the same state. *)
Running ==
    <<focus,
      CASE Runs("transfer") -> xf [] Runs("limiter") -> limiterVars [] Runs("connections") -> cn
        [] Runs("listing") -> ls [] Runs("keys") -> kr [] Runs("sync") -> sy [] Runs("retention") -> rt
        [] Runs("command") -> cd [] Runs("dashboard") -> db [] Runs("pack") -> pk [] Runs("index") -> mi
        [] Runs("chunker") -> ck [] Runs("filter") -> fl [] Runs("verify") -> vf [] Runs("mount") -> mt
        [] Runs("restore") -> restoreVars [] Runs("bundle") -> bn [] Runs("cache") -> cs
        [] Runs("task") -> ts [] Runs("browse") -> br [] Runs("saver") -> vars>>

ComponentsSpec == ComponentsInit /\ [][ComponentsNext]_componentVars

(* The terminal user interface: after any keys, and whenever the tasks       *)
(* answer, no screen shows, counts or acts on anything but what it says: the *)
(* dashboard and the forget screen, the screens with a task, and the diff    *)
(* screen and the explorer.                                                  *)
ScreensTrue == DashboardTrue /\ TasksTold /\ BrowsersTrue
=============================================================================

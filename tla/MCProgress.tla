----------------------------- MODULE MCProgress -----------------------------
(***************************************************************************)
(* The components of which something must happen in the end: the pipeline  *)
(* of a backup, the pack saver, bundles, the cache and the screens with a  *)
(* task.  One of them runs while the others rest in a first state of       *)
(* theirs: they share no state, so the behaviours of each are all there is *)
(* to check of it.                                                         *)
(***************************************************************************)
EXTENDS Archiver, MCTasks

CONSTANTS t1, t2

R == <<RootDir>>
P(a) == <<RootDir, a>>
PP(a, b) == <<RootDir, a, b>>

FS(kind, closed, gone, hidden) ==
    [kind |-> kind,
     stamp |-> [p \in DOMAIN kind |-> 1],
     data |-> [p \in DOMAIN kind |-> 1],
     closed |-> closed, gone |-> gone, hidden |-> hidden]

Dirs(dirs, files) ==
    [p \in dirs \cup files |-> IF p \in dirs THEN "dir" ELSE "file"]

World(fs, sources, prev, lost, unreadable, large) ==
    [fs |-> fs, sources |-> sources, prev |-> prev, lost |-> lost,
     unreadable |-> unreadable, large |-> large, stdin |-> FALSE]

WorldFile(name, stamp) == [Node(name, "file", stamp) EXCEPT !.blobs = <<1>>]
WorldDir(name, tree) == [Node(name, "dir", 1) EXCEPT !.tree = <<tree>>]

(* A first backup of one directory: small files, large ones, a file that     *)
(* cannot be read and an excluded one.                                       *)
First ==
    World(FS(Dirs({R, P(1)}, {PP(1, 1), PP(1, 2), PP(1, 3), PP(1, 4), PP(1, 5)}),
             {}, {}, {PP(1, 5)}),
          {P(1)}, <<>>, {}, {PP(1, 2)}, {PP(1, 3), PP(1, 4)})

(* A later backup of two sources in one directory and one outside: a file    *)
(* has changed, one has not, one was deleted, one is new.  The directory     *)
(* above the sources has a node of its own.                                  *)
Later(gone) ==
    LET fs == FS(Dirs({R, P(1), PP(1, 2)}, {PP(1, 1), <<RootDir, 1, 2, 1>>, P(2)}),
                 {}, gone, {})
    IN  World([fs EXCEPT !.stamp[PP(1, 1)] = 2, !.data[PP(1, 1)] = 2],
              {PP(1, 1), PP(1, 2), P(2)},
              <<WorldDir(1, <<WorldFile(1, 1), WorldDir(2, <<WorldFile(1, 1), WorldFile(3, 1)>>)>>)>>,
              {}, {}, {P(2)})

(* A directory that cannot be listed, one of whose entries is gone, and one  *)
(* that is empty.                                                            *)
Unlistable(closed, gone) ==
    World(FS(Dirs({R, P(1), PP(1, 1), PP(1, 3)}, {<<RootDir, 1, 1, 1>>, PP(1, 2)}), closed, gone, {}),
          {P(1)}, <<>>, {}, {}, {})

(* The parent's tree cannot be loaded below its root.                        *)
LostParent ==
    World(FS(Dirs({R, P(1)}, {PP(1, 1), PP(1, 2)}), {}, {}, {}),
          {P(1)}, <<WorldDir(1, <<WorldFile(1, 1)>>)>>, {P(1)}, {}, {PP(1, 1)})

FromStdin(unreadable) ==
    [World(FS(Dirs({R}, {Stdin}), {}, {}, {}), {}, <<>>, {}, unreadable, {Stdin})
       EXCEPT !.stdin = TRUE]

(* Every source excluded: nothing to back up.                                *)
Nothing == World(FS(Dirs({R}, {P(1)}), {}, {}, {}), {}, <<>>, {}, {}, {})

(* Unchanged sources that fill the channel, then two sources in a directory  *)
(* of their own.                                                             *)
Crowded ==
    World(FS(Dirs({R, P(4)}, {P(1), P(2), P(3), PP(4, 1)}), {}, {}, {}),
          {P(1), P(2), P(3), PP(4, 1)}, <<WorldFile(1, 1), WorldFile(2, 1), WorldFile(3, 1)>>,
          {}, {}, {PP(4, 1)})

(* The parent could not read a file that has not changed since.              *)
UnreadParent ==
    World(FS(Dirs({R, P(1)}, {PP(1, 1), PP(1, 2)}), {}, {}, {}),
          {P(1)}, <<WorldDir(1, <<Node(1, "file", 1), WorldFile(2, 1)>>)>>, {}, {}, {})

(* A directory and an entry of it, which is the only one or the first of     *)
(* three, the last of which is large.                                        *)
Nested(entries) ==
    World(FS(Dirs({R, P(1)}, {PP(1, e) : e \in 1 .. entries}), {}, {}, {}),
          {P(1), PP(1, 1)}, <<>>, {}, {}, {PP(1, 3)})

Usual == {First, UnreadParent, Nested(1), Nested(3), Later({}), Later({P(1)}), Unlistable({PP(1, 1)}, {}),
          Unlistable({}, {<<RootDir, 1, 1, 1>>}), LostParent,
          FromStdin({}), FromStdin({Stdin}), Nothing, Crowded}

-----------------------------------------------------------------------------
VARIABLE focus       \* the component that runs

progressVars == <<focus, archiveVars, vars, bn, cs, ts, br>>

Components == {"archive", "saver", "bundle", "cache", "task", "browse"}
Runs(c) == focus = c
One(S) == CHOOSE x \in S : TRUE

ProgressInit ==
    /\ focus \in Components
    /\ world \in IF Runs("archive") THEN Worlds ELSE {One(Worlds)}
    /\ ArchiveInit
    /\ saved \in IF Runs("saver") THEN SUBSET Blob ELSE {{}}
    /\ Init
    /\ IF Runs("bundle") THEN BundleInit ELSE bn = BundleStart(One(BundleJobs))
    /\ IF Runs("cache") THEN CacheInit ELSE cs = CacheStart(One(CacheJobs), One(Cacheable))
    /\ IF Runs("task") THEN TaskInit ELSE ts = TaskStart(One(Screens))
    /\ IF Runs("browse") THEN BrowseInit ELSE br = NewExplorer

(* Component c runs, and what its step leaves as it is.                      *)
Alone(c) ==
    /\ Runs(c)
    /\ UNCHANGED focus
    /\ IF c = "archive" THEN TRUE ELSE UNCHANGED archiveVars
    /\ IF c = "saver" THEN TRUE ELSE UNCHANGED vars
    /\ IF c = "bundle" THEN TRUE ELSE UNCHANGED bn
    /\ IF c = "cache" THEN TRUE ELSE UNCHANGED cs
    /\ IF c = "task" THEN TRUE ELSE UNCHANGED ts
    /\ IF c = "browse" THEN TRUE ELSE UNCHANGED br

ProgressNext ==
    \/ Alone("archive") /\ ArchiveNext
    \/ Alone("saver") /\ Next
    \/ Alone("bundle") /\ BundleNext
    \/ Alone("cache") /\ CacheNext
    \/ Alone("task") /\ TaskNext
    \/ Alone("browse") /\ BrowseNext

(* The fairness of each component's own specification.  Only one of them     *)
(* runs, so their actions can share a condition.                             *)
Fair1 == \/ Alone("archive") /\ (Produce \/ ProducerEnds)
         \/ Alone("saver") /\ CallStep(c1)
         \/ Alone("bundle") /\ BundleNext
         \/ Alone("cache") /\ CacheNext
         \/ Alone("task") /\ LoopStep
         \/ Alone("browse") /\ DiffTask
Fair2 == \/ Alone("archive") /\ CoordinatorStep
         \/ Alone("saver") /\ MainStep
         \/ Alone("task") /\ TaskStep
         \/ Alone("browse") /\ RenderDiff
Fair3 == \/ Alone("archive") /\ ForwarderStep
         \/ Alone("saver") /\ WorkStep(w1)
Fair4 == \/ Alone("archive") /\ (Serialize \/ SerializerEnds)
         \/ Alone("saver") /\ FlushStep
Fair5 == \/ Alone("archive") /\ Finish
         \/ Alone("saver") /\ WorkStep(w2)
Fair6(th) == Alone("archive") /\ PoolStep(th)

ProgressFairness ==
    /\ WF_progressVars(Fair1) /\ WF_progressVars(Fair2) /\ WF_progressVars(Fair3)
    /\ WF_progressVars(Fair4) /\ WF_progressVars(Fair5)
    /\ \A th \in Thread : WF_progressVars(Fair6(th))

ProgressSpec == ProgressInit /\ [][ProgressNext]_progressVars /\ ProgressFairness

(* Archiver::snapshot: whatever the interleaving of its tasks and threads, a *)
(* backup that no fatal error stops comes to its end (ArchiveEnded, when     *)
(* it is what runs).                                                         *)
BackupEnds == []<>(Runs("archive") => ArchiveEnded)

(* Whatever else waits comes to its end as well, when its component runs:    *)
(* the flush of the pack saver returns, whatever fails (packer.rs, repo.rs); *)
(* a bundle is made and extracted when its directories fit the channel       *)
(* (cmd_bundle.rs); tasks that wait for another's download go on, unless     *)
(* they began to listen too late (cache.rs, cache_file); a screen with a     *)
(* task comes to its summary, and the diff screen to its differences or an   *)
(* error.                                                                    *)
TasksEnd ==
    []<>(/\ FlushReturned
         /\ Runs("bundle") => ExtractEnded
         /\ Runs("cache") => WaitersDone
         /\ ProgressOver
         /\ DiffAnswered)
=============================================================================

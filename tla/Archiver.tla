------------------------------ MODULE Archiver ------------------------------
(***************************************************************************)
(* The snapshot pipeline (archiver/mod.rs, chunker_pool.rs, processor.rs): *)
(*                                                                         *)
(*   producer -> coordinator -> chunker threads -> forwarder -> serializer *)
(*                    `---------------------------------------^            *)
(*                                                                         *)
(* The stages are tasks and threads joined by bounded channels.  The       *)
(* coordinator runs up to Slots items at once, but within one task: an     *)
(* item gives way to others only where it awaits room in the channel of    *)
(* processed items.  Its sends to the threads block the whole task.  Room  *)
(* in the channel of processed items is given to those who wait for it in  *)
(* the order in which they came (line), and is theirs before they use it.  *)
(*                                                                         *)
(* world is what is backed up: the file system and sources (NodeStreams),  *)
(* the parent's tree, the files that cannot be read, the large files, and  *)
(* whether the data comes from standard input.  Of two sources one may lie *)
(* in the other: the command only drops sources that are equal.            *)
(***************************************************************************)
EXTENDS TreeSerializer

CONSTANTS
    Worlds,        \* what may be backed up
    Thread,        \* the chunker threads
    Slots,         \* num_readers * 2: items the coordinator has under way
    BatchSize,     \* BATCH_SIZE: small files handed to a thread together
    DiffCap,       \* capacities of the channels: diffs, chunkJobs and results of
    JobCap,        \*   the threads, and processed items
    ResultCap,
    ProcessedCap,
    Failures,      \* subset of {"load", "save", "stop"}: what may go wrong
    MaxUnsaved     \* bound: no blob fails to be saved after so many warnings

VARIABLES world, status, producer, diffs, coord, batch, chunkJobs, threads, results,
          warned, forwarder, processed, line, serializer, outcome

archiveVars == <<world, status, producer, diffs, coord, batch, chunkJobs, threads, results,
          warned, forwarder, processed, line, serializer, outcome>>

----------------------------------------------------------------------------
(* PipelineStatus: only the first fatal error is kept.                       *)

IsFailed == status.fatal \/ status.shutdown

SignalFatal(cause) ==
    status' = IF status.fatal THEN status
              ELSE [status EXCEPT !.fatal = TRUE, !.first = cause]

(* The operator presses Ctrl-C; the cleanup handler sets the flag.           *)
Shutdown ==
    /\ "stop" \in Failures /\ outcome = "running" /\ ~status.shutdown
    /\ status' = [status EXCEPT !.shutdown = TRUE]
    /\ UNCHANGED <<world, warned, producer, diffs, coord, batch, chunkJobs, threads, results,
                   forwarder, processed, line, serializer, outcome>>

----------------------------------------------------------------------------
(* Processing of one item (processor.rs).                                    *)

Stdin == <<RootDir, 9>>

(* What reading a file and saving its blobs may give: its contents, or       *)
(* nothing if it cannot be opened or read, or if a blob cannot be saved.  A  *)
(* long file looks at the interrupt between its chunks.                      *)
Contents(path) ==
    LET stops == path \in world.unreadable \/ (path \in world.large /\ status.shutdown)
    IN  (IF stops THEN {} ELSE {<<world.fs.data[path]>>})
        \cup (IF stops \/ ("save" \in Failures /\ Cardinality(warned) < MaxUnsaved)
               THEN {<<>>} ELSE {})

(* Mutant of ProcessItem: takes the parent's contents for a file that has    *)
(* changed.                                                                  *)
ProcessItemStale(d) ==
    LET next == d.next[1]
        taken == IF d.prev # <<>> THEN {d.prev[1].node.blobs} ELSE Contents(d.path)
    IN  IF IsFile(next.node) THEN {[next EXCEPT !.node.blobs = b] : b \in taken} ELSE {next}

(* process_item_sync, for an item that has a node: the items it may make of  *)
(* it.  A file that has changed and cannot be read or saved is kept without  *)
(* contents and a warning; one that has not changed keeps what the parent    *)
(* has of it, which may be nothing.                                          *)
ProcessItem(d) ==
    LET next == d.next[1]
        taken == IF d.diff = "unchanged" THEN {d.prev[1].node.blobs} ELSE Contents(d.path)
    IN  IF IsFile(next.node) THEN {[next EXCEPT !.node.blobs = b] : b \in taken} ELSE {next}

(* process_stdin_sync: here a failure is an error.                           *)
ProcessStdin(d) ==
    {IF b = <<>> THEN [ok |-> FALSE, item |-> ErrItem(d.path)]
     ELSE [ok |-> TRUE, item |-> [d.next[1] EXCEPT !.node.blobs = b]] : b \in Contents(d.path)}

----------------------------------------------------------------------------
(* Stage 1, the producer of differences.                                     *)

Stream(w) ==
    IF w.stdin THEN <<Added(Item(Stdin, Node(9, "file", 0), 0))>>
    ELSE DiffStream(SavedStream(w.prev, CalculateLcp(w.sources), {}, w.lost),
                    FsStream(w.fs, w.sources))

SnapshotRoot(w) == IF w.stdin THEN <<RootDir>> ELSE CalculateLcp(w.sources)
SourcePaths(w) == IF w.stdin THEN {Stdin} ELSE w.sources

Produce ==
    /\ ~producer.done /\ producer.todo # <<>>
    /\ LET d == Head(producer.todo)
           next == [producer EXCEPT !.todo = Tail(@)]
       IN  \/ IsFailed /\ ~world.stdin
              /\ producer' = [next EXCEPT !.done = TRUE]
              /\ UNCHANGED <<diffs, status>>
           \/ ~IsFailed /\ d.diff = "error"
              /\ SignalFatal("load")
              /\ producer' = [next EXCEPT !.done = TRUE]
              /\ UNCHANGED diffs
           \/ (world.stdin \/ ~IsFailed) /\ d.diff # "error" /\ Len(diffs) < DiffCap
              /\ diffs' = Append(diffs, d)
              /\ producer' = next
              /\ UNCHANGED status
    /\ UNCHANGED <<world, warned, coord, batch, chunkJobs, threads, results, forwarder, processed, line,
                   serializer, outcome>>

ProducerEnds ==
    /\ ~producer.done /\ producer.todo = <<>>
    /\ producer' = [producer EXCEPT !.done = TRUE]
    /\ UNCHANGED <<world, warned, status, diffs, coord, batch, chunkJobs, threads, results, forwarder,
                   processed, line, serializer, outcome>>

----------------------------------------------------------------------------
(* Stage 2a, the coordinator.                                                *)

NeedsChunking(d) == d.diff \in {"new", "changed"} /\ IsFile(d.next[1].node)
IsSmall(d) == d.path \notin world.large

(* The channel of processed items: each place is taken by an item, by an     *)
(* item of the coordinator that has been given it, or by the forwarder.      *)
Granted == Len(coord.granted) + (IF forwarder.at = "granted" THEN 1 ELSE 0)

Free == line = <<>> /\ Len(processed) + Granted < ProcessedCap
Me == Broken    \* the forwarder's place in the line
UnderWay == Len(coord.granted) + Len(SelectSeq(line, LAMBDA i : i # Me))

(* Routing of the next item.  out are messages for the threads, which the    *)
(* task sends before anything else.  An item that is processed inline is     *)
(* sent on at once or goes to the end of the line.  What the walk could not  *)
(* read is left out with a warning.                                          *)
Coordinate ==
    /\ coord.at = "run" /\ coord.out = <<>> /\ diffs # <<>>
    /\ UnderWay < Slots
    /\ diffs' = Tail(diffs)
    /\ LET d == Head(diffs)
           full == Append(batch, d)
       IN  \/ /\ IsFailed \/ d.diff = "deleted"
              /\ UNCHANGED <<coord, batch, processed, line, warned>>
           \/ /\ ~IsFailed /\ d.next # <<>> /\ ~d.next[1].ok
              /\ warned' = warned \cup {d.path}
              /\ UNCHANGED <<coord, batch, processed, line>>
           \/ /\ ~IsFailed /\ d.next # <<>> /\ d.next[1].ok /\ ~NeedsChunking(d)
              /\ \E item \in ProcessItem(d) :
                   IF Free
                   THEN processed' = Append(processed, item) /\ UNCHANGED line
                   ELSE line' = Append(line, item) /\ UNCHANGED processed
              /\ UNCHANGED <<coord, batch, warned>>
           \/ /\ ~IsFailed /\ d.next # <<>> /\ d.next[1].ok /\ NeedsChunking(d) /\ IsSmall(d)
              /\ IF Len(full) >= BatchSize
                 THEN batch' = <<>> /\ coord' = [coord EXCEPT !.out = <<full>>]
                 ELSE batch' = full /\ UNCHANGED coord
              /\ UNCHANGED <<processed, line, warned>>
           \/ /\ ~IsFailed /\ d.next # <<>> /\ d.next[1].ok /\ NeedsChunking(d) /\ ~IsSmall(d)
              /\ batch' = <<>>
              /\ coord' = [coord EXCEPT !.out =
                             (IF batch = <<>> THEN <<>> ELSE <<batch>>) \o <<<<d>>>>]
              /\ UNCHANGED <<processed, line, warned>>
    /\ UNCHANGED <<world, status, producer, chunkJobs, threads, results, forwarder, serializer,
                   outcome>>

PoolGone == \A t \in Thread : threads[t].at = "gone"

(* A send to the threads: it blocks while the channel is full and fails when *)
(* every thread has ended, which is an error unless there was one before.    *)
(* The last flush ignores it.                                                *)
CoordinatorSends ==
    /\ coord.out # <<>>
    /\ \/ /\ ~PoolGone /\ Len(chunkJobs) < JobCap
          /\ chunkJobs' = Append(chunkJobs, Head(coord.out))
          /\ coord' = [coord EXCEPT !.out = Tail(@)]
          /\ UNCHANGED status
       \/ /\ PoolGone /\ UNCHANGED chunkJobs
          /\ IF coord.at = "flush" \/ IsFailed
             THEN coord' = [coord EXCEPT !.out = Tail(@)] /\ UNCHANGED status
             ELSE coord' = [coord EXCEPT !.out = <<>>] /\ SignalFatal("channel")
    /\ UNCHANGED <<world, warned, producer, diffs, batch, threads, results, forwarder, processed, line,
                   serializer, outcome>>

(* An item that was processed inline uses the place it was given.            *)
Deliver ==
    /\ coord.out = <<>>
    /\ \E i \in DOMAIN coord.granted :
         /\ processed' = Append(processed, coord.granted[i])
         /\ coord' = [coord EXCEPT !.granted = RemoveAt(@, i)]
    /\ UNCHANGED <<world, warned, status, producer, diffs, batch, chunkJobs, threads, results, forwarder,
                   line, serializer, outcome>>

CoordinatorFlush ==
    /\ coord.at = "run" /\ coord.out = <<>> /\ UnderWay = 0
    /\ producer.done /\ diffs = <<>>
    /\ batch' = <<>>
    /\ coord' = [coord EXCEPT !.at = "flush",
                              !.out = IF batch = <<>> THEN <<>> ELSE <<batch>>]
    /\ UNCHANGED <<world, warned, status, producer, diffs, chunkJobs, threads, results, forwarder,
                   processed, line, serializer, outcome>>

CoordinatorEnds ==
    /\ coord.at = "flush" /\ coord.out = <<>>
    /\ coord' = [coord EXCEPT !.at = "done"]
    /\ UNCHANGED <<world, warned, status, producer, diffs, batch, chunkJobs, threads, results, forwarder,
                   processed, line, serializer, outcome>>

----------------------------------------------------------------------------
(* The threads of the pool (ChunkerPool::new).                               *)

TakeJob(t) ==
    /\ threads[t].at = "idle" /\ chunkJobs # <<>>
    /\ chunkJobs' = Tail(chunkJobs)
    /\ threads' = [threads EXCEPT ![t] = [at |-> "busy", todo |-> Head(chunkJobs)]]
    /\ UNCHANGED <<world, warned, status, producer, diffs, coord, batch, results, forwarder,
                   processed, line, serializer, outcome>>

(* A job is processed and its result sent; the thread ends when nobody       *)
(* receives results any more.                                                *)
DoJob(t) ==
    /\ threads[t].at = "busy"
    /\ LET d == Head(threads[t].todo)
           rest == Tail(threads[t].todo)
       IN  \/ /\ forwarder.at # "done" /\ Len(results) < ResultCap
              /\ \E r \in IF world.stdin THEN ProcessStdin(d)
                         ELSE {[ok |-> TRUE, item |-> i] : i \in ProcessItem(d)} :
                   /\ results' = Append(results, r)
                   /\ warned' = IF r.item.node.blobs = <<>> THEN warned \cup {d.path}
                                ELSE warned
              /\ threads' = [threads EXCEPT ![t] = [at |-> IF rest = <<>> THEN "idle" ELSE "busy",
                                              todo |-> rest]]
           \/ /\ forwarder.at = "done"
              /\ threads' = [threads EXCEPT ![t] = [at |-> "gone", todo |-> <<>>]]
              /\ UNCHANGED <<results, warned>>
    /\ UNCHANGED <<world, status, producer, diffs, coord, batch, chunkJobs, forwarder,
                   processed, line, serializer, outcome>>

ThreadEnds(t) ==
    /\ threads[t].at = "idle" /\ chunkJobs = <<>> /\ coord.at = "done"
    /\ threads' = [threads EXCEPT ![t].at = "gone"]
    /\ UNCHANGED <<world, warned, status, producer, diffs, coord, batch, chunkJobs, results, forwarder,
                   processed, line, serializer, outcome>>

----------------------------------------------------------------------------
(* Stage 2b, the forwarder of results.                                       *)

ForwarderReceives ==
    /\ forwarder.at = "receive" /\ results # <<>>
    /\ results' = Tail(results)
    /\ LET r == Head(results)
       IN  \/ /\ IsFailed
              /\ forwarder' = [forwarder EXCEPT !.at = "done"]
              /\ UNCHANGED <<status, processed, line>>
           \/ /\ ~IsFailed /\ r.ok
              /\ IF Free
                 THEN processed' = Append(processed, r.item) /\ UNCHANGED <<forwarder, line>>
                 ELSE /\ forwarder' = [at |-> "wait", item |-> r.item]
                      /\ line' = Append(line, Me) /\ UNCHANGED processed
              /\ UNCHANGED status
           \/ /\ ~IsFailed /\ ~r.ok
              /\ SignalFatal("stdin")
              /\ forwarder' = [forwarder EXCEPT !.at = "done"]
              /\ UNCHANGED <<processed, line>>
    /\ UNCHANGED <<world, warned, producer, diffs, coord, batch, chunkJobs, threads, serializer, outcome>>

ForwarderSends ==
    /\ forwarder.at = "granted"
    /\ processed' = Append(processed, forwarder.item)
    /\ forwarder' = [at |-> "receive", item |-> Broken]
    /\ UNCHANGED <<world, warned, status, producer, diffs, coord, batch, chunkJobs, threads, results,
                   line, serializer, outcome>>

(* Mutant of ForwarderEnds: a sender of results is kept outside the threads, *)
(* so the channel is never disconnected.                                     *)
ForwarderEndsNever == FALSE /\ UNCHANGED archiveVars

ForwarderEnds ==
    /\ forwarder.at = "receive" /\ results = <<>> /\ PoolGone
    /\ forwarder' = [forwarder EXCEPT !.at = "done"]
    /\ UNCHANGED <<world, warned, status, producer, diffs, coord, batch, chunkJobs, threads, results,
                   processed, line, serializer, outcome>>

----------------------------------------------------------------------------
(* Stage 3, the serializer's loop.  It leaves the loop at the first failure  *)
(* but keeps the channel.  Taking an item off the channel gives its place to *)
(* the first in the line.  A tree may fail to be written.                    *)

Unsaved == {{}} \cup (IF "save" \in Failures THEN {{p} : p \in DOMAIN world.fs.kind} ELSE {})

Serialize ==
    /\ serializer.at = "receive" /\ processed # <<>>
    /\ processed' = Tail(processed)
    /\ IF line = <<>> THEN UNCHANGED <<line, coord, forwarder>>
       ELSE /\ line' = Tail(line)
            /\ IF line[1] = Me
               THEN forwarder' = [forwarder EXCEPT !.at = "granted"] /\ UNCHANGED coord
               ELSE /\ coord' = [coord EXCEPT !.granted = Append(@, line[1])]
                    /\ UNCHANGED forwarder
    /\ \/ /\ IsFailed
          /\ serializer' = [serializer EXCEPT !.at = "join"]
          /\ UNCHANGED status
       \/ /\ ~IsFailed
          /\ \E unsaved \in Unsaved :
               LET ts == HandleProcessedItem(serializer.ts, Head(processed), unsaved)
               IN  /\ unsaved = {} \/ ts.err
                   /\ serializer' = [at |-> IF ts.err THEN "join" ELSE "receive", ts |-> ts]
                   /\ IF ts.err
                      THEN SignalFatal(IF unsaved = {} THEN "integrity" ELSE "save")
                      ELSE UNCHANGED status
    /\ UNCHANGED <<world, warned, producer, diffs, batch, chunkJobs, threads, results, outcome>>

SerializerEnds ==
    /\ serializer.at = "receive" /\ processed = <<>>
    /\ coord.at = "done" /\ forwarder.at = "done"
    /\ serializer' = [serializer EXCEPT !.at = "join"]
    /\ UNCHANGED <<world, warned, status, producer, diffs, coord, batch, chunkJobs, threads, results,
                   forwarder, processed, line, outcome>>

(* The join of the three tasks, and the end: the root is finalized if it has *)
(* no children at all, and a snapshot exists only if it has a tree.          *)
Finish ==
    /\ serializer.at = "join" /\ outcome = "running"
    /\ producer.done /\ coord.at = "done" /\ forwarder.at = "done"
    /\ IF IsFailed THEN outcome' = "failed" /\ UNCHANGED serializer
       ELSE LET ts == FinalizeRoot(serializer.ts, {})
            IN  /\ serializer' = [serializer EXCEPT !.ts = ts]
                /\ outcome' = IF ts.err \/ ts.tree = <<>> THEN "failed" ELSE "ok"
    /\ UNCHANGED <<world, warned, status, producer, diffs, coord, batch, chunkJobs, threads, results,
                   forwarder, processed, line>>

----------------------------------------------------------------------------
ArchiveInit ==
    /\ world \in Worlds
    /\ status = [fatal |-> FALSE, first |-> "none", shutdown |-> FALSE]
    /\ producer = [todo |-> Stream(world), done |-> FALSE]
    /\ diffs = <<>>
    /\ coord = [at |-> "run", out |-> <<>>, granted |-> <<>>]
    /\ batch = <<>>
    /\ chunkJobs = <<>>
    /\ threads = [t \in Thread |-> [at |-> "idle", todo |-> <<>>]]
    /\ results = <<>>
    /\ warned = {}
    /\ forwarder = [at |-> "receive", item |-> Broken]
    /\ processed = <<>>
    /\ line = <<>>
    /\ serializer = [at |-> "receive", ts |-> Serializer(SnapshotRoot(world), SourcePaths(world))]
    /\ outcome = "running"

(* The command is over; nothing of the pipeline is left.                     *)
ArchiveOver == outcome # "running" /\ UNCHANGED archiveVars

PoolStep(t) == TakeJob(t) \/ DoJob(t) \/ ThreadEnds(t)
ForwarderStep == ForwarderReceives \/ ForwarderSends \/ ForwarderEnds
CoordinatorStep ==
    Coordinate \/ CoordinatorSends \/ Deliver \/ CoordinatorFlush \/ CoordinatorEnds

ArchiveNext ==
    \/ Shutdown
    \/ Produce \/ ProducerEnds
    \/ CoordinatorStep
    \/ \E t \in Thread : PoolStep(t)
    \/ ForwarderStep
    \/ Serialize \/ SerializerEnds
    \/ Finish
    \/ ArchiveOver

ArchiveSpec == ArchiveInit /\ [][ArchiveNext]_archiveVars

(* Every task and thread is scheduled as long as it can go on: they are      *)
(* tasks of the runtime or threads of their own, and nothing else delays     *)
(* them.  The operator need not press Ctrl-C.                                *)
ArchiveFairSpec ==
    /\ ArchiveSpec
    /\ WF_archiveVars(Produce \/ ProducerEnds)
    /\ WF_archiveVars(CoordinatorStep)
    /\ \A t \in Thread : WF_archiveVars(PoolStep(t))
    /\ WF_archiveVars(ForwarderStep)
    /\ WF_archiveVars(Serialize \/ SerializerEnds)
    /\ WF_archiveVars(Finish)

----------------------------------------------------------------------------
(* What the snapshot should be, from the file system alone.                  *)

AboveSource(p) == \E s \in world.sources : Under(p, s)
InSource(p) == \E s \in world.sources : IsPrefix(s, p)

(* The parent has a file that has not changed since, but not its contents.   *)
UnreadByParent(p) ==
    LET f == FindNode(world.prev, SubSeq(p, Len(SnapshotRoot(world)) + 1, Len(p)))
    IN  /\ f.found = "yes" /\ IsFile(f.node) /\ f.node.blobs = <<>>
        /\ ~IsModifiedHint(f.node, FsNode(world.fs, p))

RECURSIVE WantTree(_)
WantNode(p) ==
    LET fs == world.fs
        node == IF p \in fs.gone THEN Node(Last(p), "dir", 0) ELSE FsNode(fs, p)
    IN  CASE IsFile(node) ->
               [node EXCEPT !.blobs = IF p \in warned \/ UnreadByParent(p) THEN <<>>
                                      ELSE <<fs.data[p]>>]
          [] IsDir(node) ->
               [node EXCEPT !.tree = IF p \in warned /\ ~AboveSource(p) THEN <<<<>>>>
                                     ELSE <<WantTree(p)>>]
          [] OTHER -> node

WantTree(dir) ==
    LET entries == InOrder({p \in DOMAIN world.fs.kind :
                      /\ p # <<>> /\ Parent(p) = dir
                      /\ AboveSource(p) \/ InSource(p)
                      /\ Allowed(world.fs, p)})
    IN  [i \in 1 .. Len(entries) |-> WantNode(entries[i])]

Want == IF world.stdin
        THEN <<[Node(9, "file", 0) EXCEPT !.blobs = <<world.fs.data[Stdin]>>]>>
        ELSE WantTree(SnapshotRoot(world))

----------------------------------------------------------------------------
(* The channels and the coordinator keep to their capacities, the places     *)
(* that were given away but are not used yet included.                       *)
ChannelsBounded ==
    /\ Len(diffs) <= DiffCap /\ Len(chunkJobs) <= JobCap /\ Len(results) <= ResultCap
    /\ Len(processed) + Granted <= ProcessedCap /\ UnderWay <= Slots
    /\ Len(batch) < BatchSize

(* A tree without the metadata of the directories above the sources.         *)
RECURSIVE Blurred(_, _)
Blurred(tree, dir) ==
    [i \in 1 .. Len(tree) |->
       LET at == Append(dir, tree[i].name)
       IN  IF AboveSource(at) /\ tree[i].tree # <<>>
           THEN [tree[i] EXCEPT !.stamp = 0, !.tree = <<Blurred(@[1], at)>>]
           ELSE tree[i]]

(* One source lies in another, and is walked twice.                          *)
Overlapping == \E s, q \in world.sources : Under(s, q)

(* Every node of a tree is one of what was there, in its place.              *)
RECURSIVE OnlyWhatIsThere(_, _)
OnlyWhatIsThere(tree, dir) ==
    \A i \in 1 .. Len(tree) :
      LET at == Append(dir, tree[i].name)
      IN  /\ at \in DOMAIN world.fs.kind /\ Allowed(world.fs, at)
          /\ tree[i].kind = world.fs.kind[at]
          /\ tree[i].blobs \in {<<world.fs.data[at]>>, WantNode(at).blobs}
          /\ tree[i].tree # <<>> => OnlyWhatIsThere(tree[i].tree[1], at)

(* A snapshot that succeeds has the tree of what was there: every allowed    *)
(* file of the sources with its present contents, every directory with all   *)
(* its entries, in whatever order the stages delivered them.  A file lacks   *)
(* its contents and a directory its entries only with a warning, now or when *)
(* the parent was made: a file that could not be read or saved then and has  *)
(* not changed since is not read again (process_item_sync, FSNodeStream).    *)
(* The metadata of the directories above the sources is left out.  When one  *)
(* source lies in another, entries may be missing or there twice             *)
(* (finalize_and_save counts them), but none is wrong.                       *)
SnapshotComplete ==
    outcome = "ok" =>
      LET root == SnapshotRoot(world)
      IN  /\ serializer.ts.tree # <<>>
          /\ OnlyWhatIsThere(serializer.ts.tree[1], root)
          /\ ~Overlapping => Blurred(serializer.ts.tree[1], root) = Blurred(Want, root)

(* The checks of the serializer ("expected children", "duplicate child       *)
(* name", no parent, no root tree) and the coordinator's closed channel      *)
(* never fail a snapshot by themselves: it fails only for a reason from      *)
(* outside the pipeline, or because one source lies in another.              *)
FailsForAReason ==
    /\ status.first # "channel"
    /\ status.first = "integrity" => Overlapping
    /\ outcome = "failed" => IsFailed

(* Archiver::snapshot: within the pipeline nothing goes wrong by itself: no  *)
(* channel takes more than it has room for, and no check of a later stage    *)
(* fails because of what the stages before it delivered, or in which order,  *)
(* unless one source lies in another.                                        *)
PipelineSound == ChannelsBounded /\ FailsForAReason

(* A snapshot that meets no failure comes to an end: no cycle of full        *)
(* channels stops the stages.                                                *)
ArchiveEnded == IsFailed \/ outcome # "running"
=============================================================================

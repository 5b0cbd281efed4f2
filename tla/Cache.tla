------------------------------- MODULE Cache --------------------------------
(***************************************************************************)
(* CacheBackend (backend/cache.rs): one file of the repository, its local  *)
(* copy, and tasks that read, write, rename and remove it at the same      *)
(* time.  A file is named by its contents, so it has only one.             *)
(*                                                                         *)
(* cs.client[c] is where task c stands.  A task that finds a download      *)
(* going on releases the queue's lock ("unlocked") before it starts to     *)
(* listen for the end of the download ("waiting").                         *)
(***************************************************************************)
EXTENDS Naturals, FiniteSets

CONSTANTS
    CacheJobs,      \* what the tasks do: [op: function of tasks to operations,
                    \*   remote, cached: whether the file and its copy exist,
                    \*   faults: whether a step may fail]
    Cacheable       \* the handles: [extension, hint, type, metadata]

ASSUME CacheAssumption ==
    \A j \in CacheJobs :
      /\ \A c \in DOMAIN j.op : j.op[c] \in {"read", "write", "rename", "remove"}
      /\ j.remote \in BOOLEAN /\ j.cached \in BOOLEAN /\ j.faults \in BOOLEAN

VARIABLE cs

(* should_cache.                                                             *)
ShouldCache(h) ==
    /\ ~h.extension /\ h.hint
    /\ h.type \in {"snapshot", "index"} \/ (h.type = "pack" /\ h.metadata)

CacheTasks == DOMAIN cs.client
CacheAt(c, pc) == cs.client[c] = pc
CacheGoto(x, c, pc) == [x EXCEPT !.client[c] = pc]

(* Between taking the file for present and storing its copy, and between     *)
(* taking the copy for settled and removing the file.  cs.raced: the two met *)
(* in a way that neither cache_file and write nor remove and rename prevent. *)
CacheStoring == {"claimed", "fetch", "store", "write_copy"}
CacheRemoving == {"uncache", "unlink", "rename_file"}
CacheRace(x, places) == [x EXCEPT !.raced = @ \/ \E d \in DOMAIN x.client : x.client[d] \in places]

(* notify_waiters: a task that has not started to listen misses it.          *)
CacheWake(x) ==
    [x EXCEPT !.client = [c \in DOMAIN @ |-> IF @[c] = "waiting" THEN "check" ELSE @[c]],
              !.missed = @ \union {c \in DOMAIN x.client : x.client[c] = "unlocked"}]

(* CacheBackend::read of a file that is cached, or not.                      *)
CacheHit(c) ==
    /\ CacheAt(c, "read")
    /\ cs' = CacheGoto(cs, c, IF cs.cached THEN "data" ELSE "check")

ReadThrough(c) ==
    /\ CacheAt(c, "read_through")
    /\ \/ cs' = CacheGoto(cs, c, IF cs.remote THEN "data" ELSE "error")
       \/ cs.faults /\ cs' = CacheGoto(cs, c, "error")

(* Mutant of ClaimFetch: remove does not wait for a download.                *)
ClaimFetchHasty(c) ==
    /\ CacheAt(c, "check")
    /\ cs' = IF cs.op[c] = "remove"
             THEN CacheGoto(CacheRace([cs EXCEPT !.queue = "none"], {"write_copy"}), c, "uncache")
             ELSE IF cs.queue = "downloading" THEN CacheGoto(cs, c, "unlocked")
             ELSE CacheGoto(CacheRace([cs EXCEPT !.queue = "downloading"], CacheRemoving), c, "claimed")

(* The loop of cache_file, and that of remove, which sees the downloads of   *)
(* that moment and no writes.                                                *)
ClaimFetch(c) ==
    /\ CacheAt(c, "check")
    /\ cs' = IF cs.queue = "downloading" THEN CacheGoto(cs, c, "unlocked")
             ELSE IF cs.op[c] = "remove"
             THEN CacheGoto(CacheRace([cs EXCEPT !.queue = "none"], {"write_copy"}), c, "uncache")
             ELSE CacheGoto(CacheRace([cs EXCEPT !.queue = "downloading"], CacheRemoving), c, "claimed")

ListenFetch(c) == CacheAt(c, "unlocked") /\ cs' = CacheGoto(cs, c, "waiting")

CheckAgain(c) ==
    /\ CacheAt(c, "claimed")
    /\ cs' = IF cs.cached THEN CacheWake(CacheGoto([cs EXCEPT !.queue = "none"], c, "again"))
             ELSE CacheGoto(cs, c, "fetch")

FetchFile(c) ==
    /\ CacheAt(c, "fetch")
    /\ \/ cs.remote /\ cs' = CacheGoto([cs EXCEPT !.fetches = @ + 1], c, "store")
       \/ (~cs.remote \/ cs.faults) /\ cs' = CacheGoto(cs, c, "failed")

StoreCopy(c) ==
    /\ CacheAt(c, "store")
    /\ \/ cs' = CacheGoto([cs EXCEPT !.cached = TRUE], c, "stored")
       \/ cs.faults /\ cs' = CacheGoto(cs, c, "failed")

(* Mutant of FinishFetch: a failed download is not announced.                *)
FinishFetchSilently(c) ==
    \/ CacheAt(c, "stored") /\ cs' = CacheWake(CacheGoto([cs EXCEPT !.queue = "none"], c, "again"))
    \/ CacheAt(c, "failed") /\ cs' = CacheGoto([cs EXCEPT !.queue = "failed"], c, "error")

FinishFetch(c) ==
    \/ CacheAt(c, "stored") /\ cs' = CacheWake(CacheGoto([cs EXCEPT !.queue = "none"], c, "again"))
    \/ CacheAt(c, "failed") /\ cs' = CacheWake(CacheGoto([cs EXCEPT !.queue = "failed"], c, "error"))

ReadAgain(c) ==
    /\ CacheAt(c, "again")
    /\ cs' = CacheGoto(cs, c, IF cs.cached THEN "data" ELSE "error")

(* CacheBackend::write: the repository, then the copy if it is to be cached. *)
WriteRemote(c) ==
    /\ CacheAt(c, "write")
    /\ \/ cs' = IF cs.op[c] = "write"
                THEN CacheGoto(CacheRace([cs EXCEPT !.remote = TRUE], CacheRemoving), c, "write_copy")
                ELSE CacheGoto([cs EXCEPT !.remote = TRUE], c, "ok")
       \/ cs.faults /\ cs' = CacheGoto(cs, c, "error")

WriteCopy(c) ==
    /\ CacheAt(c, "write_copy")
    /\ \/ cs' = CacheGoto([cs EXCEPT !.cached = TRUE], c, "ok")
       \/ cs.faults /\ cs' = CacheGoto(cs, c, "error")

(* CacheBackend::rename to a name that is not cached: the copy, then the     *)
(* file.  An error with the copy is ignored (cs.kept).                       *)
RenameCopy(c) ==
    /\ CacheAt(c, "rename")
    /\ \/ cs' = CacheGoto(CacheRace([cs EXCEPT !.cached = FALSE], CacheStoring), c, "rename_file")
       \/ cs.faults /\ cs' = CacheGoto(CacheRace([cs EXCEPT !.kept = TRUE], CacheStoring), c, "rename_file")

RenameRemote(c) ==
    /\ CacheAt(c, "rename_file")
    /\ \/ cs.remote /\ cs' = CacheGoto([cs EXCEPT !.remote = FALSE], c, "ok")
       \/ (~cs.remote \/ cs.faults) /\ cs' = CacheGoto(cs, c, "error")

(* CacheBackend::remove: the copy, then the file.                            *)
RemoveCopy(c) ==
    /\ CacheAt(c, "uncache")
    /\ \/ cs' = CacheGoto([cs EXCEPT !.cached = FALSE], c, "unlink")
       \/ cs.faults /\ cs' = CacheGoto(cs, c, "error")

RemoveRemote(c) ==
    /\ CacheAt(c, "unlink")
    /\ \/ cs' = CacheGoto([cs EXCEPT !.remote = FALSE], c, "ok")
       \/ cs.faults /\ cs' = CacheGoto(cs, c, "error")

FirstStep(op) == CASE op = "remove" -> "check" [] op = "write_through" -> "write" [] OTHER -> op

CacheEnded == {"data", "error", "ok"}
CacheRemoves(c) == cs.op[c] \in {"remove", "rename"}

CacheBegin(c) == CacheAt(c, "idle") /\ cs' = CacheGoto(cs, c, FirstStep(cs.op[c]))

CacheIdle == (\A c \in CacheTasks : cs.client[c] \in CacheEnded \union {"waiting"}) /\ UNCHANGED cs

CacheStep(c) ==
    \/ CacheBegin(c) \/ CacheHit(c) \/ ReadThrough(c) \/ ClaimFetch(c) \/ ListenFetch(c) \/ CheckAgain(c)
    \/ FetchFile(c) \/ StoreCopy(c) \/ FinishFetch(c) \/ ReadAgain(c) \/ WriteRemote(c) \/ WriteCopy(c)
    \/ RenameCopy(c) \/ RenameRemote(c) \/ RemoveCopy(c) \/ RemoveRemote(c)

CacheStart(j, h) ==
    [op |-> [c \in DOMAIN j.op |->
               IF ShouldCache(h) \/ j.op[c] \notin {"read", "write"} THEN j.op[c]
               ELSE IF j.op[c] = "read" THEN "read_through" ELSE "write_through"],
     client |-> [c \in DOMAIN j.op |-> "idle"], faults |-> j.faults,
     remote |-> j.remote, cached |-> j.cached, queue |-> "none",
     fetches |-> 0, missed |-> {}, raced |-> FALSE, kept |-> FALSE]
CacheInit == \E j \in CacheJobs, h \in Cacheable : cs = CacheStart(j, h)

CacheNext == (\E c \in CacheTasks : CacheStep(c)) \/ CacheIdle

CacheSpec == CacheInit /\ [][CacheNext]_cs /\ WF_cs(CacheNext)

----------------------------------------------------------------------------
(* Properties.                                                               *)

(* cache_file: however many tasks miss the copy at the same time, the file   *)
(* is downloaded once, as long as nothing fails and nobody removes it.       *)
FetchedOnce ==
    ~cs.faults /\ (\A c \in CacheTasks : CacheRemoves(c) => CacheAt(c, "idle")) => cs.fetches <= 1

(* CacheBackend::remove and rename: when they have succeeded, no copy is     *)
(* left.  A download that was going on when remove began is waited for.  Not *)
(* prevented: a read that starts after remove has looked for downloads, a    *)
(* read beside a rename, a write beside either (raced), and an error with    *)
(* the copy, which rename ignores (kept).                                    *)
RemovedFromCache ==
    /\ \E c \in CacheTasks : CacheRemoves(c) /\ CacheAt(c, "ok")
    /\ ~cs.raced /\ ~cs.kept /\ ~cs.remote
    => ~cs.cached

(* cache_file: every task that waits for a download goes on when it has      *)
(* ended, well or badly, if it was already listening: only a task that was   *)
(* between unlocking the queue and listening may wait for ever.              *)
WaitersDone == \A c \in CacheTasks : cs.client[c] \in CacheEnded \/ c \in cs.missed

(* CacheBackend: concurrent readers share one download, and no copy outlives *)
(* its file but for the races and the ignored error named above.             *)
CacheCoherent == FetchedOnce /\ RemovedFromCache
=============================================================================

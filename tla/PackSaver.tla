----------------------------- MODULE PackSaver ------------------------------
(***************************************************************************)
(* The pack saver (repository/packer.rs) between the threads that save     *)
(* blobs (Repository::encode_and_save_blob), the master index              *)
(* (MasterIndex::add_pack, add_pending_blob) and the final flush           *)
(* (Repository::flush_and_finalize_pack_saver).                            *)
(*                                                                         *)
(* Requests go through a bounded channel to the saver's own thread, which  *)
(* fills one packer for data and one for trees.  A full packer goes to the *)
(* worker threads through a second channel; they upload the pack, add it   *)
(* to the index, save an index that is full or old, and send the emptied   *)
(* packer back.  Nobody counts bytes here: a packer, or an index, may be   *)
(* full after any blob.                                                    *)
(***************************************************************************)
EXTENDS Integers, Sequences, FiniteSets

CONSTANTS
    Blob,       \* blobs, content-addressed
    Tree,       \* those of them that are trees
    Caller,     \* threads that call encode_and_save_blob
    Worker,     \* the worker threads: num_packers of them
    Failing     \* whether uploads and index writes may fail

ASSUME SaverAssumption ==
    /\ Tree \subseteq Blob
    /\ IsFiniteSet(Worker) /\ Worker # {}
    /\ Failing \in BOOLEAN

VARIABLES
    call,       \* each caller: where it is, and with which blob
    accepted,   \* the blobs for which a call has returned Ok
    open,       \* repo.pack_saver_tx is Some
    requests,   \* the request channel
    main,       \* the saver's thread: recv, flush, join, then ok or err
    active,     \* the blobs in data_packer and in tree_packer
    full,       \* the kind of packer that has to be dispatched next, or None
    pool,       \* the number of empty packers in the empty channel
    jobs,       \* the channel of full packers
    worker,     \* each worker: where it is, its packer, the index it saves
    failed,     \* first_err is Some
    pending,    \* MasterIndex.pending_blobs
    unsaved,    \* blobs in indices that are pending
    final,      \* blobs in indices that are finalized and have no file yet
    saved,      \* blobs in indices that have a file
    stored,     \* blobs in packs that have been uploaded
    flush       \* flush_and_finalize_pack_saver: open, join, persist, ok or err

vars == <<call, accepted, open, requests, main, active, full, pool, jobs, worker,
          failed, pending, unsaved, final, saved, stored, flush>>

callerVars == <<call, accepted>>
indexVars == <<pending, unsaved, final, saved, stored>>
mainVars == <<main, active, full>>

Kinds == {"data", "tree"}

None == "none"

KindOf(b) == IF b \in Tree THEN "tree" ELSE "data"

Idle == [at |-> "idle", blob |-> None]

Waiting == [at |-> "recv", pack |-> {}, index |-> {}]

Dead == [at |-> "dead", pack |-> {}, index |-> {}]

NumPackers == Cardinality(Worker)

(* MasterIndex::contains.                                                    *)
Indexed == unsaved \cup final \cup saved

ContainsBlob(b) == b \in pending \/ b \in Indexed

AllDead == \A w \in Worker : worker[w].at = "dead"

(* The saver has left its loop: the request channel has no receiver.         *)
Stopped == main \in {"ok", "err"}

(* PackSaver::new: NumPackers + 2 packers, two of which are active.  The     *)
(* repository may hold any blobs already.                                    *)
Init ==
    /\ call = [c \in Caller |-> Idle]
    /\ accepted = {}
    /\ open = TRUE
    /\ requests = <<>>
    /\ main = "recv"
    /\ active = [k \in Kinds |-> {}]
    /\ full = None
    /\ pool = NumPackers
    /\ jobs = <<>>
    /\ worker = [w \in Worker |-> Waiting]
    /\ failed = FALSE
    /\ pending = {}
    /\ unsaved = {}
    /\ final = {}
    /\ saved \in SUBSET Blob
    /\ stored = saved
    /\ flush = "open"

-----------------------------------------------------------------------------
(* encode_and_save_blob.                                                     *)

Return(c) == call' = [call EXCEPT ![c] = Idle]

Accept(c, b) == Return(c) /\ accepted' = accepted \cup {b}

(* A blob that is known, be it only as pending, is not saved again.          *)
SaveBlob(c, b) ==
    /\ call[c] = Idle
    /\ IF ContainsBlob(b)
       THEN Accept(c, b)
       ELSE /\ call' = [call EXCEPT ![c] = [at |-> "tx", blob |-> b]]
            /\ UNCHANGED accepted
    /\ UNCHANGED <<open, requests, mainVars, pool, jobs, worker, failed, indexVars, flush>>

(* The sender is cloned, if the pack saver has not been stopped.             *)
CloneSender(c) ==
    /\ call[c].at = "tx"
    /\ IF open THEN call' = [call EXCEPT ![c].at = "send"] ELSE Return(c)
    /\ UNCHANGED <<accepted, open, requests, mainVars, pool, jobs, worker, failed,
                   indexVars, flush>>

(* The request is sent; the channel holds twice the number of workers.       *)
Send(c) ==
    /\ call[c].at = "send"
    /\ IF Stopped
       THEN Return(c) /\ UNCHANGED requests
       ELSE /\ Len(requests) < 2 * NumPackers
            /\ requests' = Append(requests, call[c].blob)
            /\ call' = [call EXCEPT ![c].at = "mark"]
    /\ UNCHANGED <<accepted, open, mainVars, pool, jobs, worker, failed, indexVars, flush>>

(* add_pending_blob first looks whether the blob has arrived already ...     *)
Mark(c) ==
    /\ call[c].at = "mark"
    /\ IF ContainsBlob(call[c].blob)
       THEN Accept(c, call[c].blob)
       ELSE call' = [call EXCEPT ![c].at = "insert"] /\ UNCHANGED accepted
    /\ UNCHANGED <<open, requests, mainVars, pool, jobs, worker, failed, indexVars, flush>>

(* ... and then, without a lock, marks it as pending.                        *)
Insert(c) ==
    /\ call[c].at = "insert"
    /\ pending' = pending \cup {call[c].blob}
    /\ Accept(c, call[c].blob)
    /\ UNCHANGED <<open, requests, mainVars, pool, jobs, worker, failed, unsaved, final,
                   saved, stored, flush>>

-----------------------------------------------------------------------------
(* PackSaver::run.                                                           *)

(* Whoever has cloned the sender keeps it until the call returns.            *)
Sending == \E c \in Caller : call[c].at \in {"send", "mark", "insert"}

(* A request is added to the packer of its kind, which may be full then.     *)
Receive ==
    /\ main = "recv" /\ full = None
    /\ requests # <<>>
    /\ requests' = Tail(requests)
    /\ active' = [active EXCEPT ![KindOf(Head(requests))] = @ \cup {Head(requests)}]
    /\ full' \in {None, KindOf(Head(requests))}
    /\ UNCHANGED <<callerVars, open, main, pool, jobs, worker, failed, indexVars, flush>>

(* All senders are gone and the channel is empty: the final flushes.         *)
Disconnected ==
    /\ main = "recv" /\ full = None
    /\ requests = <<>> /\ ~open /\ ~Sending
    /\ main' = "flush"
    /\ full' = "data"
    /\ UNCHANGED <<callerVars, open, requests, active, pool, jobs, worker, failed,
                   indexVars, flush>>

(* After the data packer the tree packer, and then the workers are joined.   *)
Dispatched ==
    /\ full' = IF main = "flush" /\ full = "data" THEN "tree" ELSE None
    /\ main' = IF main = "flush" /\ full = "tree" THEN "join" ELSE main

(* Mutant of Dispatch: it does not wait for a packer of the pool.            *)
DispatchUnpooled ==
    /\ full # None /\ active[full] # {}
    /\ pool' = pool - 1
    /\ jobs' = Append(jobs, active[full])
    /\ active' = [active EXCEPT ![full] = {}]
    /\ Dispatched
    /\ UNCHANGED <<callerVars, open, requests, worker, failed, indexVars, flush>>

(* Mutant of Dispatch: a new packer is made instead.                         *)
DispatchAllocating ==
    /\ full # None /\ active[full] # {}
    /\ jobs' = Append(jobs, active[full])
    /\ active' = [active EXCEPT ![full] = {}]
    /\ Dispatched
    /\ UNCHANGED <<callerVars, open, requests, pool, worker, failed, indexVars, flush>>

(* dispatch_packer waits for an empty packer, swaps, and sends the full one. *)
Dispatch ==
    /\ full # None /\ active[full] # {}
    /\ pool > 0
    /\ pool' = pool - 1
    /\ jobs' = Append(jobs, active[full])
    /\ active' = [active EXCEPT ![full] = {}]
    /\ Dispatched
    /\ UNCHANGED <<callerVars, open, requests, worker, failed, indexVars, flush>>

DispatchEmpty ==
    /\ full # None /\ active[full] = {}
    /\ Dispatched
    /\ UNCHANGED <<callerVars, open, requests, active, pool, jobs, worker, failed,
                   indexVars, flush>>

(* Both channels are closed once all the workers are gone; until their       *)
(* coordinator has noticed, Dispatch is possible as well.                    *)
DispatchFails ==
    /\ full # None /\ active[full] # {}
    /\ AllDead
    /\ main' = "err"
    /\ full' = None
    /\ UNCHANGED <<callerVars, open, requests, active, pool, jobs, worker, failed,
                   indexVars, flush>>

Join ==
    /\ main = "join"
    /\ AllDead
    /\ main' = IF failed THEN "err" ELSE "ok"
    /\ UNCHANGED <<callerVars, open, requests, active, full, pool, jobs, worker, failed,
                   indexVars, flush>>

-----------------------------------------------------------------------------
(* The worker threads.                                                       *)

Working(w, at) == worker[w].at = at

Take(w) ==
    /\ Working(w, "recv")
    /\ jobs # <<>>
    /\ jobs' = Tail(jobs)
    /\ worker' = [worker EXCEPT ![w] = [at |-> "check", pack |-> Head(jobs), index |-> {}]]
    /\ UNCHANGED <<callerVars, open, requests, mainVars, pool, failed, indexVars, flush>>

(* After an error no worker does anything more; its packer is dropped.       *)
Check(w) ==
    /\ Working(w, "check")
    /\ worker' = [worker EXCEPT ![w] = IF failed THEN Dead ELSE [@ EXCEPT !.at = "upload"]]
    /\ UNCHANGED <<callerVars, open, requests, mainVars, pool, jobs, failed, indexVars, flush>>

(* Mutant of Upload: its failure goes unnoticed.                             *)
UploadUnchecked(w) ==
    /\ Working(w, "upload")
    /\ stored' \in {stored, stored \cup worker[w].pack}
    /\ worker' = [worker EXCEPT ![w].at = "index"]
    /\ UNCHANGED <<callerVars, open, requests, mainVars, pool, jobs, failed, pending,
                   unsaved, final, saved, flush>>

Upload(w) ==
    /\ Working(w, "upload")
    /\ stored' = stored \cup worker[w].pack
    /\ worker' = [worker EXCEPT ![w].at = "index"]
    /\ UNCHANGED <<callerVars, open, requests, mainVars, pool, jobs, failed, pending,
                   unsaved, final, saved, flush>>

(* Mutant of WorkFails: the error is only logged.                            *)
WorkFailsSilently(w) ==
    /\ Failing
    /\ Working(w, "upload") \/ Working(w, "persist")
    /\ pool' = pool + 1
    /\ worker' = [worker EXCEPT ![w] = Dead]
    /\ UNCHANGED <<callerVars, open, requests, mainVars, jobs, failed, indexVars, flush>>

(* The upload, or the write of the index, fails: the error is kept, the      *)
(* packer goes back, the worker ends.                                        *)
WorkFails(w) ==
    /\ Failing
    /\ Working(w, "upload") \/ Working(w, "persist")
    /\ failed' = TRUE
    /\ pool' = pool + 1
    /\ worker' = [worker EXCEPT ![w] = Dead]
    /\ UNCHANGED <<callerVars, open, requests, mainVars, jobs, indexVars, flush>>

(* MasterIndex::add_pack, under its lock: the blobs move from pending into   *)
(* an index, which is finalized and saved if it is full or old.              *)
AddPack(w) ==
    /\ Working(w, "index")
    /\ pending' = pending \ worker[w].pack
    /\ \/ /\ unsaved' = unsaved \cup worker[w].pack
          /\ worker' = [worker EXCEPT ![w].at = "return"]
          /\ UNCHANGED final
       \/ LET index == unsaved \cup worker[w].pack
          IN  /\ unsaved' = {}
              /\ final' = final \cup index
              /\ worker' = [worker EXCEPT ![w] = [@ EXCEPT !.at = "persist", !.index = index]]
    /\ UNCHANGED <<callerVars, open, requests, mainVars, pool, jobs, failed, saved, stored,
                   flush>>

(* Index::persist, on a copy; then the index is known to have a file.        *)
SaveIndex(w) ==
    /\ Working(w, "persist")
    /\ saved' = saved \cup worker[w].index
    /\ final' = final \ worker[w].index
    /\ worker' = [worker EXCEPT ![w].at = "return"]
    /\ UNCHANGED <<callerVars, open, requests, mainVars, pool, jobs, failed, pending,
                   unsaved, stored, flush>>

Recycle(w) ==
    /\ Working(w, "return")
    /\ pool' = pool + 1
    /\ worker' = [worker EXCEPT ![w] = Waiting]
    /\ UNCHANGED <<callerVars, open, requests, mainVars, jobs, failed, indexVars, flush>>

(* The channel of full packers is closed and empty.                          *)
Leave(w) ==
    /\ Working(w, "recv")
    /\ jobs = <<>> /\ main \in {"join", "ok", "err"}
    /\ worker' = [worker EXCEPT ![w] = Dead]
    /\ UNCHANGED <<callerVars, open, requests, mainVars, pool, jobs, failed, indexVars, flush>>

-----------------------------------------------------------------------------
(* flush_and_finalize_pack_saver drops its sender, waits for the saver and   *)
(* persists what has no file yet.                                            *)
FlushStart ==
    /\ flush = "open"
    /\ open' = FALSE
    /\ flush' = "join"
    /\ UNCHANGED <<callerVars, requests, mainVars, pool, jobs, worker, failed, indexVars>>

FlushJoin ==
    /\ flush = "join"
    /\ Stopped
    /\ flush' = IF main = "ok" THEN "persist" ELSE "err"
    /\ UNCHANGED <<callerVars, open, requests, mainVars, pool, jobs, worker, failed, indexVars>>

FlushPersist ==
    /\ flush = "persist"
    /\ saved' = saved \cup final \cup unsaved
    /\ final' = {} /\ unsaved' = {}
    /\ flush' = "ok"
    /\ UNCHANGED <<callerVars, open, requests, mainVars, pool, jobs, worker, failed, pending,
                   stored>>

(* Of several indices the first ones may have been written when one fails;   *)
(* all of them are finalized by then.                                        *)
FlushFails ==
    /\ flush = "persist" /\ Failing
    /\ \E written \in {{}, final} :
         /\ saved' = saved \cup written
         /\ final' = (final \cup unsaved) \ written
    /\ unsaved' = {}
    /\ flush' = "err"
    /\ UNCHANGED <<callerVars, open, requests, mainVars, pool, jobs, worker, failed, pending,
                   stored>>

CallStep(c) == CloneSender(c) \/ Send(c) \/ Mark(c) \/ Insert(c)

MainStep == Receive \/ Disconnected \/ Dispatch \/ DispatchEmpty \/ DispatchFails \/ Join

WorkStep(w) ==
    \/ Take(w) \/ Check(w) \/ Upload(w) \/ WorkFails(w) \/ AddPack(w) \/ SaveIndex(w)
    \/ Recycle(w) \/ Leave(w)

FlushStep == FlushJoin \/ FlushPersist \/ FlushFails

Next ==
    \/ \E c \in Caller : CallStep(c) \/ \E b \in Blob : SaveBlob(c, b)
    \/ MainStep
    \/ \E w \in Worker : WorkStep(w)
    \/ FlushStart \/ FlushStep

Spec == Init /\ [][Next]_vars

(* Every thread keeps running.  New calls need not come, nor the flush.      *)
FairSpec ==
    /\ Spec
    /\ \A c \in Caller : WF_vars(CallStep(c))
    /\ WF_vars(MainStep)
    /\ \A w \in Worker : WF_vars(WorkStep(w))
    /\ WF_vars(FlushStep)

-----------------------------------------------------------------------------
CallType ==
    {Idle} \cup [at : {"tx", "send", "mark", "insert"}, blob : Blob]

WorkerType ==
    [at : {"recv", "check", "upload", "index", "persist", "return", "dead"},
     pack : SUBSET Blob, index : SUBSET Blob]

(* The variables have their types.                                           *)
TypeOK ==
    /\ call \in [Caller -> CallType]
    /\ accepted \subseteq Blob
    /\ open \in BOOLEAN
    /\ requests \in Seq(Blob)
    /\ main \in {"recv", "flush", "join", "ok", "err"}
    /\ active \in [Kinds -> SUBSET Blob]
    /\ full \in Kinds \cup {None}
    /\ pool \in Nat
    /\ jobs \in Seq(SUBSET Blob)
    /\ worker \in [Worker -> WorkerType]
    /\ failed \in BOOLEAN
    /\ pending \subseteq Blob /\ unsaved \subseteq Blob /\ final \subseteq Blob
    /\ saved \subseteq Blob /\ stored \subseteq Blob
    /\ flush \in {"open", "join", "persist", "ok", "err"}

(* What makes a snapshot safe to write: once flush_and_finalize_pack_saver   *)
(* has returned Ok, every blob that a call of encode_and_save_blob returned  *)
(* Ok for is in an index file and in an uploaded pack, even one that was not *)
(* sent because another caller's copy was pending.                           *)
FlushedComplete == flush = "ok" => accepted \subseteq saved \cap stored

(* No index, in memory or on disk, names a blob whose pack has not been      *)
(* uploaded (the order of save_file and add_pack in the worker).             *)
IndexedStored == Indexed \subseteq stored

(* The packers are NumPackers + 2 at all times, so that neither the channel  *)
(* of full packers nor that of empty ones, with the capacities PackSaver::new *)
(* gives them, ever makes a sender wait.                                     *)
SendersNeverWait == Len(jobs) <= NumPackers /\ pool <= NumPackers + 2

(* flush is not under way.  That it comes to an end, whatever fails, says    *)
(* that nobody waits for ever for an empty packer, for a full channel, or    *)
(* for a thread that has gone.                                               *)
FlushReturned == flush \notin {"join", "persist"}
=============================================================================

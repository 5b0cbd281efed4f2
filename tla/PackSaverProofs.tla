-------------------------- MODULE PackSaverProofs ---------------------------
(***************************************************************************)
(* Proofs about PackSaver, for any blobs, callers and workers: whatever    *)
(* fails, a flush that returns Ok has saved all that was accepted.         *)
(***************************************************************************)
EXTENDS PackSaver, FiniteSetTheorems, TLAPS

(* b is with the saver or with a worker that has not indexed it yet.         *)
OnTheWay(b) ==
    \/ \E i \in 1 .. Len(requests) : requests[i] = b
    \/ \E k \in Kinds : b \in active[k]
    \/ \E i \in 1 .. Len(jobs) : b \in jobs[i]
    \/ \E w \in Worker : /\ b \in worker[w].pack
                         /\ worker[w].at \in {"check", "upload", "index"}

Known(b) == OnTheWay(b) \/ b \in Indexed

(* Something is lost, and whoever asks the saver's thread will hear of it.   *)
Broken == failed \/ main = "err"

(* What callers rely on is somewhere between the channel and an index.       *)
Carried ==
    ~Broken =>
      /\ \A b \in accepted \cup pending : Known(b)
      /\ \A c \in Caller : call[c].at \in {"mark", "insert"} => Known(call[c].blob)

(* A worker indexes what it has uploaded.                                    *)
Uploaded ==
    /\ Indexed \subseteq stored
    /\ \A w \in Worker : worker[w].at = "index" => worker[w].pack \subseteq stored
    /\ \A w \in Worker : worker[w].at = "persist" => worker[w].index \subseteq stored

(* What the saver's thread leaves behind it is empty.                        *)
Drained ==
    /\ main \in {"flush", "join", "ok"} => ~open /\ ~Sending /\ requests = <<>>
    /\ main = "flush" => full # None
    /\ main = "flush" /\ full = "tree" => active["data"] = {}
    /\ main \in {"join", "ok"} => full = None /\ \A k \in Kinds : active[k] = {}

(* Without an error, a worker only leaves when there is nothing to do.       *)
Deserted ==
    /\ ~failed /\ (\E w \in Worker : worker[w].at = "dead")
         => main \in {"join", "ok", "err"} /\ jobs = <<>>
    /\ main \in {"join", "ok", "err"} => full = None
    /\ main = "ok" => AllDead /\ ~failed

Flushed ==
    /\ flush \in {"persist", "ok"} => main = "ok"
    /\ flush = "ok" => unsaved = {} /\ final = {}

IInv == TypeOK /\ Carried /\ Uploaded /\ Drained /\ Deserted /\ Flushed


-----------------------------------------------------------------------------
(* The records of callers and workers.                                       *)
LEMMA CallRecords ==
    /\ Idle \in CallType
    /\ \A r \in CallType :
         r.at # "idle" =>
           /\ r.blob \in Blob
           /\ [r EXCEPT !.at = "send"] \in CallType
           /\ [r EXCEPT !.at = "mark"] \in CallType
           /\ [r EXCEPT !.at = "insert"] \in CallType
    /\ \A b \in Blob : [at |-> "tx", blob |-> b] \in CallType
BY DEF callerVars, indexVars, mainVars, Kinds, None, CallType, Idle

(* A caller that moves on keeps its blob.                                    *)
LEMMA CallFields ==
    ASSUME NEW r \in CallType, NEW at, r.at # "idle"
    PROVE  [r EXCEPT !.at = at].at = at /\ [r EXCEPT !.at = at].blob = r.blob
BY DEF callerVars, indexVars, mainVars, Kinds, None, CallType, Idle

(* The records of a worker, waiting, dead or with a pack, have their type.   *)
LEMMA WorkerRecords ==
    /\ Waiting \in WorkerType
    /\ Dead \in WorkerType
    /\ \A r \in WorkerType : r.pack \subseteq Blob /\ r.index \subseteq Blob
BY DEF callerVars, indexVars, mainVars, Kinds, None, WorkerType, Waiting, Dead

(* A new pack saver satisfies the invariant.                                 *)
LEMMA InitInv == Init => IInv
<1> USE DEF callerVars, indexVars, mainVars, Kinds, None
<1> SUFFICES ASSUME Init PROVE IInv
  OBVIOUS
<1>1. NumPackers \in Nat
  BY SaverAssumption, FS_CardinalityType DEF NumPackers
<1>2. TypeOK
  <2>1. call \in [Caller -> CallType] /\ worker \in [Worker -> WorkerType]
    BY CallRecords, WorkerRecords DEF Init
  <2>2. requests \in Seq(Blob) /\ jobs \in Seq(SUBSET Blob)
    BY DEF Init
  <2>3. active \in [Kinds -> SUBSET Blob]
    BY DEF Init
  <2> QED
    BY Zenon, <1>1, <2>1, <2>2, <2>3 DEF Init, TypeOK
<1>3. Carried /\ Uploaded /\ Drained /\ Deserted /\ Flushed
  BY DEF Init, Carried, Uploaded, Drained, Deserted, Flushed, Indexed, Idle, Waiting
<1> QED
  BY <1>2, <1>3 DEF IInv

(* The types are kept, whatever thread moves.                                *)
LEMMA TypeStep ==
    ASSUME TypeOK, [Next]_vars
    PROVE  TypeOK'
<1> USE DEF callerVars, indexVars, mainVars, Kinds, None
<1> USE DEF TypeOK
<1>1. ASSUME NEW c \in Caller, NEW b \in Blob, SaveBlob(c, b) PROVE TypeOK'
  BY Zenon, <1>1, CallRecords DEF SaveBlob, Accept, Return
<1>2. ASSUME NEW c \in Caller, CallStep(c) PROVE TypeOK'
  <2>1. CASE CloneSender(c)
    <3>1. [call[c] EXCEPT !.at = "send"] \in CallType
      BY Zenon, <2>1, CallRecords DEF CloneSender
    <3> QED
      BY SMTT(40), <2>1, <3>1, CallRecords DEF CloneSender, Return
  <2>2. CASE Send(c)
    <3>1. call[c].blob \in Blob /\ [call[c] EXCEPT !.at = "mark"] \in CallType
      BY Zenon, <2>2, CallRecords DEF Send
    <3>2. call' \in [Caller -> CallType]
      BY Zenon, <2>2, <3>1, CallRecords DEF Send, Return
    <3>3. requests' \in {requests, Append(requests, call[c].blob)}
      BY <2>2 DEF Send
    <3>4. Append(requests, call[c].blob) \in Seq(Blob)
      BY <3>1
    <3> QED
      BY ZenonT(40), <2>2, <3>2, <3>3, <3>4 DEF Send
  <2>3. CASE Mark(c)
    <3>1. call[c].blob \in Blob /\ [call[c] EXCEPT !.at = "insert"] \in CallType
      BY Zenon, <2>3, CallRecords DEF Mark
    <3> QED
      BY ZenonT(40), <2>3, <3>1, CallRecords DEF Mark, Accept, Return
  <2>4. CASE Insert(c)
    BY ZenonT(40), <2>4, CallRecords DEF Insert, Accept, Return
  <2> QED
    BY <1>2, <2>1, <2>2, <2>3, <2>4 DEF CallStep
<1>3. ASSUME MainStep PROVE TypeOK'
  <2>1. CASE Receive
    BY <2>1, SaverAssumption DEF Receive, KindOf
  <2>2. CASE Disconnected
    BY <2>2 DEF Disconnected
  <2>3. CASE Dispatch
    BY <2>3 DEF Dispatch, Dispatched
  <2>4. CASE DispatchEmpty
    BY <2>4 DEF DispatchEmpty, Dispatched
  <2>5. CASE DispatchFails
    BY <2>5 DEF DispatchFails
  <2>6. CASE Join
    BY SMTT(40), <2>6 DEF Join
  <2> QED
    BY <1>3, <2>1, <2>2, <2>3, <2>4, <2>5, <2>6 DEF MainStep
<1>4. ASSUME NEW w \in Worker, WorkStep(w) PROVE TypeOK'
  <2> USE DEF Working, WorkerType, Dead, Waiting
  <2>1. CASE Take(w)
    BY <2>1 DEF Take
  <2>2. CASE Check(w)
    BY SMTT(60), <2>2 DEF Check
  <2>3. CASE Upload(w)
    BY ZenonT(40), <2>3 DEF Upload
  <2>4. CASE WorkFails(w)
    BY <2>4 DEF WorkFails
  <2>5. CASE AddPack(w)
    <3>1. worker[w].pack \subseteq Blob
      BY WorkerRecords
    <3>2. worker' \in [Worker -> WorkerType]
      <4>1. [worker[w] EXCEPT !.at = "return"] \in WorkerType
        BY ZenonT(40)
      <4>2. ASSUME NEW index \in SUBSET Blob
            PROVE  [worker[w] EXCEPT !.at = "persist", !.index = index] \in WorkerType
        BY ZenonT(40)
      <4>3. \E r \in WorkerType : worker' = [worker EXCEPT ![w] = r]
        BY Zenon, <2>5, <3>1, <4>1, <4>2 DEF AddPack
      <4> QED
        BY <4>3
    <3>3. unsaved' \subseteq Blob /\ final' \subseteq Blob /\ pending' \subseteq Blob
      BY <2>5, <3>1 DEF AddPack
    <3> QED
      BY <2>5, <3>2, <3>3 DEF AddPack
  <2>6. CASE SaveIndex(w)
    <3>1. worker[w].index \subseteq Blob
      BY WorkerRecords
    <3>2. saved' \subseteq Blob /\ final' \subseteq Blob
      BY <2>6, <3>1 DEF SaveIndex
    <3>3. worker' \in [Worker -> WorkerType]
      <4>1. [worker[w] EXCEPT !.at = "return"] \in WorkerType
        BY Zenon
      <4> QED BY Zenon, <2>6, <4>1 DEF SaveIndex
    <3> QED BY SMTT(40), <2>6, <3>2, <3>3 DEF SaveIndex
  <2>7. CASE Recycle(w)
    BY <2>7 DEF Recycle
  <2>8. CASE Leave(w)
    BY <2>8 DEF Leave
  <2> QED
    BY SMTT(40), <1>4, <2>1, <2>2, <2>3, <2>4, <2>5, <2>6, <2>7, <2>8 DEF WorkStep
<1>5. ASSUME FlushStart \/ FlushStep PROVE TypeOK'
  BY ZenonT(40), <1>5 DEF FlushStart, FlushStep, FlushJoin, FlushPersist, FlushFails
<1>6. CASE UNCHANGED vars
  BY <1>6 DEF vars
<1> QED
  BY SMTT(40), <1>1, <1>2, <1>3, <1>4, <1>5, <1>6 DEF Next

-----------------------------------------------------------------------------

(* Every step keeps: a worker indexes what it has uploaded.                  *)
LEMMA UploadedStep ==
    ASSUME TypeOK, Uploaded, [Next]_vars
    PROVE  Uploaded'
<1> USE DEF callerVars, indexVars, mainVars, Kinds, None
<1> USE DEF Uploaded, Indexed
<1>1. ASSUME NEW c \in Caller, CallStep(c) \/ \E b \in Blob : SaveBlob(c, b)
      PROVE  Uploaded'
  BY <1>1 DEF CallStep, SaveBlob, CloneSender, Send, Mark, Insert
<1>2. CASE MainStep
  BY <1>2 DEF MainStep, Receive, Disconnected, Dispatch, DispatchEmpty, DispatchFails, Join
<1>3. ASSUME NEW w \in Worker, WorkStep(w) PROVE Uploaded'
  <2> USE DEF Working, TypeOK, WorkerType, Dead, Waiting
  <2>1. CASE Take(w)
    BY <2>1 DEF Take
  <2>2. CASE Check(w)
    BY <2>2 DEF Check
  <2>3. CASE Upload(w)
    BY <2>3 DEF Upload
  <2>4. CASE WorkFails(w)
    BY <2>4 DEF WorkFails
  <2>5. CASE AddPack(w)
    <3>1. Indexed' = Indexed \cup worker[w].pack /\ worker[w].pack \subseteq stored
      BY <2>5 DEF AddPack
    <3>2. /\ \A v \in Worker \ {w} : worker'[v] = worker[v]
          /\ worker'[w].at \in {"return", "persist"}
          /\ worker'[w].at = "persist" => worker'[w].index = unsaved \cup worker[w].pack
      <4>1. CASE worker' = [worker EXCEPT ![w].at = "return"]
        BY <4>1
      <4>2. CASE worker' = [worker EXCEPT ![w] = [@ EXCEPT !.at = "persist",
                                                   !.index = unsaved \cup worker[w].pack]]
        BY <4>2
      <4> QED
        BY <2>5, <4>1, <4>2 DEF AddPack
    <3>3. stored' = stored
      BY <2>5 DEF AddPack
    <3> QED
      BY Zenon, <3>1, <3>2, <3>3
  <2>6. CASE SaveIndex(w)
    BY <2>6 DEF SaveIndex
  <2>7. CASE Recycle(w)
    BY <2>7 DEF Recycle
  <2>8. CASE Leave(w)
    BY <2>8 DEF Leave
  <2> QED
    BY SMTT(40), <1>3, <2>1, <2>2, <2>3, <2>4, <2>5, <2>6, <2>7, <2>8 DEF WorkStep
<1>4. CASE FlushStart \/ FlushStep
  BY <1>4 DEF FlushStart, FlushStep, FlushJoin, FlushPersist, FlushFails
<1>5. CASE UNCHANGED vars
  BY <1>5 DEF vars
<1> QED
  BY <1>1, <1>2, <1>3, <1>4, <1>5 DEF Next

(* Every step keeps: what the thread of the saver leaves behind it is        *)
(* empty.                                                                    *)
LEMMA DrainedStep ==
    ASSUME TypeOK, Drained, Deserted, [Next]_vars
    PROVE  Drained'
<1> USE DEF callerVars, indexVars, mainVars, Kinds, None
<1> USE DEF Drained, Sending
<1>1. ASSUME NEW c \in Caller, NEW b \in Blob, SaveBlob(c, b) PROVE Drained'
  <2>1. \/ call' = [call EXCEPT ![c] = Idle]
        \/ call' = [call EXCEPT ![c] = [at |-> "tx", blob |-> b]]
    BY <1>1 DEF SaveBlob, Accept, Return
  <2>2. /\ \A d \in Caller \ {c} : call'[d] = call[d]
        /\ call'[c].at \in {"idle", "tx"}
    <3>1. CASE call' = [call EXCEPT ![c] = Idle]
      BY <3>1 DEF Idle, TypeOK
    <3>2. CASE call' = [call EXCEPT ![c] = [at |-> "tx", blob |-> b]]
      BY <3>2 DEF TypeOK
    <3> QED BY <2>1, <3>1, <3>2
  <2>3. Sending' => Sending
    BY SMTT(40), <2>2
  <2> QED
    BY <1>1, <2>3 DEF SaveBlob
<1>2. ASSUME NEW c \in Caller, CallStep(c) PROVE Drained'
  <2> USE DEF TypeOK, Idle, Return, Accept
  <2>1. CASE CloneSender(c)
    BY <2>1 DEF CloneSender
  <2>2. CASE Send(c)
    BY <2>2 DEF Send, Stopped
  <2>3. CASE Mark(c)
    BY <2>3 DEF Mark
  <2>4. CASE Insert(c)
    BY SMTT(40), <2>4 DEF Insert
  <2> QED
    BY <1>2, <2>1, <2>2, <2>3, <2>4 DEF CallStep
<1>3. ASSUME MainStep PROVE Drained'
  <2> USE DEF TypeOK
  <2>1. CASE Receive
    BY <2>1 DEF Receive
  <2>2. CASE Disconnected
    BY <2>2 DEF Disconnected
  <2>3. CASE Dispatch
    BY <2>3 DEF Dispatch, Dispatched
  <2>4. CASE DispatchEmpty
    BY <2>4 DEF DispatchEmpty, Dispatched
  <2>5. CASE DispatchFails
    BY <2>5 DEF DispatchFails
  <2>6. CASE Join
    BY <2>6 DEF Join
  <2> QED
    BY Zenon, <1>3, <2>1, <2>2, <2>3, <2>4, <2>5, <2>6 DEF MainStep
<1>4. ASSUME NEW w \in Worker, WorkStep(w) PROVE Drained'
  BY <1>4 DEF WorkStep, Take, Check, Upload, WorkFails, AddPack, SaveIndex, Recycle, Leave
<1>5. CASE FlushStart \/ FlushStep
  BY <1>5 DEF FlushStart, FlushStep, FlushJoin, FlushPersist, FlushFails
<1>6. CASE UNCHANGED vars
  BY <1>6 DEF vars
<1> QED
  BY SMTT(40), <1>1, <1>2, <1>3, <1>4, <1>5, <1>6 DEF Next

(* Every step keeps: without an error a worker leaves only when there is     *)
(* nothing to do.                                                            *)
LEMMA DesertedStep ==
    ASSUME TypeOK, Drained, Deserted, [Next]_vars
    PROVE  Deserted'
<1> USE DEF callerVars, indexVars, mainVars, Kinds, None
<1> USE DEF Deserted, AllDead
<1>1. ASSUME NEW c \in Caller, CallStep(c) \/ \E b \in Blob : SaveBlob(c, b)
      PROVE  Deserted'
  BY <1>1 DEF CallStep, SaveBlob, CloneSender, Send, Mark, Insert
<1>2. ASSUME MainStep PROVE Deserted'
  <2> USE DEF TypeOK
  <2>1. CASE Receive
    BY <2>1 DEF Receive
  <2>2. CASE Disconnected
    BY <2>2 DEF Disconnected
  <2>3. CASE Dispatch
    BY <2>3 DEF Dispatch, Dispatched, Drained
  <2>4. CASE DispatchEmpty
    BY <2>4 DEF DispatchEmpty, Dispatched, Drained
  <2>5. CASE DispatchFails
    BY <2>5 DEF DispatchFails
  <2>6. CASE Join
    BY SMTT(40), <2>6 DEF Join
  <2> QED
    BY <1>2, <2>1, <2>2, <2>3, <2>4, <2>5, <2>6 DEF MainStep
<1>3. ASSUME NEW w \in Worker, WorkStep(w) PROVE Deserted'
  <2> USE DEF TypeOK, Working, WorkerType, Waiting, Dead
  <2>1. CASE Take(w)
    BY <2>1 DEF Take
  <2>2. CASE Check(w)
    BY <2>2 DEF Check
  <2>3. CASE Upload(w)
    BY <2>3 DEF Upload
  <2>4. CASE WorkFails(w)
    BY <2>4 DEF WorkFails
  <2>5. CASE AddPack(w)
    <3>1. worker[w].at # "dead"
      BY <2>5 DEF AddPack
    <3>2. worker'[w].at # "dead" /\ \A v \in Worker \ {w} : worker'[v] = worker[v]
      <4>1. CASE worker' = [worker EXCEPT ![w].at = "return"]
        BY <4>1
      <4>2. CASE worker' = [worker EXCEPT ![w] = [@ EXCEPT !.at = "persist",
                                                   !.index = unsaved \cup worker[w].pack]]
        BY <4>2
      <4> QED
        BY <2>5, <4>1, <4>2 DEF AddPack
    <3>3. UNCHANGED <<main, full, jobs, failed>>
      BY <2>5 DEF AddPack
    <3> QED BY <3>1, <3>2, <3>3
  <2>6. CASE SaveIndex(w)
    BY <2>6 DEF SaveIndex
  <2>7. CASE Recycle(w)
    BY <2>7 DEF Recycle
  <2>8. CASE Leave(w)
    BY <2>8 DEF Leave
  <2> QED
    BY SMTT(40), <1>3, <2>1, <2>2, <2>3, <2>4, <2>5, <2>6, <2>7, <2>8 DEF WorkStep
<1>4. CASE FlushStart \/ FlushStep
  BY <1>4 DEF FlushStart, FlushStep, FlushJoin, FlushPersist, FlushFails
<1>5. CASE UNCHANGED vars
  BY <1>5 DEF vars
<1> QED
  BY <1>1, <1>2, <1>3, <1>4, <1>5 DEF Next

(* Every step keeps: a flush that succeeds comes after the join and leaves   *)
(* no locator unsaved.                                                       *)
LEMMA FlushedStep ==
    ASSUME TypeOK, Drained, Deserted, Flushed, [Next]_vars
    PROVE  Flushed'
<1> USE DEF callerVars, indexVars, mainVars, Kinds, None
<1> USE DEF Flushed
<1>1. ASSUME NEW c \in Caller, CallStep(c) \/ \E b \in Blob : SaveBlob(c, b)
      PROVE  Flushed'
  BY <1>1 DEF CallStep, SaveBlob, CloneSender, Send, Mark, Insert
<1>2. ASSUME MainStep PROVE Flushed'
  <2>1. main # "ok"
    BY SMTT(40), <1>2 DEF MainStep, Receive, Disconnected, Dispatch, DispatchEmpty, DispatchFails, Join,
                Deserted
  <2>2. UNCHANGED <<flush, unsaved, final>>
    BY <1>2 DEF MainStep, Receive, Disconnected, Dispatch, DispatchEmpty, DispatchFails, Join
  <2> QED
    BY SMTT(40), <2>1, <2>2
<1>3. ASSUME NEW w \in Worker, WorkStep(w) PROVE Flushed'
  <2>1. flush' = flush /\ main' = main
    BY SMTT(40), <1>3 DEF WorkStep, Take, Check, Upload, WorkFails, AddPack, SaveIndex, Recycle, Leave
  <2>2. ~(main = "ok")
    BY <1>3 DEF WorkStep, Take, Check, Upload, WorkFails, AddPack, SaveIndex, Recycle, Leave,
                Working, Deserted, AllDead
  <2> QED
    BY SMTT(40), <2>1, <2>2
<1>4. CASE FlushStart \/ FlushStep
  BY <1>4 DEF FlushStart, FlushStep, FlushJoin, FlushPersist, FlushFails
<1>5. CASE UNCHANGED vars
  BY <1>5 DEF vars
<1> QED
  BY <1>1, <1>2, <1>3, <1>4, <1>5 DEF Next

-----------------------------------------------------------------------------
(* An error is never forgotten.                                              *)
LEMMA BrokenStays ==
    ASSUME Deserted, [Next]_vars, Broken
    PROVE  Broken'
<1> USE DEF callerVars, indexVars, mainVars, Kinds, None
<1> USE DEF Broken
<1>1. ASSUME NEW c \in Caller, CallStep(c) \/ \E b \in Blob : SaveBlob(c, b)
      PROVE  Broken'
  BY <1>1 DEF CallStep, SaveBlob, CloneSender, Send, Mark, Insert
<1>2. ASSUME MainStep PROVE Broken'
  BY <1>2 DEF MainStep, Receive, Disconnected, Dispatch, DispatchEmpty, DispatchFails, Join,
              Deserted
<1>3. ASSUME NEW w \in Worker, WorkStep(w) PROVE Broken'
  BY <1>3 DEF WorkStep, Take, Check, Upload, WorkFails, AddPack, SaveIndex, Recycle, Leave
<1>4. CASE FlushStart \/ FlushStep
  BY <1>4 DEF FlushStart, FlushStep, FlushJoin, FlushPersist, FlushFails
<1>5. CASE UNCHANGED vars
  BY <1>5 DEF vars
<1> QED
  BY <1>1, <1>2, <1>3, <1>4, <1>5 DEF Next

(* No step of the saver's thread loses a blob ...                            *)
LEMMA MainKeeps ==
    ASSUME TypeOK, MainStep, NEW b, Known(b)
    PROVE  Known(b)'
<1> USE DEF callerVars, indexVars, mainVars, Kinds, None
<1> USE DEF Known, OnTheWay, Indexed, TypeOK
<1>1. CASE Receive
  <2>1. \A i \in 1 .. Len(requests) :
          requests[i] = Head(requests) \/ \E j \in 1 .. Len(requests') : requests'[j] = requests[i]
    <3>1. requests \in Seq(Blob) /\ requests # <<>> /\ requests' = Tail(requests)
      BY SMTT(40), <1>1 DEF Receive
    <3> HIDE DEF Known, OnTheWay, Indexed, TypeOK
    <3>2. ASSUME NEW i \in 1 .. Len(requests), i # 1
          PROVE  i - 1 \in 1 .. Len(requests') /\ requests'[i - 1] = requests[i]
      <4>1. /\ Len(requests) \in Nat /\ Len(requests') = Len(requests) - 1
            /\ \A j \in 1 .. Len(requests) - 1 : requests'[j] = requests[j + 1]
        BY SMTT(40), <3>1
      <4> DEFINE n == Len(requests)
                 m == Len(requests')
                 k == i - 1
      <4>2. k \in 1 .. n - 1 /\ k + 1 = i /\ m = n - 1
        BY SMTT(40), <3>2, <4>1
      <4> QED BY SMTT(40), <4>1, <4>2
    <3>3. requests[1] = Head(requests)
      BY SMTT(40), <3>1
    <3> QED BY Zenon, <3>2, <3>3
  <2>2. Head(requests) \in active'[KindOf(Head(requests))]
        /\ \A k \in Kinds : active[k] \subseteq active'[k]
    BY <1>1 DEF Receive, KindOf
  <2>3. UNCHANGED <<jobs, worker, indexVars>>
    BY <1>1 DEF Receive
  <2> QED
    BY Zenon, <2>1, <2>2, <2>3 DEF KindOf
<1>2. CASE Dispatch
  <2>1. /\ \A i \in 1 .. Len(jobs) : i \in 1 .. Len(jobs') /\ jobs'[i] = jobs[i]
        /\ Len(jobs') \in 1 .. Len(jobs') /\ jobs'[Len(jobs')] = active[full]
    BY <1>2 DEF Dispatch
  <2>2. \A k \in Kinds : k # full => active'[k] = active[k]
    BY <1>2 DEF Dispatch
  <2>3. UNCHANGED <<requests, worker, indexVars>>
    BY <1>2 DEF Dispatch
  <2> QED
    BY Zenon, <2>1, <2>2, <2>3
<1>3. CASE Disconnected \/ DispatchEmpty \/ DispatchFails \/ Join
  BY SMTT(40), <1>3 DEF Disconnected, DispatchEmpty, DispatchFails, Join
<1> QED
  BY <1>1, <1>2, <1>3 DEF MainStep

(* ... nor does one of a worker, unless there is an error.                   *)
LEMMA WorkerKeeps ==
    ASSUME TypeOK, NEW w \in Worker, WorkStep(w), ~Broken', NEW b, Known(b)
    PROVE  Known(b)'
<1> USE DEF callerVars, indexVars, mainVars, Kinds, None
<1> USE DEF Known, OnTheWay, Indexed, TypeOK, Working
<1>0. ~failed /\ ~failed'
  BY DEF WorkStep, Take, Check, Upload, WorkFails, AddPack, SaveIndex, Recycle, Leave, Broken
<1>1. CASE Take(w)
  <2>1. \A i \in 1 .. Len(jobs) :
          jobs[i] = Head(jobs) \/ \E j \in 1 .. Len(jobs') : jobs'[j] = jobs[i]
    <3> SUFFICES ASSUME NEW i \in 1 .. Len(jobs), i # 1
                 PROVE  \E j \in 1 .. Len(jobs') : jobs'[j] = jobs[i]
      BY <1>1 DEF Take
    <3>1. i - 1 \in 1 .. Len(jobs') /\ jobs'[i - 1] = jobs[i]
      BY <1>1 DEF Take
    <3> QED
      BY <3>1
  <2>2. /\ worker'[w].at = "check" /\ worker'[w].pack = Head(jobs)
        /\ \A v \in Worker \ {w} : worker'[v] = worker[v]
        /\ worker[w].at = "recv"
    BY <1>1 DEF Take
  <2>3. UNCHANGED <<requests, active, indexVars>>
    BY SMTT(40), <1>1 DEF Take
  <2> QED
    BY SMTT(40), <2>1, <2>2, <2>3
<1>2. CASE Check(w) \/ Upload(w)
  <2>1. /\ worker'[w].at \in {"upload", "index"} /\ worker'[w].pack = worker[w].pack
        /\ \A v \in Worker \ {w} : worker'[v] = worker[v]
    BY <1>0, <1>2 DEF Check, Upload, WorkerType
  <2>2. UNCHANGED <<requests, active, jobs, unsaved, final, saved>>
    BY SMTT(40), <1>2 DEF Check, Upload
  <2> QED
    BY <2>1, <2>2
<1>3. CASE AddPack(w)
  <2>1. Indexed' = Indexed \cup worker[w].pack
    BY <1>3 DEF AddPack
  <2>2. \A v \in Worker \ {w} : worker'[v] = worker[v]
    BY <1>3 DEF AddPack
  <2>3. UNCHANGED <<requests, active, jobs>>
    BY <1>3 DEF AddPack
  <2> QED
    BY <2>1, <2>2, <2>3
<1>4. CASE SaveIndex(w) \/ Recycle(w) \/ Leave(w)
  <2>1. Indexed \subseteq Indexed'
    BY <1>4 DEF SaveIndex, Recycle, Leave
  <2>2. worker[w].at \in {"persist", "return", "recv"}
        /\ \A v \in Worker \ {w} : worker'[v] = worker[v]
    BY <1>4 DEF SaveIndex, Recycle, Leave
  <2>3. UNCHANGED <<requests, active, jobs>>
    BY SMTT(40), <1>4 DEF SaveIndex, Recycle, Leave
  <2> QED
    BY <2>1, <2>2, <2>3
<1> QED
  BY SMTT(40), <1>0, <1>1, <1>2, <1>3, <1>4 DEF WorkStep, WorkFails

(* Every step keeps: what callers rely on is somewhere between the channel   *)
(* and an index, unless an error will be reported.                           *)
LEMMA CarriedStep ==
    ASSUME IInv, [Next]_vars
    PROVE  Carried'
<1> USE DEF callerVars, indexVars, mainVars, Kinds, None
<1> USE DEF IInv
<1> SUFFICES ASSUME ~Broken'
             PROVE  /\ \A b \in accepted' \cup pending' : Known(b)'
                    /\ \A c \in Caller :
                         call'[c].at \in {"mark", "insert"} => Known(call[c].blob)'
  BY DEF Carried
<1>0. /\ \A b \in accepted \cup pending : Known(b)
      /\ \A c \in Caller : call[c].at \in {"mark", "insert"} => Known(call[c].blob)
  BY BrokenStays DEF Carried
<1>1. ASSUME NEW c \in Caller, CallStep(c) \/ \E b \in Blob : SaveBlob(c, b)
      PROVE  /\ \A b \in accepted' \cup pending' : Known(b)'
             /\ \A d \in Caller :
                  call'[d].at \in {"mark", "insert"} => Known(call[d].blob)'
  <2>1. UNCHANGED <<active, jobs, worker, unsaved, final, saved>>
    BY <1>1 DEF CallStep, SaveBlob, CloneSender, Send, Mark, Insert
  <2>2. ASSUME NEW b, Known(b) PROVE Known(b)'
    <3>1. requests' \in {requests, Append(requests, call[c].blob)}
      BY <1>1 DEF CallStep, SaveBlob, CloneSender, Send, Mark, Insert
    <3>2. CASE requests' = requests
      BY <2>1, <2>2, <3>2 DEF Known, OnTheWay, Indexed
    <3>3. CASE requests' = Append(requests, call[c].blob)
      <4>1. \A i \in 1 .. Len(requests) :
              i \in 1 .. Len(requests') /\ requests'[i] = requests[i]
        BY SMTT(40), <3>3 DEF TypeOK
      <4> QED
        BY <2>1, <2>2, <4>1 DEF Known, OnTheWay, Indexed
    <3> QED
      BY <3>1, <3>2, <3>3
  <2>3. \A d \in Caller \ {c} : call'[d] = call[d]
    BY <1>1 DEF CallStep, SaveBlob, CloneSender, Send, Mark, Insert, Accept, Return, TypeOK
  <2>4. \A b \in accepted' \cup pending' : Known(b)
    <3>1. ASSUME NEW b \in Blob, SaveBlob(c, b) PROVE \A d \in accepted' \cup pending' : Known(d)
      BY <1>0, <3>1 DEF SaveBlob, Accept, ContainsBlob, Known
    <3>2. CASE CloneSender(c) \/ Send(c)
      BY <1>0, <3>2 DEF CloneSender, Send
    <3>3. CASE Mark(c) \/ Insert(c)
      BY SMTT(40), <1>0, <3>3 DEF Mark, Insert, Accept
    <3> QED
      BY <1>1, <3>1, <3>2, <3>3 DEF CallStep
  <2>5. call'[c].at \in {"mark", "insert"} => Known(call[c].blob)'
    <3>1. ASSUME NEW b \in Blob, SaveBlob(c, b) PROVE call'[c].at \notin {"mark", "insert"}
      BY <3>1 DEF SaveBlob, Accept, Return, Idle, TypeOK
    <3>2. CASE CloneSender(c)
      <4>1. CASE call' = [call EXCEPT ![c].at = "send"]
        <5>1. call[c] \in CallType /\ call[c].at # "idle"
          BY <3>2 DEF CloneSender, TypeOK
        <5>2. call'[c] = [call[c] EXCEPT !.at = "send"]
          BY <4>1 DEF TypeOK
        <5>3. call'[c].at = "send"
          BY <5>1, <5>2, CallFields
        <5> QED
          BY <5>3
      <4>2. CASE Return(c)
        BY <4>2 DEF Return, Idle, TypeOK
      <4> QED
        BY <3>2, <4>1, <4>2 DEF CloneSender
    <3>3. CASE Send(c)
      <4>1. CASE Stopped
        BY SMTT(40), <3>3, <4>1 DEF Send, Return, Idle, TypeOK
      <4>2. CASE ~Stopped
        <5>1. call[c] \in CallType /\ call[c].at = "send"
          BY <3>3 DEF Send, TypeOK
        <5>2. call[c].blob \in Blob /\ [call[c] EXCEPT !.at = "mark"].blob = call[c].blob
          BY Zenon, <5>1, CallRecords, CallFields
        <5>3. requests' = Append(requests, call[c].blob) /\ call'[c].blob = call[c].blob
          BY Zenon, <3>3, <4>2, <5>2 DEF Send, TypeOK
        <5>4. Len(requests') \in 1 .. Len(requests') /\ requests'[Len(requests')] = call[c].blob
          BY <5>3, <5>2 DEF TypeOK
        <5> QED
          BY <5>3, <5>4 DEF Known, OnTheWay
      <4> QED
        BY <4>1, <4>2
    <3>4. CASE Mark(c)
      <4>1. CASE ContainsBlob(call[c].blob)
        BY <3>4, <4>1 DEF Mark, Accept, Return, Idle, TypeOK
      <4>2. CASE ~ContainsBlob(call[c].blob)
        <5>1. call[c] \in CallType /\ call[c].at = "mark"
          BY <3>4 DEF Mark, TypeOK
        <5>2. [call[c] EXCEPT !.at = "insert"].blob = call[c].blob
          BY <5>1, CallRecords, CallFields
        <5>3. call'[c].blob = call[c].blob /\ call[c].at = "mark"
          BY Zenon, <3>4, <4>2, <5>1, <5>2 DEF Mark, TypeOK
        <5> QED
          BY <1>0, <2>2, <5>3
      <4> QED
        BY <4>1, <4>2
    <3>5. CASE Insert(c)
      BY <3>5 DEF Insert, Accept, Return, Idle, TypeOK
    <3> QED
      BY SMTT(40), <1>1, <3>1, <3>2, <3>3, <3>4, <3>5 DEF CallStep
  <2>6. \A d \in Caller \ {c} : call'[d].at \in {"mark", "insert"} => Known(call[d].blob)'
    BY <1>0, <2>2, <2>3
  <2> QED
    BY <2>2, <2>4, <2>5, <2>6
<1>2. ASSUME MainStep \/ \E w \in Worker : WorkStep(w)
      PROVE  /\ \A b \in accepted' \cup pending' : Known(b)'
             /\ \A c \in Caller :
                  call'[c].at \in {"mark", "insert"} => Known(call[c].blob)'
  <2>1. call' = call /\ accepted' = accepted /\ pending' \subseteq pending
    BY Zenon, <1>2 DEF MainStep, Receive, Disconnected, Dispatch, DispatchEmpty, DispatchFails, Join,
                WorkStep, Take, Check, Upload, WorkFails, AddPack, SaveIndex, Recycle, Leave
  <2>2. ASSUME NEW b, Known(b) PROVE Known(b)'
    BY SMTT(40), <1>2, <2>2, MainKeeps, WorkerKeeps
  <2> QED
    BY SMTT(40), <1>0, <2>1, <2>2
<1>3. ASSUME FlushStart \/ FlushStep \/ UNCHANGED vars
      PROVE  /\ \A b \in accepted' \cup pending' : Known(b)'
             /\ \A c \in Caller :
                  call'[c].at \in {"mark", "insert"} => Known(call[c].blob)'
  <2>1. UNCHANGED <<callerVars, pending, requests, active, jobs, worker>>
        /\ Indexed' = Indexed
    BY SMTT(40), <1>3 DEF FlushStart, FlushStep, FlushJoin, FlushPersist, FlushFails, vars, Indexed
  <2>2. ASSUME NEW b, Known(b) PROVE Known(b)'
    BY Zenon, <2>1, <2>2 DEF Known, OnTheWay
  <2> QED
    BY SMTT(40), <1>0, <2>1, <2>2
<1> QED
  BY <1>1, <1>2, <1>3 DEF Next

(* Every step keeps the inductive invariant.                                 *)
LEMMA InvStep == IInv /\ [Next]_vars => IInv'
BY TypeStep, CarriedStep, UploadedStep, DrainedStep, DesertedStep, FlushedStep DEF callerVars, indexVars, mainVars, Kinds, None, IInv

(* The inductive invariant holds throughout.                                 *)
LEMMA Invariance == Spec => []IInv
<1> USE DEF callerVars, indexVars, mainVars, Kinds, None
<1>1. Init => IInv
  BY InitInv
<1>2. IInv /\ [Next]_vars => IInv'
  BY InvStep
<1> QED
  BY <1>1, <1>2, PTL DEF Spec

-----------------------------------------------------------------------------
(* Whatever the number of callers and workers and whatever fails, the state  *)
(* of the pack saver is well typed.                                          *)
THEOREM SaverTypeCorrect == Spec => []TypeOK
<1> USE DEF callerVars, indexVars, mainVars, Kinds, None
<1>1. IInv => TypeOK
  BY DEF IInv
<1> QED
  BY <1>1, Invariance, PTL

(* A worker adds a pack to the index only after it has uploaded it, so no    *)
(* index, in memory or in a file, ever names a blob that is not stored.      *)
THEOREM IndexFollowsUpload == Spec => []IndexedStored
<1> USE DEF callerVars, indexVars, mainVars, Kinds, None
<1>1. IInv => IndexedStored
  BY DEF IInv, Uploaded, IndexedStored
<1> QED
  BY <1>1, Invariance, PTL

(* A flush that returns Ok has saved and indexed every blob that a call of   *)
(* encode_and_save_blob was told is saved: for any interleaving of callers,  *)
(* the saver's thread and its workers, and any failure of an upload.         *)
THEOREM FlushIsComplete == Spec => []FlushedComplete
<1> USE DEF callerVars, indexVars, mainVars, Kinds, None
<1>1. IInv => FlushedComplete
  <2> SUFFICES ASSUME IInv, flush = "ok", NEW b \in accepted
               PROVE  b \in saved \cap stored
    BY DEF FlushedComplete
  <2>1. main = "ok" /\ AllDead /\ ~failed /\ Indexed = saved
    BY DEF IInv, Flushed, Deserted, Indexed
  <2>2. requests = <<>> /\ \A k \in Kinds : active[k] = {}
    BY <2>1 DEF IInv, Drained
  <2>3. jobs = <<>>
    BY <2>1, SaverAssumption DEF IInv, Deserted, AllDead
  <2>4. ~OnTheWay(b)
    BY <2>1, <2>2, <2>3 DEF OnTheWay, AllDead
  <2>5. Known(b)
    BY <2>1 DEF IInv, Carried, Broken
  <2> QED
    BY <2>1, <2>4, <2>5 DEF Known, IInv, Uploaded
<1> QED
  BY <1>1, Invariance, PTL

-----------------------------------------------------------------------------
(* The packers go round.                                                     *)

(* The workers that have a packer.                                           *)
Busy == {w \in Worker : worker[w].at \notin {"recv", "dead"}}

(* Of the packers that PackSaver::new makes beside the two active ones each  *)
(* is in one place, or has been dropped.                                     *)
PackersKept == pool + Len(jobs) + Cardinality(Busy) <= NumPackers

(* The busy workers are finitely many, and one more or one less counts one.  *)
LEMMA BusyFinite ==
    /\ IsFiniteSet(Busy) /\ Cardinality(Busy) \in Nat /\ NumPackers \in Nat
    /\ \A w \in Worker : /\ Cardinality(Busy \cup {w}) = IF w \in Busy THEN Cardinality(Busy)
                                                          ELSE Cardinality(Busy) + 1
                         /\ Cardinality(Busy \ {w}) = IF w \in Busy THEN Cardinality(Busy) - 1
                                                      ELSE Cardinality(Busy)
<1> USE DEF callerVars, indexVars, mainVars, Kinds, None
<1>1. IsFiniteSet(Busy)
  BY SaverAssumption, FS_Subset DEF Busy
<1> QED BY <1>1, SaverAssumption, FS_CardinalityType, FS_AddElement, FS_RemoveElement DEF NumPackers

(* Every step keeps: the packers in the pool, in jobs and with workers are   *)
(* no more than were made.                                                   *)
LEMMA PackersStep ==
    ASSUME TypeOK, PackersKept, [Next]_vars
    PROVE  PackersKept'
<1> USE DEF callerVars, indexVars, mainVars, Kinds, None
<1>0. /\ pool \in Nat /\ jobs \in Seq(SUBSET Blob) /\ Len(jobs) \in Nat
      /\ worker \in [Worker -> WorkerType] /\ NumPackers' = NumPackers
  BY DEF TypeOK, NumPackers
<1>1. ASSUME UNCHANGED worker, UNCHANGED <<pool, jobs>> PROVE PackersKept'
  BY <1>0, <1>1 DEF PackersKept, Busy
<1>2. ASSUME NEW c \in Caller, CallStep(c) \/ \E b \in Blob : SaveBlob(c, b) PROVE PackersKept'
  BY SMTT(40), <1>1, <1>2 DEF CallStep, SaveBlob, CloneSender, Send, Mark, Insert
<1>3. CASE MainStep
  <2>1. CASE Dispatch
    <3>1. /\ pool' = pool - 1 /\ Busy' = Busy
          /\ jobs' = Append(jobs, active[full]) /\ active[full] \in SUBSET Blob
      BY SMTT(40), <2>1 DEF Dispatch, Busy, TypeOK
    <3>2. Len(jobs') = Len(jobs) + 1
      BY <1>0, <3>1
    <3> QED BY <1>0, <3>1, <3>2, BusyFinite DEF PackersKept
  <2> QED BY <1>1, <1>3, <2>1 DEF MainStep, Receive, Disconnected, DispatchEmpty, DispatchFails, Join
<1>4. ASSUME NEW w \in Worker, WorkStep(w) PROVE PackersKept'
  <2>1. CASE Take(w)
    <3>1. worker'[w].at = "check" /\ \A v \in Worker \ {w} : worker'[v] = worker[v]
      BY <1>0, <2>1 DEF Take
    <3>2. Busy' = Busy \cup {w} /\ w \notin Busy
      BY <2>1, <3>1 DEF Busy, Take, Working
    <3>3. Len(jobs') = Len(jobs) - 1 /\ pool' = pool
      BY <1>0, <2>1 DEF Take
    <3> QED BY SMTT(40), <1>0, <3>2, <3>3, BusyFinite DEF PackersKept
  <2>2. CASE Check(w)
    <3>1. Busy' = Busy \/ (w \in Busy /\ Busy' = Busy \ {w})
      <4>1. worker'[w].at \in {"dead", "upload"} /\ \A v \in Worker \ {w} : worker'[v] = worker[v]
        BY <1>0, <2>2 DEF Check, Dead, WorkerType
      <4> QED BY <2>2, <4>1 DEF Busy, Check, Working
    <3>2. UNCHANGED <<pool, jobs>>
      BY SMTT(40), <2>2 DEF Check
    <3> QED BY <1>0, <3>1, <3>2, BusyFinite DEF PackersKept
  <2>3. CASE WorkFails(w) \/ Recycle(w)
    <3>1. /\ worker'[w].at \in {"dead", "recv"} /\ \A v \in Worker \ {w} : worker'[v] = worker[v]
          /\ worker[w].at \in {"upload", "persist", "return"}
          /\ pool' = pool + 1 /\ UNCHANGED jobs
      BY SMTT(40), <1>0, <2>3 DEF WorkFails, Recycle, Dead, Waiting, Working
    <3>2. Busy' = Busy \ {w} /\ w \in Busy
      BY <3>1 DEF Busy
    <3> QED BY SMTT(40), <1>0, <3>1, <3>2, BusyFinite DEF PackersKept
  <2>4. CASE Upload(w) \/ AddPack(w) \/ SaveIndex(w) \/ Leave(w)
    <3>1. /\ worker'[w].at \in {"recv", "dead"} <=> worker[w].at \in {"recv", "dead"}
          /\ \A v \in Worker \ {w} : worker'[v] = worker[v]
          /\ UNCHANGED <<pool, jobs>>
      <4>1. CASE Upload(w)
        BY <1>0, <4>1 DEF Upload, Working, WorkerType
      <4>2. CASE AddPack(w)
        BY Zenon, <1>0, <4>2 DEF AddPack, Working, WorkerType
      <4>3. CASE SaveIndex(w) \/ Leave(w)
        BY <1>0, <4>3 DEF SaveIndex, Leave, Working, WorkerType, Dead
      <4> QED BY <2>4, <4>1, <4>2, <4>3
    <3>2. Busy' = Busy
      BY <3>1 DEF Busy
    <3> QED BY SMTT(40), <1>0, <3>1, <3>2 DEF PackersKept
  <2> QED BY SMTT(40), <1>4, <2>1, <2>2, <2>3, <2>4 DEF WorkStep
<1>5. CASE FlushStart \/ FlushStep
  BY <1>1, <1>5 DEF FlushStart, FlushStep, FlushJoin, FlushPersist, FlushFails
<1>6. CASE UNCHANGED vars
  BY <1>1, <1>6 DEF vars
<1> QED BY <1>2, <1>3, <1>4, <1>5, <1>6 DEF Next

(* No worker holds a packer before the first one is full.                    *)
LEMMA PackersInit == Init => PackersKept
<1> USE DEF callerVars, indexVars, mainVars, Kinds, None
<1> SUFFICES ASSUME Init PROVE PackersKept
  OBVIOUS
<1>1. Busy = {} /\ pool = NumPackers /\ Len(jobs) = 0
  BY DEF Init, Busy, Waiting
<1>2. Cardinality({}) = 0
  BY FS_EmptySet
<1> QED BY <1>1, <1>2, BusyFinite DEF PackersKept

(* Neither the channel of full packers nor that of empty ones can be full    *)
(* when a packer is sent, for any number of workers and whatever fails: the  *)
(* saver's thread and the workers never wait for each other in a circle.     *)
THEOREM ChannelsHaveRoom == Spec => []SendersNeverWait
<1> USE DEF callerVars, indexVars, mainVars, Kinds, None
<1>1. Spec => []PackersKept
  <2>1. TypeOK /\ PackersKept /\ [Next]_vars => PackersKept'
    BY PackersStep
  <2> QED BY <2>1, PackersInit, SaverTypeCorrect, PTL DEF Spec
<1>2. TypeOK /\ PackersKept => SendersNeverWait
  BY BusyFinite DEF TypeOK, PackersKept, SendersNeverWait
<1> QED BY <1>1, <1>2, SaverTypeCorrect, PTL
=============================================================================

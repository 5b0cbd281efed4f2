------------------------------- MODULE Verify -------------------------------
(***************************************************************************)
(* mapache verify (commands/cmd_verify.rs, repository/verify.rs): the      *)
(* index against the packs, the contents of packs, and the references of   *)
(* snapshots, several packs and snapshots at a time.  The bytes of a pack  *)
(* are cells: cell i holds i, or -1 if it is damaged; the last cell is the *)
(* footer.  A blob is a number; a tree is a blob that refers to others.    *)
(***************************************************************************)
EXTENDS Integers, Sequences, FiniteSets, SequencesExt, FiniteSetsExt, Functions

CONSTANTS
    VerifyJobs,     \* [packs, index, snaps, refs, extra, read, failEarly, sample,
                    \*   parallel, faults]; a pack is [blobs, cells], a blob of it
                    \*   [id, offset, length]; index leads from blobs to packs,
                    \*   refs from trees to blobs; extra is a snapshot that a
                    \*   backup adds meanwhile, with its blobs
    ChunkCells,     \* CHUNK_SIZE
    BatchCells      \* MAX_VERIFICATION_BATCH_SIZE

VARIABLE vf

SnapshotTasks == 4

-----------------------------------------------------------------------------
(* batch_verify and the loop of verify_pack_inline: a blob's cells decrypt   *)
(* to its contents or not.                                                   *)
Intact(blob, data) == data = [k \in 1 .. blob.length |-> blob.offset + k]

Verdict(batch) ==
    [good |-> {b[1].id : b \in {c \in Range(batch) : Intact(c[1], c[2])}},
     corrupt |-> {b[1].id : b \in {c \in Range(batch) : ~Intact(c[1], c[2])}}]

Both2(v, w) == [good |-> v.good \union w.good, corrupt |-> v.corrupt \union w.corrupt]

VerifyPackInline(pack) ==
    Verdict([k \in DOMAIN pack.blobs |->
               LET b == pack.blobs[k]
               IN  <<b, IF b.offset + b.length > Len(pack.cells) THEN <<>>
                        ELSE SubSeq(pack.cells, b.offset + 1, b.offset + b.length)>>])

(* verify_pack_streaming: state of the loop over the chunks.                 *)
StreamInit == [next |-> 1, acc |-> <<>>, pending |-> <<>>, size |-> 0, verdict |-> [good |-> {}, corrupt |-> {}]]

Cells(pack, from, to) == SubSeq(pack.cells, from + 1, to)

(* A blob joins the batch; a large batch goes to the verifier.               *)
AddBlob(st, blob, data) ==
    LET pending == Append(st.pending, <<blob, data>>)
    IN  IF st.size + Len(data) >= BatchCells
        THEN [st EXCEPT !.next = @ + 1, !.acc = <<>>, !.pending = <<>>, !.size = 0,
                        !.verdict = Both2(@, Verdict(pending))]
        ELSE [st EXCEPT !.next = @ + 1, !.acc = <<>>, !.pending = pending, !.size = @ + Len(data)]

(* The blobs of one chunk, cs to ce; the start of a blob that goes on in the *)
(* next chunk is kept.                                                       *)
RECURSIVE ChunkBlobs(_, _, _, _)
ChunkBlobs(pack, cs, ce, st) ==
    IF st.next > Len(pack.blobs) \/ pack.blobs[st.next].offset >= ce THEN st
    ELSE LET b == pack.blobs[st.next]
             be == b.offset + b.length
             acc == st.acc \o Cells(pack, Max({b.offset, cs}), Min({be, ce}))
         IN  IF st.acc = <<>> /\ b.offset >= cs /\ be <= ce
             THEN ChunkBlobs(pack, cs, ce, AddBlob(st, b, Cells(pack, b.offset, be)))
             ELSE IF Len(acc) = b.length
             THEN ChunkBlobs(pack, cs, ce, AddBlob(st, b, acc))
             ELSE [st EXCEPT !.acc = acc]

DataEnd(pack) == IF pack.blobs = <<>> THEN 0 ELSE Last(pack.blobs).offset + Last(pack.blobs).length

RECURSIVE StreamChunks(_, _, _)
StreamChunks(pack, cs, st) ==
    IF cs >= DataEnd(pack) THEN Both2(st.verdict, Verdict(st.pending))
    ELSE LET ce == Min({cs + ChunkCells, DataEnd(pack)})
         IN  StreamChunks(pack, ce, ChunkBlobs(pack, cs, ce, st))

(* verify_pack: large packs are streamed.  The hash of the file shows bit    *)
(* rot anywhere; a damaged footer is an error.                               *)
VerifyPack(pack) ==
    LET n == Len(pack.cells)
        verdict == IF n <= ChunkCells THEN VerifyPackInline(pack)
                   ELSE StreamChunks(pack, 0, StreamInit)
    IN  [ok |-> pack.cells[n] # -1, rot |-> -1 \in Range(pack.cells),
         good |-> verdict.good, corrupt |-> verdict.corrupt]

PackFails(stats) == ~stats.ok \/ stats.rot \/ stats.corrupt # {}

-----------------------------------------------------------------------------
VerifyFault(f) == f \in vf.job.faults
VfAt(pc) == vf.pc = pc /\ vf.result = "running"
VerifyReturns(x, result) == [x EXCEPT !.result = result]

Packs == DOMAIN vf.job.packs

(* --sample: that many packs, at least one; without packs there is no such   *)
(* number.                                                                   *)
Samples ==
    IF vf.job.sample = 0 THEN {Packs}
    ELSE {s \in SUBSET Packs : Cardinality(s) = Min({vf.job.sample, Cardinality(Packs)})}

(* run_with_repo: the index is loaded, the packs are listed and sampled, and *)
(* the index is held against them.                                           *)
CheckIndexConsistency ==
    /\ VfAt("start")
    /\ LET missing == Range(vf.index) \ Packs
       IN  \E sampled \in Samples :
             vf' = IF Packs = {} /\ vf.job.sample > 0 THEN VerifyReturns(vf, "panicked")
                   ELSE IF missing # {} /\ vf.job.failEarly THEN VerifyReturns(vf, "failed")
                   ELSE [vf EXCEPT !.pc = IF vf.job.read THEN "packs" ELSE "snaps",
                                   !.todo = sampled, !.sampled = sampled]

(* verify_packs_physically: packs in any order, several at a time.           *)
StartPack ==
    /\ VfAt("packs") /\ ~vf.stop /\ ~vf.signal
    /\ Cardinality(vf.flight) < vf.job.parallel
    /\ \E p \in vf.todo : vf' = [vf EXCEPT !.todo = @ \ {p}, !.flight = @ \union {p}]

EndPack ==
    /\ VfAt("packs")
    /\ \E p \in vf.flight :
         LET stats == VerifyPack(vf.job.packs[p])
         IN  vf' = [vf EXCEPT !.flight = @ \ {p}, !.stats = @ @@ (p :> stats),
                              !.badPacks = IF PackFails(stats) THEN @ + 1 ELSE @,
                              !.corrupt = IF stats.ok THEN @ \union stats.corrupt ELSE @,
                              !.stop = @ \/ (vf.job.failEarly /\ PackFails(stats))]

PacksOver ==
    /\ VfAt("packs") /\ vf.flight = {} /\ (vf.todo = {} \/ vf.stop \/ vf.signal)
    /\ vf' = IF vf.signal THEN VerifyReturns(vf, "interrupted")
             ELSE [vf EXCEPT !.pc = IF vf.stop THEN "impact" ELSE "snaps"]

(* verify_snapshots_logically: the snapshots are loaded.                     *)
ListSnapshots ==
    /\ VfAt("snaps")
    /\ LET broken == {s \in DOMAIN vf.snaps : vf.snaps[s] = 0}
       IN  vf' = IF vf.signal THEN VerifyReturns(vf, "interrupted")
                 ELSE IF broken # {} /\ vf.job.failEarly THEN VerifyReturns(vf, "snapshots")
                 ELSE [vf EXCEPT !.pc = "refs", !.badSnaps = Cardinality(broken),
                                 !.left = DOMAIN vf.snaps \ broken, !.listed = DOMAIN vf.snaps]

(* The snapshots start in their order, four at a time; verify_snapshot_refs: *)
(* the root must be in the index.                                            *)
StartSnapshot ==
    /\ VfAt("refs") /\ ~vf.stop /\ ~vf.signal /\ vf.left # {}
    /\ Cardinality(DOMAIN vf.walks) < SnapshotTasks
    /\ LET s == Min(vf.left)
           walk == IF vf.snaps[s] \in DOMAIN vf.index
                   THEN [stack |-> <<vf.snaps[s]>>, tree |-> 0, state |-> "walking"]
                   ELSE [stack |-> <<>>, tree |-> 0, state |-> "bad"]
       IN  vf' = [vf EXCEPT !.left = @ \ {s}, !.walks = @ @@ (s :> walk)]

(* Mutant of ClaimTree: the references of a claimed tree are claimed too.    *)
ClaimTreeEager(s) ==
    LET tree == Last(vf.walks[s].stack)
    IN  /\ VfAt("refs") /\ vf.walks[s].tree = 0 /\ vf.walks[s].stack # <<>>
        /\ vf' = IF tree \in vf.seen THEN [vf EXCEPT !.walks[s].stack = Front(@)]
                 ELSE [vf EXCEPT !.walks[s].stack = Front(@), !.walks[s].tree = tree,
                                 !.seen = @ \union {tree} \union vf.job.refs[tree]]

(* A tree is claimed by one of the snapshots that reach it.                  *)
ClaimTree(s) ==
    LET tree == Last(vf.walks[s].stack)
    IN  /\ VfAt("refs") /\ vf.walks[s].tree = 0 /\ vf.walks[s].stack # <<>>
        /\ vf' = IF tree \in vf.seen THEN [vf EXCEPT !.walks[s].stack = Front(@)]
                 ELSE [vf EXCEPT !.walks[s].stack = Front(@), !.walks[s].tree = tree,
                                 !.seen = @ \union {tree}]

Readable(blob) ==
    /\ vf.index[blob] \in Packs
    /\ blob \notin VerifyPackInline(vf.job.packs[vf.index[blob]]).corrupt

PackThere(blob) == vf.index[blob] \in Packs

(* Its references are looked up; subtrees go on the stack.                   *)
CheckTree(s) ==
    LET tree == vf.walks[s].tree
        refs == vf.job.refs[tree]
        sound == Readable(tree) /\ \A r \in refs : r \in DOMAIN vf.index /\ PackThere(r)
    IN  /\ VfAt("refs") /\ tree # 0
        /\ vf' = IF sound
                 THEN [vf EXCEPT !.walks[s].tree = 0,
                                 !.walks[s].stack = @ \o SetToSeq(refs \intersect DOMAIN vf.job.refs)]
                 ELSE [vf EXCEPT !.walks[s] = [stack |-> <<>>, tree |-> 0, state |-> "bad"]]

(* The results are taken in the order of the snapshots.                      *)
CollectResult ==
    /\ VfAt("refs") /\ DOMAIN vf.walks # {}
    /\ LET s == Min(DOMAIN vf.walks)
           bad == vf.walks[s].state = "bad"
       IN  /\ vf.walks[s].tree = 0 /\ vf.walks[s].stack = <<>>
           /\ vf' = [vf EXCEPT !.walks = Restrict(@, DOMAIN @ \ {s}),
                               !.badSnaps = IF bad THEN @ + 1 ELSE @,
                               !.stop = @ \/ (bad /\ vf.job.failEarly)]

RefsOver ==
    /\ VfAt("refs") /\ DOMAIN vf.walks = {} /\ (vf.left = {} \/ vf.stop \/ vf.signal)
    /\ vf' = [vf EXCEPT !.pc = "impact"]

(* The blobs that some blobs lead to.                                        *)
RECURSIVE Reach(_)
Reach(blobs) ==
    LET more == blobs \union UNION {vf.job.refs[t] : t \in blobs \intersect DOMAIN vf.job.refs}
    IN  IF more = blobs THEN blobs ELSE Reach(more)

(* The files of the snapshots that hold corrupt blobs are named; a snapshot  *)
(* is given up at the first tree that cannot be read.                        *)
RECURSIVE Walkable(_)
Walkable(tree) ==
    /\ tree \in DOMAIN vf.index /\ Readable(tree)
    /\ \A t \in vf.job.refs[tree] \intersect DOMAIN vf.job.refs : Walkable(t)

AnalyzeImpact ==
    /\ VfAt("impact")
    /\ vf' = [vf EXCEPT !.pc = "report",
                        !.impact = {<<s, b>> \in (DOMAIN vf.snaps) \X vf.corrupt :
                                      vf.snaps[s] # 0 /\ Walkable(vf.snaps[s])
                                      /\ b \in Reach({vf.snaps[s]}) \ DOMAIN vf.job.refs}]

(* emit_final_report.                                                        *)
FinalReport ==
    /\ VfAt("report")
    /\ vf' = VerifyReturns(vf, IF vf.badPacks > 0 THEN "packs" ELSE IF vf.badSnaps > 0 THEN "snapshots" ELSE "ok")

-----------------------------------------------------------------------------
(* A backup beside, which holds a shared lock as well.                       *)
BackupBeside ==
    /\ VerifyFault("backup") /\ ~vf.grown /\ vf.result = "running"
    /\ vf' = [vf EXCEPT !.grown = TRUE, !.snaps = @ @@ (9 :> vf.job.extra),
                        !.index = IF vf.pc = "start" THEN @ @@ (vf.job.extra :> 1) ELSE @]

VerifySignal ==
    /\ VerifyFault("interrupt") /\ ~vf.signal /\ vf.result = "running"
    /\ vf' = [vf EXCEPT !.signal = TRUE]

VerifyRests == vf.result # "running" /\ UNCHANGED vf

VerifyStart(job) ==
    [job |-> job, pc |-> "start", index |-> job.index, snaps |-> job.snaps, todo |-> {},
     sampled |-> {}, flight |-> {}, stats |-> <<>>, badPacks |-> 0, corrupt |-> {}, stop |-> FALSE,
     left |-> {}, listed |-> {}, walks |-> <<>>, seen |-> {}, badSnaps |-> 0, impact |-> {},
     signal |-> FALSE, grown |-> FALSE, result |-> "running"]
VerifyInit == \E job \in VerifyJobs : vf = VerifyStart(job)

VerifyNext ==
    \/ CheckIndexConsistency \/ StartPack \/ EndPack \/ PacksOver \/ ListSnapshots \/ StartSnapshot
    \/ CollectResult \/ RefsOver \/ AnalyzeImpact \/ FinalReport \/ BackupBeside \/ VerifySignal \/ VerifyRests
    \/ \E s \in DOMAIN vf.walks : ClaimTree(s) \/ CheckTree(s)

VerifySpec == VerifyInit /\ [][VerifyNext]_vf /\ WF_vf(VerifyNext)

-----------------------------------------------------------------------------
(* Properties.                                                               *)

Restorable(s) ==
    /\ vf.snaps[s] # 0
    /\ \A b \in Reach({vf.snaps[s]}) : /\ b \in DOMAIN vf.index /\ vf.index[b] \in Packs
                                       /\ b \in DOMAIN vf.job.refs => Readable(b)

(* verify: when it passes, every blob that a listed snapshot reaches is in   *)
(* the index and in a pack that exists, although a tree is looked at for one *)
(* of its snapshots only; and with --read-packs all packs are intact.  An    *)
(* interrupt among the snapshots is taken for their end.                     *)
VerifySound ==
    vf.result = "ok" /\ ~vf.signal =>
      /\ \A s \in vf.listed : Restorable(s)
      /\ vf.job.read => \A p \in vf.sampled : -1 \notin Range(vf.job.packs[p].cells)

(* verify: it fails only if a pack is damaged or missing or a snapshot       *)
(* cannot be restored; or a backup ended between the listing of the index    *)
(* and that of the snapshots.                                                *)
NoFalseAlarm ==
    vf.result \in {"failed", "packs", "snapshots"} =>
      \/ vf.grown
      \/ \E s \in DOMAIN vf.snaps : ~Restorable(s)
      \/ \E p \in Packs : -1 \in Range(vf.job.packs[p].cells)
      \/ Range(vf.index) \ Packs # {}

(* verify_pack_streaming: however chunks and batches cut a pack, every blob  *)
(* of it is found intact or corrupt, as reading the pack at once finds it.   *)
StreamAgrees ==
    \A p \in DOMAIN vf.stats :
      LET inline == VerifyPackInline(vf.job.packs[p])
      IN  vf.stats[p].good = inline.good /\ vf.stats[p].corrupt = inline.corrupt

(* The impact of corruption: every file of a snapshot with readable trees    *)
(* that holds a blob found corrupt in any of the packs is named.             *)
ImpactNamed ==
    vf.result = "packs" /\ ~vf.grown =>
      \A s \in DOMAIN vf.snaps, p \in DOMAIN vf.stats :
        vf.stats[p].ok /\ Restorable(s) =>
          \A b \in vf.stats[p].corrupt \intersect Reach({vf.snaps[s]}) :
            b \in DOMAIN vf.job.refs \/ <<s, b>> \in vf.impact

(* verify.rs, cmd_verify.rs: the verdict on a repository is right both ways, *)
(* and so is the list of blobs and files hit by corruption, whatever order   *)
(* packs, chunks and snapshots are looked at in.                             *)
VerdictRight ==
    /\ VerifySound
    /\ NoFalseAlarm
    /\ StreamAgrees
    /\ ImpactNamed
=============================================================================

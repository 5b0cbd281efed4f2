----------------------------- MODULE RewriteCmd -----------------------------
(***************************************************************************)
(* Commands that replace snapshots by rewritten ones, amend                *)
(* (commands/cmd_amend.rs) and rechunk (commands/cmd_rechunk.rs), both     *)
(* built on rewrite_snapshot_tree (common/mod.rs); and rebuild-index       *)
(* (commands/cmd_rebuild_index.rs), which replaces the index files by a    *)
(* new one from the footers of all packs.                                  *)
(***************************************************************************)
EXTENDS RepoBase

Rewriting(s, pc) == ses[s].cmd \in {"amend", "rechunk"} /\ ses[s].pc = pc

(* left: the snapshots to rewrite; amend takes one, or all with --all.       *)
RewriteStart(s) ==
    \E c \in {"amend", "rechunk"} :
    \E list \in {LiveSnaps} \cup (IF c = "amend" THEN {{i} : i \in LiveSnaps} ELSE {}) :
      /\ Start(s, c, [Idle EXCEPT !.cmd = c, !.pc = "next", !.mem = LoadIndex, !.left = list])
      /\ UNCHANGED <<packs, indexes, snaps>>

(* What a rewritten snapshot may reference: amend drops files and writes new *)
(* trees, rechunk writes everything anew.                                    *)
Rewritten(c, blobs) ==
    {w \in (SUBSET Blob) \ {{}} : c = "amend" => w \ Tree \subseteq blobs}

(* Mutant of Handed: the test for known blobs is inverted.                   *)
HandedKnown(c, m, w) == {b \in w : Get(m, b) # NoPack /\ (c = "amend" => b \in Tree)}

(* What is handed to the pack saver: amend only writes trees.                *)
Handed(c, m, w) == {b \in w : Get(m, b) = NoPack /\ (c = "amend" => b \in Tree)}

(* Rewriting loads the trees of a snapshot; rechunk loads all of it.         *)
Readable(s, i) ==
    \A b \in snaps[i].blobs :
      b \in Tree \/ ses[s].cmd = "rechunk" =>
        /\ Get(ses[s].mem, b) # NoPack
        /\ b \in packs[Get(ses[s].mem, b)]

(* The next snapshot is rewritten, unless interrupted; old holds it.         *)
RewriteOne(s) ==
    /\ Rewriting(s, "next")
    /\ ~ses[s].stop
    /\ \E i \in ses[s].left : \E w \in Rewritten(ses[s].cmd, snaps[i].blobs) :
         /\ Readable(s, i)
         /\ ses' = [ses EXCEPT ![s].pc = IF ses[s].cmd = "amend" THEN "pack" ELSE "save",
                               ![s].want = w,
                               ![s].todo = @ \cup Handed(ses[s].cmd, ses[s].mem, w),
                               ![s].old = {i},
                               ![s].left = @ \ {i}]
    /\ UNCHANGED <<packs, indexes, snaps, lock>>

(* amend without excludes: only the description or the tags change, and no   *)
(* tree is loaded.                                                           *)
AmendLabels(s) ==
    /\ Running(s, "amend", "next")
    /\ ~ses[s].stop
    /\ \E i \in ses[s].left :
         ses' = [ses EXCEPT ![s].pc = "save", ![s].want = snaps[i].blobs,
                            ![s].old = {i}, ![s].left = @ \ {i}]
    /\ UNCHANGED <<packs, indexes, snaps, lock>>

(* The pack saver works in the background.                                   *)
RewritePack(s) ==
    /\ ses[s].cmd \in {"amend", "rechunk"}
    /\ WritePack(s) \/ Autosave(s)

(* amend flushes before it saves each snapshot; rechunk once, at its end.    *)
RewriteFlush(s) ==
    /\ \/ Rewriting(s, "pack")
       \/ Running(s, "rechunk", "next") /\ ses[s].left = {}
    /\ ses[s].todo = {}
    /\ Persist(s, [ses[s] EXCEPT !.pc = IF ses[s].cmd = "amend" THEN "save" ELSE "end"])
    /\ UNCHANGED <<packs, snaps, lock>>

(* save_file writes the new snapshot.                                        *)
RewriteSave(s) ==
    /\ Rewriting(s, "save")
    /\ \E i \in FreshSnaps :
         snaps' = [snaps EXCEPT ![i] = [at |-> "live", blobs |-> ses[s].want]]
    /\ ses' = [ses EXCEPT ![s].pc = "replace"]
    /\ UNCHANGED <<packs, indexes, lock>>

(* Then the old one is deleted, unless amend is told to keep it.             *)
RewriteReplace(s) ==
    /\ Rewriting(s, "replace")
    /\ \/ snaps' = [i \in SnapId |-> IF i \in ses[s].old THEN NoSnap ELSE snaps[i]]
       \/ ses[s].cmd = "amend" /\ UNCHANGED snaps
    /\ ses' = [ses EXCEPT ![s].pc = "next", ![s].old = {}]
    /\ UNCHANGED <<packs, indexes, lock>>

(* The command returns: finished, interrupted, or unable to read a blob.     *)
(* Nothing is flushed, so what the pack saver still holds is lost.           *)
RewriteEnd(s) ==
    /\ \/ Rewriting(s, "end")
       \/ Running(s, "amend", "next") /\ ses[s].left = {}
       \/ Rewriting(s, "next") /\ ses[s].stop /\ ses[s].left # {}
       \/ Rewriting(s, "next") /\ \E i \in ses[s].left : ~Readable(s, i)
    /\ Finish(s)
    /\ UNCHANGED <<packs, indexes, snaps>>

RewriteStep(s) ==
    \/ RewriteOne(s) \/ AmendLabels(s) \/ RewritePack(s) \/ RewriteFlush(s)
    \/ RewriteSave(s) \/ RewriteReplace(s) \/ RewriteEnd(s)

-----------------------------------------------------------------------------
(* rebuild-index.                                                            *)

Rebuilding(s, pc) == Running(s, "rebuild_index", pc)

(* list_packs.                                                               *)
RebuildStart(s) ==
    /\ Start(s, "rebuild_index", [Idle EXCEPT !.cmd = "rebuild_index", !.pc = "list",
                                    !.left = {p \in PackId : packs[p] # {}}])
    /\ UNCHANGED <<packs, indexes, snaps>>

(* list_index_ids.                                                           *)
RebuildList(s) ==
    /\ Rebuilding(s, "list")
    /\ ses' = [ses EXCEPT ![s].old = OnDisk, ![s].pc = "scan"]
    /\ UNCHANGED <<packs, indexes, snaps, lock>>

(* The footers are read and added in the order of a hash set: one of the     *)
(* packs with a blob gets it.  A pack that cannot be read is skipped.        *)
RebuildScan(s) ==
    /\ Rebuilding(s, "scan")
    /\ ~ses[s].stop
    /\ \E f \in [Blob -> PackId \cup {NoPack}] :
         /\ \A b \in Blob :
              LET holding == {p \in ses[s].left : b \in packs[p]}
              IN  IF holding = {} THEN f[b] = NoPack ELSE f[b] \in holding
         /\ ses' = [ses EXCEPT ![s].mem = [NoIndex EXCEPT !.pend = f], ![s].pc = "persist",
                               ![s].left = {}]
    /\ UNCHANGED <<packs, indexes, snaps, lock>>

RebuildPersist(s) ==
    /\ Rebuilding(s, "persist")
    /\ Persist(s, [ses[s] EXCEPT !.old = @ \ ses[s].mem.files, !.pc = "sweep"])
    /\ UNCHANGED <<packs, snaps, lock>>

(* A deletion that fails is only reported.                                   *)
RebuildSweep(s) ==
    /\ Rebuilding(s, "sweep")
    /\ \E i \in ses[s].old :
         /\ ses' = [ses EXCEPT ![s].old = @ \ {i}]
         /\ \/ indexes' = [indexes EXCEPT ![i] = Empty]
            \/ "storage" \in Faults /\ UNCHANGED indexes
    /\ UNCHANGED <<packs, snaps, lock>>

RebuildEnd(s) ==
    /\ \/ Rebuilding(s, "sweep") /\ ses[s].old = {}
       \/ Rebuilding(s, "scan") /\ ses[s].stop
    /\ Finish(s)
    /\ UNCHANGED <<packs, indexes, snaps>>

RebuildStep(s) ==
    \/ RebuildList(s) \/ RebuildScan(s) \/ RebuildPersist(s) \/ RebuildSweep(s)
    \/ RebuildEnd(s)
=============================================================================

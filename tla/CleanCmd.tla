------------------------------ MODULE CleanCmd ------------------------------
(***************************************************************************)
(* The garbage collector (repository/gc.rs), run by clean                  *)
(* (commands/cmd_clean.rs) and by forget --clean.                          *)
(***************************************************************************)
EXTENDS RepoBase

Cleaning(s, pc) == ses[s].cmd \in {"clean", "forget_clean"} /\ ses[s].pc = pc

CleanGoto(s, pc) == ses' = [ses EXCEPT ![s].pc = pc]

CleanStart(s) ==
    /\ Start(s, "clean", [Idle EXCEPT !.cmd = "clean", !.pc = "load"])
    /\ UNCHANGED <<packs, indexes, snaps>>

(* run_with_repo reloads the master index.                                   *)
CleanLoad(s) ==
    /\ Cleaning(s, "load")
    /\ ses' = [ses EXCEPT ![s].mem = LoadIndex, ![s].pc = "scan"]
    /\ UNCHANGED <<packs, indexes, snaps, lock>>

(* Tree::load_from_repo through the loaded index.                            *)
Loadable(m, b) == Get(m, b) # NoPack /\ b \in packs[Get(m, b)]

(* Mutant of UnusedPacks: only packs that no index entry names.              *)
UnindexedPacks(m) ==
    {p \in PackId : packs[p] # {} /\ \A e \in AllEntries(m) : e[2] # p}

(* Mutant of UnusedPacks: packs with some unreferenced blob.                 *)
GarbagePacks(m) == {p \in PackId : \E b \in packs[p] : b \notin Referenced}

(* Packs on disk that hold no blob where the index looks for a referenced    *)
(* one.                                                                      *)
UnusedPacks(m) ==
    {p \in PackId : packs[p] # {} /\ \A b \in Referenced : Get(m, b) # p}

(* Packs the index gives an unreferenced blob, if they exceed the tolerance, *)
(* and small packs if there are several.  Sizes are not modelled: any of     *)
(* them may be above or below the thresholds.                                *)
ObsoletePacks(m) ==
    LET indexed == {e[2] : e \in AllEntries(m)}
        garbage == {e[2] : e \in {x \in AllEntries(m) : x[1] \notin Referenced}}
    IN  {g \cup t : g \in SUBSET garbage, t \in {x \in SUBSET indexed : Cardinality(x) # 1}}

(* scan: every tree of every live snapshot is loaded.  execute starts by     *)
(* asking for an interrupt once more and lists the dropped snapshots.  want  *)
(* keeps the referenced blobs.                                               *)
CleanScan(s) ==
    /\ Cleaning(s, "scan")
    /\ ~ses[s].stop
    /\ \A b \in Referenced \cap Tree : Loadable(ses[s].mem, b)
    /\ \E ob \in ObsoletePacks(ses[s].mem) :
         ses' = [ses EXCEPT ![s].pc = "trash",
                            ![s].want = Referenced,
                            ![s].unused = UnusedPacks(ses[s].mem),
                            ![s].obsolete = ob,
                            ![s].old = ses[s].mem.files,
                            ![s].left = {i \in SnapId : snaps[i].at = "dropped"}]
    /\ UNCHANGED <<packs, indexes, snaps, lock>>

(* scan fails, or is interrupted, and nothing has changed.                   *)
CleanScanFails(s) ==
    /\ Cleaning(s, "scan")
    /\ ses[s].stop \/ \E b \in Referenced \cap Tree : ~Loadable(ses[s].mem, b)
    /\ CleanGoto(s, "end")
    /\ UNCHANGED <<packs, indexes, snaps, lock>>

(* Mutant of CleanTrash: dropped snapshots are kept.                         *)
CleanTrashKept(s) ==
    /\ Cleaning(s, "trash")
    /\ ses' = [ses EXCEPT ![s].pc = "unused", ![s].left = ses[s].unused]
    /\ UNCHANGED <<packs, indexes, snaps, lock>>

(* delete_trash_files: a file that cannot be removed only causes a warning.  *)
CleanTrash(s) ==
    /\ Cleaning(s, "trash")
    /\ \/ \E i \in ses[s].left :
            /\ ses' = [ses EXCEPT ![s].left = @ \ {i}]
            /\ \/ snaps' = [snaps EXCEPT ![i] = IF @.at = "dropped" THEN NoSnap ELSE @]
               \/ "storage" \in Faults /\ UNCHANGED snaps
       \/ /\ ses[s].left = {}
          /\ ses' = [ses EXCEPT ![s].pc = "unused", ![s].left = ses[s].unused]
          /\ UNCHANGED snaps
    /\ UNCHANGED <<packs, indexes, lock>>

(* delete_unused_packs: a failure ends the command.                          *)
CleanDeleteUnused(s) ==
    /\ Cleaning(s, "unused")
    /\ \E p \in ses[s].left :
         \/ /\ packs[p] # {}
            /\ packs' = [packs EXCEPT ![p] = {}]
            /\ ses' = [ses EXCEPT ![s].left = @ \ {p}]
         \/ /\ packs[p] = {} \/ "window" \in Faults
            /\ CleanGoto(s, "end")
            /\ UNCHANGED packs
    /\ UNCHANGED <<indexes, snaps, lock>>

(* The locators of referenced blobs in obsolete packs.                       *)
ToRepack(s, m) == {e \in AllEntries(m) : e[1] \in ses[s].want /\ e[2] \in ses[s].obsolete}

(* repack: the obsolete packs leave the in-memory index, unless nothing in   *)
(* them is referenced; a blob another pack holds is not packed again.        *)
Repacking(s, m) ==
    IF ToRepack(s, m) = {}
    THEN [ses[s] EXCEPT !.mem = m, !.pc = "flush"]
    ELSE LET c == Cleanup(m, ses[s].obsolete)
         IN  [ses[s] EXCEPT !.mem = c, !.pc = "repack",
                !.todo = {b \in {e[1] : e \in ToRepack(s, m)} : Get(c, b) = NoPack}]

(* The checkpoint after the unused packs, and what follows it up to the      *)
(* blobs being saved.  Repacking reads every locator.                        *)
CleanCheckpoint(s) ==
    /\ Cleaning(s, "unused")
    /\ ses[s].left = {}
    /\ LET m == IF ses[s].unused = {} THEN ses[s].mem ELSE Cleanup(ses[s].mem, ses[s].unused)
           unread == \E e \in ToRepack(s, m) : e[1] \notin packs[e[2]]
       IN  ses' = [ses EXCEPT ![s] =
                    IF ses[s].stop \/ unread THEN [@ EXCEPT !.pc = "end"]
                    ELSE IF ses[s].obsolete # {} THEN Repacking(s, m)
                    ELSE IF ses[s].unused # {} THEN [@ EXCEPT !.mem = m, !.pc = "flush"]
                    ELSE [@ EXCEPT !.pc = "end"]]
    /\ UNCHANGED <<packs, indexes, snaps, lock>>

(* The pack saver at work, while blobs are handed to it and when flushed.    *)
CleanPack(s) ==
    /\ Cleaning(s, "repack") \/ Cleaning(s, "flush")
    /\ WritePack(s) \/ (ses[s].obsolete # {} /\ Autosave(s))

(* The signal is looked at after each chunk.                                 *)
CleanRepacked(s) ==
    /\ Cleaning(s, "repack")
    /\ CleanGoto(s, IF ses[s].stop THEN "end" ELSE "flush")
    /\ UNCHANGED <<packs, indexes, snaps, lock>>

(* flush_and_finalize_pack_saver (or persist alone) writes the new index;    *)
(* delete_old_indices spares the files of the index now in memory.           *)
CleanFlush(s) ==
    /\ Cleaning(s, "flush")
    /\ ses[s].todo = {}
    /\ Persist(s, [ses[s] EXCEPT !.pc = "sweep", !.left = ses[s].old \ ses[s].mem.files])
    /\ UNCHANGED <<packs, snaps, lock>>

(* delete_old_indices: a failure only causes a warning.                      *)
CleanSweep(s) ==
    /\ Cleaning(s, "sweep")
    /\ \/ \E i \in ses[s].left :
            /\ ses' = [ses EXCEPT ![s].left = @ \ {i}]
            /\ \/ indexes' = [indexes EXCEPT ![i] = Empty]
               \/ "sweep" \in Faults /\ UNCHANGED indexes
       \/ /\ ses[s].left = {}
          /\ ses' = [ses EXCEPT ![s].pc = "obsolete", ![s].left = ses[s].obsolete]
          /\ UNCHANGED indexes
    /\ UNCHANGED <<packs, snaps, lock>>

(* delete_obsolete_packs: a failure, or a missing pack, causes a warning.    *)
CleanDeleteObsolete(s) ==
    /\ Cleaning(s, "obsolete")
    /\ \/ \E p \in ses[s].left :
            /\ ses' = [ses EXCEPT ![s].left = @ \ {p}]
            /\ \/ packs' = [packs EXCEPT ![p] = {}]
               \/ "storage" \in Faults /\ UNCHANGED packs
       \/ ses[s].left = {} /\ CleanGoto(s, "end") /\ UNCHANGED packs
    /\ UNCHANGED <<indexes, snaps, lock>>

CleanEnd(s) ==
    /\ Cleaning(s, "end")
    /\ Finish(s)
    /\ UNCHANGED <<packs, indexes, snaps>>

CleanStep(s) ==
    \/ CleanLoad(s) \/ CleanScan(s) \/ CleanScanFails(s) \/ CleanTrash(s)
    \/ CleanDeleteUnused(s) \/ CleanCheckpoint(s) \/ CleanPack(s) \/ CleanRepacked(s)
    \/ CleanFlush(s) \/ CleanSweep(s) \/ CleanDeleteObsolete(s) \/ CleanEnd(s)

(* Where a clean that stops leaves index entries for packs it has deleted.   *)
CleanExposed(s) ==
    /\ ses[s].unused # {}
    /\ \E pc \in {"unused", "repack", "flush"} : Cleaning(s, pc)

CleanSweeping(s) == Cleaning(s, "sweep")
=============================================================================

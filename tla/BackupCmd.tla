----------------------------- MODULE BackupCmd ------------------------------
(***************************************************************************)
(* Commands that add snapshots: snapshot (commands/cmd_snapshot.rs), under *)
(* a shared lock, and copy (commands/cmd_copy.rs), as far as the           *)
(* destination repository is concerned, without a lock.  The source        *)
(* repository of copy is not modelled: all its trees can be loaded.        *)
(***************************************************************************)
EXTENDS RepoBase

(* The index is loaded and the source is read: want is what the snapshot     *)
(* will reference.  Blobs of files that have not changed since the parent    *)
(* snapshot are taken over unseen, the others are packed unless the master   *)
(* index has them (encode_and_save_blob).                                    *)
BackupStart(s) ==
    \E want \in (SUBSET Blob) \ {{}} :
    \E parent \in {{}} \cup {snaps[i].blobs : i \in LiveSnaps} :
      /\ Start(s, "backup",
               [Idle EXCEPT !.cmd = "backup", !.pc = "pack", !.want = want,
                  !.mem = LoadIndex,
                  !.todo = {b \in want : DiskGet(b) = NoPack /\ b \notin parent}])
      /\ UNCHANGED <<packs, indexes, snaps>>

BackupPack(s) == Running(s, "backup", "pack") /\ (WritePack(s) \/ Autosave(s))

(* flush_and_finalize_pack_saver, after the archiver has returned: the last  *)
(* packs are written and the index persisted.  An archiver that saw the      *)
(* interrupt returns early: what it has packed is indexed all the same, and  *)
(* no snapshot follows.                                                      *)
BackupFlush(s) ==
    /\ Running(s, "backup", "pack")
    /\ \/ ses[s].todo = {} /\ Persist(s, [ses[s] EXCEPT !.pc = "save"])
       \/ ses[s].stop /\ Persist(s, [ses[s] EXCEPT !.todo = {}, !.pc = "end"])
    /\ UNCHANGED <<packs, snaps, lock>>

(* Mutant of BackupSave: the snapshot does not wait for the flush.           *)
BackupSaveEarly(s) ==
    /\ ses[s].cmd = "backup" /\ ses[s].pc \in {"pack", "save"}
    /\ \E i \in FreshSnaps :
         snaps' = [snaps EXCEPT ![i] = [at |-> "live", blobs |-> ses[s].want]]
    /\ ses' = [ses EXCEPT ![s].pc = "end"]
    /\ UNCHANGED <<packs, indexes, lock>>

(* The snapshot file is written last, or not at all with --skip-if-unchanged *)
(* and a parent that has the same tree.                                      *)
BackupSave(s) ==
    /\ Running(s, "backup", "save")
    /\ \/ \E i \in FreshSnaps :
            snaps' = [snaps EXCEPT ![i] = [at |-> "live", blobs |-> ses[s].want]]
       \/ /\ \E i \in LiveSnaps : snaps[i].blobs = ses[s].want
          /\ UNCHANGED snaps
    /\ ses' = [ses EXCEPT ![s].pc = "end"]
    /\ UNCHANGED <<packs, indexes, lock>>

BackupEnd(s) ==
    /\ Running(s, "backup", "end")
    /\ Finish(s)
    /\ UNCHANGED <<packs, indexes, snaps>>

BackupStep(s) == BackupPack(s) \/ BackupFlush(s) \/ BackupSave(s) \/ BackupEnd(s)

-----------------------------------------------------------------------------
(* copy.                                                                     *)

(* The destination's index is loaded, the snapshots to copy are chosen and   *)
(* want holds all their blobs (collect_blobs).  Those the index has are not  *)
(* transferred.                                                              *)
CopyStart(s) ==
    \E want \in (SUBSET Blob) \ {{}} :
      /\ Start(s, "copy",
               [Idle EXCEPT !.cmd = "copy", !.pc = "pack", !.want = want, !.mem = LoadIndex,
                  !.todo = {b \in want : DiskGet(b) = NoPack}])
      /\ UNCHANGED <<packs, indexes, snaps>>

CopyPack(s) == Running(s, "copy", "pack") /\ (WritePack(s) \/ Autosave(s))

(* Before each blob the interrupt is looked at: copy_snapshots then returns  *)
(* without a flush.                                                          *)
CopyInterrupted(s) ==
    /\ Running(s, "copy", "pack")
    /\ ses[s].stop /\ ses[s].todo # {}
    /\ Finish(s)
    /\ UNCHANGED <<packs, indexes, snaps>>

(* All blobs are transferred: flush_and_finalize_pack_saver.                 *)
CopyFlush(s) ==
    /\ Running(s, "copy", "pack")
    /\ ses[s].todo = {}
    /\ Persist(s, [ses[s] EXCEPT !.pc = "save"])
    /\ UNCHANGED <<packs, snaps, lock>>

(* write_snapshots_to_dest: the chosen snapshots, one after the other.  Any  *)
(* blobs out of want may make up one of them.                                *)
CopySave(s) ==
    /\ Running(s, "copy", "save")
    /\ \E i \in FreshSnaps, blobs \in (SUBSET ses[s].want) \ {{}} :
         snaps' = [snaps EXCEPT ![i] = [at |-> "live", blobs |-> blobs]]
    /\ UNCHANGED <<packs, indexes, lock, ses>>

CopyEnd(s) ==
    /\ Running(s, "copy", "save")
    /\ Finish(s)
    /\ UNCHANGED <<packs, indexes, snaps>>

CopyStep(s) ==
    CopyPack(s) \/ CopyInterrupted(s) \/ CopyFlush(s) \/ CopySave(s) \/ CopyEnd(s)
=============================================================================

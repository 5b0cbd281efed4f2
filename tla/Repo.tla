-------------------------------- MODULE Repo --------------------------------
(***************************************************************************)
(* All commands that change a repository, run by any number of sessions on *)
(* one backend, and what the repository promises: whatever the commands    *)
(* do and wherever they stop, a snapshot that is listed can be restored.   *)
(***************************************************************************)
EXTENDS BackupCmd, CleanCmd, ForgetCmd, RewriteCmd

Init ==
    /\ packs = [p \in PackId |-> {}]
    /\ indexes = [i \in IndexId |-> Empty]
    /\ snaps = [i \in SnapId |-> NoSnap]
    /\ lock = [s \in Session |-> "none"]
    /\ ses = [s \in Session |-> Idle]

Begin(s) ==
    \/ BackupStart(s) \/ CopyStart(s) \/ CleanStart(s) \/ ForgetStart(s)
    \/ RecallStart(s) \/ RewriteStart(s) \/ RebuildStart(s)

(* Where rechunk has saved snapshots whose blobs are not indexed yet.        *)
RechunkExposed(s) ==
    ses[s].cmd = "rechunk" /\ (ses[s].todo # {} \/ ses[s].mem.pend # Empty)

(* The process dies, or a write fails and the command gives up.  What is on  *)
(* disk stays; the lock file goes stale and is removed in time.              *)
Crash(s) ==
    /\ ses[s] # Idle
    /\ \/ "crash" \in Faults /\ ~CleanExposed(s) /\ ~CleanSweeping(s) /\ ~RechunkExposed(s)
       \/ "window" \in Faults /\ (CleanExposed(s) \/ RechunkExposed(s))
       \/ "sweep" \in Faults /\ CleanSweeping(s)
    /\ Finish(s)
    /\ UNCHANGED <<packs, indexes, snaps>>

Step(s) ==
    \/ BackupStep(s) \/ CopyStep(s) \/ CleanStep(s) \/ ForgetStep(s)
    \/ RewriteStep(s) \/ RebuildStep(s)

Next == \E s \in Session : Begin(s) \/ Step(s) \/ Interrupt(s) \/ Crash(s)

Spec == Init /\ [][Next]_vars

-----------------------------------------------------------------------------
MemType ==
    [files : SUBSET IndexId, entries : SUBSET (Blob \X PackId),
     loc : [Blob -> PackId \cup {NoPack}], pend : [Blob -> PackId \cup {NoPack}]]

(* Every variable has its type; no session both waits for work and holds a   *)
(* lock (with_repository_lock releases it with the command).                 *)
TypeOK ==
    /\ packs \in [PackId -> SUBSET Blob]
    /\ indexes \in [IndexId -> [Blob -> PackId \cup {NoPack}]]
    /\ snaps \in [SnapId -> [at : {"none", "live", "dropped"}, blobs : SUBSET Blob]]
    /\ lock \in [Session -> {"none", "shared", "exclusive"}]
    /\ \A s \in Session :
         /\ ses[s].cmd \in Commands \cup {"none"}
         /\ ses[s].mem \in MemType
         /\ ses[s].want \cup ses[s].todo \subseteq Blob
         /\ ses[s].unused \cup ses[s].obsolete \subseteq PackId
         /\ ses[s] = Idle => lock[s] = "none"

(* No command that deletes what readers use is at work.                      *)
Settled == \A s \in Session : ses[s] # Idle => LockMode(ses[s].cmd) # "exclusive"

Restorable(i) ==
    \A b \in snaps[i].blobs : DiskGet(b) # NoPack /\ b \in packs[DiskGet(b)]

(* Whoever opens a settled repository can restore each live snapshot: the    *)
(* index files, read in the order of their names, give each of its blobs a   *)
(* pack that exists and holds it (reload_master_index, MasterIndex::get,     *)
(* load_from_pack).                                                          *)
SnapshotsRestorable == Settled => \A i \in LiveSnaps : Restorable(i)

(* Every entry of every index file points to a pack that exists and holds    *)
(* the blob, which is what verify checks first.                              *)
IndexSound ==
    Settled => \A i \in OnDisk, b \in Blob :
              indexes[i][b] # NoPack => b \in packs[indexes[i][b]]

(* What a backup decided not to pack, because the index it loaded once had   *)
(* it, is still in that pack as long as the backup runs                      *)
(* (encode_and_save_blob against a master index that may be stale).          *)
DedupSound ==
    \A s \in Session : \A b \in ses[s].want \ ses[s].todo :
      ses[s].cmd = "backup" => b \in packs[Get(ses[s].mem, b)]

(* A dropped snapshot can be recalled and then restored, until clean deletes *)
(* it (the .dropped files of delete_trash_files).                            *)
DroppedRecallable ==
    Settled => \A i \in SnapId : snaps[i].at = "dropped" => Restorable(i)

(* A clean that runs to its end leaves no pack without a referenced blob     *)
(* (delete_unused_packs, repack, delete_obsolete_packs together).            *)
CleanCollects ==
    [][\A s \in Session : Cleaning(s, "obsolete") /\ ses'[s].pc = "end" =>
         \A p \in PackId : packs[p] # {} => packs[p] \cap Referenced # {}]_vars

(* An index file gives a blob of the snapshot a pack that does not hold it,  *)
(* and no clean at work has deleted that pack: one that was cut short has.   *)
Misled(i) ==
    \E j \in OnDisk, b \in snaps[i].blobs :
      /\ indexes[j][b] # NoPack /\ b \notin packs[indexes[j][b]]
      /\ \A s \in Session : indexes[j][b] \notin ses[s].unused

(* A snapshot can be restored from what is on disk, or will be when the      *)
(* clean at work has swept the old index files: until then one of them may   *)
(* shadow the new one with a pack that is gone.                              *)
Kept(i) ==
    \/ Restorable(i)
    \/ \E s \in Session : CleanSweeping(s) /\ \A b \in snaps[i].blobs : Loadable(ses[s].mem, b)

(* No step of any command makes a snapshot unrestorable that was restorable  *)
(* before it and stays listed, wherever the command or another one before it *)
(* was cut short (delete_unused_packs only deletes what the loaded index     *)
(* does not use, repack saves what it takes away).  The entries a clean      *)
(* leaves behind when it is cut short are the exception: a snapshot with one *)
(* is at the mercy of the next command that deletes index files or repacks.  *)
NothingBroken ==
    [][\A i \in LiveSnaps \cap LiveSnaps' : Kept(i) /\ ~Misled(i) => Kept(i)']_vars
=============================================================================

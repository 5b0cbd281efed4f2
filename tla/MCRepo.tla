------------------------------- MODULE MCRepo -------------------------------
(***************************************************************************)
(* Instances of Repo for TLC: one tree blob and one or two data blobs, one *)
(* or two sessions, and the commands each of them may run.                 *)
(***************************************************************************)
EXTENDS Repo, TLC

CONSTANTS t, d1, d2, x, y, s1, s2

(* All about one session and its snapshots, dropped ones included.           *)
Alone == x :> {"backup", "amend", "forget", "forget_clean", "recall"}

(* Backups of two sessions, beside the commands that delete.                 *)
Pair == x :> {"backup"} @@ y :> {"backup", "clean", "forget"}

(* Whatever rewrites indices, or snapshots before their index, and is cut    *)
(* short.                                                                    *)
Cut == x :> {"copy", "rechunk", "rebuild_index", "clean"}

BackupClean == x :> {"backup", "clean", "forget"}

BackupForgetClean == x :> {"backup"} @@ y :> {"backup", "forget_clean"}

BackupRebuild == x :> {"backup"} @@ y :> {"rebuild_index"}

BackupRechunk == x :> {"backup", "rechunk"}

BackupPairClean == x :> {"backup"} @@ y :> {"backup", "clean"}

(* Backups that have their tree in common, each of them in a pack of its     *)
(* own: two with a file that only they have, and one without.                *)
PackOf == 1 :> {t, d1} @@ 2 :> {t, d2} @@ 3 :> {t}

SharedTree ==
    /\ \A p \in PackId : packs[p] \in {{}, PackOf[p]}
    /\ \A s \in Session : ses[s].cmd = "backup" => \E p \in PackId : ses[s].want = PackOf[p]

(* Snapshot IDs are not compared: which of them a snapshot gets does not     *)
(* matter.                                                                   *)
SnapSymmetry == Permutations(SnapId)
=============================================================================

------------------------------ MODULE RepoBase ------------------------------
(***************************************************************************)
(* The repository as the commands see it: pack files, index files and      *)
(* snapshot files in the backend (repository/repo.rs), the master index    *)
(* each command keeps in memory (repository/index.rs), the repository lock *)
(* (RwLock, which RepoLock implements), and what all commands share.       *)
(*                                                                         *)
(* A snapshot is the set of blobs its tree reaches, trees included.  IDs   *)
(* are hashes of encrypted content: fresh, and in any order.  They are     *)
(* numbers because the code orders indices and packs by them.              *)
(***************************************************************************)
EXTENDS Integers, FiniteSets

CONSTANTS
    Blob,       \* content-addressed blobs
    Tree,       \* those of them that are serialized trees
    PackId,     \* names of pack files, positive integers
    IndexId,    \* names of index files, positive integers
    SnapId,     \* names of snapshot files
    Session,    \* running commands
    CmdsOf,     \* the commands each session may run
    Faults      \* the environment's faults that an instance explores

Commands == {"backup", "copy", "clean", "forget", "forget_clean", "recall",
             "amend", "rechunk", "rebuild_index"}

FaultKinds == {"crash",     \* a command dies outside the windows below
               "window",    \* clean or rechunk is cut short before its index is on disk
               "sweep",     \* clean dies, or a deletion fails, among the old indices
               "interrupt", \* SIGINT or SIGTERM
               "storage"}   \* another deletion fails

ASSUME RepoAssumption ==
    /\ Tree \subseteq Blob
    /\ PackId \subseteq Nat \ {0} /\ IndexId \subseteq Nat \ {0}
    /\ \A S \in (SUBSET PackId) \cup (SUBSET IndexId) :    \* files are finitely many
         S # {} => \E x \in S : \A y \in S : y <= x
    /\ CmdsOf \in [Session -> SUBSET Commands]
    /\ Faults \subseteq FaultKinds

VARIABLES
    packs,      \* the blobs in each pack file; {}: no such file
    indexes,    \* each index file: the pack of each blob; Empty: no such file
    snaps,      \* each snapshot file: live, dropped (renamed .dropped) or none
    lock,       \* the lock each session holds
    ses         \* what each session's command is doing

vars == <<packs, indexes, snaps, lock, ses>>

NoPack == 0

Empty == [b \in Blob |-> NoPack]

NoSnap == [at |-> "none", blobs |-> {}]

SetMax(S) == CHOOSE x \in S : \A y \in S : y <= x

-----------------------------------------------------------------------------
(* Index files and the master index.                                         *)

OnDisk == {i \in IndexId : indexes[i] # Empty}

(* MasterIndex.get after a reload: the indices are searched from the last    *)
(* file name to the first.                                                   *)
DiskGet(b) ==
    LET holding == {i \in OnDisk : indexes[i][b] # NoPack}
    IN  IF holding = {} THEN NoPack ELSE indexes[SetMax(holding)][b]

(* reload_master_index: the names of the files, every entry in them, what    *)
(* get answers, and a pending index that is still empty.                     *)
LoadIndex ==
    [files   |-> OnDisk,
     entries |-> {e \in Blob \X PackId : \E i \in OnDisk : indexes[i][e[1]] = e[2]},
     loc     |-> [b \in Blob |-> DiskGet(b)],
     pend    |-> Empty]

NoIndex == [files |-> {}, entries |-> {}, loc |-> Empty, pend |-> Empty]

(* MasterIndex::get.  The pending index is the last one.                     *)
Get(m, b) == IF m.pend[b] # NoPack THEN m.pend[b] ELSE m.loc[b]

(* MasterIndex::for_each_id.                                                 *)
AllEntries(m) ==
    m.entries \cup {e \in Blob \X PackId : m.pend[e[1]] = e[2]}

(* MasterIndex::add_pack.                                                    *)
AddPack(m, p, bs) ==
    [m EXCEPT !.pend = [b \in Blob |-> IF b \in bs THEN p ELSE m.pend[b]]]

(* Mutant of Cleanup: the indices are merged and nothing is left out.        *)
CleanupNothing(m, dead) ==
    LET kept(b) == {e[2] : e \in {x \in AllEntries(m) : x[1] = b}}
    IN  [NoIndex EXCEPT
           !.pend = [b \in Blob |-> IF kept(b) = {} THEN NoPack ELSE SetMax(kept(b))]]

(* MasterIndex::cleanup and merge_index: one index without the given packs,  *)
(* in which the greatest pack ID wins a blob; it has no file yet.            *)
Cleanup(m, dead) ==
    LET kept(b) == {e[2] : e \in {x \in AllEntries(m) : x[1] = b /\ x[2] \notin dead}}
    IN  [NoIndex EXCEPT
           !.pend = [b \in Blob |-> IF kept(b) = {} THEN NoPack ELSE SetMax(kept(b))]]

(* The master index once its pending index has become the file i.            *)
Persisted(m, i) ==
    [files   |-> m.files \cup {i},
     entries |-> AllEntries(m),
     loc     |-> [b \in Blob |-> Get(m, b)],
     pend    |-> Empty]

-----------------------------------------------------------------------------
(* Sessions.                                                                 *)

Idle == [cmd |-> "none", pc |-> "idle", mem |-> NoIndex, want |-> {}, todo |-> {},
         left |-> {}, unused |-> {}, obsolete |-> {}, old |-> {}, stop |-> FALSE]

Running(s, c, pc) == ses[s].cmd = c /\ ses[s].pc = pc

(* Mutant of LockMode: clean runs beside backups.                            *)
LockModeShared(c) == IF c \in {"none", "copy"} THEN "none" ELSE "shared"

LockMode(c) == CASE c \in {"backup", "rebuild_index"} -> "shared"
                 [] c = "copy" -> "none"
                 [] OTHER -> "exclusive"

(* RwLock!Grant, for a command that takes a lock at all.                     *)
CanLock(s, c) ==
    CASE LockMode(c) = "none" -> TRUE
      [] LockMode(c) = "shared" -> \A t \in Session : lock[t] # "exclusive"
      [] LockMode(c) = "exclusive" -> \A t \in Session : lock[t] = "none"

(* with_repository_lock, then the command begins with state r.               *)
Start(s, c, r) ==
    /\ ses[s] = Idle
    /\ c \in CmdsOf[s]
    /\ CanLock(s, c)
    /\ lock' = [lock EXCEPT ![s] = LockMode(c)]
    /\ ses' = [ses EXCEPT ![s] = r]

(* Mutant of Finish: the lock stays behind.                                  *)
FinishKeepsLock(s) ==
    /\ ses' = [ses EXCEPT ![s] = Idle]
    /\ UNCHANGED lock

(* The command returns and the lock is released.                             *)
Finish(s) ==
    /\ ses' = [ses EXCEPT ![s] = Idle]
    /\ lock' = [lock EXCEPT ![s] = "none"]

(* IDs that no file has and no command remembers.                            *)
FreshPacks ==
    {p \in PackId :
       /\ packs[p] = {}
       /\ \A i \in IndexId, b \in Blob : indexes[i][b] # p
       /\ \A s \in Session : /\ p \notin ses[s].unused \cup ses[s].obsolete \cup ses[s].left
                             /\ \A b \in Blob : ses[s].mem.pend[b] # p
                             /\ \A e \in ses[s].mem.entries : e[2] # p}

FreshIndexes ==
    {i \in IndexId : i \notin OnDisk
                     /\ \A s \in Session : i \notin ses[s].mem.files \cup ses[s].old}

FreshSnaps == {i \in SnapId : snaps[i].at = "none" /\ \A s \in Session : i \notin ses[s].left}

(* The pack saver (repository/packer.rs) packs some of the blobs it has been *)
(* given, writes the pack and adds it to the master index.                   *)
WritePack(s) ==
    \E bs \in (SUBSET ses[s].todo) \ {{}} : \E p \in FreshPacks :
      /\ packs' = [packs EXCEPT ![p] = bs]
      /\ ses' = [ses EXCEPT ![s].todo = @ \ bs, ![s].mem = AddPack(@, p, bs)]
      /\ UNCHANGED <<indexes, snaps, lock>>

(* MasterIndex::persist writes what has no file yet; an empty index is not   *)
(* written.  The session goes on as next, which now knows the new file.      *)
Persist(s, next) ==
    IF next.mem.pend = Empty
    THEN ses' = [ses EXCEPT ![s] = next] /\ UNCHANGED indexes
    ELSE \E i \in FreshIndexes :
           /\ indexes' = [indexes EXCEPT ![i] = next.mem.pend]
           /\ ses' = [ses EXCEPT ![s] = [next EXCEPT !.mem = Persisted(@, i)]]

(* MasterIndex::add_pack saves an index that is full or old by itself.       *)
Autosave(s) ==
    /\ ses[s].mem.pend # Empty
    /\ Persist(s, ses[s])
    /\ UNCHANGED <<packs, snaps, lock>>

(* SIGINT or SIGTERM: the CleanupHandler sets the flag and releases the lock *)
(* at once, while the command goes on.                                       *)
Interrupt(s) ==
    /\ "interrupt" \in Faults
    /\ ses[s] # Idle /\ ~ses[s].stop
    /\ ses' = [ses EXCEPT ![s].stop = TRUE]
    /\ lock' = [lock EXCEPT ![s] = "none"]
    /\ UNCHANGED <<packs, indexes, snaps>>

LiveSnaps == {i \in SnapId : snaps[i].at = "live"}

Referenced == UNION {snaps[i].blobs : i \in LiveSnaps}
=============================================================================

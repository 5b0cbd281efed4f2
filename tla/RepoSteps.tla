------------------------------ MODULE RepoSteps -----------------------------
(***************************************************************************)
(* The invariant behind what Repo promises, for any number of sessions,    *)
(* blobs and files, and the lemmas that the steps of commands share.       *)
(***************************************************************************)
EXTENDS Repo, TLAPS

PCs == {"idle", "pack", "save", "end", "load", "scan", "trash", "unused", "repack", "flush",
        "sweep", "obsolete", "forget", "recall", "next", "replace", "list", "persist"}

Names == SnapId \cup PackId \cup IndexId

(* What a session remembers.  left and old name files of several kinds.      *)
SesRec ==
    [cmd : Commands \cup {"none"}, pc : PCs, mem : MemType,
     want : SUBSET Blob, todo : SUBSET Blob,
     left : SUBSET Names, unused : SUBSET PackId, obsolete : SUBSET PackId,
     old : SUBSET Names, stop : BOOLEAN]

SesType == {r \in SesRec : r.cmd = "amend" => r.left \subseteq SnapId}

DiskType ==
    /\ packs \in [PackId -> SUBSET Blob]
    /\ indexes \in [IndexId -> [Blob -> PackId \cup {NoPack}]]
    /\ snaps \in [SnapId -> [at : {"none", "live", "dropped"}, blobs : SUBSET Blob]]

LockType ==
    /\ lock \in [Session -> {"none", "shared", "exclusive"}]
    /\ \A s \in Session : ses[s].cmd = "none" => ses[s] = Idle /\ lock[s] = "none"

TypeInv == DiskType /\ ses \in [Session -> SesType] /\ LockType

(* Some index file has the blob.                                             *)
Indexed(b) == \E i \in IndexId : indexes[i][b] # NoPack

(* A locator that can be read.                                               *)
Valid(e) == e[1] \in packs[e[2]]

(* What get answers from the files is among the locators for_each_id visits. *)
LocInv(m) == \A b \in Blob : m.loc[b] # NoPack => <<b, m.loc[b]>> \in m.entries

-----------------------------------------------------------------------------
(* Lemmas about the master index.                                            *)

(* A set of IDs has a greatest member, which is what SetMax chooses.         *)
LEMMA SetMaxIn ==
    ASSUME NEW S \in (SUBSET PackId) \cup (SUBSET IndexId), S # {}
    PROVE  SetMax(S) \in S
BY Zenon, RepoAssumption DEF SetMax

(* index.rs, a new index: an index without locators is a map of blobs to     *)
(* packs.                                                                    *)
LEMMA EmptyType == Empty \in [Blob -> PackId \cup {NoPack}]
BY DEF Empty

(* MasterIndex::get after a reload answers a pack or nothing.                *)
LEMMA DiskGetType ==
    ASSUME DiskType, NEW b \in Blob
    PROVE  DiskGet(b) \in PackId \cup {NoPack}
<1> DEFINE holding == {i \in OnDisk : indexes[i][b] # NoPack}
<1>1. holding \in SUBSET IndexId
  BY DEF OnDisk
<1>2. holding # {} => SetMax(holding) \in holding
  BY <1>1, SetMaxIn
<1> QED BY <1>1, <1>2 DEF DiskGet, DiskType

(* MasterIndex::reload builds a master index.                                *)
LEMMA LoadIndexType ==
    ASSUME DiskType
    PROVE  LoadIndex \in MemType
BY DiskGetType, EmptyType DEF LoadIndex, MemType, OnDisk

(* MasterIndex::cleanup keeps a master index one, whatever packs it drops.   *)
LEMMA CleanupType ==
    ASSUME NEW m \in MemType, NEW dead
    PROVE  Cleanup(m, dead) \in MemType
<1> DEFINE kept(b) == {e[2] : e \in {x \in AllEntries(m) : x[1] = b /\ x[2] \notin dead}}
<1>1. AllEntries(m) \subseteq Blob \X PackId
  BY DEF AllEntries, MemType
<1>2. ASSUME NEW b \in Blob, kept(b) # {} PROVE SetMax(kept(b)) \in PackId
  <2>1. kept(b) \in SUBSET PackId
    BY <1>1
  <2> HIDE DEF kept
  <2> QED BY <1>2, <2>1, SetMaxIn
<1>3. Cleanup(m, dead).pend \in [Blob -> PackId \cup {NoPack}]
  BY <1>2 DEF Cleanup, NoIndex
<1> QED BY Zenon, <1>3, EmptyType DEF Cleanup, NoIndex, MemType

(* MasterIndex::persist keeps a master index one, whatever file it has       *)
(* written.                                                                  *)
LEMMA PersistedType ==
    ASSUME NEW m \in MemType, NEW i \in IndexId
    PROVE  Persisted(m, i) \in MemType
BY EmptyType DEF Persisted, MemType, AllEntries, Get

(* MasterIndex::add_pack keeps a master index one.                           *)
LEMMA AddPackType ==
    ASSUME NEW m \in MemType, NEW p \in PackId, NEW bs
    PROVE  AddPack(m, p, bs) \in MemType
BY DEF AddPack, MemType

(* get after a reload finds a blob exactly if some file has it.              *)
LEMMA DiskGetFacts ==
    ASSUME DiskType, NEW b \in Blob
    PROVE  /\ DiskGet(b) # NoPack <=> Indexed(b)
           /\ DiskGet(b) # NoPack => \E i \in OnDisk : indexes[i][b] = DiskGet(b)
<1> DEFINE holding == {i \in OnDisk : indexes[i][b] # NoPack}
<1>1. holding \in SUBSET IndexId
  BY DEF OnDisk
<1>2. holding # {} => SetMax(holding) \in holding
  BY <1>1, SetMaxIn
<1>3. holding # {} <=> Indexed(b)
  BY DEF Indexed, OnDisk, Empty
<1> QED BY Zenon, <1>2, <1>3 DEF DiskGet

(* Nothing pending: get and for_each_id answer from the files alone.         *)
LEMMA EmptyPend ==
    ASSUME NEW m \in MemType, m.pend = Empty
    PROVE  AllEntries(m) = m.entries /\ \A b \in Blob : Get(m, b) = m.loc[b]
<1>1. \A e \in Blob \X PackId : m.pend[e[1]] # e[2]
  BY RepoAssumption DEF Empty, NoPack
<1> QED BY <1>1 DEF AllEntries, Get, Empty

(* MasterIndex::reload: nothing is pending, every file on disk is read, and  *)
(* get finds a blob exactly if some file has it.                             *)
LEMMA LoadIndexFacts ==
    ASSUME DiskType
    PROVE  /\ LoadIndex \in MemType
           /\ LoadIndex.files = OnDisk
           /\ LoadIndex.pend = Empty
           /\ LocInv(LoadIndex)
           /\ AllEntries(LoadIndex) = LoadIndex.entries
           /\ \A b \in Blob : /\ LoadIndex.loc[b] = DiskGet(b)
                              /\ Get(LoadIndex, b) = LoadIndex.loc[b]
                              /\ LoadIndex.loc[b] # NoPack <=> Indexed(b)
           /\ \A e \in LoadIndex.entries :
                \E i \in IndexId : indexes[i][e[1]] = e[2] /\ e[1] \in Blob /\ e[2] \in PackId
<1>1. LoadIndex \in MemType
  BY LoadIndexType
<1>2. LoadIndex.files = OnDisk /\ LoadIndex.pend = Empty
  BY DEF LoadIndex
<1>3. \A b \in Blob : LoadIndex.loc[b] = DiskGet(b)
  BY DEF LoadIndex
<1>4. LocInv(LoadIndex)
  <2> SUFFICES ASSUME NEW b \in Blob, DiskGet(b) # NoPack
               PROVE  <<b, DiskGet(b)>> \in LoadIndex.entries
    BY <1>3 DEF LocInv
  <2>1. \E i \in OnDisk : indexes[i][b] = DiskGet(b)
    BY DiskGetFacts
  <2>2. DiskGet(b) \in PackId
    BY DiskGetType
  <2> QED BY <2>1, <2>2 DEF LoadIndex
<1>5. \A e \in LoadIndex.entries :
        \E i \in IndexId : indexes[i][e[1]] = e[2] /\ e[1] \in Blob /\ e[2] \in PackId
  BY DEF LoadIndex, OnDisk
<1>6. \A b \in Blob : Get(LoadIndex, b) = LoadIndex.loc[b]
  BY <1>1, <1>2, EmptyPend
<1>7. \A b \in Blob : LoadIndex.loc[b] # NoPack <=> Indexed(b)
  BY <1>3, DiskGetFacts
<1>8. AllEntries(LoadIndex) = LoadIndex.entries
  BY <1>1, <1>2, EmptyPend
<1> QED BY <1>1, <1>2, <1>3, <1>4, <1>5, <1>6, <1>7, <1>8

(* MasterIndex::get answers nothing or a locator that for_each_id visits.    *)
LEMMA GetFacts ==
    ASSUME NEW m \in MemType, NEW b \in Blob
    PROVE  /\ Get(m, b) \in PackId \cup {NoPack}
           /\ LocInv(m) /\ Get(m, b) # NoPack => <<b, Get(m, b)>> \in AllEntries(m)
           /\ AllEntries(m) \subseteq Blob \X PackId
BY DEF Get, LocInv, AllEntries, MemType

(* MasterIndex::add_pack: get finds the blobs of the pack in it and every    *)
(* other blob where it was.                                                  *)
LEMMA AddPackFacts ==
    ASSUME NEW m \in MemType, NEW p \in PackId, NEW bs \in SUBSET Blob, LocInv(m)
    PROVE  LET n == AddPack(m, p, bs)
           IN  /\ n \in MemType
               /\ n.files = m.files /\ n.loc = m.loc /\ LocInv(n)
               /\ \A e \in AllEntries(n) : e \in AllEntries(m) \/ (e[1] \in bs /\ e[2] = p)
               /\ \A b \in Blob : Get(n, b) = IF b \in bs THEN p ELSE Get(m, b)
               /\ \A b \in Blob : n.pend[b] = IF b \in bs THEN p ELSE m.pend[b]
<1> DEFINE n == AddPack(m, p, bs)
<1>1. n \in MemType
  BY AddPackType
<1>2. n.files = m.files /\ n.loc = m.loc /\ n.entries = m.entries
  BY DEF AddPack, MemType
<1>3. \A b \in Blob : n.pend[b] = IF b \in bs THEN p ELSE m.pend[b]
  BY DEF AddPack, MemType
<1>4. LocInv(n)
  BY <1>2 DEF LocInv
<1>5. \A e \in AllEntries(n) : e \in AllEntries(m) \/ (e[1] \in bs /\ e[2] = p)
  BY <1>2, <1>3 DEF AllEntries
<1>6. \A b \in Blob : Get(n, b) = IF b \in bs THEN p ELSE Get(m, b)
  BY <1>2, <1>3, RepoAssumption DEF Get, NoPack
<1> QED BY <1>1, <1>2, <1>3, <1>4, <1>5, <1>6

(* MasterIndex::persist moves locators from the pending index to the files   *)
(* and changes no answer of get.                                             *)
LEMMA PersistedFacts ==
    ASSUME NEW m \in MemType, NEW i \in IndexId, LocInv(m)
    PROVE  LET n == Persisted(m, i)
           IN  /\ n \in MemType
               /\ n.files = m.files \cup {i} /\ n.pend = Empty /\ LocInv(n)
               /\ AllEntries(n) = AllEntries(m)
               /\ \A b \in Blob : n.loc[b] = Get(m, b) /\ Get(n, b) = Get(m, b)
<1> DEFINE n == Persisted(m, i)
<1>1. n \in MemType
  BY PersistedType
<1>2. /\ n.files = m.files \cup {i} /\ n.pend = Empty /\ n.entries = AllEntries(m)
      /\ \A b \in Blob : n.loc[b] = Get(m, b)
  BY DEF Persisted
<1>3. AllEntries(n) = n.entries /\ \A b \in Blob : Get(n, b) = n.loc[b]
  BY <1>1, <1>2, EmptyPend
<1>4. LocInv(n)
  BY <1>2, GetFacts DEF LocInv
<1> QED BY <1>1, <1>2, <1>3, <1>4

(* merge_index keeps every blob that a pack not given up still holds, and    *)
(* makes up no locator.                                                      *)
LEMMA CleanupFacts ==
    ASSUME NEW m \in MemType, NEW dead
    PROVE  LET c == Cleanup(m, dead)
           IN  /\ c \in MemType
               /\ c.files = {} /\ LocInv(c)
               /\ \A b \in Blob : c.loc[b] = NoPack
               /\ \A e \in AllEntries(c) : e \in AllEntries(m) /\ e[2] \notin dead
               /\ \A e \in AllEntries(m) : e[2] \notin dead => Get(c, e[1]) # NoPack
<1> DEFINE kept(b) == {e[2] : e \in {x \in AllEntries(m) : x[1] = b /\ x[2] \notin dead}}
           c == Cleanup(m, dead)
<1>1. c \in MemType
  BY CleanupType
<1>2. c.files = {} /\ c.entries = {} /\ c.loc = Empty
  BY DEF Cleanup, NoIndex
<1>3. c.pend = [b \in Blob |-> IF kept(b) = {} THEN NoPack ELSE SetMax(kept(b))]
  BY DEF Cleanup, NoIndex
<1>4. AllEntries(m) \subseteq Blob \X PackId
  BY DEF AllEntries, MemType
<1>5. ASSUME NEW b \in Blob, kept(b) # {} PROVE SetMax(kept(b)) \in kept(b)
  <2>1. kept(b) \in SUBSET PackId
    BY <1>4
  <2> HIDE DEF kept
  <2> QED BY <1>5, <2>1, SetMaxIn
<1>6. ASSUME NEW e \in AllEntries(c) PROVE e \in AllEntries(m) /\ e[2] \notin dead
  <2>1. e \in Blob \X PackId /\ c.pend[e[1]] = e[2]
    BY <1>2 DEF AllEntries
  <2>2. e[2] # NoPack
    BY <2>1, RepoAssumption DEF NoPack
  <2>3. e[2] \in kept(e[1])
    BY <1>3, <1>5, <2>1, <2>2
  <2> QED BY <1>4, <2>1, <2>3
<1>7. ASSUME NEW e \in AllEntries(m), e[2] \notin dead PROVE Get(c, e[1]) # NoPack
  <2>1. e[1] \in Blob /\ e[2] \in kept(e[1])
    BY <1>4, <1>7
  <2>2. c.pend[e[1]] \in kept(e[1])
    BY Zenon, <1>3, <1>5, <2>1
  <2>3. c.pend[e[1]] \in PackId
    BY <1>4, <2>2
  <2> QED BY <2>3, RepoAssumption DEF Get, NoPack
<1>8. LocInv(c) /\ \A b \in Blob : c.loc[b] = NoPack
  BY <1>2 DEF LocInv, Empty
<1> HIDE DEF c
<1> QED BY <1>1, <1>2, <1>6, <1>7, <1>8 DEF c

-----------------------------------------------------------------------------
(* The commands under which the repository keeps its promises: those that    *)
(* take no lock, or release it, or share it while they delete, run alone; no *)
(* write fails where the runs show that a failure is not survived.           *)
Careful ==
    /\ Faults \subseteq {"crash", "storage"}
    /\ \A s \in Session :
         /\ CmdsOf[s] \cap {"copy", "forget_clean", "rebuild_index"} # {} => Session = {s}
         /\ "recall" \in CmdsOf[s] => "storage" \notin Faults

Busy(s) == ses[s].cmd # "none"

Collects(s, pcs) == ses[s].cmd \in {"clean", "forget_clean"} /\ ses[s].pc \in pcs

(* Where a clean has deleted packs that old index files still name.          *)
Deleting == {"unused", "repack", "flush", "sweep"}

(* A command holds its lock, or has the repository to itself.                *)
LockInv ==
    \A s \in Session : /\ ~ses[s].stop
                       /\ Busy(s) => /\ ses[s].cmd \in CmdsOf[s]
                                     /\ lock[s] = LockMode(ses[s].cmd) \/ Session = {s}

(* Only backups run beside each other.                                       *)
AloneInv ==
    \A s, u \in Session :
      s # u /\ Busy(s) /\ Busy(u) => ses[s].cmd = "backup" /\ ses[u].cmd = "backup"

IndexHeld == \A i \in IndexId, b \in Blob : indexes[i][b] # NoPack => b \in packs[indexes[i][b]]

Listed(i) == \A b \in snaps[i].blobs : Indexed(b)

IndexInv == (\A s \in Session : ~Collects(s, Deleting)) => IndexHeld

SnapInv == (\A s \in Session : ses[s].cmd # "rechunk") => \A i \in LiveSnaps : Listed(i)

DropInv == "storage" \notin Faults => \A i \in SnapId : snaps[i].at = "dropped" => Listed(i)

(* A master index whose locators can be read and whose files are on disk.    *)
TrueIndex(m) ==
    /\ \A e \in AllEntries(m) : Valid(e)
    /\ LocInv(m)
    /\ \A b \in Blob : m.loc[b] # NoPack => Indexed(b)

WriteInv(s) == ses[s].cmd \in {"backup", "copy", "amend", "rechunk"} => TrueIndex(ses[s].mem)

(* backup and copy account for every blob of the snapshot to come.           *)
BackupInv(s) ==
    ses[s].cmd \in {"backup", "copy"} =>
      /\ \A b \in ses[s].want : b \in ses[s].todo \/ Get(ses[s].mem, b) # NoPack
      /\ ses[s].pc = "save" => \A b \in ses[s].want : Indexed(b)

(* amend and rechunk know every blob of the snapshots that are left.         *)
RewriteInv(s) ==
    ses[s].cmd \in {"amend", "rechunk"} =>
      /\ ses[s].left \subseteq LiveSnaps
      /\ ses[s].old \cap ses[s].left = {}
      /\ \A i \in ses[s].left : \A b \in snaps[i].blobs : Get(ses[s].mem, b) # NoPack
      /\ ses[s].pc \in {"pack", "save"} =>
           \A b \in ses[s].want : b \in ses[s].todo \/ Get(ses[s].mem, b) # NoPack
      /\ ses[s].cmd = "amend" /\ ses[s].pc = "save" => \A b \in ses[s].want : Indexed(b)

(* Until its flush rechunk alone knows where some blobs of snapshots are.    *)
RechunkInv(s) ==
    ses[s].cmd = "rechunk" =>
      /\ \A i \in LiveSnaps : \A b \in snaps[i].blobs :
           Indexed(b) \/ b \in ses[s].todo \/ ses[s].mem.pend[b] # NoPack
      /\ ses[s].pc = "end" => ses[s].todo = {} /\ ses[s].mem.pend = Empty

ForgetInv(s) == Forgetting(s) => ses[s].left \subseteq LiveSnaps /\ ses[s].todo = {}

(* rebuild_index deletes an index file only after its blobs are in another.  *)
RebuildInv(s) ==
    ses[s].cmd = "rebuild_index" =>
      /\ ses[s].pc \in {"list", "scan"} =>
           ses[s].left \subseteq PackId /\ \A p \in PackId : packs[p] # {} => p \in ses[s].left
      /\ ses[s].pc = "persist" =>
           /\ LocInv(ses[s].mem)
           /\ \A b \in Blob : /\ Indexed(b) => ses[s].mem.pend[b] # NoPack
                              /\ ses[s].mem.pend[b] # NoPack => b \in packs[ses[s].mem.pend[b]]
      /\ ses[s].pc = "sweep" =>
           \A b \in Blob : Indexed(b) => \E i \in IndexId \ ses[s].old : indexes[i][b] # NoPack

(* clean up to its checkpoint: the plan it follows is true.                  *)
PlanInv(s) ==
    LET m == ses[s].mem
    IN  /\ Collects(s, {"load", "scan", "trash", "unused"}) => ses[s].todo = {}
        /\ Collects(s, {"scan", "trash", "unused"}) => m.pend = Empty /\ LocInv(m)
        /\ Collects(s, {"scan"}) => OnDisk \subseteq m.files /\ \A b \in Referenced : m.loc[b] # NoPack
        /\ Collects(s, {"scan", "trash"}) => \A e \in m.entries : Valid(e)
        /\ Collects(s, {"trash"}) => \A p \in ses[s].unused : packs[p] # {}
        /\ Collects(s, {"trash", "unused"}) =>
             /\ OnDisk \subseteq ses[s].old
             /\ \A b \in ses[s].want : m.loc[b] # NoPack /\ m.loc[b] \notin ses[s].unused
             /\ \A p \in ses[s].obsolete : p \in ses[s].unused \/ \E b \in ses[s].want : m.loc[b] = p
        /\ Collects(s, {"unused"}) =>
             /\ \A e \in m.entries : Valid(e) \/ e[2] \in ses[s].unused
             /\ ses[s].left \subseteq ses[s].unused
             /\ \A p \in ses[s].left : packs[p] # {}

(* Without failing deletions no dropped snapshot outlives delete_trash_files.*)
DroppedGone(s) ==
    "storage" \notin Faults =>
      /\ Collects(s, {"trash"}) => {i \in SnapId : snaps[i].at = "dropped"} \subseteq ses[s].left
      /\ Collects(s, Deleting \cup {"obsolete"}) => \A i \in SnapId : snaps[i].at # "dropped"

(* A file that the clean does not sweep has the blob.                        *)
Found(b, s) == \E i \in IndexId \ ses[s].old : indexes[i][b] # NoPack

Doomed(s) == ses[s].unused \cup ses[s].obsolete

(* clean from its checkpoint on: the new index and the packs it names.       *)
RepackInv(s) ==
    LET m == ses[s].mem
    IN  /\ Collects(s, Deleting \cup {"trash", "obsolete"}) => ses[s].want = Referenced
        /\ Collects(s, Deleting) =>
             \A i \in IndexId, b \in Blob : indexes[i][b] # NoPack =>
               b \in packs[indexes[i][b]] \/ (i \in ses[s].old /\ indexes[i][b] \in ses[s].unused)
        /\ Collects(s, {"repack", "flush", "sweep"}) =>
             /\ \A e \in AllEntries(m) : Valid(e) /\ e[2] \notin Doomed(s)
             /\ LocInv(m) /\ ses[s].todo \subseteq ses[s].want
             /\ \A b \in Blob : m.loc[b] # NoPack => Found(b, s)
             /\ \A i \in IndexId \ ses[s].old, b \in Blob : indexes[i][b] \notin Doomed(s)
        /\ Collects(s, {"repack", "flush"}) =>
             /\ \A b \in ses[s].want : b \in ses[s].todo \/ Get(m, b) # NoPack
             /\ m.files \cap ses[s].old = {}
        /\ Collects(s, {"sweep"}) =>
             /\ \A i \in OnDisk : i \in ses[s].old => i \in ses[s].left
             /\ ses[s].left \subseteq ses[s].old
             /\ \A b \in ses[s].want : Found(b, s)
        /\ Collects(s, {"obsolete"}) =>
             /\ ses[s].left \subseteq ses[s].obsolete
             /\ \A i \in IndexId, b \in Blob : indexes[i][b] \notin ses[s].obsolete

(* Every pack that clean has not deleted or not yet holds a referenced blob. *)
CollectInv(s) ==
    \A p \in PackId : packs[p] # {} =>
      /\ Collects(s, {"trash"}) => p \in ses[s].unused \/ packs[p] \cap ses[s].want # {}
      /\ Collects(s, {"unused"}) => p \in ses[s].left \/ packs[p] \cap ses[s].want # {}
      /\ Collects(s, {"repack", "flush", "sweep", "obsolete"}) => packs[p] \cap ses[s].want # {}

CleanInv(s) == PlanInv(s) /\ DroppedGone(s) /\ RepackInv(s) /\ CollectInv(s)

SesInv(s) ==
    /\ WriteInv(s) /\ BackupInv(s) /\ RewriteInv(s) /\ RechunkInv(s)
    /\ ForgetInv(s) /\ RebuildInv(s) /\ CleanInv(s)

RepoInv ==
    /\ LockInv /\ AloneInv /\ IndexInv /\ SnapInv /\ DropInv
    /\ \A s \in Session : SesInv(s)

(* Garbage in an obsolete pack of which merge_index keeps an entry, although *)
(* nothing in the obsolete packs is left to repack: the early return of      *)
(* repack, which leaves the entry in the index the clean writes.             *)
Overlooked(s) ==
    /\ Cleaning(s, "unused") /\ ses[s].left = {} /\ ses[s].unused # {}
    /\ LET m == Cleanup(ses[s].mem, ses[s].unused)
       IN  /\ ToRepack(s, m) = {}
           /\ \E e \in AllEntries(m) : e[2] \in ses[s].obsolete

NothingOverlooked == \A s \in Session : ~Overlooked(s)

-----------------------------------------------------------------------------
(* Lemmas about sessions side by side.                                       *)

(* Where nothing changes, the invariant stays.                               *)
LEMMA NothingMoves == ASSUME RepoInv, UNCHANGED vars PROVE RepoInv'
<1>1. LockInv' /\ AloneInv' /\ IndexInv' /\ SnapInv' /\ DropInv'
  BY Zenon DEF vars, RepoInv, LockInv, Busy, AloneInv, IndexInv, IndexHeld, Collects, SnapInv,
       LiveSnaps, Listed, Indexed, DropInv
<1>2. ASSUME NEW s \in Session PROVE SesInv(s)'
  <2>1. WriteInv(s)' /\ BackupInv(s)' /\ RewriteInv(s)' /\ RechunkInv(s)' /\ ForgetInv(s)'
    BY ZenonT(40) DEF vars, RepoInv, SesInv, WriteInv, TrueIndex, Valid, LocInv, AllEntries, Get,
         Indexed, BackupInv, RewriteInv, RechunkInv, LiveSnaps, ForgetInv, Forgetting
  <2>2. RebuildInv(s)' /\ CollectInv(s)' /\ DroppedGone(s)'
    BY ZenonT(40) DEF vars, RepoInv, SesInv, CleanInv, RebuildInv, Indexed, LocInv, CollectInv,
         DroppedGone, Collects
  <2>3. PlanInv(s) /\ RepackInv(s)
    BY Zenon DEF RepoInv, SesInv, CleanInv
  <2>4. /\ Referenced' = Referenced /\ OnDisk' = OnDisk /\ Doomed(s)' = Doomed(s)
        /\ \A e : Valid(e)' <=> Valid(e)
        /\ \A b : Found(b, s)' <=> Found(b, s)
    BY Zenon DEF vars, Referenced, LiveSnaps, OnDisk, Doomed, Valid, Found
  <2>5. PlanInv(s)'
    BY Zenon, <2>3, <2>4 DEF vars, PlanInv, Collects, LocInv
  <2>6. RepackInv(s)'
    <3>1. /\ ses' = ses /\ packs' = packs /\ indexes' = indexes
          /\ AllEntries(ses[s].mem)' = AllEntries(ses[s].mem)
          /\ LocInv(ses[s].mem)' <=> LocInv(ses[s].mem)
          /\ \A b : Get(ses[s].mem, b)' = Get(ses[s].mem, b)
      BY Zenon DEF vars, AllEntries, LocInv, Get
    <3>2. \A S : Collects(s, S)' <=> Collects(s, S)
      BY Zenon, <3>1 DEF Collects
    <3> QED BY <2>3, <2>4, <3>1, <3>2 DEF RepackInv
  <2> QED BY Zenon, <2>1, <2>2, <2>5, <2>6 DEF SesInv, CleanInv
<1> QED BY SMTT(40), <1>1, <1>2 DEF RepoInv

(* A change of the disk that takes nothing away.                             *)
Grow ==
    /\ \A p \in PackId : packs[p] \subseteq packs'[p]
    /\ \A b \in Blob : Indexed(b) => Indexed(b)'

(* A session without a command owes nothing.                                 *)
LEMMA IdleInv ==
    ASSUME NEW s \in Session, ses'[s].cmd = "none"
    PROVE  SesInv(s)'
BY DEF SesInv, WriteInv, BackupInv, RewriteInv, RechunkInv, ForgetInv, Forgetting, RebuildInv,
       CleanInv, PlanInv, DroppedGone, RepackInv, CollectInv, Collects

(* What a backup or a copy owes.                                             *)
LEMMA BackupOnly ==
    ASSUME NEW s \in Session, ses'[s].cmd \in {"backup", "copy"}, WriteInv(s)', BackupInv(s)'
    PROVE  SesInv(s)'
BY DEF SesInv, RewriteInv, RechunkInv, ForgetInv, Forgetting, RebuildInv,
       CleanInv, PlanInv, DroppedGone, RepackInv, CollectInv, Collects

(* A backup stays sound while the disk grows.                                *)
LEMMA BackupKept ==
    ASSUME TypeInv, NEW u \in Session, ses[u].cmd = "backup", SesInv(u), ses'[u] = ses[u], Grow
    PROVE  SesInv(u)'
<1>1. ses[u].mem \in MemType /\ ses[u].want \subseteq Blob
  BY DEF TypeInv, SesType, SesRec
<1>2. AllEntries(ses[u].mem) \subseteq Blob \X PackId
  BY <1>1 DEF AllEntries, MemType
<1>3. WriteInv(u)'
  <2>1. \A e \in AllEntries(ses[u].mem) : Valid(e)'
    BY <1>2 DEF SesInv, WriteInv, TrueIndex, Valid, Grow
  <2> QED BY <2>1 DEF SesInv, WriteInv, TrueIndex, Grow, LocInv, AllEntries
<1>4. BackupInv(u)'
  BY <1>1 DEF SesInv, BackupInv, Grow, Get
<1> QED BY <1>3, <1>4, BackupOnly

(* A session at work is alone, unless it and the others are all backups.     *)
LEMMA Alone ==
    ASSUME RepoInv, NEW s \in Session, Busy(s), NEW u \in Session \ {s}
    PROVE  ses[u].cmd = "none" \/ (ses[s].cmd = "backup" /\ ses[u].cmd = "backup")
BY DEF RepoInv, AloneInv, Busy

(* What a command may rely on that is not deleting.                          *)
LEMMA Calm ==
    ASSUME RepoInv, NEW s \in Session, Busy(s)
    PROVE  /\ ~Collects(s, Deleting) => IndexHeld
           /\ ses[s].cmd # "rechunk" => \A i \in LiveSnaps : Listed(i)
<1>1. \A u \in Session \ {s} : ses[u].cmd \in {"none", "backup"}
  BY Alone
<1> QED BY <1>1 DEF RepoInv, IndexInv, SnapInv, Collects

(* A step that leaves the files alone, of a command that is not deleting.    *)
LEMMA QuietDisk ==
    ASSUME RepoInv, NEW s \in Session, Busy(s), ~Collects(s, Deleting),
           UNCHANGED <<packs, indexes, snaps>>, ses'[s].cmd = ses[s].cmd
    PROVE  IndexInv' /\ SnapInv' /\ DropInv'
<1>1. IndexHeld /\ (ses[s].cmd # "rechunk" => \A i \in LiveSnaps : Listed(i))
  BY Calm
<1> QED BY <1>1 DEF IndexInv, IndexHeld, SnapInv, LiveSnaps, Listed, Indexed, DropInv, RepoInv

(* A step inside a command keeps the invariant, if it keeps what the disk    *)
(* and its own session owe and, in a backup, only adds to the disk.          *)
LEMMA Continue ==
    ASSUME TypeInv, RepoInv, NEW s \in Session, Busy(s),
           \A u \in Session \ {s} : ses'[u] = ses[u],
           ses'[s].cmd = ses[s].cmd, ses'[s].stop = ses[s].stop, lock' = lock \/ Session = {s},
           ses[s].cmd = "backup" => Grow,
           IndexInv', SnapInv', DropInv', SesInv(s)'
    PROVE  RepoInv'
<1>1. ASSUME NEW u \in Session \ {s} PROVE SesInv(u)'
  <2>1. CASE ses[u].cmd = "none"
    BY <2>1, IdleInv
  <2>2. CASE ses[s].cmd = "backup" /\ ses[u].cmd = "backup"
    BY <2>2, BackupKept DEF RepoInv
  <2> QED BY <2>1, <2>2, Alone
<1>2. LockInv'
  BY DEF RepoInv, LockInv, Busy
<1>3. AloneInv'
  BY DEF RepoInv, AloneInv, Busy
<1> QED BY <1>1, <1>2, <1>3 DEF RepoInv

(* The end of a command keeps the invariant, if every live snapshot is       *)
(* listed and every index file true by then.                                 *)
LEMMA FinishInv ==
    ASSUME TypeInv, RepoInv, NEW s \in Session, Busy(s), Finish(s), UNCHANGED <<packs, indexes>>,
           IndexHeld, \A i \in LiveSnaps' : Listed(i)', DropInv'
    PROVE  RepoInv'
<1>1. ses'[s] = Idle /\ \A u \in Session \ {s} : ses'[u] = ses[u] /\ lock'[u] = lock[u]
  BY DEF Finish, TypeInv, LockType
<1>2. Grow
  BY DEF Grow, Indexed
<1>3. ASSUME NEW u \in Session PROVE SesInv(u)'
  <2>1. CASE u = s
    BY <1>1, <2>1, IdleInv DEF Idle
  <2>2. CASE u # s /\ ses[u].cmd = "none"
    BY <1>1, <2>2, IdleInv
  <2>3. CASE u # s /\ ses[u].cmd = "backup"
    BY SMTT(40), <1>1, <1>2, <2>3, BackupKept DEF RepoInv
  <2> QED BY <2>1, <2>2, <2>3, Alone
<1>4. LockInv'
  BY <1>1 DEF RepoInv, LockInv, Busy, Idle
<1>5. AloneInv'
  BY <1>1 DEF RepoInv, AloneInv, Busy, Idle
<1>6. IndexInv' /\ SnapInv'
  BY DEF IndexInv, IndexHeld, SnapInv
<1> QED BY <1>3, <1>4, <1>5, <1>6 DEF RepoInv

(* A command that ends where it exposes nothing.                             *)
LEMMA EndKeeps ==
    ASSUME TypeInv, RepoInv, NEW s \in Session, Busy(s), Finish(s),
           UNCHANGED <<packs, indexes, snaps>>, ~Collects(s, Deleting), ses[s].cmd # "rechunk"
    PROVE  RepoInv'
<1>1. IndexHeld /\ \A i \in LiveSnaps : Listed(i)
  BY Calm
<1>2. (\A i \in LiveSnaps' : Listed(i)') /\ DropInv'
  BY <1>1 DEF LiveSnaps, Listed, Indexed, DropInv, RepoInv
<1> QED BY <1>1, <1>2, FinishInv

(* with_repository_lock: who gets the lock meets nobody, or backups only.    *)
LEMMA StartCalm ==
    ASSUME Careful, RepoInv, NEW s \in Session, NEW c \in CmdsOf[s], CanLock(s, c), ses[s] = Idle
    PROVE  /\ \A u \in Session \ {s} : ses[u].cmd = "none" \/ (c = "backup" /\ ses[u].cmd = "backup")
           /\ IndexHeld /\ \A i \in LiveSnaps : Listed(i)
<1>1. ASSUME NEW u \in Session \ {s}, ses[u].cmd # "none"
      PROVE  c = "backup" /\ ses[u].cmd = "backup"
  <2>1. Session # {u} /\ Session # {s}
    OBVIOUS
  <2>2. ses[u].cmd \in CmdsOf[u] /\ lock[u] = LockMode(ses[u].cmd)
    BY <1>1, <2>1 DEF RepoInv, LockInv, Busy
  <2>3. /\ c \notin {"copy", "forget_clean", "rebuild_index"}
        /\ ses[u].cmd \notin {"copy", "forget_clean", "rebuild_index"}
    BY <2>1, <2>2 DEF Careful
  <2>4. LockMode(c) = (IF c = "backup" THEN "shared" ELSE "exclusive")
    BY <2>3 DEF LockMode
  <2>5. lock[u] = (IF ses[u].cmd = "backup" THEN "shared" ELSE "exclusive")
    BY <2>2, <2>3 DEF LockMode
  <2> QED BY Zenon, <2>4, <2>5 DEF CanLock
<1>2. \A u \in Session : ses[u].cmd \in {"none", "backup"}
  BY <1>1 DEF Idle
<1> QED BY <1>1, <1>2 DEF RepoInv, IndexInv, SnapInv, Collects

(* The start of a command keeps the invariant: the lock lets it in only      *)
(* among commands it may overlap.                                            *)
LEMMA StartInv ==
    ASSUME Careful, TypeInv, RepoInv, NEW s \in Session, NEW c \in Commands, NEW r, r.cmd = c,
           ~r.stop, Start(s, c, r), UNCHANGED <<packs, indexes, snaps>>, SesInv(s)'
    PROVE  RepoInv'
<1>0. c # "none" /\ c \in CmdsOf[s] /\ ses[s] = Idle /\ CanLock(s, c)
  BY DEF Commands, Start
<1>1. /\ ses'[s] = r /\ lock'[s] = LockMode(c)
      /\ \A u \in Session \ {s} : ses'[u] = ses[u] /\ lock'[u] = lock[u]
  BY DEF Start, TypeInv, LockType
<1>2. \A u \in Session \ {s} : ses[u].cmd = "none" \/ (c = "backup" /\ ses[u].cmd = "backup")
  BY <1>0, StartCalm
<1>3. IndexHeld /\ \A i \in LiveSnaps : Listed(i)
  BY <1>0, StartCalm
<1>4. Grow
  BY DEF Grow, Indexed
<1>5. ASSUME NEW u \in Session PROVE SesInv(u)'
  <2>1. CASE u # s /\ ses[u].cmd = "none"
    BY <1>1, <2>1, IdleInv
  <2>2. CASE u # s /\ ses[u].cmd = "backup"
    BY SMTT(40), <1>1, <1>4, <2>2, BackupKept DEF RepoInv
  <2> QED BY <1>2, <2>1, <2>2
<1>6. LockInv'
  BY <1>0, <1>1 DEF RepoInv, LockInv, Busy
<1>7. AloneInv'
  BY SMTT(40), <1>0, <1>1, <1>2 DEF AloneInv, Busy
<1>8. IndexInv' /\ SnapInv' /\ DropInv'
  BY SMTT(40), <1>3 DEF IndexInv, IndexHeld, SnapInv, DropInv, LiveSnaps, Listed, Indexed, RepoInv
<1> QED BY <1>5, <1>6, <1>7, <1>8 DEF RepoInv

-----------------------------------------------------------------------------
(* Lemmas about the pack saver and persist.                                  *)

(* What a written pack changes: one fresh pack with blobs that were still    *)
(* to store, which get then finds in it.                                     *)
LEMMA WritePackFacts ==
    ASSUME TypeInv, NEW s \in Session, WritePack(s), LocInv(ses[s].mem)
    PROVE  /\ UNCHANGED <<indexes, snaps, lock>>
           /\ \A u \in Session \ {s} : ses'[u] = ses[u]
           /\ ses'[s].cmd = ses[s].cmd /\ ses'[s].pc = ses[s].pc /\ ses'[s].stop = ses[s].stop
           /\ ses'[s].want = ses[s].want /\ ses'[s].left = ses[s].left
           /\ ses'[s].old = ses[s].old /\ ses'[s].unused = ses[s].unused
           /\ ses'[s].obsolete = ses[s].obsolete
           /\ ses'[s].todo \subseteq ses[s].todo
           /\ ses'[s].mem \in MemType /\ ses'[s].mem.files = ses[s].mem.files
           /\ ses'[s].mem.loc = ses[s].mem.loc /\ LocInv(ses'[s].mem)
           /\ \A e \in AllEntries(ses'[s].mem) :
                e \in AllEntries(ses[s].mem) \/ (e[2] \in FreshPacks /\ e[1] \in packs'[e[2]])
           /\ \A b \in Blob :
                /\ ses[s].mem.pend[b] # NoPack => ses'[s].mem.pend[b] # NoPack
                /\ Get(ses[s].mem, b) # NoPack => Get(ses'[s].mem, b) # NoPack
                /\ b \in ses[s].todo \ ses'[s].todo =>
                     ses'[s].mem.pend[b] # NoPack /\ Get(ses'[s].mem, b) # NoPack
           /\ \A p \in PackId : \/ packs'[p] = packs[p]
                                \/ /\ p \in FreshPacks /\ packs[p] = {}
                                   /\ packs'[p] # {} /\ packs'[p] \subseteq ses[s].todo
           /\ Grow
<1>1. PICK bs \in (SUBSET ses[s].todo) \ {{}}, p \in FreshPacks :
        /\ packs' = [packs EXCEPT ![p] = bs]
        /\ ses' = [ses EXCEPT ![s].todo = @ \ bs, ![s].mem = AddPack(@, p, bs)]
        /\ UNCHANGED <<indexes, snaps, lock>>
  BY ZenonT(40) DEF WritePack
<1>2. /\ ses[s] \in SesType /\ ses[s].mem \in MemType /\ bs \in SUBSET Blob
      /\ p \in PackId /\ packs[p] = {} /\ p # NoPack
  BY RepoAssumption DEF TypeInv, SesType, SesRec, FreshPacks, NoPack
<1> DEFINE n == AddPack(ses[s].mem, p, bs)
<1>3. ses'[s] = [ses[s] EXCEPT !.todo = @ \ bs, !.mem = n]
  BY <1>1 DEF TypeInv
<1>4. /\ n \in MemType
      /\ n.files = ses[s].mem.files /\ n.loc = ses[s].mem.loc /\ LocInv(n)
      /\ \A e \in AllEntries(n) : e \in AllEntries(ses[s].mem) \/ (e[1] \in bs /\ e[2] = p)
      /\ \A b \in Blob : Get(n, b) = IF b \in bs THEN p ELSE Get(ses[s].mem, b)
      /\ \A b \in Blob : n.pend[b] = IF b \in bs THEN p ELSE ses[s].mem.pend[b]
  BY <1>2, AddPackFacts
<1> HIDE DEF n
<1>5. /\ ses'[s].cmd = ses[s].cmd /\ ses'[s].pc = ses[s].pc /\ ses'[s].stop = ses[s].stop
      /\ ses'[s].want = ses[s].want /\ ses'[s].left = ses[s].left
      /\ ses'[s].old = ses[s].old /\ ses'[s].unused = ses[s].unused
      /\ ses'[s].obsolete = ses[s].obsolete
      /\ ses'[s].todo = ses[s].todo \ bs /\ ses'[s].mem = n
  BY <1>2, <1>3 DEF SesType, SesRec
<1>6. \A u \in Session \ {s} : ses'[u] = ses[u]
  BY <1>1 DEF TypeInv
<1>7. \A q \in PackId : packs'[q] = IF q = p THEN bs ELSE packs[q]
  BY <1>1, <1>2 DEF TypeInv, DiskType
<1>8. Grow
  BY <1>1, <1>2, <1>7 DEF Grow, Indexed
<1>9. \A e \in AllEntries(n) :
        e \in AllEntries(ses[s].mem) \/ (e[2] \in FreshPacks /\ e[1] \in packs'[e[2]])
  BY SMTT(40), <1>2, <1>4, <1>7
<1>10. \A b \in Blob :
         /\ ses[s].mem.pend[b] # NoPack => n.pend[b] # NoPack
         /\ Get(ses[s].mem, b) # NoPack => Get(n, b) # NoPack
         /\ b \in bs => n.pend[b] # NoPack /\ Get(n, b) # NoPack
  BY <1>2, <1>4
<1>11. \A q \in PackId : \/ packs'[q] = packs[q]
                         \/ /\ q \in FreshPacks /\ packs[q] = {}
                            /\ packs'[q] # {} /\ packs'[q] \subseteq ses[s].todo
  BY SMTT(40), <1>2, <1>7
<1> QED BY Zenon, <1>1, <1>4, <1>5, <1>6, <1>8, <1>9, <1>10, <1>11

(* What a write of the pending index changes: at most one fresh index file   *)
(* with the pending locators, and no answer of get.                          *)
LEMMA PersistFacts ==
    ASSUME TypeInv, NEW s \in Session, NEW next \in SesType, Persist(s, next), LocInv(next.mem)
    PROVE  /\ \A u \in Session \ {s} : ses'[u] = ses[u]
           /\ ses'[s].cmd = next.cmd /\ ses'[s].pc = next.pc /\ ses'[s].stop = next.stop
           /\ ses'[s].want = next.want /\ ses'[s].left = next.left
           /\ ses'[s].old = next.old /\ ses'[s].unused = next.unused
           /\ ses'[s].obsolete = next.obsolete /\ ses'[s].todo = next.todo
           /\ ses'[s].mem \in MemType /\ ses'[s].mem.pend = Empty /\ LocInv(ses'[s].mem)
           /\ AllEntries(ses'[s].mem) = AllEntries(next.mem)
           /\ \A b \in Blob : /\ Get(ses'[s].mem, b) = Get(next.mem, b)
                              /\ ses'[s].mem.loc[b] = Get(next.mem, b)
           /\ ses'[s].mem.files \subseteq next.mem.files \cup FreshIndexes
           /\ \A j \in IndexId : \/ indexes'[j] = indexes[j]
                                 \/ j \in FreshIndexes /\ indexes'[j] = next.mem.pend
           /\ \A b \in Blob : next.mem.pend[b] # NoPack =>
                                \E j \in FreshIndexes : indexes'[j][b] # NoPack
           /\ \A b \in Blob : Indexed(b) => Indexed(b)'
<1>0. next.mem \in MemType
  BY SMTT(40) DEF SesType, SesRec
<1>1. CASE next.mem.pend = Empty
  <2>1. ses' = [ses EXCEPT ![s] = next] /\ UNCHANGED indexes
    BY <1>1 DEF Persist
  <2>2. ses'[s] = next /\ \A u \in Session \ {s} : ses'[u] = ses[u]
    BY <2>1 DEF TypeInv
  <2>3. \A b \in Blob : Get(next.mem, b) = next.mem.loc[b]
    BY <1>0, <1>1, EmptyPend
  <2>4. \A b \in Blob : next.mem.pend[b] = NoPack
    BY <1>1 DEF Empty
  <2> QED BY <1>0, <1>1, <2>1, <2>2, <2>3, <2>4 DEF Indexed
<1>2. CASE next.mem.pend # Empty
  <2>1. PICK i \in FreshIndexes :
          /\ indexes' = [indexes EXCEPT ![i] = next.mem.pend]
          /\ ses' = [ses EXCEPT ![s] = [next EXCEPT !.mem = Persisted(@, i)]]
    BY <1>2 DEF Persist
  <2>2. i \in IndexId /\ i \notin OnDisk
    BY DEF FreshIndexes
  <2> DEFINE n == Persisted(next.mem, i)
  <2>3. /\ n \in MemType
        /\ n.files = next.mem.files \cup {i} /\ n.pend = Empty /\ LocInv(n)
        /\ AllEntries(n) = AllEntries(next.mem)
        /\ \A b \in Blob : n.loc[b] = Get(next.mem, b) /\ Get(n, b) = Get(next.mem, b)
    BY <1>0, <2>2, PersistedFacts
  <2>4. ses'[s] = [next EXCEPT !.mem = n] /\ \A u \in Session \ {s} : ses'[u] = ses[u]
    BY <2>1 DEF TypeInv
  <2> HIDE DEF n
  <2>5. /\ ses'[s].cmd = next.cmd /\ ses'[s].pc = next.pc /\ ses'[s].stop = next.stop
        /\ ses'[s].want = next.want /\ ses'[s].left = next.left
        /\ ses'[s].old = next.old /\ ses'[s].unused = next.unused
        /\ ses'[s].obsolete = next.obsolete /\ ses'[s].todo = next.todo
        /\ ses'[s].mem = n
    BY <2>4 DEF SesType, SesRec
  <2>6. \A j \in IndexId : indexes'[j] = IF j = i THEN next.mem.pend ELSE indexes[j]
    BY <2>1, <2>2 DEF TypeInv, DiskType
  <2>7. \A b \in Blob : indexes[i][b] = NoPack
    BY <2>2 DEF OnDisk, Empty
  <2>8. \A b \in Blob : Indexed(b) => Indexed(b)'
    BY <2>2, <2>6, <2>7 DEF Indexed
  <2>9. \A b \in Blob : next.mem.pend[b] # NoPack =>
                          \E j \in FreshIndexes : indexes'[j][b] # NoPack
    BY <2>2, <2>6
  <2>10. \A j \in IndexId : \/ indexes'[j] = indexes[j]
                            \/ j \in FreshIndexes /\ indexes'[j] = next.mem.pend
    BY <2>6
  <2>11. n.files \subseteq next.mem.files \cup FreshIndexes
    BY SMTT(40), <2>3
  <2> QED BY SMTT(40), <2>3, <2>4, <2>5, <2>8, <2>9, <2>10, <2>11
<1> QED BY <1>1, <1>2

(* A reload from true index files is a true master index.                    *)
LEMMA LoadTrue ==
    ASSUME DiskType, IndexHeld
    PROVE  TrueIndex(LoadIndex)
<1>1. \A e \in LoadIndex.entries :
        \E i \in IndexId : indexes[i][e[1]] = e[2] /\ e[1] \in Blob /\ e[2] \in PackId
  BY LoadIndexFacts
<1>2. \A e \in LoadIndex.entries : Valid(e)
  BY SMTT(40), <1>1, RepoAssumption DEF IndexHeld, Valid, NoPack
<1> QED BY <1>2, LoadIndexFacts DEF TrueIndex

-----------------------------------------------------------------------------
(* Types.                                                                    *)

(* The strengthened type invariant gives the checked one.                    *)
LEMMA TypeInvImplies == TypeInv => TypeOK
<1> SUFFICES ASSUME TypeInv PROVE TypeOK
  OBVIOUS
<1>1. ASSUME NEW s \in Session
      PROVE  /\ ses[s].cmd \in Commands \cup {"none"}
             /\ ses[s].mem \in MemType
             /\ ses[s].want \cup ses[s].todo \subseteq Blob
             /\ ses[s].unused \cup ses[s].obsolete \subseteq PackId
  <2>1. ses[s] \in SesType
    BY DEF TypeInv
  <2> QED BY <2>1 DEF SesType, SesRec
<1>2. ASSUME NEW s \in Session, ses[s] = Idle PROVE lock[s] = "none"
  BY <1>2 DEF TypeInv, LockType, Idle
<1>3. DiskType /\ lock \in [Session -> {"none", "shared", "exclusive"}]
  BY DEF TypeInv, LockType
<1> QED BY <1>1, <1>2, <1>3, Zenon DEF DiskType, TypeOK

(* A session between commands and a master index that is not loaded have     *)
(* their types.                                                              *)
LEMMA IdleType == Idle \in SesType /\ NoIndex \in MemType
<1>1. NoIndex \in MemType
  BY EmptyType DEF NoIndex, MemType
<1> QED BY <1>1 DEF Idle, SesType, SesRec, PCs

(* A step of session s that leaves the others alone.                         *)
LEMMA SesStep ==
    ASSUME TypeInv, NEW s \in Session, NEW r \in SesType, ses' = [ses EXCEPT ![s] = r],
           r.cmd # "none", DiskType', lock' \in [Session -> {"none", "shared", "exclusive"}],
           \A u \in Session \ {s} : lock'[u] = lock[u]
    PROVE  TypeInv'
<1>1. ses' \in [Session -> SesType]
  BY DEF TypeInv
<1>2. ASSUME NEW u \in Session, ses'[u].cmd = "none" PROVE ses'[u] = Idle /\ lock'[u] = "none"
  BY <1>2 DEF TypeInv, LockType
<1> QED BY <1>1, <1>2 DEF TypeInv, LockType

(* The end of a command keeps the types, if what it does to the files does.  *)
LEMMA FinishType ==
    ASSUME TypeInv, NEW s \in Session, Finish(s), DiskType'
    PROVE  TypeInv'
<1>1. ses' \in [Session -> SesType]
  BY IdleType DEF TypeInv, Finish
<1>2. lock' \in [Session -> {"none", "shared", "exclusive"}]
  BY DEF TypeInv, LockType, Finish
<1>3. ASSUME NEW u \in Session, ses'[u].cmd = "none" PROVE ses'[u] = Idle /\ lock'[u] = "none"
  BY <1>3 DEF TypeInv, LockType, Finish
<1> QED BY <1>1, <1>2, <1>3 DEF TypeInv, LockType

(* The start of a command keeps the types, if the state it starts in has     *)
(* its type.                                                                 *)
LEMMA StartType ==
    ASSUME TypeInv, NEW s \in Session, NEW c \in Commands, NEW r \in SesType, r.cmd = c,
           Start(s, c, r), UNCHANGED <<packs, indexes, snaps>>
    PROVE  TypeInv'
<1>1. LockMode(c) \in {"none", "shared", "exclusive"}
  BY DEF LockMode
<1>2. DiskType'
  BY DEF TypeInv, DiskType
<1>3. c # "none"
  BY DEF Commands
<1>4. lock' \in [Session -> {"none", "shared", "exclusive"}]
  BY <1>1 DEF TypeInv, LockType, Start
<1>5. \A u \in Session \ {s} : lock'[u] = lock[u]
  BY DEF TypeInv, LockType, Start
<1> QED BY Zenon, <1>2, <1>3, <1>4, <1>5, SesStep DEF Start

(* A write of the pending index keeps the types.                             *)
LEMMA PersistType ==
    ASSUME TypeInv, NEW s \in Session, NEW next \in SesType, next.cmd # "none",
           Persist(s, next), UNCHANGED <<packs, snaps, lock>>
    PROVE  TypeInv'
<1>1. CASE next.mem.pend = Empty
  <2>1. DiskType'
    BY <1>1 DEF TypeInv, DiskType, Persist
  <2> QED BY <1>1, <2>1, SesStep DEF Persist, TypeInv, LockType
<1>2. CASE next.mem.pend # Empty
  <2>1. PICK i \in FreshIndexes :
          /\ indexes' = [indexes EXCEPT ![i] = next.mem.pend]
          /\ ses' = [ses EXCEPT ![s] = [next EXCEPT !.mem = Persisted(@, i)]]
    BY <1>2 DEF Persist
  <2>2. i \in IndexId /\ next.mem \in MemType
    BY DEF FreshIndexes, SesType, SesRec
  <2>3. next.mem.pend \in [Blob -> PackId \cup {NoPack}]
    BY <2>2 DEF MemType
  <2>4. DiskType'
    BY <2>1, <2>2, <2>3 DEF TypeInv, DiskType
  <2>5. [next EXCEPT !.mem = Persisted(@, i)] \in SesType
    BY <2>2, PersistedType DEF SesType, SesRec
  <2>6. [next EXCEPT !.mem = Persisted(@, i)].cmd # "none"
    BY DEF SesType, SesRec
  <2> QED BY <2>1, <2>4, <2>5, <2>6, SesStep DEF TypeInv, LockType
<1> QED BY <1>1, <1>2

(* An empty repository has the types.                                        *)
LEMMA TypeInit == Init => TypeInv
<1> SUFFICES ASSUME Init PROVE TypeInv
  OBVIOUS
<1>1. DiskType
  BY EmptyType DEF Init, DiskType, NoSnap
<1>2. ses \in [Session -> SesType]
  BY IdleType DEF Init
<1> QED BY <1>1, <1>2 DEF Init, TypeInv, LockType

(* Session s goes on with its command and nobody's lock changes.             *)
LEMMA GoOn ==
    ASSUME TypeInv, NEW s \in Session, ses' \in [Session -> SesType],
           ses[s].cmd # "none", ses'[s].cmd = ses[s].cmd,
           \A u \in Session \ {s} : ses'[u] = ses[u],
           DiskType', UNCHANGED lock
    PROVE  TypeInv'
<1>1. ASSUME NEW u \in Session, ses'[u].cmd = "none" PROVE ses'[u] = Idle /\ lock'[u] = "none"
  BY <1>1 DEF TypeInv, LockType
<1> QED BY <1>1 DEF TypeInv, LockType

(* A pack written by any command keeps the types.                            *)
LEMMA WritePackType ==
    ASSUME TypeInv, NEW s \in Session, ses[s].cmd # "none", WritePack(s)
    PROVE  TypeInv'
<1>1. PICK bs \in SUBSET ses[s].todo, p \in FreshPacks :
        /\ packs' = [packs EXCEPT ![p] = bs]
        /\ ses' = [ses EXCEPT ![s].todo = @ \ bs, ![s].mem = AddPack(@, p, bs)]
        /\ UNCHANGED <<indexes, snaps, lock>>
  BY Zenon DEF WritePack
<1>2. ses[s] \in SesType /\ p \in PackId
  BY DEF TypeInv, FreshPacks
<1>3. DiskType'
  BY <1>1, <1>2 DEF TypeInv, DiskType, SesType, SesRec
<1>4. AddPack(ses[s].mem, p, bs) \in MemType
  BY <1>2, AddPackType DEF SesType, SesRec
<1>5. ses' \in [Session -> SesType]
  BY ZenonT(40), <1>1, <1>2, <1>4 DEF TypeInv, SesType, SesRec
<1>6. ses'[s].cmd = ses[s].cmd /\ \A u \in Session \ {s} : ses'[u] = ses[u]
  BY <1>1, <1>2 DEF TypeInv, SesType, SesRec
<1> QED BY <1>1, <1>3, <1>5, <1>6, GoOn

(* An autosave of the index by any command keeps the types.                  *)
LEMMA AutosaveType ==
    ASSUME TypeInv, NEW s \in Session, ses[s].cmd # "none", Autosave(s)
    PROVE  TypeInv'
<1>1. ses[s] \in SesType
  BY DEF TypeInv
<1> QED BY <1>1, PersistType DEF Autosave

(* snapshot and copy keep the types.                                         *)
LEMMA BackupType ==
    ASSUME TypeInv, NEW s \in Session, BackupStart(s) \/ BackupStep(s)
    PROVE  TypeInv'
<1>0. ses[s] \in SesType /\ "backup" \in Commands
  BY DEF TypeInv, Commands
<1>1. CASE BackupStart(s)
  <2>0. \A i \in LiveSnaps : snaps[i].blobs \in SUBSET Blob
    BY SMTT(40) DEF LiveSnaps, TypeInv, DiskType
  <2>1. PICK want \in SUBSET Blob, parent \in SUBSET Blob :
          LET r == [Idle EXCEPT !.cmd = "backup", !.pc = "pack", !.want = want,
                      !.mem = LoadIndex,
                      !.todo = {b \in want : DiskGet(b) = NoPack /\ b \notin parent}]
          IN  Start(s, "backup", r) /\ UNCHANGED <<packs, indexes, snaps>>
    BY ZenonT(40), <1>1, <2>0 DEF BackupStart
  <2> DEFINE r == [Idle EXCEPT !.cmd = "backup", !.pc = "pack", !.want = want,
                     !.mem = LoadIndex,
                     !.todo = {b \in want : DiskGet(b) = NoPack /\ b \notin parent}]
  <2>2. r \in SesType /\ r.cmd = "backup"
    BY Zenon, IdleType, LoadIndexType DEF TypeInv, Idle, SesType, SesRec, PCs, Commands
  <2>3. Start(s, "backup", r) /\ UNCHANGED <<packs, indexes, snaps>>
    BY <2>1
  <2> HIDE DEF r
  <2> QED BY <1>0, <2>2, <2>3, StartType
<1>2. CASE BackupPack(s)
  BY <1>2, WritePackType, AutosaveType DEF BackupPack, Running
<1>3. CASE BackupFlush(s)
  <2>1. [ses[s] EXCEPT !.pc = "save"] \in SesType /\ [ses[s] EXCEPT !.pc = "save"].cmd = "backup"
    BY <1>0, <1>3 DEF BackupFlush, Running, SesType, SesRec, PCs
  <2>2. /\ [ses[s] EXCEPT !.todo = {}, !.pc = "end"] \in SesType
        /\ [ses[s] EXCEPT !.todo = {}, !.pc = "end"].cmd = "backup"
    BY Zenon, <1>0, <1>3 DEF BackupFlush, Running, SesType, SesRec, PCs
  <2>3. CASE Persist(s, [ses[s] EXCEPT !.pc = "save"])
    BY Zenon, <1>3, <2>1, <2>3, PersistType DEF BackupFlush
  <2>4. CASE Persist(s, [ses[s] EXCEPT !.todo = {}, !.pc = "end"])
    BY Zenon, <1>3, <2>2, <2>4, PersistType DEF BackupFlush
  <2> QED BY <1>3, <2>3, <2>4 DEF BackupFlush
<1>4. CASE BackupSave(s)
  <2>1. DiskType'
    BY SMTT(60), <1>0, <1>4 DEF BackupSave, TypeInv, DiskType, FreshSnaps, SesType, SesRec
  <2>2. ses' \in [Session -> SesType]
    BY <1>4 DEF BackupSave, TypeInv, SesType, SesRec, PCs
  <2>3. ses'[s].cmd = ses[s].cmd /\ \A u \in Session \ {s} : ses'[u] = ses[u]
    BY <1>0, <1>4 DEF BackupSave, TypeInv, SesType, SesRec
  <2> QED BY <1>4, <2>1, <2>2, <2>3, GoOn DEF BackupSave, Running
<1>5. CASE BackupEnd(s)
  BY <1>5, FinishType DEF BackupEnd, TypeInv, DiskType
<1> QED BY <1>1, <1>2, <1>3, <1>4, <1>5 DEF BackupStep

(* copy keeps the types.                                                     *)
LEMMA CopyType ==
    ASSUME TypeInv, NEW s \in Session, CopyStart(s) \/ CopyStep(s)
    PROVE  TypeInv'
<1>0. ses[s] \in SesType /\ "copy" \in Commands
  BY DEF TypeInv, Commands
<1>1. CASE CopyStart(s)
  <2>1. PICK want \in SUBSET Blob :
          LET r == [Idle EXCEPT !.cmd = "copy", !.pc = "pack", !.want = want, !.mem = LoadIndex,
                      !.todo = {b \in want : DiskGet(b) = NoPack}]
          IN  Start(s, "copy", r) /\ UNCHANGED <<packs, indexes, snaps>>
    BY ZenonT(40), <1>1 DEF CopyStart
  <2> DEFINE r == [Idle EXCEPT !.cmd = "copy", !.pc = "pack", !.want = want, !.mem = LoadIndex,
                     !.todo = {b \in want : DiskGet(b) = NoPack}]
  <2>2. r \in SesType /\ r.cmd = "copy"
    BY ZenonT(40), IdleType, LoadIndexType DEF TypeInv, Idle, SesType, SesRec, PCs, Commands
  <2>3. Start(s, "copy", r) /\ UNCHANGED <<packs, indexes, snaps>>
    BY <2>1
  <2> HIDE DEF r
  <2> QED BY <1>0, <2>2, <2>3, StartType
<1>2. CASE CopyPack(s)
  BY <1>2, WritePackType, AutosaveType DEF CopyPack, Running
<1>3. CASE CopyInterrupted(s) \/ CopyEnd(s)
  BY <1>3, FinishType DEF CopyInterrupted, CopyEnd, TypeInv, DiskType
<1>4. CASE CopyFlush(s)
  <2>1. [ses[s] EXCEPT !.pc = "save"] \in SesType /\ [ses[s] EXCEPT !.pc = "save"].cmd = "copy"
    BY <1>0, <1>4 DEF CopyFlush, Running, SesType, SesRec, PCs
  <2> QED BY Zenon, <1>4, <2>1, PersistType DEF CopyFlush
<1>5. CASE CopySave(s)
  <2>1. DiskType'
    BY <1>0, <1>5 DEF CopySave, TypeInv, DiskType, FreshSnaps, SesType, SesRec
  <2> QED BY <1>5, <2>1 DEF CopySave, TypeInv, LockType
<1> QED BY <1>1, <1>2, <1>3, <1>4, <1>5 DEF CopyStep

(* CleanCmd keeps the types.                                                 *)
LEMMA CleanStartType ==
    ASSUME TypeInv, NEW s \in Session, CleanStart(s)
    PROVE  TypeInv'
<1> DEFINE r == [Idle EXCEPT !.cmd = "clean", !.pc = "load"]
<1>1. r \in SesType /\ r.cmd = "clean" /\ "clean" \in Commands
  BY ZenonT(40), IdleType DEF Idle, SesType, SesRec, PCs, Commands
<1>2. Start(s, "clean", r) /\ UNCHANGED <<packs, indexes, snaps>>
  BY DEF CleanStart
<1> HIDE DEF r
<1> QED BY <1>1, <1>2, StartType

(* scan: the packs to delete and the packs to repack are packs.              *)
LEMMA UnusedObsoleteType ==
    ASSUME NEW m \in MemType, NEW ob \in ObsoletePacks(m)
    PROVE  UnusedPacks(m) \subseteq PackId /\ ob \subseteq PackId
<1>1. AllEntries(m) \subseteq Blob \X PackId
  BY DEF AllEntries, MemType
<1> DEFINE indexed == {e[2] : e \in AllEntries(m)}
           garbage == {e[2] : e \in {x \in AllEntries(m) : x[1] \notin Referenced}}
<1>2. indexed \subseteq PackId /\ garbage \subseteq PackId
  BY <1>1
<1> DEFINE several == {x \in SUBSET indexed : Cardinality(x) # 1}
<1>3. ob \in {g \cup t : g \in SUBSET garbage, t \in several}
  BY DEF ObsoletePacks
<1>4. several \subseteq SUBSET PackId
  BY <1>2
<1> HIDE DEF several, garbage
<1> QED BY <1>2, <1>3, <1>4 DEF UnusedPacks

(* gc.rs: the checkpoint of a repack keeps the types.                        *)
LEMMA CheckpointType ==
    ASSUME TypeInv, NEW s \in Session, CleanCheckpoint(s)
    PROVE  TypeInv'
<1> DEFINE m == IF ses[s].unused = {} THEN ses[s].mem ELSE Cleanup(ses[s].mem, ses[s].unused)
           c == Cleanup(m, ses[s].obsolete)
           T == {b \in {e[1] : e \in ToRepack(s, m)} : Get(c, b) = NoPack}
<1>1. ses[s] \in SesType
  BY DEF TypeInv
<1>2. m \in MemType
  BY <1>1, CleanupType DEF SesType, SesRec
<1>3. c \in MemType
  BY <1>2, CleanupType
<1>4. T \in SUBSET Blob
  BY SMTT(40), <1>2 DEF ToRepack, AllEntries, MemType
<1>5. PICK r : /\ ses' = [ses EXCEPT ![s] = r]
               /\ r \in {[ses[s] EXCEPT !.pc = "end"],
                         [ses[s] EXCEPT !.mem = m, !.pc = "flush"],
                         [ses[s] EXCEPT !.mem = c, !.pc = "repack", !.todo = T]}
  BY Zenon DEF CleanCheckpoint, Repacking
<1> HIDE DEF m, c, T
<1>6. r \in SesType /\ r.cmd = ses[s].cmd
  <2>1. CASE r = [ses[s] EXCEPT !.pc = "end"]
    BY <1>1, <2>1 DEF SesType, SesRec, PCs
  <2>2. CASE r = [ses[s] EXCEPT !.mem = m, !.pc = "flush"]
    BY Zenon, <1>1, <1>2, <2>2 DEF SesType, SesRec, PCs
  <2>3. CASE r = [ses[s] EXCEPT !.mem = c, !.pc = "repack", !.todo = T]
    BY Zenon, <1>1, <1>3, <1>4, <2>3 DEF SesType, SesRec, PCs
  <2> QED BY <1>5, <2>1, <2>2, <2>3
<1>7. DiskType' /\ lock' = lock
  BY DEF CleanCheckpoint, TypeInv, DiskType
<1>8. ses[s].cmd # "none"
  BY DEF CleanCheckpoint, Cleaning
<1> QED BY <1>5, <1>6, <1>7, <1>8, SesStep DEF TypeInv, LockType

(* The steps of clean keep the types.                                        *)
LEMMA CleanType ==
    ASSUME TypeInv, NEW s \in Session, CleanStep(s)
    PROVE  TypeInv'
<1>0. ses[s] \in SesType /\ ses[s].mem \in MemType
  BY DEF TypeInv, SesType, SesRec
<1> DEFINE SameTask == /\ ses'[s].cmd = ses[s].cmd
                       /\ \A u \in Session \ {s} : ses'[u] = ses[u]
<1>1. CASE CleanLoad(s)
  <2>1. ses' \in [Session -> SesType] /\ SameTask
    BY ZenonT(40), <1>0, <1>1, LoadIndexType DEF CleanLoad, TypeInv, SesType, SesRec, PCs
  <2> QED BY <1>1, <2>1, GoOn DEF CleanLoad, Cleaning, TypeInv, DiskType
<1>2. CASE CleanScan(s)
  <2> DEFINE un == UnusedPacks(ses[s].mem)
             dropped == {i \in SnapId : snaps[i].at = "dropped"}
  <2>1. PICK ob \in ObsoletePacks(ses[s].mem) :
          ses' = [ses EXCEPT ![s].pc = "trash", ![s].want = Referenced,
                             ![s].unused = un, ![s].obsolete = ob,
                             ![s].old = ses[s].mem.files, ![s].left = dropped]
    BY Zenon, <1>2 DEF CleanScan
  <2>2. un \subseteq PackId /\ ob \subseteq PackId /\ dropped \subseteq SnapId
    BY <1>0, UnusedObsoleteType
  <2>3. Referenced \subseteq Blob /\ ses[s].mem.files \subseteq IndexId
    BY SMTT(40), <1>0 DEF TypeInv, DiskType, Referenced, LiveSnaps, MemType
  <2> HIDE DEF un, dropped
  <2> DEFINE r == [ses[s] EXCEPT !.pc = "trash", !.want = Referenced, !.unused = un,
                                 !.obsolete = ob, !.old = ses[s].mem.files, !.left = dropped]
  <2>4. r \in SesType /\ r.cmd = ses[s].cmd
    BY Zenon, <1>0, <1>2, <2>2, <2>3 DEF CleanScan, Cleaning, SesType, SesRec, PCs, Names
  <2>5. ses' = [ses EXCEPT ![s] = r]
    BY Zenon, <2>1
  <2> HIDE DEF r
  <2>6. ses' \in [Session -> SesType] /\ SameTask
    BY <1>0, <2>4, <2>5 DEF TypeInv
  <2> QED BY Zenon, <1>2, <2>6, GoOn DEF CleanScan, Cleaning, TypeInv, DiskType
<1>3. CASE CleanScanFails(s) \/ CleanRepacked(s)
  <2>1. ses' \in [Session -> SesType] /\ SameTask
    BY <1>0, <1>3 DEF CleanScanFails, CleanRepacked, CleanGoto, TypeInv, SesType, SesRec, PCs
  <2> QED BY <1>3, <2>1, GoOn DEF CleanScanFails, CleanRepacked, Cleaning, TypeInv, DiskType
<1>4. CASE CleanTrash(s)
  <2>1. ses' \in [Session -> SesType] /\ SameTask
    BY <1>0, <1>4 DEF CleanTrash, Cleaning, TypeInv, SesType, SesRec, PCs, Names
  <2>2. DiskType'
    BY <1>4 DEF CleanTrash, TypeInv, DiskType, NoSnap
  <2> QED BY <1>4, <2>1, <2>2, GoOn DEF CleanTrash, Cleaning
<1>5. CASE CleanDeleteUnused(s) \/ CleanDeleteObsolete(s)
  <2>1. ses' \in [Session -> SesType] /\ SameTask
    BY <1>0, <1>5 DEF CleanDeleteUnused, CleanDeleteObsolete, CleanGoto, Cleaning, TypeInv, SesType, SesRec, PCs
  <2>2. DiskType'
    BY <1>5 DEF CleanDeleteUnused, CleanDeleteObsolete, TypeInv, DiskType
  <2> QED BY SMTT(40), <1>5, <2>1, <2>2, GoOn DEF CleanDeleteUnused, CleanDeleteObsolete, Cleaning
<1>6. CASE CleanCheckpoint(s)
  BY <1>6, CheckpointType
<1>7. CASE CleanPack(s)
  BY <1>7, WritePackType, AutosaveType DEF CleanPack, Cleaning
<1>8. CASE CleanFlush(s)
  <2> DEFINE r == [ses[s] EXCEPT !.pc = "sweep", !.left = ses[s].old \ ses[s].mem.files]
  <2>1. ses[s].old \in SUBSET Names
    BY <1>0 DEF SesType, SesRec
  <2>2. r \in SesType /\ r.cmd # "none"
    BY Zenon, <1>0, <1>8, <2>1 DEF CleanFlush, Cleaning, SesType, SesRec, PCs
  <2>3. Persist(s, r) /\ UNCHANGED <<packs, snaps, lock>>
    BY <1>8 DEF CleanFlush
  <2> HIDE DEF r
  <2> QED BY <2>2, <2>3, PersistType
<1>9. CASE CleanSweep(s)
  <2>1. ses' \in [Session -> SesType] /\ SameTask
    BY <1>0, <1>9 DEF CleanSweep, Cleaning, TypeInv, SesType, SesRec, PCs, Names
  <2>2. DiskType'
    BY SMTT(40), <1>9, EmptyType DEF CleanSweep, TypeInv, DiskType
  <2> QED BY <1>9, <2>1, <2>2, GoOn DEF CleanSweep, Cleaning
<1>10. CASE CleanEnd(s)
  BY <1>10, FinishType DEF CleanEnd, TypeInv, DiskType
<1> QED
  BY <1>1, <1>2, <1>3, <1>4, <1>5, <1>6, <1>7, <1>8, <1>9, <1>10 DEF CleanStep

(* ForgetCmd keeps the types.                                                *)
LEMMA ForgetType ==
    ASSUME TypeInv, NEW s \in Session, ForgetStart(s) \/ RecallStart(s) \/ ForgetStep(s)
    PROVE  TypeInv'
<1>0. ses[s] \in SesType
  BY DEF TypeInv
<1>1. CASE ForgetStart(s)
  <2>1. PICK c \in {"forget", "forget_clean"}, gone \in SUBSET LiveSnaps :
          /\ Start(s, c, [Idle EXCEPT !.cmd = c, !.pc = "forget", !.left = gone])
          /\ UNCHANGED <<packs, indexes, snaps>>
    BY Zenon, <1>1 DEF ForgetStart
  <2> DEFINE r == [Idle EXCEPT !.cmd = c, !.pc = "forget", !.left = gone]
  <2>2. r \in SesType /\ r.cmd = c /\ c \in Commands
    BY ZenonT(40), IdleType DEF Idle, SesType, SesRec, PCs, Commands, LiveSnaps, Names
  <2>3. Start(s, c, r)
    BY <2>1
  <2> HIDE DEF r
  <2> QED BY SMTT(40), <2>1, <2>2, <2>3, StartType
<1>2. CASE RecallStart(s)
  <2>1. PICK i \in SnapId :
          Start(s, "recall", [Idle EXCEPT !.cmd = "recall", !.pc = "recall", !.left = {i}])
    BY Zenon, <1>2 DEF RecallStart
  <2> DEFINE r == [Idle EXCEPT !.cmd = "recall", !.pc = "recall", !.left = {i}]
  <2>2. r \in SesType /\ r.cmd = "recall" /\ "recall" \in Commands
    BY ZenonT(40), IdleType DEF Idle, SesType, SesRec, PCs, Commands, Names
  <2>3. Start(s, "recall", r) /\ UNCHANGED <<packs, indexes, snaps>>
    BY Zenon, <1>2, <2>1 DEF RecallStart
  <2> HIDE DEF r
  <2> QED BY <2>2, <2>3, StartType
<1>3. CASE ForgetOne(s)
  <2>1. ses' \in [Session -> SesType] /\ ses'[s].cmd = ses[s].cmd
        /\ \A u \in Session \ {s} : ses'[u] = ses[u]
    BY SMTT(40), <1>0, <1>3 DEF ForgetOne, TypeInv, SesType, SesRec
  <2>2. DiskType'
    BY SMTT(40), <1>3 DEF ForgetOne, TypeInv, DiskType, NoSnap
  <2> QED BY <1>3, <2>1, <2>2, GoOn DEF ForgetOne, Forgetting
<1>4. CASE ForgetDone(s)
  <2>1. DiskType'
    BY <1>4 DEF ForgetDone, TypeInv, DiskType
  <2>2. CASE Finish(s)
    BY <2>1, <2>2, FinishType
  <2>3. CASE ses' = [ses EXCEPT ![s].pc = "load"] /\ lock' = [lock EXCEPT ![s] = "none"]
    <3> DEFINE r == [ses[s] EXCEPT !.pc = "load"]
    <3>1. r \in SesType /\ r.cmd # "none"
      BY <1>0, <1>4 DEF ForgetDone, Forgetting, SesType, SesRec, PCs
    <3>2. ses' = [ses EXCEPT ![s] = r]
      BY <2>3
    <3>3. /\ lock' \in [Session -> {"none", "shared", "exclusive"}]
          /\ \A u \in Session \ {s} : lock'[u] = lock[u]
      BY <2>3 DEF TypeInv, LockType
    <3> HIDE DEF r
    <3> QED BY Zenon, <2>1, <3>1, <3>2, <3>3, SesStep
  <2> QED BY <1>4, <2>2, <2>3 DEF ForgetDone
<1>5. CASE Recall(s)
  <2>1. DiskType'
    BY ZenonT(40), <1>5 DEF Recall, TypeInv, DiskType
  <2> QED BY <1>5, <2>1, FinishType DEF Recall
<1> QED BY <1>1, <1>2, <1>3, <1>4, <1>5 DEF ForgetStep

(* RewriteCmd keeps the types.                                               *)
LEMMA RewriteType ==
    ASSUME TypeInv, NEW s \in Session, RewriteStart(s) \/ RewriteStep(s)
    PROVE  TypeInv'
<1>0. ses[s] \in SesType
  BY DEF TypeInv
<1> DEFINE SameTask == /\ ses'[s].cmd = ses[s].cmd
                       /\ \A u \in Session \ {s} : ses'[u] = ses[u]
<1>1. CASE RewriteStart(s)
  <2>1. PICK c \in {"amend", "rechunk"}, list \in SUBSET LiveSnaps :
          /\ Start(s, c, [Idle EXCEPT !.cmd = c, !.pc = "next", !.mem = LoadIndex, !.left = list])
          /\ UNCHANGED <<packs, indexes, snaps>>
    BY ZenonT(40), <1>1 DEF RewriteStart
  <2> DEFINE r == [Idle EXCEPT !.cmd = c, !.pc = "next", !.mem = LoadIndex, !.left = list]
  <2>2. r \in SesType /\ r.cmd = c /\ c \in Commands
    BY ZenonT(40), IdleType, LoadIndexType DEF TypeInv, Idle, SesType, SesRec, PCs, Commands, LiveSnaps, Names
  <2>3. Start(s, c, r)
    BY <2>1
  <2> HIDE DEF r
  <2> QED BY <2>1, <2>2, <2>3, StartType
<1>2. CASE RewriteOne(s)
  <2>1. PICK i \in ses[s].left, w \in SUBSET Blob :
          ses' = [ses EXCEPT ![s].pc = IF ses[s].cmd = "amend" THEN "pack" ELSE "save",
                             ![s].want = w,
                             ![s].todo = @ \cup Handed(ses[s].cmd, ses[s].mem, w),
                             ![s].old = {i},
                             ![s].left = @ \ {i}]
    BY ZenonT(40), <1>2 DEF RewriteOne, Rewritten
  <2>2. Handed(ses[s].cmd, ses[s].mem, w) \subseteq Blob
    BY DEF Handed
  <2>3. ses' \in [Session -> SesType] /\ SameTask
    BY SMTT(60), <1>0, <2>1, <2>2 DEF TypeInv, SesType, SesRec, PCs
  <2> QED BY ZenonT(40), <1>2, <2>3, GoOn DEF RewriteOne, Rewriting, TypeInv, DiskType
<1>3. CASE AmendLabels(s)
  <2>1. PICK i \in ses[s].left :
          ses' = [ses EXCEPT ![s].pc = "save", ![s].want = snaps[i].blobs,
                             ![s].old = {i}, ![s].left = @ \ {i}]
    BY Zenon, <1>3 DEF AmendLabels
  <2>2. snaps[i].blobs \subseteq Blob
    BY SMTT(40), <1>0, <1>3 DEF AmendLabels, Running, TypeInv, DiskType, SesType
  <2>3. ses' \in [Session -> SesType] /\ SameTask
    BY <1>0, <2>1, <2>2 DEF TypeInv, SesType, SesRec, PCs
  <2> QED BY <1>3, <2>3, GoOn DEF AmendLabels, Running, TypeInv, DiskType
<1>4. CASE RewritePack(s)
  BY <1>4, WritePackType, AutosaveType DEF RewritePack
<1>5. CASE RewriteFlush(s)
  <2> DEFINE goal == IF ses[s].cmd = "amend" THEN "save" ELSE "end"
             r == [ses[s] EXCEPT !.pc = goal]
  <2>1. Persist(s, r) /\ UNCHANGED <<packs, snaps, lock>>
    BY <1>5 DEF RewriteFlush
  <2>2. goal \in PCs /\ ses[s].cmd # "none"
    BY <1>5 DEF RewriteFlush, Rewriting, Running, PCs
  <2> HIDE DEF goal
  <2>3. r \in SesType /\ r.cmd # "none"
    BY <1>0, <2>2 DEF SesType, SesRec
  <2> HIDE DEF r
  <2> QED BY <2>1, <2>3, PersistType
<1>6. CASE RewriteSave(s) \/ RewriteReplace(s)
  <2>1. DiskType'
    <3>1. CASE RewriteSave(s)
      BY <1>0, <3>1 DEF RewriteSave, TypeInv, DiskType, FreshSnaps, SesType, SesRec
    <3>2. CASE RewriteReplace(s)
      BY <3>2 DEF RewriteReplace, TypeInv, DiskType, NoSnap
    <3> QED BY <1>6, <3>1, <3>2
  <2>2. ses' \in [Session -> SesType] /\ SameTask
    BY SMTT(40), <1>0, <1>6 DEF RewriteSave, RewriteReplace, TypeInv, SesType, SesRec, PCs
  <2> QED BY <1>6, <2>1, <2>2, GoOn DEF RewriteSave, RewriteReplace, Rewriting
<1>7. CASE RewriteEnd(s)
  BY <1>7, FinishType DEF RewriteEnd, TypeInv, DiskType
<1> QED BY <1>1, <1>2, <1>3, <1>4, <1>5, <1>6, <1>7 DEF RewriteStep

(* rebuild-index keeps the types.                                            *)
LEMMA RebuildType ==
    ASSUME TypeInv, NEW s \in Session, RebuildStart(s) \/ RebuildStep(s)
    PROVE  TypeInv'
<1>0. ses[s] \in SesType
  BY DEF TypeInv
<1> DEFINE SameTask == /\ ses'[s].cmd = ses[s].cmd
                       /\ \A u \in Session \ {s} : ses'[u] = ses[u]
<1>1. CASE RebuildStart(s)
  <2> DEFINE held == {p \in PackId : packs[p] # {}}
             r == [Idle EXCEPT !.cmd = "rebuild_index", !.pc = "list", !.left = held]
  <2>1. r \in SesType /\ r.cmd = "rebuild_index" /\ "rebuild_index" \in Commands
    BY Zenon, IdleType DEF Idle, SesType, SesRec, PCs, Commands, Names
  <2>2. Start(s, "rebuild_index", r) /\ UNCHANGED <<packs, indexes, snaps>>
    BY <1>1 DEF RebuildStart
  <2> HIDE DEF r
  <2> QED BY SMTT(40), <2>1, <2>2, StartType
<1>2. CASE RebuildList(s)
  <2>1. OnDisk \subseteq Names
    BY DEF OnDisk, Names
  <2>2. ses' \in [Session -> SesType] /\ SameTask
    BY ZenonT(40), <1>0, <1>2, <2>1 DEF RebuildList, TypeInv, SesType, SesRec, PCs
  <2> QED BY SMTT(40), <1>2, <2>2, GoOn DEF RebuildList, Rebuilding, Running, TypeInv, DiskType
<1>3. CASE RebuildScan(s)
  <2>1. PICK f \in [Blob -> PackId \cup {NoPack}] :
          ses' = [ses EXCEPT ![s].mem = [NoIndex EXCEPT !.pend = f], ![s].pc = "persist",
                             ![s].left = {}]
    BY Zenon, <1>3 DEF RebuildScan
  <2>2. [NoIndex EXCEPT !.pend = f] \in MemType
    BY IdleType DEF NoIndex, MemType
  <2>3. ses' \in [Session -> SesType] /\ SameTask
    BY ZenonT(60), <1>0, <2>1, <2>2 DEF TypeInv, SesType, SesRec, PCs
  <2> QED BY <1>3, <2>3, GoOn DEF RebuildScan, Rebuilding, Running, TypeInv, DiskType
<1>4. CASE RebuildPersist(s)
  <2> DEFINE r == [ses[s] EXCEPT !.old = @ \ ses[s].mem.files, !.pc = "sweep"]
  <2>1. ses[s].old \in SUBSET Names
    BY <1>0 DEF SesType, SesRec
  <2>2. r \in SesType /\ r.cmd # "none"
    BY Zenon, <1>0, <1>4, <2>1 DEF RebuildPersist, Rebuilding, Running, SesType, SesRec, PCs
  <2>3. Persist(s, r) /\ UNCHANGED <<packs, snaps, lock>>
    BY <1>4 DEF RebuildPersist
  <2> HIDE DEF r
  <2> QED BY <2>2, <2>3, PersistType
<1>5. CASE RebuildSweep(s)
  <2>1. ses' \in [Session -> SesType] /\ SameTask
    BY <1>0, <1>5 DEF RebuildSweep, TypeInv, SesType, SesRec
  <2>2. DiskType'
    BY SMTT(40), <1>5, EmptyType DEF RebuildSweep, TypeInv, DiskType
  <2> QED BY <1>5, <2>1, <2>2, GoOn DEF RebuildSweep, Rebuilding, Running
<1>6. CASE RebuildEnd(s)
  BY <1>6, FinishType DEF RebuildEnd, TypeInv, DiskType
<1> QED BY <1>1, <1>2, <1>3, <1>4, <1>5, <1>6 DEF RebuildStep

(* Every step of the repository keeps the types.                             *)
LEMMA TypeNext == TypeInv /\ [Next]_vars => TypeInv'
<1> SUFFICES ASSUME TypeInv, [Next]_vars PROVE TypeInv'
  OBVIOUS
<1>1. ASSUME NEW s \in Session, Begin(s) PROVE TypeInv'
  BY SMTT(40), <1>1, BackupType, CopyType, CleanStartType, ForgetType, RewriteType, RebuildType DEF Begin
<1>2. ASSUME NEW s \in Session, Step(s) PROVE TypeInv'
  BY SMTT(40), <1>2, BackupType, CopyType, CleanType, ForgetType, RewriteType, RebuildType DEF Step
<1>3. ASSUME NEW s \in Session, Interrupt(s) PROVE TypeInv'
  <2>1. ses[s] \in SesType /\ ses[s].cmd # "none"
    BY <1>3 DEF Interrupt, TypeInv, LockType
  <2> DEFINE r == [ses[s] EXCEPT !.stop = TRUE]
  <2>2. r \in SesType /\ r.cmd = ses[s].cmd
    BY Zenon, <2>1 DEF SesType, SesRec
  <2>3. ses' = [ses EXCEPT ![s] = r]
    BY <1>3 DEF Interrupt
  <2>4. /\ lock' \in [Session -> {"none", "shared", "exclusive"}]
        /\ \A u \in Session \ {s} : lock'[u] = lock[u]
    BY <1>3 DEF Interrupt, TypeInv, LockType
  <2>5. DiskType'
    BY <1>3 DEF Interrupt, TypeInv, DiskType
  <2> HIDE DEF r
  <2> QED BY Zenon, <2>1, <2>2, <2>3, <2>4, <2>5, SesStep
<1>4. ASSUME NEW s \in Session, Crash(s) PROVE TypeInv'
  BY <1>4, FinishType DEF Crash, TypeInv, DiskType
<1>5. CASE UNCHANGED vars
  BY <1>5 DEF vars, TypeInv, DiskType, LockType
<1> QED BY SMTT(40), <1>1, <1>2, <1>3, <1>4, <1>5 DEF Next

(* Whatever commands run and whatever fails, every variable keeps its type   *)
(* and a session at rest holds no lock.                                      *)
THEOREM TypeCorrect == Spec => []TypeOK
<1>1. Spec => []TypeInv
  BY TypeInit, TypeNext, PTL DEF Spec
<1> QED BY <1>1, TypeInvImplies, PTL
=============================================================================

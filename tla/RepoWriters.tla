----------------------------- MODULE RepoWriters ----------------------------
(***************************************************************************)
(* Every step of the commands that store blobs (snapshot, copy, amend and  *)
(* rechunk) keeps the invariant of RepoSteps.                              *)
(***************************************************************************)
EXTENDS RepoSteps

(* A command that writes beside others keeps its index and the disk true.    *)
LEMMA WritePackTrue ==
    ASSUME TypeInv, NEW s \in Session, WritePack(s), TrueIndex(ses[s].mem), IndexHeld
    PROVE  TrueIndex(ses[s].mem)' /\ IndexHeld'
<1>0. LocInv(ses[s].mem) /\ ses[s].mem \in MemType
  BY DEF TrueIndex, TypeInv, SesType, SesRec
<1>1. \A e \in AllEntries(ses[s].mem) : e \in Blob \X PackId
  BY SMTT(40), <1>0 DEF AllEntries, MemType
<1>2. /\ UNCHANGED indexes /\ Grow
      /\ ses'[s].mem.loc = ses[s].mem.loc /\ LocInv(ses'[s].mem)
      /\ \A e \in AllEntries(ses'[s].mem) :
           e \in AllEntries(ses[s].mem) \/ (e[2] \in FreshPacks /\ e[1] \in packs'[e[2]])
  BY SMTT(40), <1>0, WritePackFacts
<1>3. \A e \in AllEntries(ses'[s].mem) : Valid(e)'
  BY <1>1, <1>2 DEF TrueIndex, Valid, Grow
<1>4. \A b \in Blob : ses'[s].mem.loc[b] # NoPack => Indexed(b)'
  BY <1>2 DEF TrueIndex, Grow
<1>5. IndexHeld'
  BY <1>2 DEF IndexHeld, Grow, TypeInv, DiskType
<1> QED BY <1>2, <1>3, <1>4, <1>5 DEF TrueIndex, AllEntries, LocInv

(* A write of a true pending index leaves true indices, and get finds        *)
(* nothing that no file has.                                                 *)
LEMMA PersistTrue ==
    ASSUME TypeInv, NEW s \in Session, NEW next \in SesType, Persist(s, next),
           TrueIndex(next.mem), IndexHeld, UNCHANGED packs
    PROVE  /\ TrueIndex(ses[s].mem)' /\ IndexHeld' /\ Grow
           /\ \A b \in Blob : Get(next.mem, b) # NoPack => Indexed(b)'
<1>0. LocInv(next.mem) /\ next.mem \in MemType
  BY DEF TrueIndex, SesType, SesRec
<1>1. /\ ses'[s].mem \in MemType /\ ses'[s].mem.pend = Empty /\ LocInv(ses'[s].mem)
      /\ AllEntries(ses'[s].mem) = AllEntries(next.mem)
      /\ \A b \in Blob : ses'[s].mem.loc[b] = Get(next.mem, b)
  BY SMTT(40), <1>0, PersistFacts
<1>2. /\ \A j \in IndexId : indexes'[j] = indexes[j] \/ indexes'[j] = next.mem.pend
      /\ \A b \in Blob : next.mem.pend[b] # NoPack => Indexed(b)'
      /\ \A b \in Blob : Indexed(b) => Indexed(b)'
  <2>1. /\ \A j \in IndexId : \/ indexes'[j] = indexes[j]
                              \/ j \in FreshIndexes /\ indexes'[j] = next.mem.pend
        /\ \A b \in Blob : next.mem.pend[b] # NoPack =>
                             \E j \in FreshIndexes : indexes'[j][b] # NoPack
        /\ \A b \in Blob : Indexed(b) => Indexed(b)'
    BY <1>0, PersistFacts
  <2>2. FreshIndexes \subseteq IndexId
    BY DEF FreshIndexes
  <2>3. \A b \in Blob : next.mem.pend[b] # NoPack => Indexed(b)'
    BY SMTT(40), <2>1, <2>2 DEF Indexed
  <2> QED BY SMTT(40), <2>1, <2>3
<1>3. \A b \in Blob : next.mem.pend[b] # NoPack => b \in packs[next.mem.pend[b]]
  <2>1. \A b \in Blob : next.mem.pend[b] # NoPack => <<b, next.mem.pend[b]>> \in AllEntries(next.mem)
    BY <1>0 DEF AllEntries, MemType
  <2> QED BY Zenon, <2>1 DEF TrueIndex, Valid
<1>4. \A b \in Blob : Get(next.mem, b) # NoPack => Indexed(b)'
  BY <1>2 DEF Get, TrueIndex
<1>5. \A e \in AllEntries(ses'[s].mem) : Valid(e)'
  BY <1>1 DEF TrueIndex, Valid
<1>6. IndexHeld'
  BY <1>2, <1>3 DEF IndexHeld
<1>7. Grow
  BY SMTT(40), <1>2 DEF Grow
<1>8. TrueIndex(ses[s].mem)'
  BY SMTT(40), <1>1, <1>4, <1>5 DEF TrueIndex, AllEntries, LocInv
<1> QED BY <1>4, <1>6, <1>7, <1>8

(* What a command that stores blobs owes.                                    *)
LEMMA WritersOnly ==
    ASSUME NEW s \in Session, ses'[s].cmd \in {"backup", "copy", "amend", "rechunk"},
           WriteInv(s)', BackupInv(s)', RewriteInv(s)', RechunkInv(s)'
    PROVE  SesInv(s)'
BY ZenonT(40) DEF SesInv, ForgetInv, Forgetting, RebuildInv,
       CleanInv, PlanInv, DroppedGone, RepackInv, CollectInv, Collects

(* The pack saver moves blobs from todo to the index, and persist from the   *)
(* pending index to a file: nothing is lost on the way.                      *)
LEMMA WriterKept ==
    ASSUME TypeInv, RepoInv, NEW s \in Session,
           ses[s].cmd \in {"backup", "copy", "amend", "rechunk"},
           UNCHANGED <<snaps, lock>>, \A u \in Session \ {s} : ses'[u] = ses[u],
           ses'[s].cmd = ses[s].cmd, ses'[s].pc = ses[s].pc, ses'[s].stop = ses[s].stop,
           ses'[s].want = ses[s].want, ses'[s].left = ses[s].left, ses'[s].old = ses[s].old,
           ses'[s].todo \subseteq ses[s].todo,
           ses'[s].todo = ses[s].todo => ses[s].mem.pend # Empty,
           \A b \in Blob :
             /\ Get(ses[s].mem, b) # NoPack => Get(ses'[s].mem, b) # NoPack
             /\ ses[s].mem.pend[b] # NoPack => ses'[s].mem.pend[b] # NoPack \/ Indexed(b)'
             /\ b \in ses[s].todo \ ses'[s].todo =>
                  ses'[s].mem.pend[b] # NoPack /\ Get(ses'[s].mem, b) # NoPack,
           TrueIndex(ses[s].mem)', IndexHeld', Grow
    PROVE  RepoInv'
<1>1. Busy(s)
  BY DEF Busy
<1>2. /\ ses[s].want \subseteq Blob /\ ses[s].todo \subseteq Blob
      /\ \A i \in SnapId : snaps[i].blobs \subseteq Blob
  BY DEF TypeInv, SesType, SesRec, DiskType
<1>3. LiveSnaps' = LiveSnaps /\ LiveSnaps \subseteq SnapId
  BY DEF LiveSnaps
<1>4. SesInv(s)
  BY DEF RepoInv
<1>5. WriteInv(s)'
  BY SMTT(40) DEF WriteInv
<1>6. BackupInv(s)'
  BY SMTT(40), <1>2, <1>4 DEF SesInv, BackupInv, Grow
<1>7. RewriteInv(s)'
  <2> SUFFICES ASSUME ses[s].cmd \in {"amend", "rechunk"} PROVE RewriteInv(s)'
    BY SMTT(40) DEF RewriteInv
  <2>1. RewriteInv(s)
    BY SMTT(40), <1>4 DEF SesInv
  <2>2. /\ ses'[s].left \subseteq LiveSnaps' /\ ses'[s].old \cap ses'[s].left = {}
        /\ \A i \in ses'[s].left : \A b \in snaps'[i].blobs : Get(ses'[s].mem, b) # NoPack
    BY SMTT(40), <1>2, <1>3, <2>1 DEF RewriteInv
  <2>3. ses'[s].pc \in {"pack", "save"} =>
          \A b \in ses'[s].want : b \in ses'[s].todo \/ Get(ses'[s].mem, b) # NoPack
    BY Zenon, <1>2, <2>1 DEF RewriteInv
  <2>4. ses'[s].cmd = "amend" /\ ses'[s].pc = "save" => \A b \in ses'[s].want : Indexed(b)'
    BY SMTT(40), <1>2, <2>1 DEF RewriteInv, Grow
  <2> QED BY ZenonT(40), <2>2, <2>3, <2>4 DEF RewriteInv, Get
<1>8. RechunkInv(s)'
  <2> SUFFICES ASSUME ses[s].cmd = "rechunk" PROVE RechunkInv(s)'
    BY SMTT(40) DEF RechunkInv
  <2>1. RechunkInv(s)
    BY SMTT(40), <1>4 DEF SesInv
  <2>2. \A i \in LiveSnaps : \A b \in snaps[i].blobs :
          Indexed(b)' \/ b \in ses'[s].todo \/ ses'[s].mem.pend[b] # NoPack
    BY SMTT(40), <1>2, <1>3, <2>1 DEF RechunkInv, Grow
  <2>3. ses[s].pc # "end"
    BY ZenonT(40), <2>1 DEF RechunkInv
  <2> QED BY SMTT(40), <1>3, <2>2, <2>3 DEF RechunkInv
<1>9. SesInv(s)'
  BY Zenon, <1>5, <1>6, <1>7, <1>8, WritersOnly
<1>10. ses[s].cmd # "rechunk" => \A i \in LiveSnaps' : Listed(i)'
  BY SMTT(40), <1>1, <1>2, <1>3, Calm DEF Listed, Grow
<1>11. SnapInv'
  BY SMTT(40), <1>10 DEF SnapInv
<1>12. DropInv'
  BY SMTT(40), <1>2 DEF RepoInv, DropInv, Listed, Grow
<1>13. IndexInv'
  BY DEF IndexInv
<1> QED BY SMTT(40), <1>1, <1>9, <1>11, <1>12, <1>13, Continue

(* A pack or an autosave of a command that stores blobs keeps the            *)
(* invariant.                                                                *)
LEMMA PackKeeps ==
    ASSUME TypeInv, RepoInv, NEW s \in Session,
           ses[s].cmd \in {"backup", "copy", "amend", "rechunk"}, WritePack(s) \/ Autosave(s)
    PROVE  RepoInv'
<1>1. TrueIndex(ses[s].mem) /\ LocInv(ses[s].mem) /\ ses[s] \in SesType
  BY DEF RepoInv, SesInv, WriteInv, TrueIndex, TypeInv
<1>2. IndexHeld
  BY SMTT(40), Calm DEF Busy, Collects
<1>3. CASE WritePack(s)
  <2>1. TrueIndex(ses[s].mem)' /\ IndexHeld'
    BY <1>1, <1>2, <1>3, WritePackTrue
  <2>2. ses'[s].todo # ses[s].todo
    <3>1. PICK bs \in (SUBSET ses[s].todo) \ {{}}, p \in FreshPacks :
            ses' = [ses EXCEPT ![s].todo = @ \ bs, ![s].mem = AddPack(@, p, bs)]
      BY Zenon, <1>3 DEF WritePack
    <3>2. ses'[s].todo = ses[s].todo \ bs
      BY <1>1, <3>1 DEF TypeInv, SesType, SesRec
    <3> QED BY <3>2
  <2> QED BY SMTT(40), <1>1, <1>3, <2>1, <2>2, WritePackFacts, WriterKept
<1>4. CASE Autosave(s)
  <2>1. Persist(s, ses[s]) /\ UNCHANGED <<packs, snaps, lock>> /\ ses[s].mem.pend # Empty
    BY SMTT(40), <1>4 DEF Autosave
  <2>2. /\ TrueIndex(ses[s].mem)' /\ IndexHeld' /\ Grow
        /\ \A b \in Blob : Get(ses[s].mem, b) # NoPack => Indexed(b)'
    BY <1>1, <1>2, <2>1, PersistTrue
  <2>3. \A b \in Blob : ses[s].mem.pend[b] # NoPack => Get(ses[s].mem, b) # NoPack
    BY DEF Get
  <2> QED BY <1>1, <2>1, <2>2, <2>3, PersistFacts, WriterKept
<1> QED BY <1>3, <1>4

(* A snapshot whose blobs are all indexed may be saved.                      *)
LEMMA SaveListed ==
    ASSUME TypeInv, NEW i \in FreshSnaps, NEW w \in SUBSET Blob, \A b \in w : Indexed(b),
           snaps' = [snaps EXCEPT ![i] = [at |-> "live", blobs |-> w]], UNCHANGED indexes,
           \A j \in LiveSnaps : Listed(j), DropInv
    PROVE  (\A j \in LiveSnaps' : Listed(j)') /\ DropInv'
<1>1. i \in SnapId
  BY DEF FreshSnaps
<1>2. \A j \in SnapId : snaps'[j] = IF j = i THEN [at |-> "live", blobs |-> w] ELSE snaps[j]
  BY <1>1 DEF TypeInv, DiskType
<1>3. \A b \in Blob : Indexed(b)' <=> Indexed(b)
  BY DEF Indexed
<1>4. \A j \in SnapId : snaps[j].blobs \subseteq Blob
  BY DEF TypeInv, DiskType
<1>5. ASSUME NEW j \in SnapId, snaps'[j].at = "live" PROVE Listed(j)'
  BY <1>2, <1>3, <1>4, <1>5 DEF LiveSnaps, Listed
<1>6. ASSUME NEW j \in SnapId, snaps'[j].at = "dropped", "storage" \notin Faults PROVE Listed(j)'
  BY <1>2, <1>3, <1>4, <1>6 DEF DropInv, Listed
<1> QED BY SMTT(40), <1>5, <1>6 DEF LiveSnaps, DropInv

-----------------------------------------------------------------------------
(* snapshot and copy.                                                        *)

(* flush_and_finalize_pack_saver of backup and copy.                         *)
LEMMA FlushKeeps ==
    ASSUME TypeInv, RepoInv, NEW s \in Session, ses[s].cmd \in {"backup", "copy"},
           ses[s].todo = {}, Persist(s, [ses[s] EXCEPT !.pc = "save"]), UNCHANGED <<packs, snaps, lock>>
    PROVE  RepoInv'
<1> DEFINE next == [ses[s] EXCEPT !.pc = "save"]
<1>1. /\ next \in SesType /\ next.mem = ses[s].mem /\ next.pc = "save" /\ next.cmd = ses[s].cmd
      /\ next.want = ses[s].want /\ next.todo = ses[s].todo /\ next.stop = ses[s].stop
  BY ZenonT(40) DEF TypeInv, SesType, SesRec, PCs
<1>2. TrueIndex(ses[s].mem) /\ LocInv(ses[s].mem) /\ SesInv(s) /\ Busy(s)
  BY DEF RepoInv, SesInv, WriteInv, TrueIndex, Busy
<1>3. IndexHeld /\ \A i \in LiveSnaps : Listed(i)
  BY <1>2, Calm DEF Collects
<1>4. Persist(s, next)
  OBVIOUS
<1> HIDE DEF next
<1>5. /\ TrueIndex(ses[s].mem)' /\ IndexHeld' /\ Grow
      /\ \A b \in Blob : Get(ses[s].mem, b) # NoPack => Indexed(b)'
  BY <1>1, <1>2, <1>3, <1>4, PersistTrue
<1>6. /\ \A u \in Session \ {s} : ses'[u] = ses[u]
      /\ ses'[s].cmd = ses[s].cmd /\ ses'[s].pc = "save" /\ ses'[s].stop = ses[s].stop
      /\ ses'[s].want = ses[s].want /\ ses'[s].todo = {}
      /\ \A b \in Blob : Get(ses'[s].mem, b) = Get(ses[s].mem, b)
  BY <1>1, <1>2, <1>4, PersistFacts
<1>7. /\ ses[s].want \subseteq Blob /\ \A i \in SnapId : snaps[i].blobs \subseteq Blob
  BY DEF TypeInv, SesType, SesRec, DiskType
<1>8. \A b \in ses[s].want : Get(ses[s].mem, b) # NoPack
  BY <1>2 DEF SesInv, BackupInv
<1>9. BackupInv(s)'
  BY <1>5, <1>6, <1>7, <1>8 DEF BackupInv
<1>10. WriteInv(s)'
  BY <1>5 DEF WriteInv
<1>11. SnapInv' /\ DropInv' /\ IndexInv'
  BY <1>3, <1>5, <1>7 DEF SnapInv, DropInv, IndexInv, RepoInv, LiveSnaps, Listed, Grow
<1> QED BY SMTT(40), <1>2, <1>5, <1>6, <1>9, <1>10, <1>11, BackupOnly, Continue

(* The steps of BackupCmd preserve the invariant.                            *)
LEMMA BackupKeeps ==
    ASSUME Careful, TypeInv, RepoInv, NEW s \in Session, BackupStart(s) \/ BackupStep(s)
    PROVE  RepoInv'
<1>1. CASE BackupStart(s)
  <2>1. PICK want \in (SUBSET Blob) \ {{}}, parent \in {{}} \cup {snaps[i].blobs : i \in LiveSnaps} :
          /\ Start(s, "backup",
                   [Idle EXCEPT !.cmd = "backup", !.pc = "pack", !.want = want, !.mem = LoadIndex,
                      !.todo = {b \in want : DiskGet(b) = NoPack /\ b \notin parent}])
          /\ UNCHANGED <<packs, indexes, snaps>>
    BY Zenon, <1>1 DEF BackupStart
  <2> DEFINE todo == {b \in want : DiskGet(b) = NoPack /\ b \notin parent}
             r == [Idle EXCEPT !.cmd = "backup", !.pc = "pack", !.want = want, !.mem = LoadIndex,
                      !.todo = todo]
  <2>2. /\ r.cmd = "backup" /\ r.pc = "pack" /\ r.want = want /\ r.mem = LoadIndex
        /\ r.todo = todo /\ ~r.stop
    BY DEF Idle
  <2>3. Start(s, "backup", r)
    BY <2>1
  <2> HIDE DEF r
  <2>4. ses'[s] = r
    BY <2>3 DEF Start, TypeInv
  <2>5. IndexHeld /\ \A i \in LiveSnaps : Listed(i)
    BY <2>3, StartCalm DEF Start
  <2>6. TrueIndex(LoadIndex) /\ \A b \in Blob : /\ LoadIndex.loc[b] = DiskGet(b)
                                                /\ Get(LoadIndex, b) = DiskGet(b)
                                                /\ DiskGet(b) # NoPack <=> Indexed(b)
    BY <2>5, LoadTrue, LoadIndexFacts DEF TypeInv
  <2>7. WriteInv(s)'
    <3>1. TrueIndex(ses'[s].mem)
      BY SMTT(40), <2>2, <2>4, <2>6
    <3> QED BY <2>1, <3>1 DEF WriteInv, TrueIndex, Valid, Indexed, LocInv, AllEntries
  <2>8. \A b \in want : b \in todo \/ Get(LoadIndex, b) # NoPack
    BY <2>5, <2>6 DEF Listed
  <2>9. BackupInv(s)'
    BY <2>2, <2>4, <2>8 DEF BackupInv
  <2>10. SesInv(s)'
    BY <2>2, <2>4, <2>7, <2>9, BackupOnly
  <2> QED BY <2>1, <2>2, <2>3, <2>10, StartInv DEF Commands
<1>2. CASE BackupPack(s)
  BY <1>2, PackKeeps DEF BackupPack, Running
<1>3. CASE BackupFlush(s)
  <2>1. ~ses[s].stop
    BY DEF RepoInv, LockInv
  <2> QED BY <1>3, <2>1, FlushKeeps DEF BackupFlush, Running
<1>4. CASE BackupSave(s)
  <2>1. /\ ses[s].cmd = "backup" /\ ses[s].pc = "save" /\ Busy(s) /\ SesInv(s) /\ DropInv
        /\ ses[s] \in SesType
    BY <1>4 DEF BackupSave, Running, Busy, RepoInv, TypeInv
  <2>2. IndexHeld /\ \A i \in LiveSnaps : Listed(i)
    BY SMTT(40), <2>1, Calm DEF Collects
  <2>3. ses[s].want \in SUBSET Blob /\ \A b \in ses[s].want : Indexed(b)
    BY <2>1 DEF SesInv, BackupInv, SesType, SesRec
  <2>4. UNCHANGED <<packs, indexes, lock>> /\ ses' = [ses EXCEPT ![s].pc = "end"]
    BY <1>4 DEF BackupSave
  <2>5. /\ ses'[s].cmd = "backup" /\ ses'[s].pc = "end" /\ ses'[s].stop = ses[s].stop
        /\ ses'[s].want = ses[s].want /\ ses'[s].todo = ses[s].todo /\ ses'[s].mem = ses[s].mem
        /\ \A u \in Session \ {s} : ses'[u] = ses[u]
    BY <2>1, <2>4 DEF TypeInv, SesType, SesRec
  <2>6. (\A j \in LiveSnaps' : Listed(j)') /\ DropInv'
    <3>1. CASE UNCHANGED snaps
      BY <2>1, <2>2, <2>4, <3>1 DEF LiveSnaps, Listed, Indexed, DropInv
    <3>2. CASE \E i \in FreshSnaps :
                 snaps' = [snaps EXCEPT ![i] = [at |-> "live", blobs |-> ses[s].want]]
      BY Zenon, <2>1, <2>2, <2>3, <2>4, <3>2, SaveListed
    <3> QED BY <1>4, <3>1, <3>2 DEF BackupSave
  <2>7. SnapInv' /\ IndexInv'
    BY <2>2, <2>4, <2>6 DEF SnapInv, IndexInv, IndexHeld
  <2>8. WriteInv(s)' /\ BackupInv(s)'
    BY <2>1, <2>4, <2>5 DEF SesInv, WriteInv, BackupInv, TrueIndex, Valid, Indexed, LocInv, AllEntries, Get
  <2>9. Grow
    BY <2>4 DEF Grow, Indexed
  <2> QED BY SMTT(40), <2>1, <2>4, <2>5, <2>6, <2>7, <2>8, <2>9, BackupOnly, Continue
<1>5. CASE BackupEnd(s)
  BY <1>5, EndKeeps DEF BackupEnd, Running, Busy, Collects
<1> QED BY <1>1, <1>2, <1>3, <1>4, <1>5 DEF BackupStep

(* The steps of copy preserve the invariant.                                 *)
LEMMA CopyKeeps ==
    ASSUME Careful, TypeInv, RepoInv, NEW s \in Session, CopyStart(s) \/ CopyStep(s)
    PROVE  RepoInv'
<1>0. ~ses[s].stop
  BY DEF RepoInv, LockInv
<1>1. CASE CopyStart(s)
  <2>1. PICK want \in (SUBSET Blob) \ {{}} :
          /\ Start(s, "copy",
                   [Idle EXCEPT !.cmd = "copy", !.pc = "pack", !.want = want, !.mem = LoadIndex,
                      !.todo = {b \in want : DiskGet(b) = NoPack}])
          /\ UNCHANGED <<packs, indexes, snaps>>
    BY Zenon, <1>1 DEF CopyStart
  <2> DEFINE todo == {b \in want : DiskGet(b) = NoPack}
             r == [Idle EXCEPT !.cmd = "copy", !.pc = "pack", !.want = want, !.mem = LoadIndex,
                      !.todo = todo]
  <2>2. /\ r.cmd = "copy" /\ r.pc = "pack" /\ r.want = want /\ r.mem = LoadIndex
        /\ r.todo = todo /\ ~r.stop
    BY DEF Idle
  <2>3. Start(s, "copy", r)
    BY <2>1
  <2> HIDE DEF r
  <2>4. ses'[s] = r
    BY <2>3 DEF Start, TypeInv
  <2>5. IndexHeld
    BY <2>3, StartCalm DEF Start
  <2>6. TrueIndex(LoadIndex) /\ \A b \in Blob : Get(LoadIndex, b) = DiskGet(b)
    BY <2>5, LoadTrue, LoadIndexFacts DEF TypeInv
  <2>7. WriteInv(s)'
    <3>1. TrueIndex(ses'[s].mem)
      BY <2>2, <2>4, <2>6
    <3> QED BY <2>1, <3>1 DEF WriteInv, TrueIndex, Valid, Indexed, LocInv, AllEntries
  <2>8. BackupInv(s)'
    BY <2>2, <2>4, <2>6 DEF BackupInv
  <2> QED BY SMTT(40), <2>1, <2>2, <2>3, <2>4, <2>7, <2>8, BackupOnly, StartInv DEF Commands
<1>2. CASE CopyPack(s)
  BY <1>2, PackKeeps DEF CopyPack, Running
<1>3. CASE CopyFlush(s)
  BY <1>3, FlushKeeps DEF CopyFlush, Running
<1>4. CASE CopySave(s)
  <2>1. /\ ses[s].cmd = "copy" /\ ses[s].pc = "save" /\ Busy(s) /\ SesInv(s) /\ DropInv
        /\ ses[s].want \in SUBSET Blob
    BY <1>4 DEF CopySave, Running, Busy, RepoInv, TypeInv, SesType, SesRec
  <2>2. IndexHeld /\ \A i \in LiveSnaps : Listed(i)
    BY <2>1, Calm DEF Collects
  <2>3. PICK i \in FreshSnaps, blobs \in (SUBSET ses[s].want) \ {{}} :
          snaps' = [snaps EXCEPT ![i] = [at |-> "live", blobs |-> blobs]]
    BY Zenon, <1>4 DEF CopySave
  <2>4. blobs \in SUBSET Blob /\ \A b \in blobs : Indexed(b)
    BY <2>1 DEF SesInv, BackupInv
  <2>5. UNCHANGED <<packs, indexes, lock, ses>>
    BY <1>4 DEF CopySave
  <2>6. (\A j \in LiveSnaps' : Listed(j)') /\ DropInv'
    BY Zenon, <2>1, <2>2, <2>3, <2>4, <2>5, SaveListed
  <2>7. SnapInv' /\ IndexInv'
    BY <2>2, <2>5, <2>6 DEF SnapInv, IndexInv, IndexHeld
  <2>8. WriteInv(s)' /\ BackupInv(s)'
    BY ZenonT(40), <2>1, <2>5 DEF SesInv, WriteInv, BackupInv, TrueIndex, Valid, Indexed, LocInv, AllEntries, Get
  <2> QED BY SMTT(40), <2>1, <2>5, <2>6, <2>7, <2>8, BackupOnly, Continue
<1>5. CASE CopyInterrupted(s) \/ CopyEnd(s)
  BY ZenonT(40), <1>0, <1>5, EndKeeps DEF CopyInterrupted, CopyEnd, Running, Busy, Collects
<1> QED BY <1>1, <1>2, <1>3, <1>4, <1>5 DEF CopyStep

-----------------------------------------------------------------------------
(* Lemmas about amend and rechunk.                                           *)

(* What an amend or a rechunk owes.                                          *)
LEMMA RewriteOnly ==
    ASSUME NEW s \in Session, ses'[s].cmd \in {"amend", "rechunk"},
           WriteInv(s)', RewriteInv(s)', RechunkInv(s)'
    PROVE  SesInv(s)'
BY SMTT(40), WritersOnly DEF BackupInv

(* A step that leaves packs, index files and the master index alone leaves   *)
(* the master index true.                                                    *)
LEMMA WriteSame ==
    ASSUME NEW s \in Session, WriteInv(s), ses'[s].cmd = ses[s].cmd, ses'[s].mem = ses[s].mem,
           UNCHANGED <<packs, indexes>>
    PROVE  WriteInv(s)'
BY DEF WriteInv, TrueIndex, Valid, Indexed, LocInv, AllEntries

(* Once rechunk has nothing to flush, its snapshots are like any other.      *)
LEMMA RechunkDone ==
    ASSUME RepoInv, NEW s \in Session, ses[s].cmd = "rechunk", ses[s].todo = {},
           ses[s].mem.pend = Empty, TypeInv
    PROVE  \A i \in LiveSnaps : Listed(i)
<1>1. \A i \in LiveSnaps : snaps[i].blobs \subseteq Blob
  BY DEF LiveSnaps, TypeInv, DiskType
<1>2. RechunkInv(s)
  BY DEF RepoInv, SesInv
<1> QED BY <1>1, <1>2 DEF RechunkInv, Listed, Empty

(* RewriteStart: amend and rechunk start with a true master index.           *)
LEMMA RewriteStartKeeps ==
    ASSUME Careful, TypeInv, RepoInv, NEW s \in Session, RewriteStart(s)
    PROVE  RepoInv'
<1>1. PICK c \in {"amend", "rechunk"}, list \in SUBSET LiveSnaps :
        /\ Start(s, c, [Idle EXCEPT !.cmd = c, !.pc = "next", !.mem = LoadIndex, !.left = list])
        /\ UNCHANGED <<packs, indexes, snaps>>
  BY ZenonT(40) DEF RewriteStart
<1> DEFINE r == [Idle EXCEPT !.cmd = c, !.pc = "next", !.mem = LoadIndex, !.left = list]
<1>2. /\ r.cmd = c /\ r.pc = "next" /\ r.left = list /\ r.mem = LoadIndex /\ r.old = {}
      /\ ~r.stop
  BY DEF Idle
<1>3. Start(s, c, r) /\ ses'[s] = r /\ c \in Commands
  BY <1>1 DEF Start, TypeInv, Commands
<1> HIDE DEF r
<1>4. IndexHeld /\ \A i \in LiveSnaps : Listed(i)
  BY SMTT(40), <1>3, StartCalm DEF Start
<1>5. TrueIndex(LoadIndex) /\ \A b \in Blob : Get(LoadIndex, b) # NoPack <=> Indexed(b)
  BY <1>4, LoadTrue, LoadIndexFacts DEF TypeInv
<1>6. WriteInv(s)'
  <2>1. TrueIndex(ses'[s].mem)
    BY <1>2, <1>3, <1>5
  <2> QED BY SMTT(40), <1>1, <2>1 DEF WriteInv, TrueIndex, Valid, Indexed, LocInv, AllEntries
<1>7. LiveSnaps' = LiveSnaps /\ \A b \in Blob : Indexed(b)' <=> Indexed(b)
  BY <1>1 DEF LiveSnaps, Indexed
<1>8. \A i \in LiveSnaps : snaps[i].blobs \subseteq Blob
  BY DEF LiveSnaps, TypeInv, DiskType
<1>9. RewriteInv(s)'
  <2>1. \A i \in list : \A b \in snaps[i].blobs : Get(LoadIndex, b) # NoPack
    BY <1>4, <1>5, <1>8 DEF Listed
  <2> QED BY SMTT(40), <1>1, <1>2, <1>3, <1>7, <2>1 DEF RewriteInv
<1>10. RechunkInv(s)'
  BY SMTT(40), <1>1, <1>2, <1>3, <1>4, <1>7, <1>8 DEF RechunkInv, Listed
<1> QED BY SMTT(40), <1>1, <1>2, <1>3, <1>6, <1>9, <1>10, RewriteOnly, StartInv

(* RewriteOne and AmendLabels: the next snapshot is chosen.                  *)
LEMMA RewriteOneKeeps ==
    ASSUME TypeInv, RepoInv, NEW s \in Session, RewriteOne(s) \/ AmendLabels(s)
    PROVE  RepoInv'
<1>1. /\ ses[s].cmd \in {"amend", "rechunk"} /\ ses[s].pc = "next" /\ Busy(s)
      /\ ses[s] \in SesType /\ UNCHANGED <<packs, indexes, snaps, lock>>
      /\ WriteInv(s) /\ RewriteInv(s) /\ RechunkInv(s)
  BY Zenon DEF RewriteOne, AmendLabels, Rewriting, Running, Busy, TypeInv, RepoInv, SesInv
<1>2. /\ LiveSnaps' = LiveSnaps /\ \A b \in Blob : Indexed(b)' <=> Indexed(b)
      /\ \A i \in LiveSnaps : i \in SnapId /\ snaps[i].blobs \subseteq Blob
  BY <1>1 DEF LiveSnaps, Indexed, TypeInv, DiskType
<1>3. ~Collects(s, Deleting)
  BY SMTT(40), <1>1 DEF Collects
<1>4. CASE RewriteOne(s)
  <2>0. PICK i \in ses[s].left : \E w \in Rewritten(ses[s].cmd, snaps[i].blobs) :
          ses' = [ses EXCEPT ![s].pc = IF ses[s].cmd = "amend" THEN "pack" ELSE "save",
                             ![s].want = w,
                             ![s].todo = @ \cup Handed(ses[s].cmd, ses[s].mem, w),
                             ![s].old = {i},
                             ![s].left = @ \ {i}]
    BY ZenonT(40), <1>4 DEF RewriteOne
  <2>1. PICK w \in Rewritten(ses[s].cmd, snaps[i].blobs) :
          ses' = [ses EXCEPT ![s].pc = IF ses[s].cmd = "amend" THEN "pack" ELSE "save",
                             ![s].want = w,
                             ![s].todo = @ \cup Handed(ses[s].cmd, ses[s].mem, w),
                             ![s].old = {i},
                             ![s].left = @ \ {i}]
    BY Zenon, <2>0
  <2>2. /\ ses'[s].cmd = ses[s].cmd /\ ses'[s].stop = ses[s].stop /\ ses'[s].mem = ses[s].mem
        /\ ses'[s].pc = (IF ses[s].cmd = "amend" THEN "pack" ELSE "save")
        /\ ses'[s].want = w /\ ses'[s].old = {i} /\ ses'[s].left = ses[s].left \ {i}
        /\ ses'[s].todo = ses[s].todo \cup Handed(ses[s].cmd, ses[s].mem, w)
    BY <1>1, <2>1 DEF TypeInv, SesType, SesRec
  <2>3. \A u \in Session \ {s} : ses'[u] = ses[u]
    BY SMTT(40), <2>1 DEF TypeInv
  <2>4. \A b \in w : b \in Handed(ses[s].cmd, ses[s].mem, w) \/ Get(ses[s].mem, b) # NoPack
    <3>1. ses[s].cmd = "amend" => w \ Tree \subseteq snaps[i].blobs
      BY SMTT(40) DEF Rewritten
    <3>2. \A b \in snaps[i].blobs : Get(ses[s].mem, b) # NoPack
      BY SMTT(40), <1>1 DEF RewriteInv
    <3> QED BY <3>1, <3>2 DEF Handed
  <2>5. RewriteInv(s)'
    <3>1. /\ ses'[s].left \subseteq LiveSnaps' /\ ses'[s].old \cap ses'[s].left = {}
          /\ \A j \in ses'[s].left : \A b \in snaps'[j].blobs : Get(ses'[s].mem, b) # NoPack
      BY ZenonT(40), <1>1, <1>2, <2>2 DEF RewriteInv
    <3>2. \A b \in ses'[s].want : b \in ses'[s].todo \/ Get(ses'[s].mem, b) # NoPack
      BY SMTT(40), <2>2, <2>4
    <3> QED BY ZenonT(40), <2>2, <3>1, <3>2 DEF RewriteInv
  <2>6. RechunkInv(s)'
    BY ZenonT(40), <1>1, <1>2, <2>2 DEF RechunkInv
  <2>7. WriteInv(s)'
    BY ZenonT(40), <1>1, <2>2, WriteSame
  <2>8. IndexInv' /\ SnapInv' /\ DropInv'
    BY ZenonT(40), <1>1, <1>3, <2>2, QuietDisk
  <2> QED BY ZenonT(40), <1>1, <2>2, <2>3, <2>5, <2>6, <2>7, <2>8, RewriteOnly, Continue
<1>5. CASE AmendLabels(s)
  <2>0. ses[s].cmd = "amend"
    BY ZenonT(40), <1>5 DEF AmendLabels, Running
  <2>1. PICK i \in ses[s].left :
          ses' = [ses EXCEPT ![s].pc = "save", ![s].want = snaps[i].blobs,
                             ![s].old = {i}, ![s].left = @ \ {i}]
    BY Zenon, <1>5 DEF AmendLabels
  <2>2. /\ ses'[s].cmd = "amend" /\ ses'[s].stop = ses[s].stop /\ ses'[s].mem = ses[s].mem
        /\ ses'[s].pc = "save" /\ ses'[s].want = snaps[i].blobs
        /\ ses'[s].old = {i} /\ ses'[s].left = ses[s].left \ {i}
        /\ \A u \in Session \ {s} : ses'[u] = ses[u]
    BY SMTT(40), <1>1, <2>0, <2>1 DEF TypeInv, SesType, SesRec
  <2>3. i \in LiveSnaps /\ \A b \in snaps[i].blobs : Get(ses[s].mem, b) # NoPack /\ Indexed(b)
    BY SMTT(40), <1>1, <2>0, Calm DEF RewriteInv, Listed
  <2>4. RewriteInv(s)'
    <3>1. /\ ses'[s].left \subseteq LiveSnaps' /\ ses'[s].old \cap ses'[s].left = {}
          /\ \A j \in ses'[s].left : \A b \in snaps'[j].blobs : Get(ses'[s].mem, b) # NoPack
      BY SMTT(40), <1>1, <1>2, <2>2 DEF RewriteInv
    <3>2. \A b \in ses'[s].want : Get(ses'[s].mem, b) # NoPack /\ Indexed(b)'
      BY SMTT(40), <1>2, <2>2, <2>3
    <3> QED BY SMTT(40), <2>2, <3>1, <3>2 DEF RewriteInv
  <2>5. RechunkInv(s)'
    BY SMTT(40), <2>2 DEF RechunkInv
  <2>6. WriteInv(s)'
    BY SMTT(40), <1>1, <2>0, <2>2, WriteSame
  <2>7. IndexInv' /\ SnapInv' /\ DropInv'
    BY SMTT(40), <1>1, <1>3, <2>0, <2>2, QuietDisk
  <2> QED BY ZenonT(40), <1>1, <2>0, <2>2, <2>4, <2>5, <2>6, <2>7, RewriteOnly, Continue
<1> QED BY SMTT(40), <1>4, <1>5

(* RewriteFlush: amend before each snapshot, rechunk at its end.             *)
LEMMA RewriteFlushKeeps ==
    ASSUME TypeInv, RepoInv, NEW s \in Session, RewriteFlush(s)
    PROVE  RepoInv'
<1> DEFINE goal == IF ses[s].cmd = "amend" THEN "save" ELSE "end"
           next == [ses[s] EXCEPT !.pc = goal]
<1>1. /\ ses[s].cmd \in {"amend", "rechunk"} /\ ses[s].pc \in {"pack", "next"} /\ Busy(s)
      /\ ses[s].cmd = "amend" => ses[s].pc = "pack"
      /\ ses[s] \in SesType /\ UNCHANGED <<packs, snaps, lock>> /\ ses[s].todo = {}
      /\ WriteInv(s) /\ RewriteInv(s) /\ RechunkInv(s) /\ DropInv
  BY DEF RewriteFlush, Rewriting, Running, Busy, TypeInv, RepoInv, SesInv
<1>2. Persist(s, next)
  BY DEF RewriteFlush
<1>3. goal \in PCs /\ (ses[s].cmd = "amend" => goal = "save") /\ (ses[s].cmd = "rechunk" => goal = "end")
  BY DEF PCs
<1> HIDE DEF goal
<1>4. /\ next \in SesType /\ next.mem = ses[s].mem /\ next.pc = goal /\ next.cmd = ses[s].cmd
      /\ next.want = ses[s].want /\ next.todo = {} /\ next.stop = ses[s].stop
      /\ next.left = ses[s].left /\ next.old = ses[s].old
  BY SMTT(40), <1>1, <1>3 DEF SesType, SesRec
<1> HIDE DEF next
<1>5. TrueIndex(ses[s].mem) /\ LocInv(ses[s].mem)
  BY SMTT(40), <1>1 DEF WriteInv, TrueIndex
<1>6. IndexHeld
  BY SMTT(40), <1>1, Calm DEF Collects
<1>7. /\ TrueIndex(ses[s].mem)' /\ IndexHeld' /\ Grow
      /\ \A b \in Blob : Get(ses[s].mem, b) # NoPack => Indexed(b)'
  BY ZenonT(40), <1>1, <1>2, <1>4, <1>5, <1>6, PersistTrue
<1>8. /\ \A u \in Session \ {s} : ses'[u] = ses[u]
      /\ ses'[s].cmd = ses[s].cmd /\ ses'[s].pc = goal /\ ses'[s].stop = ses[s].stop
      /\ ses'[s].want = ses[s].want /\ ses'[s].todo = {} /\ ses'[s].mem.pend = Empty
      /\ ses'[s].left = ses[s].left /\ ses'[s].old = ses[s].old
      /\ \A b \in Blob : Get(ses'[s].mem, b) = Get(ses[s].mem, b)
  <2>1. LocInv(next.mem)
    BY Zenon, <1>4, <1>5
  <2>2. /\ \A u \in Session \ {s} : ses'[u] = ses[u]
        /\ ses'[s].cmd = next.cmd /\ ses'[s].pc = next.pc /\ ses'[s].stop = next.stop
        /\ ses'[s].want = next.want /\ ses'[s].todo = next.todo /\ ses'[s].mem.pend = Empty
        /\ ses'[s].left = next.left /\ ses'[s].old = next.old
        /\ \A b \in Blob : Get(ses'[s].mem, b) = Get(next.mem, b)
    BY ZenonT(40), <1>2, <1>4, <2>1, PersistFacts
  <2> QED BY Zenon, <1>4, <2>2
<1>9. /\ ses[s].want \subseteq Blob /\ \A i \in SnapId : snaps[i].blobs \subseteq Blob
      /\ LiveSnaps' = LiveSnaps /\ LiveSnaps \subseteq SnapId
  BY <1>1 DEF TypeInv, SesType, SesRec, DiskType, LiveSnaps
<1>10. RewriteInv(s)'
  <2>1. /\ ses'[s].left \subseteq LiveSnaps' /\ ses'[s].old \cap ses'[s].left = {}
        /\ \A i \in ses'[s].left : \A b \in snaps'[i].blobs : Get(ses'[s].mem, b) # NoPack
    BY ZenonT(40), <1>1, <1>8, <1>9 DEF RewriteInv
  <2>2. CASE ses[s].cmd = "amend"
    <3>1. \A b \in ses[s].want : Get(ses[s].mem, b) # NoPack
      BY SMTT(40), <1>1, <2>2 DEF RewriteInv
    <3>2. \A b \in ses'[s].want : Get(ses'[s].mem, b) # NoPack /\ Indexed(b)'
      BY ZenonT(40), <1>7, <1>8, <1>9, <3>1
    <3> QED BY ZenonT(40), <2>1, <3>2 DEF RewriteInv
  <2>3. CASE ses[s].cmd = "rechunk"
    <3>1. ses'[s].pc = "end" /\ ses'[s].cmd = "rechunk"
      BY SMTT(40), <1>3, <1>8, <2>3
    <3> QED BY SMTT(40), <2>1, <3>1 DEF RewriteInv
  <2> QED BY <1>1, <2>2, <2>3
<1>11. ASSUME ses[s].cmd = "rechunk" PROVE \A i \in LiveSnaps : \A b \in snaps[i].blobs : Indexed(b)'
  <2>1. \A b \in Blob : ses[s].mem.pend[b] # NoPack => Indexed(b)'
    BY SMTT(40), <1>7 DEF Get
  <2> QED BY ZenonT(40), <1>1, <1>7, <1>9, <1>11, <2>1 DEF RechunkInv, Grow
<1>12. RechunkInv(s)'
  BY ZenonT(40), <1>1, <1>8, <1>9, <1>11 DEF RechunkInv
<1>13. WriteInv(s)' /\ IndexInv'
  BY SMTT(40), <1>7 DEF WriteInv, IndexInv
<1>14. SnapInv' /\ DropInv'
  <2>1. ses[s].cmd = "amend" => \A i \in LiveSnaps : Listed(i)
    BY ZenonT(40), <1>1, Calm
  <2> QED BY ZenonT(40), <1>1, <1>7, <1>8, <1>9, <2>1 DEF SnapInv, DropInv, Listed, Grow
<1> QED BY ZenonT(40), <1>1, <1>7, <1>8, <1>10, <1>12, <1>13, <1>14, RewriteOnly, Continue

(* RewriteSave: the new snapshot, before its blobs are indexed in rechunk.   *)
LEMMA RewriteSaveKeeps ==
    ASSUME TypeInv, RepoInv, NEW s \in Session, RewriteSave(s)
    PROVE  RepoInv'
<1>1. /\ ses[s].cmd \in {"amend", "rechunk"} /\ ses[s].pc = "save" /\ Busy(s)
      /\ ses[s] \in SesType /\ UNCHANGED <<packs, indexes, lock>>
      /\ WriteInv(s) /\ RewriteInv(s) /\ RechunkInv(s) /\ DropInv
  BY DEF RewriteSave, Rewriting, Busy, TypeInv, RepoInv, SesInv
<1>2. PICK i \in FreshSnaps : snaps' = [snaps EXCEPT ![i] = [at |-> "live", blobs |-> ses[s].want]]
  BY ZenonT(40) DEF RewriteSave
<1>3. /\ ses'[s].cmd = ses[s].cmd /\ ses'[s].pc = "replace" /\ ses'[s].stop = ses[s].stop
      /\ ses'[s].mem = ses[s].mem /\ ses'[s].left = ses[s].left /\ ses'[s].old = ses[s].old
      /\ ses'[s].todo = ses[s].todo
      /\ \A u \in Session \ {s} : ses'[u] = ses[u]
  BY <1>1 DEF RewriteSave, TypeInv, SesType, SesRec
<1>4. /\ ses[s].want \in SUBSET Blob /\ \A j \in SnapId : snaps[j].blobs \subseteq Blob
      /\ i \in SnapId /\ snaps[i].at = "none" /\ i \notin LiveSnaps
      /\ \A j \in SnapId : snaps'[j] = IF j = i THEN [at |-> "live", blobs |-> ses[s].want] ELSE snaps[j]
  <2>1. ses[s].want \in SUBSET Blob
    BY <1>1 DEF SesType, SesRec
  <2>2. i \in SnapId /\ snaps[i].at = "none" /\ i \notin LiveSnaps
    BY <1>2 DEF FreshSnaps, LiveSnaps
  <2>3. snaps \in [SnapId -> [at : {"none", "live", "dropped"}, blobs : SUBSET Blob]]
    BY DEF TypeInv, DiskType
  <2> QED BY <1>2, <2>1, <2>2, <2>3
<1>5. LiveSnaps' = LiveSnaps \cup {i} /\ LiveSnaps \subseteq SnapId
  BY <1>4 DEF LiveSnaps
<1>6. \A b \in Blob : Indexed(b)' <=> Indexed(b)
  BY Zenon, <1>1 DEF Indexed
<1>7. RewriteInv(s)'
  <2>1. /\ ses'[s].left \subseteq LiveSnaps' /\ ses'[s].old \cap ses'[s].left = {}
        /\ \A j \in ses'[s].left : \A b \in snaps'[j].blobs : Get(ses'[s].mem, b) # NoPack
    BY ZenonT(40), <1>1, <1>3, <1>4, <1>5 DEF RewriteInv
  <2> QED BY SMTT(40), <1>3, <2>1 DEF RewriteInv
<1>8. RechunkInv(s)'
  <2> SUFFICES ASSUME ses[s].cmd = "rechunk" PROVE RechunkInv(s)'
    BY SMTT(40), <1>3 DEF RechunkInv
  <2>1. \A b \in ses[s].want : Indexed(b) \/ b \in ses[s].todo \/ ses[s].mem.pend[b] # NoPack
    BY ZenonT(40), <1>1, <1>4 DEF RewriteInv, WriteInv, TrueIndex, Get
  <2>2. ASSUME NEW j \in LiveSnaps', NEW b \in snaps'[j].blobs
        PROVE  Indexed(b)' \/ b \in ses'[s].todo \/ ses'[s].mem.pend[b] # NoPack
    <3>1. CASE j = i
      BY SMTT(40), <1>3, <1>4, <1>6, <2>1, <3>1
    <3>2. CASE j # i
      BY ZenonT(40), <1>1, <1>3, <1>4, <1>5, <1>6, <3>2 DEF RechunkInv
    <3> QED BY SMTT(40), <3>1, <3>2
  <2> QED BY SMTT(40), <1>3, <2>2 DEF RechunkInv
<1>9. SnapInv' /\ DropInv'
  <2>1. CASE ses[s].cmd = "amend"
    <3>1. \A b \in ses[s].want : Indexed(b)
      BY <1>1, <2>1 DEF RewriteInv
    <3>2. \A j \in LiveSnaps : Listed(j)
      BY ZenonT(40), <1>1, <2>1, Calm
    <3> QED BY ZenonT(40), <1>1, <1>2, <1>4, <3>1, <3>2, SaveListed DEF SnapInv
  <2>2. CASE ses[s].cmd = "rechunk"
    BY SMTT(40), <1>1, <1>3, <1>4, <1>6, <2>2 DEF SnapInv, DropInv, Listed
  <2> QED BY SMTT(40), <1>1, <2>1, <2>2
<1>10. IndexInv'
  BY SMTT(40), <1>1, Calm DEF IndexInv, IndexHeld, Collects
<1>11. WriteInv(s)'
  BY SMTT(40), <1>1, <1>3, WriteSame
<1> QED BY SMTT(40), <1>1, <1>3, <1>7, <1>8, <1>9, <1>10, <1>11, RewriteOnly, Continue

(* RewriteReplace: the old snapshot goes.                                    *)
LEMMA RewriteReplaceKeeps ==
    ASSUME TypeInv, RepoInv, NEW s \in Session, RewriteReplace(s)
    PROVE  RepoInv'
<1>1. /\ ses[s].cmd \in {"amend", "rechunk"} /\ ses[s].pc = "replace" /\ Busy(s)
      /\ ses[s] \in SesType /\ UNCHANGED <<packs, indexes, lock>>
      /\ WriteInv(s) /\ RewriteInv(s) /\ RechunkInv(s) /\ DropInv
  BY DEF RewriteReplace, Rewriting, Busy, TypeInv, RepoInv, SesInv
<1>2. /\ ses'[s].cmd = ses[s].cmd /\ ses'[s].pc = "next" /\ ses'[s].stop = ses[s].stop
      /\ ses'[s].mem = ses[s].mem /\ ses'[s].left = ses[s].left /\ ses'[s].old = {}
      /\ ses'[s].todo = ses[s].todo
      /\ \A u \in Session \ {s} : ses'[u] = ses[u]
  BY <1>1 DEF RewriteReplace, TypeInv, SesType, SesRec
<1>3. \A j \in SnapId : snaps'[j] = snaps[j] \/ (j \in ses[s].old /\ snaps'[j] = NoSnap)
  BY DEF RewriteReplace
<1>4. /\ LiveSnaps' \subseteq LiveSnaps /\ LiveSnaps \subseteq SnapId
      /\ \A j \in LiveSnaps' : snaps'[j] = snaps[j]
  BY SMTT(40), <1>3 DEF LiveSnaps, NoSnap
<1>5. \A b : Indexed(b)' <=> Indexed(b)
  BY SMTT(40), <1>1 DEF Indexed
<1>6. RewriteInv(s)'
  <2>1. \A j \in ses[s].left : snaps'[j] = snaps[j] /\ j \in LiveSnaps'
    BY ZenonT(40), <1>1, <1>3 DEF RewriteInv, LiveSnaps
  <2> QED BY ZenonT(40), <1>1, <1>2, <2>1 DEF RewriteInv
<1>7. RechunkInv(s)'
  BY SMTT(40), <1>1, <1>2, <1>4, <1>5 DEF RechunkInv
<1>8. SnapInv' /\ DropInv'
  <2>1. ses[s].cmd = "amend" => \A i \in LiveSnaps : Listed(i)
    BY SMTT(40), <1>1, Calm
  <2>2. SnapInv'
    BY SMTT(40), <1>1, <1>2, <1>4, <1>5, <2>1 DEF SnapInv, Listed
  <2>3. DropInv'
    BY SMTT(40), <1>1, <1>3, <1>5 DEF DropInv, Listed, NoSnap
  <2> QED BY SMTT(40), <2>2, <2>3
<1>9. IndexInv'
  BY ZenonT(40), <1>1, Calm DEF IndexInv, IndexHeld, Collects
<1>10. WriteInv(s)'
  BY SMTT(40), <1>1, <1>2, WriteSame
<1> QED BY ZenonT(40), <1>1, <1>2, <1>6, <1>7, <1>8, <1>9, <1>10, RewriteOnly, Continue

(* The steps of RewriteCmd preserve the invariant.                           *)
LEMMA RewriteKeeps ==
    ASSUME Careful, TypeInv, RepoInv, NEW s \in Session, RewriteStart(s) \/ RewriteStep(s)
    PROVE  RepoInv'
<1>1. CASE RewriteEnd(s)
  <2>1. /\ ses[s].cmd \in {"amend", "rechunk"} /\ Busy(s) /\ Finish(s)
        /\ UNCHANGED <<packs, indexes, snaps>>
    BY SMTT(40), <1>1 DEF RewriteEnd, Rewriting, Running, Busy
  <2>2. \A i \in ses[s].left : Readable(s, i)
    <3>1. RewriteInv(s) /\ WriteInv(s) /\ LiveSnaps \subseteq SnapId /\ ses[s].mem \in MemType
      BY ZenonT(40) DEF RepoInv, SesInv, LiveSnaps, TypeInv, SesType, SesRec
    <3>2. \A b \in Blob : Get(ses[s].mem, b) # NoPack => b \in packs[Get(ses[s].mem, b)]
      BY Zenon, <2>1, <3>1, GetFacts DEF WriteInv, TrueIndex, Valid
    <3>3. \A i \in SnapId : snaps[i].blobs \subseteq Blob
      BY SMTT(40) DEF TypeInv, DiskType
    <3> QED BY SMTT(40), <2>1, <3>1, <3>2, <3>3 DEF RewriteInv, Readable
  <2>3. ~ses[s].stop
    BY DEF RepoInv, LockInv
  <2>4. CASE ses[s].cmd = "amend"
    BY ZenonT(40), <2>1, <2>4, EndKeeps DEF Collects
  <2>5. CASE ses[s].cmd = "rechunk"
    <3>1. ses[s].todo = {} /\ ses[s].mem.pend = Empty
      BY ZenonT(40), <1>1, <2>2, <2>3, <2>5 DEF RewriteEnd, Rewriting, Running, RepoInv, SesInv, RechunkInv
    <3>2. IndexHeld /\ \A i \in LiveSnaps : Listed(i)
      BY SMTT(40), <2>1, <2>5, <3>1, Calm, RechunkDone DEF Collects
    <3>3. (\A i \in LiveSnaps' : Listed(i)') /\ DropInv'
      BY SMTT(40), <2>1, <3>2 DEF LiveSnaps, Listed, Indexed, DropInv, RepoInv
    <3> QED BY SMTT(40), <2>1, <3>2, <3>3, FinishInv
  <2> QED BY SMTT(40), <2>1, <2>4, <2>5
<1> QED BY SMTT(40), <1>1, RewriteStartKeeps, RewriteOneKeeps, PackKeeps, RewriteFlushKeeps,
           RewriteSaveKeeps, RewriteReplaceKeeps DEF RewriteStep, RewritePack
=============================================================================

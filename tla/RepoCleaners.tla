----------------------------- MODULE RepoCleaners ---------------------------
(***************************************************************************)
(* Every step of clean, with the repack of gc.rs, keeps the invariant of   *)
(* RepoSteps.                                                              *)
(***************************************************************************)
EXTENDS RepoSteps

(* What a clean owes.                                                        *)
LEMMA CleanOnly ==
    ASSUME NEW s \in Session, ses'[s].cmd \in {"clean", "forget_clean"}, ses'[s].pc # "forget",
           CleanInv(s)'
    PROVE  SesInv(s)'
BY DEF SesInv, WriteInv, BackupInv, RewriteInv, RechunkInv, ForgetInv, Forgetting, RebuildInv

(* A clean that has not read the repository, or is done with it, owes        *)
(* nothing.                                                                  *)
LEMMA CleanAtRest ==
    ASSUME NEW s \in Session,
           ses'[s].pc = "end" \/ (ses'[s].pc = "load" /\ ses'[s].todo = {})
    PROVE  CleanInv(s)'
BY DEF CleanInv, PlanInv, DroppedGone, RepackInv, CollectInv, Collects, Deleting

(* What every step of a clean may rely on.                                   *)
LEMMA CleanCalm ==
    ASSUME TypeInv, RepoInv, NEW s \in Session, ses[s].cmd \in {"clean", "forget_clean"}
    PROVE  /\ Busy(s) /\ ~ses[s].stop /\ ses[s] \in SesType /\ ses[s].mem \in MemType
           /\ CleanInv(s) /\ DropInv
           /\ \A i \in LiveSnaps : Listed(i)
           /\ ses[s].pc \notin Deleting => IndexHeld
           /\ \A b \in Referenced : b \in Blob /\ Indexed(b)
           /\ \A i \in SnapId : snaps[i].blobs \subseteq Blob
<1>1. Busy(s) /\ ~ses[s].stop /\ CleanInv(s) /\ DropInv
  BY DEF Busy, RepoInv, LockInv, SesInv
<1>2. /\ ses[s].pc \notin Deleting => IndexHeld
      /\ \A i \in LiveSnaps : Listed(i)
  BY <1>1, Calm DEF Collects
<1>3. ses[s] \in SesType /\ ses[s].mem \in MemType /\ \A i \in SnapId : snaps[i].blobs \subseteq Blob
  BY DEF TypeInv, DiskType, SesType, SesRec
<1>4. \A b \in Referenced : b \in Blob /\ Indexed(b)
  BY <1>2, <1>3 DEF Referenced, LiveSnaps, Listed
<1> QED BY <1>1, <1>2, <1>3, <1>4

(* A step inside a clean keeps the invariant, if no live snapshot loses a    *)
(* locator and the index files are true outside of the deletions.            *)
LEMMA CleanContinue ==
    ASSUME TypeInv, RepoInv, NEW s \in Session, ses[s].cmd \in {"clean", "forget_clean"},
           \A u \in Session \ {s} : ses'[u] = ses[u],
           ses'[s].cmd = ses[s].cmd, ses'[s].stop = ses[s].stop, UNCHANGED lock,
           ses'[s].pc # "forget", ses'[s].pc \notin Deleting => IndexHeld',
           \A i \in LiveSnaps' : Listed(i)', DropInv', CleanInv(s)'
    PROVE  RepoInv'
<1>1. IndexInv' /\ SnapInv'
  BY DEF IndexInv, SnapInv, Collects
<1>2. SesInv(s)'
  BY CleanOnly
<1> QED BY <1>1, <1>2, Continue DEF Busy

(* The same for a step that changes no file.                                 *)
LEMMA CleanQuiet ==
    ASSUME TypeInv, RepoInv, NEW s \in Session, ses[s].cmd \in {"clean", "forget_clean"},
           \A u \in Session \ {s} : ses'[u] = ses[u],
           ses'[s].cmd = ses[s].cmd, ses'[s].stop = ses[s].stop,
           UNCHANGED <<packs, indexes, snaps, lock>>,
           ses'[s].pc # "forget", ses'[s].pc \notin Deleting => IndexHeld, CleanInv(s)'
    PROVE  RepoInv'
<1>1. (\A i \in LiveSnaps : Listed(i)) /\ DropInv
  BY CleanCalm
<1>2. (\A i \in LiveSnaps' : Listed(i)') /\ DropInv' /\ (ses'[s].pc \notin Deleting => IndexHeld')
  BY <1>1 DEF LiveSnaps, Listed, Indexed, DropInv, IndexHeld
<1> QED BY <1>2, CleanContinue

(* CleanStart: the exclusive lock, an empty plan.                            *)
LEMMA CleanStartKeeps ==
    ASSUME Careful, TypeInv, RepoInv, NEW s \in Session, CleanStart(s)
    PROVE  RepoInv'
<1> DEFINE r == [Idle EXCEPT !.cmd = "clean", !.pc = "load"]
<1>1. r.cmd = "clean" /\ r.pc = "load" /\ r.todo = {} /\ ~r.stop
  BY DEF Idle
<1>2. Start(s, "clean", r) /\ ses'[s] = r /\ UNCHANGED <<packs, indexes, snaps>>
  BY DEF CleanStart, Start, TypeInv
<1> HIDE DEF r
<1> QED BY <1>1, <1>2, CleanAtRest, CleanOnly, StartInv DEF Commands

(* CleanLoad: the reload of the index under the exclusive lock.              *)
LEMMA CleanLoadKeeps ==
    ASSUME TypeInv, RepoInv, NEW s \in Session, CleanLoad(s)
    PROVE  RepoInv'
<1>1. /\ ses[s].cmd \in {"clean", "forget_clean"} /\ ses[s].pc = "load"
      /\ UNCHANGED <<packs, indexes, snaps, lock>>
  BY DEF CleanLoad, Cleaning
<1>2. /\ ses[s] \in SesType /\ CleanInv(s) /\ IndexHeld
      /\ \A b \in Referenced : b \in Blob /\ Indexed(b)
  BY <1>1, CleanCalm DEF Deleting
<1>3. /\ ses'[s].cmd = ses[s].cmd /\ ses'[s].stop = ses[s].stop /\ ses'[s].pc = "scan"
      /\ ses'[s].mem = LoadIndex /\ ses'[s].todo = ses[s].todo
      /\ \A u \in Session \ {s} : ses'[u] = ses[u]
  BY <1>2 DEF CleanLoad, TypeInv, SesType, SesRec
<1>4. ses[s].todo = {}
  BY SMTT(40), <1>1, <1>2 DEF CleanInv, PlanInv, Collects
<1>5. /\ LoadIndex.pend = Empty /\ LocInv(LoadIndex) /\ OnDisk = LoadIndex.files
      /\ \A b \in Referenced : LoadIndex.loc[b] # NoPack
      /\ \A e \in LoadIndex.entries : Valid(e)
  BY SMTT(40), <1>2, LoadIndexFacts, LoadTrue DEF TypeInv, TrueIndex
<1>6. OnDisk' = OnDisk /\ Referenced' = Referenced /\ \A e : Valid(e)' <=> Valid(e)
  BY <1>1 DEF OnDisk, Referenced, LiveSnaps, Valid
<1>7. PlanInv(s)'
  BY SMTT(40), <1>3, <1>4, <1>5, <1>6 DEF PlanInv, Collects, LocInv
<1>8. CleanInv(s)'
  BY <1>3, <1>7 DEF CleanInv, DroppedGone, RepackInv, CollectInv, Collects, Deleting
<1> QED BY SMTT(40), <1>1, <1>2, <1>3, <1>8, CleanQuiet

(* An obsolete pack is one some locator names.                               *)
LEMMA ObsoleteIndexed ==
    ASSUME NEW m, NEW ob \in ObsoletePacks(m), NEW p \in ob
    PROVE  \E e \in AllEntries(m) : e[2] = p
<1> DEFINE indexed == {e[2] : e \in AllEntries(m)}
           garbage == {e[2] : e \in {x \in AllEntries(m) : x[1] \notin Referenced}}
<1>1. garbage \subseteq indexed
  OBVIOUS
<1>2. \E g \in SUBSET garbage, t \in SUBSET indexed : ob = g \cup t
  <2> HIDE DEF garbage, indexed
  <2>1. ob \in {g \cup t : g \in SUBSET garbage, t \in {x \in SUBSET indexed : Cardinality(x) # 1}}
    BY DEF ObsoletePacks, garbage, indexed
  <2> QED BY <2>1
<1>3. p \in indexed
  <2> HIDE DEF garbage, indexed
  <2> QED BY SMTT(40), <1>1, <1>2
<1> QED BY <1>3

(* CleanScan: the plan covers every file and condemns nothing in use.        *)
LEMMA CleanScanKeeps ==
    ASSUME TypeInv, RepoInv, NEW s \in Session, CleanScan(s)
    PROVE  RepoInv'
<1>1. /\ ses[s].cmd \in {"clean", "forget_clean"} /\ ses[s].pc = "scan"
      /\ UNCHANGED <<packs, indexes, snaps, lock>>
  BY DEF CleanScan, Cleaning
<1> DEFINE m == ses[s].mem
           dropped == {i \in SnapId : snaps[i].at = "dropped"}
<1>2. /\ ses[s] \in SesType /\ m \in MemType /\ CleanInv(s)
      /\ \A b \in Referenced : b \in Blob
  BY SMTT(40), <1>1, CleanCalm
<1>3. PICK ob \in ObsoletePacks(m) :
        ses' = [ses EXCEPT ![s].pc = "trash", ![s].want = Referenced, ![s].unused = UnusedPacks(m),
                           ![s].obsolete = ob, ![s].old = m.files, ![s].left = dropped]
  BY Zenon DEF CleanScan
<1> HIDE DEF dropped
<1>4. /\ ses'[s].cmd = ses[s].cmd /\ ses'[s].stop = ses[s].stop /\ ses'[s].pc = "trash"
      /\ ses'[s].mem = m /\ ses'[s].todo = ses[s].todo /\ ses'[s].want = Referenced
      /\ ses'[s].unused = UnusedPacks(m) /\ ses'[s].obsolete = ob
      /\ ses'[s].old = m.files /\ ses'[s].left = dropped
      /\ \A u \in Session \ {s} : ses'[u] = ses[u]
  <2>1. ses'[s] = [ses[s] EXCEPT !.pc = "trash", !.want = Referenced, !.unused = UnusedPacks(m),
                                 !.obsolete = ob, !.old = m.files, !.left = dropped]
    BY SMTT(40), <1>3 DEF TypeInv
  <2>2. \A u \in Session \ {s} : ses'[u] = ses[u]
    BY <1>3 DEF TypeInv
  <2> HIDE DEF m
  <2>3. ses[s].mem = m
    BY SMTT(40) DEF m
  <2> QED BY SMTT(40), <1>2, <2>1, <2>2, <2>3 DEF SesType, SesRec
<1>5. /\ ses[s].todo = {} /\ m.pend = Empty /\ LocInv(m) /\ OnDisk \subseteq m.files
      /\ \A b \in Referenced : m.loc[b] # NoPack
      /\ \A e \in m.entries : Valid(e)
  BY SMTT(40), <1>1, <1>2 DEF CleanInv, PlanInv, Collects
<1>6. AllEntries(m) = m.entries /\ \A b \in Blob : Get(m, b) = m.loc[b]
  BY SMTT(40), <1>2, <1>5, EmptyPend
<1>7. \A p \in UnusedPacks(m) : packs[p] # {} /\ \A b \in Referenced : m.loc[b] # p
  BY SMTT(40), <1>2, <1>6 DEF UnusedPacks
<1>8. \A p \in PackId : packs[p] # {} /\ p \notin UnusedPacks(m) => \E b \in Referenced : m.loc[b] = p
  BY SMTT(40), <1>2, <1>6 DEF UnusedPacks
<1>9. \A p \in ob : p \in UnusedPacks(m) \/ \E b \in Referenced : m.loc[b] = p
  <2>1. \A p \in ob : \E e \in m.entries : e[2] = p
    BY SMTT(40), <1>6, ObsoleteIndexed
  <2>2. \A e \in m.entries : e[2] \in PackId /\ packs[e[2]] # {}
    BY SMTT(40), <1>2, <1>5 DEF Valid, MemType
  <2> QED BY SMTT(40), <1>8, <2>1, <2>2
<1>10. \A p \in PackId : packs[p] # {} => p \in UnusedPacks(m) \/ packs[p] \cap Referenced # {}
  <2>1. \A b \in Referenced : b \in packs[m.loc[b]]
    BY ZenonT(40), <1>2, <1>5 DEF LocInv, Valid
  <2> QED BY SMTT(40), <1>8, <2>1
<1>11. /\ OnDisk' = OnDisk /\ Referenced' = Referenced /\ \A e : Valid(e)' <=> Valid(e)
       /\ {i \in SnapId : snaps'[i].at = "dropped"} = dropped
  BY <1>1 DEF OnDisk, Referenced, LiveSnaps, Valid, dropped
<1> HIDE DEF m
<1>12. PlanInv(s)'
  BY <1>1, <1>4, <1>5, <1>7, <1>9, <1>11 DEF PlanInv, Collects, LocInv
<1>13. DroppedGone(s)' /\ RepackInv(s)'
  BY SMTT(40), <1>4, <1>11 DEF DroppedGone, RepackInv, Collects, Deleting
<1>14. CollectInv(s)'
  BY SMTT(40), <1>1, <1>4, <1>10 DEF CollectInv, Collects
<1>15. IndexHeld
  BY SMTT(40), <1>1, CleanCalm DEF Deleting
<1> QED BY SMTT(40), <1>1, <1>4, <1>12, <1>13, <1>14, <1>15, CleanQuiet DEF CleanInv

(* delete_trash_files only removes what forget has dropped.                  *)
LEMMA CleanTrashKeeps ==
    ASSUME TypeInv, RepoInv, NEW s \in Session, CleanTrash(s)
    PROVE  RepoInv'
<1>1. /\ ses[s].cmd \in {"clean", "forget_clean"} /\ ses[s].pc = "trash"
      /\ UNCHANGED <<packs, indexes, lock>>
  BY DEF CleanTrash, Cleaning
<1>2. /\ ses[s] \in SesType /\ CleanInv(s) /\ IndexHeld /\ DropInv
      /\ \A i \in LiveSnaps : Listed(i)
  BY <1>1, CleanCalm DEF Deleting
<1>3. OnDisk' = OnDisk /\ \A e : Valid(e)' <=> Valid(e)
  BY SMTT(40), <1>1 DEF OnDisk, Valid
<1> DEFINE m == ses[s].mem
<1>0. /\ ses[s].todo = {} /\ m.pend = Empty /\ LocInv(m) /\ \A e \in m.entries : Valid(e)
      /\ \A p \in ses[s].unused : packs[p] # {}
      /\ OnDisk \subseteq ses[s].old
      /\ \A b \in ses[s].want : m.loc[b] # NoPack /\ m.loc[b] \notin ses[s].unused
      /\ \A p \in ses[s].obsolete : p \in ses[s].unused \/ \E b \in ses[s].want : m.loc[b] = p
  BY SMTT(40), <1>1, <1>2 DEF CleanInv, PlanInv, Collects
<1>4. CASE ses[s].left = {} /\ UNCHANGED snaps
           /\ ses' = [ses EXCEPT ![s].pc = "unused", ![s].left = ses[s].unused]
  <2>1. /\ ses'[s].cmd = ses[s].cmd /\ ses'[s].stop = ses[s].stop /\ ses'[s].pc = "unused"
        /\ ses'[s].mem = ses[s].mem /\ ses'[s].todo = ses[s].todo /\ ses'[s].want = ses[s].want
        /\ ses'[s].unused = ses[s].unused /\ ses'[s].obsolete = ses[s].obsolete
        /\ ses'[s].old = ses[s].old /\ ses'[s].left = ses[s].unused
        /\ \A u \in Session \ {s} : ses'[u] = ses[u]
    BY SMTT(40), <1>2, <1>4 DEF TypeInv, SesType, SesRec
  <2>2. Referenced' = Referenced
    BY SMTT(40), <1>4 DEF Referenced, LiveSnaps
  <2>3. PlanInv(s)'
    BY <1>0, <1>1, <1>3, <2>1 DEF PlanInv, Collects, LocInv
  <2>4. DroppedGone(s)'
    BY <1>1, <1>2, <1>4, <2>1 DEF CleanInv, DroppedGone, Collects, Deleting
  <2>5. RepackInv(s)'
    BY ZenonT(40), <1>1, <1>2, <2>1, <2>2 DEF CleanInv, RepackInv, Collects, Deleting, IndexHeld
  <2>6. CollectInv(s)'
    BY SMTT(40), <1>1, <1>2, <2>1 DEF CleanInv, CollectInv, Collects
  <2> QED BY ZenonT(40), <1>1, <1>2, <1>4, <2>1, <2>3, <2>4, <2>5, <2>6, CleanQuiet DEF CleanInv
<1>5. CASE \E i \in ses[s].left :
             /\ ses' = [ses EXCEPT ![s].left = @ \ {i}]
             /\ \/ snaps' = [snaps EXCEPT ![i] = IF @.at = "dropped" THEN NoSnap ELSE @]
                \/ "storage" \in Faults /\ UNCHANGED snaps
  <2>1. PICK i \in ses[s].left :
             /\ ses' = [ses EXCEPT ![s].left = @ \ {i}]
             /\ \/ snaps' = [snaps EXCEPT ![i] = IF @.at = "dropped" THEN NoSnap ELSE @]
                \/ "storage" \in Faults /\ UNCHANGED snaps
    BY ZenonT(40), <1>5
  <2>2. /\ ses'[s].cmd = ses[s].cmd /\ ses'[s].stop = ses[s].stop /\ ses'[s].pc = "trash"
        /\ ses'[s].mem = ses[s].mem /\ ses'[s].todo = ses[s].todo /\ ses'[s].want = ses[s].want
        /\ ses'[s].unused = ses[s].unused /\ ses'[s].obsolete = ses[s].obsolete
        /\ ses'[s].old = ses[s].old /\ ses'[s].left = ses[s].left \ {i}
        /\ \A u \in Session \ {s} : ses'[u] = ses[u]
    BY <1>1, <1>2, <2>1 DEF TypeInv, SesType, SesRec
  <2>3. \A j \in SnapId : \/ snaps'[j] = snaps[j] /\ (j = i /\ "storage" \notin Faults => snaps[j].at # "dropped")
                          \/ j = i /\ snaps[j].at = "dropped" /\ snaps'[j] = NoSnap
    BY <2>1 DEF TypeInv, DiskType
  <2>4. LiveSnaps' = LiveSnaps /\ \A j \in LiveSnaps : snaps'[j] = snaps[j]
    BY SMTT(40), <2>3 DEF LiveSnaps, NoSnap
  <2>5. Referenced' = Referenced
    BY SMTT(40), <2>4 DEF Referenced
  <2>6. PlanInv(s)'
    <3>1. /\ ses'[s].todo = {} /\ ses'[s].mem.pend = Empty /\ LocInv(ses'[s].mem)
          /\ \A e \in ses'[s].mem.entries : Valid(e)'
          /\ \A p \in ses'[s].unused : packs'[p] # {}
          /\ OnDisk' \subseteq ses'[s].old
      BY Zenon, <1>0, <1>1, <1>3, <2>2
    <3>2. /\ \A b \in ses'[s].want : ses'[s].mem.loc[b] # NoPack /\ ses'[s].mem.loc[b] \notin ses'[s].unused
          /\ \A p \in ses'[s].obsolete : p \in ses'[s].unused \/ \E b \in ses'[s].want : ses'[s].mem.loc[b] = p
      BY <1>0, <2>2
    <3> QED BY Zenon, <2>2, <3>1, <3>2 DEF PlanInv, Collects, LocInv
  <2>7. DroppedGone(s)'
    BY SMTT(40), <1>1, <1>2, <2>2, <2>3 DEF CleanInv, DroppedGone, Collects, Deleting, NoSnap
  <2>8. RepackInv(s)'
    BY ZenonT(40), <1>1, <1>2, <2>2, <2>5 DEF CleanInv, RepackInv, Collects, Deleting
  <2>9. CollectInv(s)'
    BY ZenonT(40), <1>1, <1>2, <2>2 DEF CleanInv, CollectInv, Collects
  <2>10. \A b : Indexed(b)' <=> Indexed(b)
    BY SMTT(40), <1>1 DEF Indexed
  <2>11. (\A j \in LiveSnaps' : Listed(j)') /\ DropInv'
    <3>1. \A j \in LiveSnaps' : Listed(j)'
      BY SMTT(40), <1>2, <2>4, <2>10 DEF Listed
    <3>2. \A j \in SnapId : snaps'[j].at = "dropped" => snaps'[j] = snaps[j]
      BY SMTT(40), <2>3 DEF NoSnap
    <3>3. DropInv'
      BY ZenonT(40), <1>2, <2>10, <3>2 DEF Listed, DropInv
    <3> QED BY SMTT(40), <3>1, <3>3
  <2>12. IndexHeld'
    BY SMTT(40), <1>1, <1>2 DEF IndexHeld
  <2> QED BY SMTT(40), <1>1, <2>2, <2>6, <2>7, <2>8, <2>9, <2>11, <2>12, CleanContinue DEF CleanInv
<1> QED BY SMTT(40), <1>4, <1>5 DEF CleanTrash

(* delete_unused_packs: what is deleted is only named by the old indices.    *)
LEMMA CleanDeleteUnusedKeeps ==
    ASSUME Careful, TypeInv, RepoInv, NEW s \in Session, CleanDeleteUnused(s)
    PROVE  RepoInv'
<1>1. /\ ses[s].cmd \in {"clean", "forget_clean"} /\ ses[s].pc = "unused"
      /\ UNCHANGED <<indexes, snaps, lock>>
  BY SMTT(40) DEF CleanDeleteUnused, Cleaning
<1>2. /\ ses[s] \in SesType /\ ses[s].mem \in MemType /\ CleanInv(s) /\ DropInv
      /\ \A i \in LiveSnaps : Listed(i)
  BY SMTT(40), <1>1, CleanCalm
<1> DEFINE m == ses[s].mem
<1>3. /\ ses[s].todo = {} /\ m.pend = Empty /\ LocInv(m) /\ OnDisk \subseteq ses[s].old
      /\ \A b \in ses[s].want : m.loc[b] # NoPack /\ m.loc[b] \notin ses[s].unused
      /\ \A p \in ses[s].obsolete : p \in ses[s].unused \/ \E b \in ses[s].want : m.loc[b] = p
      /\ \A e \in m.entries : Valid(e) \/ e[2] \in ses[s].unused
      /\ ses[s].left \subseteq ses[s].unused
      /\ \A p \in ses[s].left : packs[p] # {}
  BY ZenonT(40), <1>1, <1>2 DEF CleanInv, PlanInv, Collects
<1>4. PICK p \in ses[s].left :
        /\ packs' = [packs EXCEPT ![p] = {}]
        /\ ses' = [ses EXCEPT ![s].left = @ \ {p}]
  BY SMTT(40), <1>3 DEF CleanDeleteUnused, Careful
<1>5. /\ ses'[s].cmd = ses[s].cmd /\ ses'[s].stop = ses[s].stop /\ ses'[s].pc = "unused"
      /\ ses'[s].mem = ses[s].mem /\ ses'[s].todo = ses[s].todo /\ ses'[s].want = ses[s].want
      /\ ses'[s].unused = ses[s].unused /\ ses'[s].obsolete = ses[s].obsolete
      /\ ses'[s].old = ses[s].old /\ ses'[s].left = ses[s].left \ {p}
      /\ \A u \in Session \ {s} : ses'[u] = ses[u]
  BY SMTT(40), <1>1, <1>2, <1>4 DEF TypeInv, SesType, SesRec
<1>6. p \in ses[s].unused /\ \A q \in PackId : packs'[q] = IF q = p THEN {} ELSE packs[q]
  BY SMTT(40), <1>3, <1>4 DEF TypeInv, DiskType
<1>7. OnDisk' = OnDisk /\ LiveSnaps' = LiveSnaps /\ Referenced' = Referenced
      /\ \A b : Indexed(b)' <=> Indexed(b)
  BY SMTT(40), <1>1 DEF OnDisk, LiveSnaps, Referenced, Indexed
<1>8. ses[s].unused \subseteq PackId /\ \A e \in m.entries : e[2] \in PackId
  BY ZenonT(40), <1>2 DEF SesType, SesRec, MemType
<1>9. PlanInv(s)'
  <2>1. \A e \in m.entries : Valid(e)' \/ e[2] \in ses[s].unused
    BY ZenonT(40), <1>3, <1>6, <1>8 DEF Valid
  <2>2. \A q \in ses[s].left \ {p} : packs'[q] # {}
    BY SMTT(40), <1>3, <1>6, <1>8
  <2> HIDE DEF m
  <2>3. ses[s].mem = m
    BY SMTT(40) DEF m
  <2> QED BY SMTT(60), <1>1, <1>3, <1>5, <1>7, <2>1, <2>2, <2>3 DEF PlanInv, Collects, LocInv
<1>10. DroppedGone(s)'
  BY SMTT(40), <1>1, <1>2, <1>5 DEF CleanInv, DroppedGone, Collects, Deleting
<1>11. RepackInv(s)'
  <2>1. /\ ses[s].want = Referenced
        /\ \A i \in IndexId, b \in Blob : indexes[i][b] # NoPack =>
             b \in packs[indexes[i][b]] \/ (i \in ses[s].old /\ indexes[i][b] \in ses[s].unused)
    BY ZenonT(40), <1>1, <1>2 DEF CleanInv, RepackInv, Collects, Deleting
  <2>2. \A i \in IndexId, b \in Blob : indexes[i][b] # NoPack => i \in ses[s].old /\ indexes[i][b] \in PackId
    BY SMTT(60), <1>3 DEF OnDisk, Empty, TypeInv, DiskType
  <2>3. \A i \in IndexId, b \in Blob : indexes[i][b] # NoPack =>
          b \in packs'[indexes[i][b]] \/ (i \in ses[s].old /\ indexes[i][b] \in ses[s].unused)
    BY <1>6, <2>1, <2>2
  <2> QED BY ZenonT(40), <1>1, <1>5, <1>7, <2>1, <2>3 DEF RepackInv, Collects, Deleting
<1>12. CollectInv(s)'
  BY SMTT(40), <1>1, <1>2, <1>5, <1>6 DEF CleanInv, CollectInv, Collects
<1>13. (\A j \in LiveSnaps' : Listed(j)') /\ DropInv'
  BY SMTT(40), <1>1, <1>2, <1>7 DEF Listed, DropInv
<1> QED BY SMTT(40), <1>1, <1>5, <1>9, <1>10, <1>11, <1>12, <1>13, CleanContinue DEF CleanInv, Deleting

(* After the checkpoint: a merged index that names no doomed pack.           *)
LEMMA RepackEnter ==
    ASSUME TypeInv, RepoInv, NEW s \in Session, Cleaning(s, "unused"), ses[s].left = {},
           NEW n \in MemType, NEW todo \in SUBSET ses[s].want, NEW pc \in {"repack", "flush"},
           ses' = [ses EXCEPT ![s] = [@ EXCEPT !.mem = n, !.pc = pc, !.todo = todo]],
           UNCHANGED <<packs, indexes, snaps, lock>>,
           \A e \in AllEntries(n) : Valid(e) /\ e[2] \notin Doomed(s),
           LocInv(n), n.files = {}, \A b \in Blob : n.loc[b] = NoPack,
           \A b \in ses[s].want : b \in todo \/ Get(n, b) # NoPack
    PROVE  RepoInv'
<1>1. ses[s].cmd \in {"clean", "forget_clean"} /\ ses[s].pc = "unused"
  BY SMTT(40) DEF Cleaning
<1>2. ses[s] \in SesType /\ CleanInv(s) /\ Doomed(s) \subseteq PackId
  BY SMTT(40), <1>1, CleanCalm DEF Doomed, SesType, SesRec
<1>3. /\ ses'[s].cmd = ses[s].cmd /\ ses'[s].stop = ses[s].stop /\ ses'[s].pc = pc
      /\ ses'[s].mem = n /\ ses'[s].todo = todo /\ ses'[s].want = ses[s].want
      /\ ses'[s].unused = ses[s].unused /\ ses'[s].obsolete = ses[s].obsolete
      /\ ses'[s].old = ses[s].old /\ ses'[s].left = {}
      /\ \A u \in Session \ {s} : ses'[u] = ses[u]
  BY SMTT(40), <1>2 DEF TypeInv, SesType, SesRec
<1>4. Referenced' = Referenced /\ (\A e : Valid(e)' <=> Valid(e)) /\ Doomed(s)' = Doomed(s)
  BY SMTT(40), <1>3 DEF Referenced, LiveSnaps, Valid, Doomed
<1>5. PlanInv(s)'
  BY SMTT(40), <1>3 DEF PlanInv, Collects
<1>6. DroppedGone(s)'
  BY SMTT(40), <1>1, <1>2, <1>3 DEF CleanInv, DroppedGone, Collects, Deleting
<1>7. RepackInv(s)'
  <2>1. /\ ses[s].want = Referenced /\ OnDisk \subseteq ses[s].old
        /\ \A i \in IndexId, b \in Blob : indexes[i][b] # NoPack =>
             b \in packs[indexes[i][b]] \/ (i \in ses[s].old /\ indexes[i][b] \in ses[s].unused)
    BY SMTT(40), <1>1, <1>2 DEF CleanInv, RepackInv, PlanInv, Collects, Deleting
  <2>2. \A i \in IndexId \ ses[s].old, b \in Blob : indexes[i][b] \notin Doomed(s)
    BY SMTT(40), <1>2, <2>1, RepoAssumption DEF OnDisk, Empty, NoPack
  <2>3. \A e \in AllEntries(n) : Valid(e)' /\ e[2] \notin Doomed(s)'
    BY SMTT(40), <1>4
  <2> QED BY SMTT(40), <1>3, <1>4, <2>1, <2>2, <2>3 DEF RepackInv, Collects, Deleting, LocInv, AllEntries, Get
<1>8. CollectInv(s)'
  BY SMTT(40), <1>1, <1>2, <1>3 DEF CleanInv, CollectInv, Collects
<1> QED BY SMTT(40), <1>1, <1>3, <1>5, <1>6, <1>7, <1>8, CleanQuiet DEF CleanInv, Deleting

(* The checkpoint: whatever is repacked can be read, every referenced blob   *)
(* is in the new index or about to be saved.                                 *)
LEMMA CleanCheckpointKeeps ==
    ASSUME TypeInv, RepoInv, NothingOverlooked, NEW s \in Session, CleanCheckpoint(s)
    PROVE  RepoInv'
<1> DEFINE mem == ses[s].mem
           m == IF ses[s].unused = {} THEN mem ELSE Cleanup(mem, ses[s].unused)
<1>1. /\ ses[s].cmd \in {"clean", "forget_clean"} /\ ses[s].pc = "unused" /\ ses[s].left = {}
      /\ Cleaning(s, "unused") /\ UNCHANGED <<packs, indexes, snaps, lock>>
  BY SMTT(40) DEF CleanCheckpoint, Cleaning
<1>2. /\ ses[s] \in SesType /\ mem \in MemType /\ CleanInv(s) /\ ~ses[s].stop
  BY SMTT(40), <1>1, CleanCalm
<1>3. /\ ses[s].todo = {} /\ mem.pend = Empty /\ LocInv(mem)
      /\ \A b \in ses[s].want : mem.loc[b] # NoPack /\ mem.loc[b] \notin ses[s].unused
      /\ \A p \in ses[s].obsolete : p \in ses[s].unused \/ \E b \in ses[s].want : mem.loc[b] = p
      /\ \A e \in mem.entries : Valid(e) \/ e[2] \in ses[s].unused
  BY ZenonT(40), <1>1, <1>2 DEF CleanInv, PlanInv, Collects
<1>4. AllEntries(mem) = mem.entries /\ \A b \in Blob : Get(mem, b) = mem.loc[b]
  BY ZenonT(40), <1>2, <1>3, EmptyPend
<1>5. ses[s].want \subseteq Blob
  BY SMTT(40), <1>2 DEF SesType, SesRec
<1>6. /\ m \in MemType /\ LocInv(m)
      /\ ses[s].unused # {} => m.files = {} /\ \A b \in Blob : m.loc[b] = NoPack
      /\ \A e \in AllEntries(m) : e \in mem.entries /\ e[2] \notin ses[s].unused
      /\ \A b \in ses[s].want : Get(m, b) # NoPack
  <2>1. CASE ses[s].unused = {}
    BY SMTT(40), <1>2, <1>3, <1>4, <1>5, <2>1
  <2>2. CASE ses[s].unused # {}
    <3>1. \A b \in ses[s].want : <<b, mem.loc[b]>> \in AllEntries(mem)
      BY SMTT(40), <1>3, <1>4, <1>5 DEF LocInv
    <3>2. /\ m = Cleanup(mem, ses[s].unused)
          /\ \A e \in AllEntries(mem) : e[2] \notin ses[s].unused => Get(m, e[1]) # NoPack
      BY SMTT(40), <1>2, <2>2, CleanupFacts
    <3>3. \A b \in ses[s].want : Get(m, b) # NoPack
      BY ZenonT(40), <1>3, <3>1, <3>2
    <3>4. /\ m \in MemType /\ LocInv(m) /\ m.files = {} /\ \A b \in Blob : m.loc[b] = NoPack
          /\ \A e \in AllEntries(m) : e \in AllEntries(mem) /\ e[2] \notin ses[s].unused
      BY <1>2, <3>2, CleanupFacts
    <3> QED BY ZenonT(40), <1>4, <3>3, <3>4
  <2> QED BY ZenonT(40), <2>1, <2>2
<1>7. \A e \in AllEntries(m) : Valid(e)
  BY ZenonT(40), <1>3, <1>6
<1>8. ses' = [ses EXCEPT ![s] =
                IF ses[s].obsolete # {} THEN Repacking(s, m)
                ELSE IF ses[s].unused # {} THEN [ses[s] EXCEPT !.mem = m, !.pc = "flush"]
                ELSE [ses[s] EXCEPT !.pc = "end"]]
  <2>1. ~\E e \in ToRepack(s, m) : e[1] \notin packs[e[2]]
    BY <1>7 DEF ToRepack, Valid
  <2> QED BY ZenonT(40), <1>2, <2>1 DEF CleanCheckpoint
<1> HIDE DEF m
<1>9. CASE ses[s].obsolete = {} /\ ses[s].unused = {}
  <2>1. /\ ses'[s].cmd = ses[s].cmd /\ ses'[s].stop = ses[s].stop /\ ses'[s].pc = "end"
        /\ \A u \in Session \ {s} : ses'[u] = ses[u]
    BY SMTT(40), <1>2, <1>8, <1>9 DEF TypeInv, SesType, SesRec
  <2>2. IndexHeld
    BY ZenonT(40), <1>1, <1>2, <1>9 DEF CleanInv, RepackInv, Collects, Deleting, IndexHeld
  <2> QED BY SMTT(40), <1>1, <2>1, <2>2, CleanAtRest, CleanQuiet
<1>10. CASE ses[s].obsolete = {} /\ ses[s].unused # {}
  <2>1. [ses[s] EXCEPT !.mem = m, !.pc = "flush"] = [ses[s] EXCEPT !.mem = m, !.pc = "flush", !.todo = {}]
    BY ZenonT(40), <1>2, <1>3 DEF SesType, SesRec
  <2>2. \A e \in AllEntries(m) : Valid(e) /\ e[2] \notin Doomed(s)
    BY Zenon, <1>6, <1>7, <1>10 DEF Doomed
  <2> QED BY ZenonT(40), <1>1, <1>6, <1>8, <1>10, <2>1, <2>2, RepackEnter
<1>11. CASE ses[s].obsolete # {} /\ ToRepack(s, m) = {}
  <2>1. [ses[s] EXCEPT !.mem = m, !.pc = "flush"] = [ses[s] EXCEPT !.mem = m, !.pc = "flush", !.todo = {}]
    BY Zenon, <1>2, <1>3 DEF SesType, SesRec
  <2>2. ses[s].unused # {}
    <3> SUFFICES ASSUME ses[s].unused = {} PROVE FALSE
      OBVIOUS
    <3>1. PICK p \in ses[s].obsolete : TRUE
      BY SMTT(40), <1>11
    <3>2. PICK b \in ses[s].want : mem.loc[b] = p
      BY SMTT(40), <1>3
    <3>3. <<b, p>> \in AllEntries(m)
      BY SMTT(40), <1>3, <1>4, <1>5, <3>2 DEF LocInv, m
    <3> QED BY SMTT(40), <1>11, <3>3 DEF ToRepack
  <2>3. \A e \in AllEntries(m) : e[2] \notin ses[s].obsolete
    BY SMTT(40), <1>1, <1>11, <2>2 DEF NothingOverlooked, Overlooked, m
  <2>4. \A e \in AllEntries(m) : Valid(e) /\ e[2] \notin Doomed(s)
    BY SMTT(40), <1>6, <1>7, <2>3 DEF Doomed
  <2>5. ses' = [ses EXCEPT ![s] = [ses[s] EXCEPT !.mem = m, !.pc = "flush", !.todo = {}]]
    BY ZenonT(40), <1>8, <1>11, <2>1 DEF Repacking
  <2> QED BY ZenonT(40), <1>1, <1>6, <2>2, <2>4, <2>5, RepackEnter
<1>12. CASE ses[s].obsolete # {} /\ ToRepack(s, m) # {}
  <2> DEFINE c == Cleanup(m, ses[s].obsolete)
             todo == {b \in {e[1] : e \in ToRepack(s, m)} : Get(c, b) = NoPack}
  <2>1. ses' = [ses EXCEPT ![s] = [ses[s] EXCEPT !.mem = c, !.pc = "repack", !.todo = todo]]
    BY ZenonT(40), <1>8, <1>12 DEF Repacking
  <2>2. todo \in SUBSET ses[s].want
    BY DEF ToRepack
  <2>3. /\ c \in MemType /\ c.files = {} /\ LocInv(c) /\ \A b \in Blob : c.loc[b] = NoPack
        /\ \A e \in AllEntries(c) : e \in AllEntries(m) /\ e[2] \notin ses[s].obsolete
        /\ \A e \in AllEntries(m) : e[2] \notin ses[s].obsolete => Get(c, e[1]) # NoPack
    BY SMTT(40), <1>6, CleanupFacts
  <2> HIDE DEF c
  <2>4. \A e \in AllEntries(c) : Valid(e) /\ e[2] \notin Doomed(s)
    BY SMTT(40), <1>6, <1>7, <2>3 DEF Doomed
  <2>5. ASSUME NEW b \in ses[s].want PROVE b \in todo \/ Get(c, b) # NoPack
    <3>1. <<b, Get(m, b)>> \in AllEntries(m)
      BY SMTT(40), <1>5, <1>6, GetFacts
    <3>2. Get(m, b) \in ses[s].obsolete => <<b, Get(m, b)>> \in ToRepack(s, m)
      BY SMTT(40), <3>1 DEF ToRepack
    <3> QED BY SMTT(40), <2>3, <3>1, <3>2
  <2> HIDE DEF todo
  <2> QED BY Zenon, <1>1, <2>1, <2>2, <2>3, <2>4, <2>5, RepackEnter
<1> QED BY SMTT(40), <1>9, <1>10, <1>11, <1>12

(* What a clean that repacks or flushes knows of its index.                  *)
LEMMA RepackFacts ==
    ASSUME TypeInv, RepoInv, NEW s \in Session, ses[s].cmd \in {"clean", "forget_clean"},
           ses[s].pc \in {"repack", "flush"}
    PROVE  LET m == ses[s].mem
           IN  /\ ses[s].want = Referenced
               /\ \A i \in IndexId, b \in Blob : indexes[i][b] # NoPack =>
                    b \in packs[indexes[i][b]] \/ (i \in ses[s].old /\ indexes[i][b] \in ses[s].unused)
               /\ \A e \in AllEntries(m) : Valid(e) /\ e[2] \notin Doomed(s) /\ e \in Blob \X PackId
               /\ LocInv(m) /\ ses[s].todo \subseteq ses[s].want
               /\ \A b \in Blob : m.loc[b] # NoPack => Found(b, s)
               /\ \A i \in IndexId \ ses[s].old, b \in Blob : indexes[i][b] \notin Doomed(s)
               /\ \A b \in ses[s].want : b \in Blob /\ (b \in ses[s].todo \/ Get(m, b) # NoPack)
               /\ m.files \cap ses[s].old = {}
               /\ \A p \in PackId : packs[p] # {} => packs[p] \cap ses[s].want # {}
               /\ "storage" \notin Faults => \A i \in SnapId : snaps[i].at # "dropped"
<1>1. CleanInv(s) /\ ses[s] \in SesType /\ ses[s].mem \in MemType
  BY ZenonT(40), CleanCalm
<1>2. AllEntries(ses[s].mem) \subseteq Blob \X PackId /\ ses[s].want \subseteq Blob
  BY SMTT(40), <1>1 DEF AllEntries, MemType, SesType, SesRec
<1>3. RepackInv(s) /\ CollectInv(s) /\ DroppedGone(s)
  BY SMTT(40), <1>1 DEF CleanInv
<1> QED BY ZenonT(40), <1>2, <1>3 DEF RepackInv, CollectInv, DroppedGone, Collects, Deleting

(* persist in a clean: the new files name no doomed pack, and what the       *)
(* index in memory has is in a file that is not swept.                       *)
LEMMA CleanPersistFacts ==
    ASSUME TypeInv, RepoInv, NEW s \in Session, ses[s].cmd \in {"clean", "forget_clean"},
           ses[s].pc \in {"repack", "flush"}, NEW next \in SesType, next.mem = ses[s].mem,
           Persist(s, next), UNCHANGED packs
    PROVE  /\ \A i \in IndexId, b \in Blob : indexes'[i][b] # NoPack =>
                b \in packs[indexes'[i][b]] \/ (i \in ses[s].old /\ indexes'[i][b] \in ses[s].unused)
           /\ \A i \in IndexId \ ses[s].old, b \in Blob : indexes'[i][b] \notin Doomed(s)
           /\ \A b \in Blob : Get(ses[s].mem, b) # NoPack =>
                \E i \in IndexId \ ses[s].old : indexes'[i][b] # NoPack
           /\ ses'[s].mem.files \cap ses[s].old = {}
<1> DEFINE m == ses[s].mem
<1>1. /\ m \in MemType /\ LocInv(m) /\ Doomed(s) \subseteq PackId
      /\ \A e \in AllEntries(m) : Valid(e) /\ e[2] \notin Doomed(s)
  BY ZenonT(40), RepackFacts DEF TypeInv, SesType, SesRec, Doomed
<1>2. /\ \A j \in IndexId : \/ indexes'[j] = indexes[j]
                            \/ j \in FreshIndexes /\ indexes'[j] = m.pend
      /\ \A b \in Blob : m.pend[b] # NoPack => \E j \in FreshIndexes : indexes'[j][b] # NoPack
      /\ ses'[s].mem.files \subseteq m.files \cup FreshIndexes
  BY SMTT(60), <1>1, PersistFacts
<1>3. \A b \in Blob : m.pend[b] # NoPack => b \in packs[m.pend[b]]
  <2>1. \A b \in Blob : m.pend[b] # NoPack => <<b, m.pend[b]>> \in AllEntries(m)
    BY SMTT(40), <1>1 DEF AllEntries, MemType
  <2> QED BY Zenon, <1>1, <2>1 DEF Valid
<1>4. \A b \in Blob : m.pend[b] \notin Doomed(s)
  <2>1. \A b \in Blob : m.pend[b] \in PackId => <<b, m.pend[b]>> \in AllEntries(m)
    BY Zenon, <1>1 DEF AllEntries, MemType
  <2> QED BY Zenon, <1>1, <2>1
<1>5. FreshIndexes \subseteq IndexId \ ses[s].old /\ \A j \in FreshIndexes : indexes[j] = Empty
  BY SMTT(40) DEF FreshIndexes, OnDisk
<1>6. \A i \in IndexId, b \in Blob : indexes'[i][b] # NoPack =>
        b \in packs[indexes'[i][b]] \/ (i \in ses[s].old /\ indexes'[i][b] \in ses[s].unused)
  BY ZenonT(40), <1>2, <1>3, RepackFacts
<1>7. \A i \in IndexId \ ses[s].old, b \in Blob : indexes'[i][b] \notin Doomed(s)
  BY SMTT(40), <1>2, <1>4, RepackFacts
<1>8. \A b \in Blob : Get(m, b) # NoPack => \E i \in IndexId \ ses[s].old : indexes'[i][b] # NoPack
  <2>1. \A b \in Blob : m.loc[b] # NoPack => Found(b, s)
    BY Zenon, RepackFacts
  <2>2. \A b \in Blob : Found(b, s) => \E i \in IndexId \ ses[s].old : indexes'[i][b] # NoPack
    BY SMTT(40), <1>2, <1>5 DEF Found, Empty
  <2> QED BY SMTT(40), <1>2, <1>5, <2>1, <2>2 DEF Get
<1>9. ses'[s].mem.files \cap ses[s].old = {}
  BY SMTT(40), <1>2, <1>5, RepackFacts
<1> QED BY SMTT(40), <1>6, <1>7, <1>8, <1>9

(* The pack saver at work for a clean.                                       *)
LEMMA CleanPackKeeps ==
    ASSUME TypeInv, RepoInv, NEW s \in Session, CleanPack(s)
    PROVE  RepoInv'
<1>1. ses[s].cmd \in {"clean", "forget_clean"} /\ ses[s].pc \in {"repack", "flush"}
  BY SMTT(40) DEF CleanPack, Cleaning
<1>2. /\ ses[s] \in SesType /\ ses[s].mem \in MemType /\ DropInv
      /\ \A i \in LiveSnaps : Listed(i)
      /\ \A i \in SnapId : snaps[i].blobs \subseteq Blob
  BY SMTT(40), <1>1, CleanCalm
<1>3. CASE WritePack(s)
  <2>0. LocInv(ses[s].mem) /\ ses[s].todo \subseteq ses[s].want
        /\ \A i \in IndexId, b \in Blob : indexes[i][b] # NoPack =>
             b \in packs[indexes[i][b]] \/ (i \in ses[s].old /\ indexes[i][b] \in ses[s].unused)
    BY Zenon, <1>1, RepackFacts
  <2>1. /\ UNCHANGED <<indexes, snaps, lock>>
        /\ \A u \in Session \ {s} : ses'[u] = ses[u]
        /\ ses'[s].cmd = ses[s].cmd /\ ses'[s].pc = ses[s].pc /\ ses'[s].stop = ses[s].stop
        /\ ses'[s].want = ses[s].want /\ ses'[s].old = ses[s].old
        /\ ses'[s].unused = ses[s].unused /\ ses'[s].obsolete = ses[s].obsolete
        /\ ses'[s].todo \subseteq ses[s].todo
        /\ ses'[s].mem.files = ses[s].mem.files
        /\ ses'[s].mem.loc = ses[s].mem.loc /\ LocInv(ses'[s].mem)
        /\ Grow
    BY ZenonT(40), <1>3, <2>0, WritePackFacts
  <2>2. /\ \A e \in AllEntries(ses'[s].mem) :
             e \in AllEntries(ses[s].mem) \/ (e[2] \in FreshPacks /\ e[1] \in packs'[e[2]])
        /\ \A b \in Blob :
             /\ Get(ses[s].mem, b) # NoPack => Get(ses'[s].mem, b) # NoPack
             /\ b \in ses[s].todo \ ses'[s].todo => Get(ses'[s].mem, b) # NoPack
        /\ \A p \in PackId : \/ packs'[p] = packs[p]
                             \/ packs'[p] # {} /\ packs'[p] \subseteq ses[s].todo
    BY <1>3, <2>0, WritePackFacts
  <2>3. \A p \in FreshPacks : p \notin Doomed(s)
    BY DEF FreshPacks, Doomed
  <2>4. Doomed(s)' = Doomed(s) /\ LiveSnaps' = LiveSnaps /\ Referenced' = Referenced
        /\ \A b : Indexed(b)' <=> Indexed(b)
    BY ZenonT(40), <2>1 DEF Doomed, LiveSnaps, Referenced, Indexed
  <2>5. \A e \in AllEntries(ses'[s].mem) : Valid(e)' /\ e[2] \notin Doomed(s)
    BY ZenonT(40), <1>1, <2>1, <2>2, <2>3, RepackFacts DEF Grow, Valid
  <2>6. \A i \in IndexId, b \in Blob : indexes[i][b] # NoPack =>
          b \in packs'[indexes[i][b]] \/ (i \in ses[s].old /\ indexes[i][b] \in ses[s].unused)
    <3>1. \A i \in IndexId, b \in Blob : indexes[i][b] # NoPack => indexes[i][b] \in PackId
      BY DEF TypeInv, DiskType
    <3> QED BY Zenon, <2>0, <2>1, <3>1 DEF Grow
  <2>7. RepackInv(s)'
    <3>1. \A b \in Blob : ses'[s].mem.loc[b] # NoPack => Found(b, s)'
      BY SMTT(60), <1>1, <2>1, RepackFacts DEF Found
    <3>2. \A b \in ses'[s].want : b \in ses'[s].todo \/ Get(ses'[s].mem, b) # NoPack
      BY ZenonT(40), <1>1, <2>1, <2>2, RepackFacts
    <3>3. /\ ses'[s].want = Referenced' /\ ses'[s].todo \subseteq ses'[s].want
          /\ \A i \in IndexId \ ses'[s].old, b \in Blob : indexes'[i][b] \notin Doomed(s)'
          /\ ses'[s].mem.files \cap ses'[s].old = {}
      BY SMTT(60), <1>1, <2>1, <2>4, RepackFacts
    <3> QED BY ZenonT(40), <1>1, <2>1, <2>4, <2>5, <2>6, <3>1, <3>2, <3>3
            DEF RepackInv, Collects, Deleting, AllEntries, LocInv, Get
  <2>8. CollectInv(s)'
    <3>1. \A p \in PackId : packs'[p] # {} => packs'[p] \cap ses[s].want # {}
      BY SMTT(40), <1>1, <2>2, RepackFacts
    <3> QED BY ZenonT(40), <1>1, <2>1, <3>1 DEF CollectInv, Collects
  <2>9. DroppedGone(s)' /\ PlanInv(s)'
    <3>1. DroppedGone(s)'
      BY ZenonT(40), <1>1, <2>1, RepackFacts DEF DroppedGone, Collects, Deleting
    <3>2. PlanInv(s)'
      BY ZenonT(40), <1>1, <2>1 DEF PlanInv, Collects
    <3> QED BY SMTT(40), <3>1, <3>2
  <2>10. (\A j \in LiveSnaps' : Listed(j)') /\ DropInv'
    BY ZenonT(40), <1>2, <2>1, <2>4 DEF Listed, DropInv
  <2> QED BY ZenonT(40), <1>1, <2>1, <2>7, <2>8, <2>9, <2>10, CleanContinue DEF CleanInv, Deleting
<1>4. CASE Autosave(s)
  <2>0. Persist(s, ses[s]) /\ UNCHANGED <<packs, snaps, lock>> /\ LocInv(ses[s].mem)
    BY ZenonT(40), <1>1, <1>4, RepackFacts DEF Autosave
  <2>1. /\ \A u \in Session \ {s} : ses'[u] = ses[u]
        /\ ses'[s].cmd = ses[s].cmd /\ ses'[s].pc = ses[s].pc /\ ses'[s].stop = ses[s].stop
        /\ ses'[s].want = ses[s].want /\ ses'[s].old = ses[s].old /\ ses'[s].todo = ses[s].todo
        /\ ses'[s].unused = ses[s].unused /\ ses'[s].obsolete = ses[s].obsolete
        /\ LocInv(ses'[s].mem) /\ AllEntries(ses'[s].mem) = AllEntries(ses[s].mem)
        /\ \A b \in Blob : /\ Get(ses'[s].mem, b) = Get(ses[s].mem, b)
                           /\ ses'[s].mem.loc[b] = Get(ses[s].mem, b)
        /\ \A b \in Blob : Indexed(b) => Indexed(b)'
    BY ZenonT(40), <1>2, <2>0, PersistFacts
  <2>2. /\ \A i \in IndexId, b \in Blob : indexes'[i][b] # NoPack =>
             b \in packs[indexes'[i][b]] \/ (i \in ses[s].old /\ indexes'[i][b] \in ses[s].unused)
        /\ \A i \in IndexId \ ses[s].old, b \in Blob : indexes'[i][b] \notin Doomed(s)
        /\ \A b \in Blob : Get(ses[s].mem, b) # NoPack =>
             \E i \in IndexId \ ses[s].old : indexes'[i][b] # NoPack
        /\ ses'[s].mem.files \cap ses[s].old = {}
    BY ZenonT(40), <1>1, <1>2, <2>0, CleanPersistFacts
  <2>3. Doomed(s)' = Doomed(s) /\ LiveSnaps' = LiveSnaps /\ Referenced' = Referenced
    BY ZenonT(40), <2>0, <2>1 DEF Doomed, LiveSnaps, Referenced
  <2>4. RepackInv(s)'
    <3>1. \A b \in Blob : ses'[s].mem.loc[b] # NoPack => Found(b, s)'
      BY ZenonT(40), <2>1, <2>2 DEF Found
    <3>2. \A e \in AllEntries(ses'[s].mem) : Valid(e)' /\ e[2] \notin Doomed(s)'
      BY ZenonT(40), <1>1, <2>0, <2>1, <2>3, RepackFacts DEF Valid
    <3>3. \A b \in ses'[s].want : b \in ses'[s].todo \/ Get(ses'[s].mem, b) # NoPack
      BY <1>1, <2>1, RepackFacts
    <3>4. ses'[s].want = Referenced' /\ ses'[s].todo \subseteq ses'[s].want
      BY Zenon, <1>1, <2>1, <2>3, RepackFacts
    <3>5. /\ \A i \in IndexId, b \in Blob : indexes'[i][b] # NoPack =>
               \/ b \in packs'[indexes'[i][b]]
               \/ i \in ses'[s].old /\ indexes'[i][b] \in ses'[s].unused
          /\ \A i \in IndexId \ ses'[s].old, b \in Blob : indexes'[i][b] \notin Doomed(s)'
          /\ ses'[s].mem.files \cap ses'[s].old = {}
      <4>1. packs' = packs /\ ses'[s].old = ses[s].old /\ ses'[s].unused = ses[s].unused
        BY <2>0, <2>1
      <4> QED BY <2>2, <2>3, <4>1
    <3>6. LocInv(ses[s].mem)'
      BY <2>1 DEF LocInv
    <3> QED BY ZenonT(40), <1>1, <2>1, <3>1, <3>2, <3>3, <3>4, <3>5, <3>6
            DEF RepackInv, Collects, Deleting, AllEntries, Get
  <2>5. CollectInv(s)'
    <3>1. \A p \in PackId : packs'[p] # {} => packs'[p] \cap ses'[s].want # {}
      <4>1. \A p \in PackId : packs[p] # {} => packs[p] \cap ses[s].want # {}
        BY ZenonT(40), <1>1, RepackFacts
      <4> QED BY ZenonT(20), <2>0, <2>1, <4>1
    <3> QED BY Zenon, <1>1, <2>1, <3>1 DEF CollectInv, Collects
  <2>6. DroppedGone(s)' /\ PlanInv(s)'
    <3>1. DroppedGone(s)'
      BY Zenon, <1>1, <2>0, <2>1, RepackFacts DEF DroppedGone, Collects, Deleting
    <3>2. PlanInv(s)'
      BY ZenonT(40), <1>1, <2>1 DEF PlanInv, Collects
    <3> QED BY <3>1, <3>2
  <2>7. (\A j \in LiveSnaps' : Listed(j)') /\ DropInv'
    BY ZenonT(40), <1>2, <2>0, <2>1, <2>3 DEF Listed, DropInv, LiveSnaps
  <2> QED BY SMTT(40), <1>1, <2>0, <2>1, <2>4, <2>5, <2>6, <2>7, CleanContinue DEF CleanInv, Deleting
<1> QED BY SMTT(40), <1>3, <1>4 DEF CleanPack

(* A clean that only moves on, with the index it had.                        *)
LEMMA CleanRepackedKeeps ==
    ASSUME TypeInv, RepoInv, NEW s \in Session, CleanRepacked(s)
    PROVE  RepoInv'
<1>1. /\ ses[s].cmd \in {"clean", "forget_clean"} /\ ses[s].pc = "repack"
      /\ UNCHANGED <<packs, indexes, snaps, lock>>
  BY DEF CleanRepacked, Cleaning
<1>2. ~ses[s].stop /\ ses[s] \in SesType
  BY <1>1, CleanCalm
<1>3. /\ ses'[s].cmd = ses[s].cmd /\ ses'[s].stop = ses[s].stop /\ ses'[s].pc = "flush"
      /\ ses'[s].mem = ses[s].mem /\ ses'[s].todo = ses[s].todo /\ ses'[s].want = ses[s].want
      /\ ses'[s].old = ses[s].old /\ ses'[s].unused = ses[s].unused
      /\ ses'[s].obsolete = ses[s].obsolete
      /\ \A u \in Session \ {s} : ses'[u] = ses[u]
  BY <1>2 DEF CleanRepacked, CleanGoto, TypeInv, SesType, SesRec
<1>4. Doomed(s)' = Doomed(s) /\ Referenced' = Referenced
      /\ (\A b : Found(b, s)' <=> Found(b, s)) /\ \A e : Valid(e)' <=> Valid(e)
  BY SMTT(40), <1>1, <1>3 DEF Doomed, Referenced, LiveSnaps, Found, Valid
<1>5. RepackInv(s)'
  <2>1. LocInv(ses[s].mem)'
    BY Zenon, <1>1, <1>3, RepackFacts DEF LocInv
  <2>2. /\ ses'[s].want = Referenced' /\ ses'[s].todo \subseteq ses'[s].want
        /\ \A e \in AllEntries(ses'[s].mem) : Valid(e)' /\ e[2] \notin Doomed(s)'
        /\ \A b \in Blob : ses'[s].mem.loc[b] # NoPack => Found(b, s)'
        /\ \A b \in ses'[s].want : b \in ses'[s].todo \/ Get(ses'[s].mem, b) # NoPack
        /\ ses'[s].mem.files \cap ses'[s].old = {}
    <3>1. /\ ses[s].want = Referenced /\ ses[s].todo \subseteq ses[s].want
          /\ \A e \in AllEntries(ses[s].mem) : Valid(e) /\ e[2] \notin Doomed(s)
          /\ \A b \in Blob : ses[s].mem.loc[b] # NoPack => Found(b, s)
          /\ \A b \in ses[s].want : b \in ses[s].todo \/ Get(ses[s].mem, b) # NoPack
          /\ ses[s].mem.files \cap ses[s].old = {}
      BY Zenon, <1>1, RepackFacts
    <3> QED BY <1>3, <1>4, <3>1
  <2>3. /\ \A i \in IndexId, b \in Blob : indexes'[i][b] # NoPack =>
             \/ b \in packs'[indexes'[i][b]]
             \/ i \in ses'[s].old /\ indexes'[i][b] \in ses'[s].unused
        /\ \A i \in IndexId \ ses'[s].old, b \in Blob : indexes'[i][b] \notin Doomed(s)'
    <3>1. /\ \A i \in IndexId, b \in Blob : indexes[i][b] # NoPack =>
               \/ b \in packs[indexes[i][b]]
               \/ i \in ses[s].old /\ indexes[i][b] \in ses[s].unused
          /\ \A i \in IndexId \ ses[s].old, b \in Blob : indexes[i][b] \notin Doomed(s)
      BY ZenonT(40), <1>1, RepackFacts
    <3> QED BY ZenonT(20), <1>1, <1>3, <1>4, <3>1
  <2> QED BY Zenon, <1>3, <2>1, <2>2, <2>3 DEF RepackInv, Collects, Deleting, AllEntries, Get
<1>6. CollectInv(s)' /\ PlanInv(s)'
  <2>1. CollectInv(s)'
    BY <1>1, <1>3, RepackFacts DEF CollectInv, Collects
  <2>2. PlanInv(s)'
    BY SMTT(40), <1>3 DEF PlanInv, Collects
  <2> QED BY <2>1, <2>2
<1>7. DroppedGone(s)'
  BY SMTT(40), <1>1, <1>3, RepackFacts DEF DroppedGone, Collects, Deleting
<1> QED BY SMTT(40), <1>1, <1>3, <1>5, <1>6, <1>7, CleanQuiet DEF CleanInv, Deleting

(* CleanFlush: from here on files that stay have all that is referenced.     *)
LEMMA CleanFlushKeeps ==
    ASSUME TypeInv, RepoInv, NEW s \in Session, CleanFlush(s)
    PROVE  RepoInv'
<1> DEFINE next == [ses[s] EXCEPT !.pc = "sweep", !.left = ses[s].old \ ses[s].mem.files]
<1>1. /\ ses[s].cmd \in {"clean", "forget_clean"} /\ ses[s].pc = "flush" /\ ses[s].todo = {}
      /\ Persist(s, next) /\ UNCHANGED <<packs, snaps, lock>>
  BY DEF CleanFlush, Cleaning
<1>2. /\ ses[s] \in SesType /\ ses[s].mem \in MemType /\ DropInv
      /\ \A i \in LiveSnaps : Listed(i)
      /\ \A i \in SnapId : snaps[i].blobs \subseteq Blob
  BY SMTT(40), <1>1, CleanCalm
<1>3. ses[s].mem.files \cap ses[s].old = {}
  BY SMTT(40), <1>1, RepackFacts
<1>4. /\ next \in SesType /\ next.mem = ses[s].mem /\ next.cmd = ses[s].cmd /\ next.pc = "sweep"
      /\ next.stop = ses[s].stop /\ next.want = ses[s].want /\ next.todo = ses[s].todo
      /\ next.old = ses[s].old /\ next.unused = ses[s].unused /\ next.obsolete = ses[s].obsolete
      /\ next.left = ses[s].old
  <2>1. ses[s].old \ ses[s].mem.files = ses[s].old
    BY <1>3
  <2> QED BY ZenonT(40), <1>1, <1>2, <2>1 DEF SesType, SesRec, PCs
<1> HIDE DEF next
<1>5. LocInv(next.mem)
  BY Zenon, <1>1, <1>4, RepackFacts
<1>6. /\ \A u \in Session \ {s} : ses'[u] = ses[u]
      /\ ses'[s].cmd = ses[s].cmd /\ ses'[s].pc = "sweep" /\ ses'[s].stop = ses[s].stop
      /\ ses'[s].want = ses[s].want /\ ses'[s].old = ses[s].old /\ ses'[s].todo = {}
      /\ ses'[s].unused = ses[s].unused /\ ses'[s].obsolete = ses[s].obsolete
      /\ ses'[s].left = ses[s].old
      /\ LocInv(ses'[s].mem) /\ AllEntries(ses'[s].mem) = AllEntries(ses[s].mem)
      /\ \A b \in Blob : ses'[s].mem.loc[b] = Get(ses[s].mem, b)
      /\ \A b \in Blob : Indexed(b) => Indexed(b)'
  <2>1. /\ \A u \in Session \ {s} : ses'[u] = ses[u]
        /\ ses'[s].cmd = next.cmd /\ ses'[s].pc = next.pc /\ ses'[s].stop = next.stop
        /\ ses'[s].want = next.want /\ ses'[s].left = next.left
        /\ ses'[s].old = next.old /\ ses'[s].unused = next.unused
        /\ ses'[s].obsolete = next.obsolete /\ ses'[s].todo = next.todo
    BY Zenon, <1>1, <1>4, <1>5, PersistFacts
  <2>2. /\ LocInv(ses'[s].mem) /\ AllEntries(ses'[s].mem) = AllEntries(next.mem)
        /\ \A b \in Blob : ses'[s].mem.loc[b] = Get(next.mem, b)
        /\ \A b \in Blob : Indexed(b) => Indexed(b)'
    BY Zenon, <1>1, <1>4, <1>5, PersistFacts
  <2> QED BY <1>1, <1>4, <2>1, <2>2
<1>7. /\ \A i \in IndexId, b \in Blob : indexes'[i][b] # NoPack =>
           b \in packs[indexes'[i][b]] \/ (i \in ses[s].old /\ indexes'[i][b] \in ses[s].unused)
      /\ \A i \in IndexId \ ses[s].old, b \in Blob : indexes'[i][b] \notin Doomed(s)
      /\ \A b \in Blob : Get(ses[s].mem, b) # NoPack =>
           \E i \in IndexId \ ses[s].old : indexes'[i][b] # NoPack
  BY Zenon, <1>1, <1>4, CleanPersistFacts
<1>8. Doomed(s)' = Doomed(s) /\ LiveSnaps' = LiveSnaps /\ Referenced' = Referenced
  BY ZenonT(40), <1>1, <1>6 DEF Doomed, LiveSnaps, Referenced
<1>9. RepackInv(s)'
  <2>1. \A b \in Blob : ses'[s].mem.loc[b] # NoPack => Found(b, s)'
    BY SMTT(40), <1>6, <1>7 DEF Found
  <2>2. \A e \in AllEntries(ses'[s].mem) : Valid(e)' /\ e[2] \notin Doomed(s)'
    <3>1. \A e \in AllEntries(ses[s].mem) : Valid(e) /\ e[2] \notin Doomed(s)
      BY Zenon, <1>1, RepackFacts
    <3>2. \A e : Valid(e)' <=> Valid(e)
      BY Zenon, <1>1 DEF Valid
    <3> QED BY <1>6, <1>8, <3>1, <3>2
  <2>3. \A b \in ses'[s].want : Found(b, s)'
    BY ZenonT(40), <1>1, <1>6, <1>7, RepackFacts DEF Found
  <2>4. ses'[s].want = Referenced' /\ ses'[s].todo \subseteq ses'[s].want
    BY ZenonT(40), <1>1, <1>6, <1>8, RepackFacts
  <2>5. /\ \A i \in IndexId, b \in Blob : indexes'[i][b] # NoPack =>
             \/ b \in packs'[indexes'[i][b]]
             \/ i \in ses'[s].old /\ indexes'[i][b] \in ses'[s].unused
        /\ \A i \in IndexId \ ses'[s].old, b \in Blob : indexes'[i][b] \notin Doomed(s)'
    <3>1. packs' = packs /\ ses'[s].old = ses[s].old /\ ses'[s].unused = ses[s].unused
      BY <1>1, <1>6
    <3> QED BY <1>7, <1>8, <3>1
  <2>6. LocInv(ses[s].mem)'
    BY <1>6 DEF LocInv
  <2> QED BY ZenonT(40), <1>6, <2>1, <2>2, <2>3, <2>4, <2>5, <2>6
          DEF RepackInv, Collects, Deleting, AllEntries
<1>10. CollectInv(s)' /\ PlanInv(s)'
  <2>1. CollectInv(s)'
    BY ZenonT(40), <1>1, <1>6, RepackFacts DEF CollectInv, Collects
  <2>2. PlanInv(s)'
    BY Zenon, <1>6 DEF PlanInv, Collects
  <2> QED BY <2>1, <2>2
<1>11. DroppedGone(s)'
  BY ZenonT(40), <1>1, <1>6, RepackFacts DEF DroppedGone, Collects, Deleting
<1>12. (\A j \in LiveSnaps' : Listed(j)') /\ DropInv'
  BY ZenonT(40), <1>1, <1>2, <1>6, <1>8 DEF Listed, DropInv, LiveSnaps
<1> QED BY ZenonT(40), <1>1, <1>6, <1>9, <1>10, <1>11, <1>12, CleanContinue DEF CleanInv, Deleting
=============================================================================

----------------------------- MODULE RepoProofs -----------------------------
(***************************************************************************)
(* What Repo promises, proved for any number of sessions, blobs and files: *)
(* snapshots stay restorable, indices stay true, deduplication stays safe, *)
(* and clean deletes what nothing references and only that.                *)
(***************************************************************************)
EXTENDS RepoWriters, RepoCleaners

-----------------------------------------------------------------------------
(* The last steps of clean: the sweep, and the deletions it ends with.        *)

(* CleanSweep: only old files go, and they are not needed any more.          *)
LEMMA CleanSweepKeeps ==
    ASSUME Careful, TypeInv, RepoInv, NEW s \in Session, CleanSweep(s)
    PROVE  RepoInv'
<1>1. /\ ses[s].cmd \in {"clean", "forget_clean"} /\ ses[s].pc = "sweep"
      /\ UNCHANGED <<packs, snaps, lock>>
  BY DEF CleanSweep, Cleaning
<1>2. /\ ses[s] \in SesType /\ ses[s].mem \in MemType /\ CleanInv(s) /\ DropInv
      /\ \A i \in SnapId : snaps[i].blobs \subseteq Blob
  BY SMTT(40), <1>1, CleanCalm
<1>3. /\ ses[s].want = Referenced
      /\ \A i \in IndexId, b \in Blob : indexes[i][b] # NoPack =>
           b \in packs[indexes[i][b]] \/ (i \in ses[s].old /\ indexes[i][b] \in ses[s].unused)
      /\ \A e \in AllEntries(ses[s].mem) : Valid(e) /\ e[2] \notin Doomed(s)
      /\ LocInv(ses[s].mem) /\ ses[s].todo \subseteq ses[s].want
      /\ \A b \in Blob : ses[s].mem.loc[b] # NoPack => Found(b, s)
      /\ \A i \in IndexId \ ses[s].old, b \in Blob : indexes[i][b] \notin Doomed(s)
      /\ \A i \in OnDisk : i \in ses[s].old => i \in ses[s].left
      /\ ses[s].left \subseteq ses[s].old
      /\ \A b \in ses[s].want : Found(b, s)
  BY ZenonT(40), <1>1, <1>2 DEF CleanInv, RepackInv, Collects, Deleting
<1>4. /\ \A p \in PackId : packs[p] # {} => packs[p] \cap ses[s].want # {}
      /\ "storage" \notin Faults => \A i \in SnapId : snaps[i].at # "dropped"
  BY ZenonT(40), <1>1, <1>2 DEF CleanInv, CollectInv, DroppedGone, Collects, Deleting
<1>5. LiveSnaps' = LiveSnaps /\ Referenced' = Referenced /\ \A e : Valid(e)' <=> Valid(e)
  BY SMTT(40), <1>1 DEF Referenced, LiveSnaps, Valid
<1>6. DropInv'
  BY SMTT(40), <1>1, <1>4 DEF DropInv
<1>7. ASSUME NEW i \in ses[s].left, ses' = [ses EXCEPT ![s].left = @ \ {i}],
             indexes' = [indexes EXCEPT ![i] = Empty]
      PROVE  RepoInv'
  <2>1. /\ ses'[s].cmd = ses[s].cmd /\ ses'[s].stop = ses[s].stop /\ ses'[s].pc = "sweep"
        /\ ses'[s].mem = ses[s].mem /\ ses'[s].todo = ses[s].todo /\ ses'[s].want = ses[s].want
        /\ ses'[s].old = ses[s].old /\ ses'[s].unused = ses[s].unused
        /\ ses'[s].obsolete = ses[s].obsolete /\ ses'[s].left = ses[s].left \ {i}
        /\ \A u \in Session \ {s} : ses'[u] = ses[u]
    BY SMTT(40), <1>1, <1>2, <1>7 DEF TypeInv, SesType, SesRec
  <2>2. i \in ses[s].old /\ \A j \in IndexId : indexes'[j] = IF j = i THEN Empty ELSE indexes[j]
    BY SMTT(40), <1>3, <1>7 DEF TypeInv, DiskType
  <2>3. (\A b : Found(b, s) => Found(b, s)') /\ Doomed(s)' = Doomed(s)
    BY SMTT(40), <2>1, <2>2 DEF Found, Doomed
  <2>4. \A j \in OnDisk' : j \in ses[s].old => j \in ses[s].left \ {i}
    BY ZenonT(40), <1>3, <2>2 DEF OnDisk
  <2>5. RepackInv(s)'
    <3>1. /\ \A j \in IndexId, b \in Blob : indexes'[j][b] # NoPack =>
               \/ b \in packs'[indexes'[j][b]]
               \/ j \in ses'[s].old /\ indexes'[j][b] \in ses'[s].unused
          /\ \A j \in IndexId \ ses'[s].old, b \in Blob : indexes'[j][b] \notin Doomed(s)'
      <4>1. \A j \in IndexId, b \in Blob : indexes'[j][b] = NoPack \/ indexes'[j] = indexes[j]
        BY <2>2 DEF Empty
      <4>2. NoPack \notin Doomed(s)
        BY RepoAssumption, <1>2 DEF Doomed, NoPack, SesType, SesRec
      <4> QED BY <1>1, <1>3, <2>1, <2>3, <4>1, <4>2
    <3>2. LocInv(ses[s].mem)'
      BY ZenonT(40), <1>3, <2>1 DEF LocInv
    <3>3. /\ ses'[s].want = Referenced' /\ ses'[s].todo \subseteq ses'[s].want
          /\ \A b \in Blob : ses'[s].mem.loc[b] # NoPack => Found(b, s)'
          /\ \A b \in ses'[s].want : Found(b, s)'
          /\ \A e \in AllEntries(ses'[s].mem) : Valid(e)' /\ e[2] \notin Doomed(s)'
          /\ \A j \in OnDisk' : j \in ses'[s].old => j \in ses'[s].left
          /\ ses'[s].left \subseteq ses'[s].old
      BY ZenonT(40), <1>3, <1>5, <2>1, <2>3, <2>4
    <3> QED BY ZenonT(40), <2>1, <3>1, <3>2, <3>3 DEF RepackInv, Collects, Deleting, AllEntries
  <2>6. CollectInv(s)' /\ PlanInv(s)'
    <3>1. CollectInv(s)'
      BY SMTT(40), <1>1, <1>4, <2>1 DEF CollectInv, Collects
    <3>2. PlanInv(s)'
      BY SMTT(40), <2>1 DEF PlanInv, Collects
    <3> QED BY SMTT(40), <3>1, <3>2
  <2>7. DroppedGone(s)'
    BY SMTT(40), <1>1, <1>4, <2>1 DEF DroppedGone, Collects, Deleting
  <2>8. \A j \in LiveSnaps' : Listed(j)'
    <3>1. \A j \in LiveSnaps : snaps[j].blobs \subseteq ses[s].want
      BY <1>3 DEF Referenced
    <3> QED BY ZenonT(40), <1>1, <1>3, <1>5, <2>3, <3>1 DEF Listed, Indexed, Found
  <2> QED BY ZenonT(40), <1>1, <1>6, <2>1, <2>5, <2>6, <2>7, <2>8, CleanContinue DEF CleanInv, Deleting
<1>8. CASE /\ ses[s].left = {} /\ UNCHANGED indexes
           /\ ses' = [ses EXCEPT ![s].pc = "obsolete", ![s].left = ses[s].obsolete]
  <2>1. /\ ses'[s].cmd = ses[s].cmd /\ ses'[s].stop = ses[s].stop /\ ses'[s].pc = "obsolete"
        /\ ses'[s].want = ses[s].want
        /\ ses'[s].obsolete = ses[s].obsolete /\ ses'[s].left = ses[s].obsolete
        /\ \A u \in Session \ {s} : ses'[u] = ses[u]
    BY SMTT(40), <1>2, <1>8 DEF TypeInv, SesType, SesRec
  <2>2. ses[s].obsolete \subseteq PackId /\ NoPack \notin PackId
    BY <1>2, RepoAssumption DEF SesType, SesRec, NoPack
  <2>3. \A i \in IndexId, b \in Blob : i \in ses[s].old => indexes[i][b] = NoPack
    BY SMTT(40), <1>3, <1>8 DEF OnDisk, Empty
  <2>4. \A i \in IndexId, b \in Blob : indexes[i][b] \notin ses[s].obsolete
    BY SMTT(40), <1>3, <2>2, <2>3 DEF Doomed
  <2>5. IndexHeld
    BY SMTT(40), <1>3, <2>3 DEF IndexHeld
  <2>6. RepackInv(s)'
    BY ZenonT(40), <1>1, <1>3, <1>5, <1>8, <2>1, <2>4 DEF RepackInv, Collects, Deleting
  <2>7. CollectInv(s)' /\ PlanInv(s)'
    <3>1. CollectInv(s)'
      BY SMTT(40), <1>1, <1>4, <2>1 DEF CollectInv, Collects
    <3>2. PlanInv(s)'
      BY ZenonT(40), <2>1 DEF PlanInv, Collects
    <3> QED BY <3>1, <3>2
  <2>8. DroppedGone(s)'
    BY <1>1, <1>4, <2>1 DEF DroppedGone, Collects, Deleting
  <2> QED BY Zenon, <1>1, <1>8, <2>1, <2>5, <2>6, <2>7, <2>8, CleanQuiet DEF CleanInv
<1>9. "sweep" \notin Faults
  BY DEF Careful
<1> QED BY SMTT(40), <1>7, <1>8, <1>9 DEF CleanSweep

(* CleanDeleteObsolete: no index file names what goes.                       *)
LEMMA CleanDeleteObsoleteKeeps ==
    ASSUME TypeInv, RepoInv, NEW s \in Session, CleanDeleteObsolete(s)
    PROVE  RepoInv'
<1>1. /\ ses[s].cmd \in {"clean", "forget_clean"} /\ ses[s].pc = "obsolete"
      /\ UNCHANGED <<indexes, snaps, lock>>
  BY SMTT(40) DEF CleanDeleteObsolete, Cleaning
<1>2. /\ ses[s] \in SesType /\ CleanInv(s) /\ DropInv /\ IndexHeld
      /\ \A i \in LiveSnaps : Listed(i)
  BY SMTT(40), <1>1, CleanCalm DEF Deleting
<1>3. /\ ses[s].want = Referenced /\ ses[s].left \subseteq ses[s].obsolete
      /\ \A i \in IndexId, b \in Blob : indexes[i][b] \notin ses[s].obsolete
      /\ \A p \in PackId : packs[p] # {} => packs[p] \cap ses[s].want # {}
      /\ "storage" \notin Faults => \A i \in SnapId : snaps[i].at # "dropped"
  BY ZenonT(40), <1>1, <1>2 DEF CleanInv, RepackInv, CollectInv, DroppedGone, Collects
<1>4. (\A i \in LiveSnaps' : Listed(i)') /\ DropInv' /\ Referenced' = Referenced
  BY SMTT(40), <1>1, <1>2 DEF LiveSnaps, Listed, Indexed, DropInv, Referenced
<1>5. ASSUME NEW p \in ses[s].left, ses' = [ses EXCEPT ![s].left = @ \ {p}],
             packs' = [packs EXCEPT ![p] = {}] \/ UNCHANGED packs
      PROVE  RepoInv'
  <2>1. /\ ses'[s].cmd = ses[s].cmd /\ ses'[s].stop = ses[s].stop /\ ses'[s].pc = "obsolete"
        /\ ses'[s].want = ses[s].want /\ ses'[s].obsolete = ses[s].obsolete
        /\ ses'[s].left = ses[s].left \ {p}
        /\ \A u \in Session \ {s} : ses'[u] = ses[u]
    BY <1>1, <1>2, <1>5 DEF TypeInv, SesType, SesRec
  <2>2. p \in ses[s].obsolete /\ \A q \in PackId : packs'[q] = packs[q] \/ (q = p /\ packs'[q] = {})
    BY SMTT(40), <1>3, <1>5 DEF TypeInv, DiskType
  <2>3. IndexHeld'
    <3>1. \A i \in IndexId, b \in Blob : indexes[i][b] # NoPack =>
            indexes[i][b] \in PackId /\ b \in packs[indexes[i][b]] /\ indexes[i][b] # p
      BY SMTT(40), <1>2, <1>3, <2>2 DEF IndexHeld, TypeInv, DiskType
    <3> QED BY SMTT(40), <1>1, <2>2, <3>1 DEF IndexHeld
  <2>4. RepackInv(s)'
    BY ZenonT(40), <1>1, <1>3, <1>4, <2>1 DEF RepackInv, Collects, Deleting
  <2>5. CollectInv(s)' /\ PlanInv(s)'
    <3>1. \A q \in PackId : packs'[q] # {} => packs'[q] \cap ses'[s].want # {}
      BY ZenonT(40), <1>3, <2>1, <2>2
    <3>2. CollectInv(s)'
      BY SMTT(40), <2>1, <3>1 DEF CollectInv, Collects
    <3>3. PlanInv(s)'
      BY SMTT(40), <2>1 DEF PlanInv, Collects
    <3> QED BY SMTT(40), <3>2, <3>3
  <2>6. DroppedGone(s)'
    BY SMTT(40), <1>1, <1>3, <2>1 DEF DroppedGone, Collects, Deleting
  <2> QED BY ZenonT(40), <1>1, <1>4, <2>1, <2>3, <2>4, <2>5, <2>6, CleanContinue DEF CleanInv
<1>6. CASE ses[s].left = {} /\ CleanGoto(s, "end") /\ UNCHANGED packs
  <2>1. /\ ses'[s].cmd = ses[s].cmd /\ ses'[s].stop = ses[s].stop /\ ses'[s].pc = "end"
        /\ \A u \in Session \ {s} : ses'[u] = ses[u]
    BY SMTT(40), <1>2, <1>6 DEF CleanGoto, TypeInv, SesType, SesRec
  <2> QED BY ZenonT(40), <1>1, <1>2, <1>6, <2>1, CleanAtRest, CleanQuiet
<1> QED BY <1>5, <1>6 DEF CleanDeleteObsolete

(* Every step of a clean.                                                    *)
LEMMA CleanKeeps ==
    ASSUME Careful, TypeInv, RepoInv, NothingOverlooked, NEW s \in Session,
           CleanStart(s) \/ CleanStep(s)
    PROVE  RepoInv'
<1>1. CASE CleanScanFails(s)
  <2>1. /\ ses[s].cmd \in {"clean", "forget_clean"} /\ ses[s].pc = "scan"
        /\ UNCHANGED <<packs, indexes, snaps, lock>>
    BY SMTT(40), <1>1 DEF CleanScanFails, Cleaning
  <2>2. ses[s] \in SesType /\ IndexHeld
    BY <2>1, CleanCalm DEF Deleting
  <2>3. /\ ses'[s].cmd = ses[s].cmd /\ ses'[s].stop = ses[s].stop /\ ses'[s].pc = "end"
        /\ \A u \in Session \ {s} : ses'[u] = ses[u]
    BY SMTT(40), <1>1, <2>2 DEF CleanScanFails, CleanGoto, TypeInv, SesType, SesRec
  <2> QED BY SMTT(40), <2>1, <2>2, <2>3, CleanAtRest, CleanQuiet
<1>2. CASE CleanEnd(s)
  <2>1. /\ ses[s].cmd \in {"clean", "forget_clean"} /\ ses[s].pc = "end"
        /\ Finish(s) /\ UNCHANGED <<packs, indexes, snaps>>
    BY <1>2 DEF CleanEnd, Cleaning
  <2> QED BY SMTT(40), <2>1, EndKeeps DEF Busy, Collects, Deleting
<1> QED BY SMTT(40), <1>1, <1>2, CleanStartKeeps, CleanLoadKeeps, CleanScanKeeps, CleanTrashKeeps,
           CleanDeleteUnusedKeeps, CleanCheckpointKeeps, CleanPackKeeps, CleanRepackedKeeps,
           CleanFlushKeeps, CleanSweepKeeps, CleanDeleteObsoleteKeeps DEF CleanStep

-----------------------------------------------------------------------------
(* Lemmas about forget and recall.                                           *)

(* What a forget or a recall owes.                                           *)
LEMMA ForgetOnly ==
    ASSUME NEW s \in Session, ForgetInv(s)',
           \/ ses'[s].cmd = "recall"
           \/ /\ ses'[s].cmd \in {"forget", "forget_clean"}
              /\ ses'[s].pc \in {"forget", "load"} /\ ses'[s].todo = {}
    PROVE  SesInv(s)'
BY Zenon DEF SesInv, WriteInv, BackupInv, RewriteInv, RechunkInv, RebuildInv,
       CleanInv, PlanInv, DroppedGone, RepackInv, CollectInv, Collects, Deleting

(* The steps of ForgetCmd preserve the invariant.                            *)
LEMMA ForgetKeeps ==
    ASSUME Careful, TypeInv, RepoInv, NEW s \in Session,
           ForgetStart(s) \/ RecallStart(s) \/ ForgetStep(s)
    PROVE  RepoInv'
<1>0. ~ses[s].stop
  BY Zenon DEF RepoInv, LockInv
<1>1. CASE ForgetStart(s)
  <2>1. PICK c \in {"forget", "forget_clean"}, gone \in SUBSET LiveSnaps :
          /\ Start(s, c, [Idle EXCEPT !.cmd = c, !.pc = "forget", !.left = gone])
          /\ UNCHANGED <<packs, indexes, snaps>>
    BY Zenon, <1>1 DEF ForgetStart
  <2> DEFINE r == [Idle EXCEPT !.cmd = c, !.pc = "forget", !.left = gone]
  <2>2. r.cmd = c /\ r.pc = "forget" /\ r.left = gone /\ r.todo = {} /\ ~r.stop
    BY DEF Idle
  <2>3. Start(s, c, r) /\ ses'[s] = r
    BY <2>1 DEF Start, TypeInv
  <2> HIDE DEF r
  <2>4. ForgetInv(s)'
    BY <2>1, <2>2, <2>3 DEF ForgetInv, LiveSnaps
  <2>5. SesInv(s)'
    BY <2>2, <2>3, <2>4, ForgetOnly
  <2>6. c \in Commands
    BY DEF Commands
  <2> QED BY SMTT(40), <2>1, <2>2, <2>3, <2>5, <2>6, StartInv
<1>2. CASE RecallStart(s)
  <2>1. PICK i \in SnapId :
          Start(s, "recall", [Idle EXCEPT !.cmd = "recall", !.pc = "recall", !.left = {i}])
    BY Zenon, <1>2 DEF RecallStart
  <2> DEFINE r == [Idle EXCEPT !.cmd = "recall", !.pc = "recall", !.left = {i}]
  <2>2. r.cmd = "recall" /\ r.pc = "recall" /\ ~r.stop
    BY DEF Idle
  <2>3. Start(s, "recall", r) /\ ses'[s] = r
    BY <2>1 DEF Start, TypeInv
  <2> HIDE DEF r
  <2>4. SesInv(s)'
    BY SMTT(40), <2>2, <2>3, ForgetOnly DEF ForgetInv, Forgetting
  <2>5. UNCHANGED <<packs, indexes, snaps>>
    BY Zenon, <1>2 DEF RecallStart
  <2> QED BY SMTT(40), <2>2, <2>3, <2>4, <2>5, StartInv DEF Commands
<1>3. CASE ForgetOne(s)
  <2>1. /\ ses[s].cmd \in {"forget", "forget_clean"} /\ ses[s].pc = "forget" /\ Busy(s)
        /\ ses[s].left \subseteq LiveSnaps /\ ses[s].todo = {} /\ ses[s] \in SesType
    BY <1>3 DEF ForgetOne, Forgetting, Busy, RepoInv, SesInv, ForgetInv, TypeInv
  <2>2. IndexHeld /\ \A i \in LiveSnaps : Listed(i)
    BY <2>1, Calm DEF Collects, Deleting
  <2>3. PICK i \in ses[s].left :
          /\ ses' = [ses EXCEPT ![s].left = @ \ {i}]
          /\ \/ snaps' = [snaps EXCEPT ![i].at = "dropped"]
             \/ snaps' = [snaps EXCEPT ![i] = NoSnap]
    BY Zenon, <1>3 DEF ForgetOne
  <2>4. UNCHANGED <<packs, indexes, lock>>
    BY <1>3 DEF ForgetOne
  <2>5. /\ ses'[s].cmd = ses[s].cmd /\ ses'[s].pc = "forget" /\ ses'[s].stop = ses[s].stop
        /\ ses'[s].left = ses[s].left \ {i} /\ ses'[s].todo = {}
        /\ \A u \in Session \ {s} : ses'[u] = ses[u]
    BY <2>1, <2>3 DEF TypeInv, SesType, SesRec
  <2>6. /\ i \in SnapId /\ \A j \in SnapId : j # i => snaps'[j] = snaps[j]
        /\ snaps'[i].at \in {"none", "dropped"}
        /\ snaps'[i].at = "dropped" => snaps'[i].blobs = snaps[i].blobs
    BY <2>1, <2>3 DEF TypeInv, DiskType, LiveSnaps, NoSnap
  <2>7. LiveSnaps' = LiveSnaps \ {i}
    BY <2>6 DEF LiveSnaps
  <2>8. (\A j \in LiveSnaps' : Listed(j)') /\ DropInv'
    <3>1. \A j \in LiveSnaps' : Listed(j)'
      BY SMTT(40), <2>2, <2>4, <2>6, <2>7 DEF Listed, Indexed, LiveSnaps
    <3>2. Listed(i)
      BY <2>1, <2>2
    <3>3. ASSUME NEW j \in SnapId, snaps'[j].at = "dropped", "storage" \notin Faults PROVE Listed(j)'
      BY SMTT(40), <2>4, <2>6, <3>2, <3>3 DEF Listed, Indexed, DropInv, RepoInv
    <3> QED BY <3>1, <3>3 DEF DropInv
  <2>9. SnapInv' /\ IndexInv'
    BY SMTT(40), <2>2, <2>4, <2>8 DEF SnapInv, IndexInv, IndexHeld
  <2>10. ForgetInv(s)'
    BY <2>1, <2>5, <2>7 DEF ForgetInv
  <2> QED BY SMTT(40), <2>1, <2>4, <2>5, <2>8, <2>9, <2>10, ForgetOnly, Continue
<1>4. CASE ForgetDone(s)
  <2>1. /\ ses[s].cmd \in {"forget", "forget_clean"} /\ ses[s].pc = "forget" /\ Busy(s)
        /\ ses[s] \in SesType /\ UNCHANGED <<packs, indexes, snaps>> /\ ses[s].todo = {}
    BY <1>4 DEF ForgetDone, Forgetting, Busy, TypeInv, RepoInv, SesInv, ForgetInv
  <2>2. CASE Finish(s)
    BY <2>1, <2>2, EndKeeps DEF Collects, Deleting
  <2>3. CASE ses[s].cmd = "forget_clean" /\ ses' = [ses EXCEPT ![s].pc = "load"]
    <3>1. Session = {s}
      BY <2>1, <2>3 DEF RepoInv, LockInv, Careful
    <3>2. /\ ses'[s].cmd = ses[s].cmd /\ ses'[s].pc = "load" /\ ses'[s].stop = ses[s].stop
          /\ ses'[s].todo = {} /\ \A u \in Session \ {s} : ses'[u] = ses[u]
      BY <2>1, <2>3 DEF TypeInv, SesType, SesRec
    <3>3. IndexHeld /\ \A i \in LiveSnaps : Listed(i)
      BY SMTT(40), <2>1, Calm DEF Collects, Deleting
    <3>4. IndexInv' /\ SnapInv' /\ DropInv'
      BY <2>1, <3>3 DEF IndexInv, IndexHeld, SnapInv, LiveSnaps, Listed, Indexed, DropInv, RepoInv
    <3>5. SesInv(s)'
      BY <2>3, <3>2, ForgetOnly DEF ForgetInv, Forgetting
    <3> QED BY <2>1, <2>3, <3>1, <3>2, <3>4, <3>5, Continue
  <2> QED BY <1>0, <1>4, <2>2, <2>3 DEF ForgetDone
<1>5. CASE Recall(s)
  <2>1. ses[s].cmd = "recall" /\ Busy(s) /\ Finish(s) /\ UNCHANGED <<packs, indexes>>
    BY <1>5 DEF Recall, Running, Busy
  <2>2. "storage" \notin Faults
    BY <2>1 DEF RepoInv, LockInv, Careful
  <2>3. IndexHeld /\ \A i \in LiveSnaps : Listed(i)
    BY <2>1, Calm DEF Collects
  <2>4. \A i \in SnapId : \/ snaps'[i] = snaps[i]
                          \/ snaps[i].at = "dropped" /\ snaps'[i] = [snaps[i] EXCEPT !.at = "live"]
    BY <1>5 DEF Recall
  <2>5. ASSUME NEW i \in SnapId
        PROVE  /\ snaps'[i].blobs = snaps[i].blobs
               /\ snaps'[i].at = "dropped" => snaps[i].at = "dropped"
               /\ snaps'[i].at = "live" => snaps[i].at \in {"live", "dropped"}
    <3>1. snaps[i] \in [at : {"none", "live", "dropped"}, blobs : SUBSET Blob]
      BY DEF TypeInv, DiskType
    <3>2. CASE snaps'[i] = snaps[i]
      BY <3>2
    <3>3. CASE snaps[i].at = "dropped" /\ snaps'[i] = [snaps[i] EXCEPT !.at = "live"]
      BY <3>1, <3>3
    <3> QED BY <2>4, <3>2, <3>3
  <2>6. \A i \in SnapId : snaps[i].at \in {"live", "dropped"} => Listed(i)
    BY SMTT(40), <2>2, <2>3 DEF RepoInv, DropInv, LiveSnaps
  <2>7. (\A i \in LiveSnaps' : Listed(i)') /\ DropInv'
    BY SMTT(40), <2>1, <2>5, <2>6 DEF LiveSnaps, Listed, Indexed, DropInv
  <2> QED BY <2>1, <2>3, <2>7, FinishInv
<1> QED BY SMTT(40), <1>1, <1>2, <1>3, <1>4, <1>5 DEF ForgetStep

-----------------------------------------------------------------------------
(* Lemmas about rebuild_index.                                               *)

(* What rebuild-index owes.                                                  *)
LEMMA RebuildOnly ==
    ASSUME NEW s \in Session, ses'[s].cmd = "rebuild_index", RebuildInv(s)'
    PROVE  SesInv(s)'
BY Zenon DEF SesInv, WriteInv, BackupInv, RewriteInv, RechunkInv, ForgetInv, Forgetting,
       CleanInv, PlanInv, DroppedGone, RepackInv, CollectInv, Collects

(* The steps of rebuild-index preserve the invariant.                        *)
LEMMA RebuildKeeps ==
    ASSUME Careful, TypeInv, RepoInv, NEW s \in Session, RebuildStart(s) \/ RebuildStep(s)
    PROVE  RepoInv'
<1>1. CASE RebuildStart(s)
  <2> DEFINE all == {p \in PackId : packs[p] # {}}
             r == [Idle EXCEPT !.cmd = "rebuild_index", !.pc = "list", !.left = all]
  <2>1. r.cmd = "rebuild_index" /\ r.pc = "list" /\ r.left = all /\ ~r.stop
    BY DEF Idle
  <2>2. Start(s, "rebuild_index", r) /\ ses'[s] = r /\ UNCHANGED <<packs, indexes, snaps>>
    BY SMTT(40), <1>1 DEF RebuildStart, Start, TypeInv
  <2> HIDE DEF r
  <2>3. SesInv(s)'
    BY SMTT(40), <2>1, <2>2, RebuildOnly DEF RebuildInv
  <2> QED BY Zenon, <2>1, <2>2, <2>3, StartInv DEF Commands
<1>2. ASSUME RebuildStep(s)
      PROVE  /\ ses[s].cmd = "rebuild_index" /\ Busy(s) /\ ~Collects(s, Deleting)
             /\ ses[s] \in SesType /\ RebuildInv(s) /\ DropInv /\ IndexHeld
             /\ \A i \in LiveSnaps : Listed(i)
             /\ \A i \in SnapId : snaps[i].blobs \subseteq Blob
  <2>1. ses[s].cmd = "rebuild_index"
    BY Zenon, <1>2 DEF RebuildStep, RebuildList, RebuildScan, RebuildPersist, RebuildSweep, RebuildEnd,
                Rebuilding, Running
  <2>2. Busy(s) /\ ~Collects(s, Deleting)
    BY <2>1 DEF Busy, Collects
  <2>3. IndexHeld /\ \A i \in LiveSnaps : Listed(i)
    BY SMTT(40), <2>1, <2>2, Calm
  <2>4. ses[s] \in SesType /\ \A i \in SnapId : snaps[i].blobs \subseteq Blob
    BY SMTT(40) DEF TypeInv, DiskType
  <2> QED BY ZenonT(40), <2>1, <2>2, <2>3, <2>4 DEF RepoInv, SesInv
<1>3. CASE RebuildList(s)
  <2>1. /\ RebuildStep(s) /\ UNCHANGED <<packs, indexes, snaps, lock>> /\ ses[s].pc = "list"
    BY <1>3 DEF RebuildStep, RebuildList, Rebuilding, Running
  <2>2. /\ ses'[s].cmd = ses[s].cmd /\ ses'[s].stop = ses[s].stop /\ ses'[s].pc = "scan"
        /\ ses'[s].left = ses[s].left /\ \A u \in Session \ {s} : ses'[u] = ses[u]
    BY SMTT(40), <1>2, <1>3, <2>1 DEF RebuildList, TypeInv, SesType, SesRec
  <2>3. RebuildInv(s)'
    BY ZenonT(40), <1>2, <2>1, <2>2 DEF RebuildInv
  <2>4. IndexInv' /\ SnapInv' /\ DropInv'
    BY SMTT(40), <1>2, <2>1, <2>2, QuietDisk
  <2> QED BY ZenonT(40), <1>2, <2>1, <2>2, <2>3, <2>4, RebuildOnly, Continue
<1>4. CASE RebuildScan(s)
  <2>1. /\ RebuildStep(s) /\ UNCHANGED <<packs, indexes, snaps, lock>> /\ ses[s].pc = "scan"
    BY ZenonT(40), <1>4 DEF RebuildStep, RebuildScan, Rebuilding, Running
  <2>2. PICK f \in [Blob -> PackId \cup {NoPack}] :
          /\ \A b \in Blob :
               LET holding == {p \in ses[s].left : b \in packs[p]}
               IN  IF holding = {} THEN f[b] = NoPack ELSE f[b] \in holding
          /\ ses' = [ses EXCEPT ![s].mem = [NoIndex EXCEPT !.pend = f], ![s].pc = "persist",
                                ![s].left = {}]
    BY Zenon, <1>4 DEF RebuildScan
  <2> DEFINE m == [NoIndex EXCEPT !.pend = f]
  <2>3. m.pend = f /\ LocInv(m)
    BY DEF NoIndex, LocInv, Empty
  <2>4. ses'[s] = [ses[s] EXCEPT !.mem = m, !.pc = "persist", !.left = {}]
    BY <2>2 DEF TypeInv
  <2> HIDE DEF m
  <2>5. /\ ses'[s].cmd = ses[s].cmd /\ ses'[s].stop = ses[s].stop /\ ses'[s].pc = "persist"
        /\ ses'[s].mem = m
    BY <1>2, <2>1, <2>4 DEF SesType, SesRec
  <2>6. \A u \in Session \ {s} : ses'[u] = ses[u]
    BY SMTT(40), <2>2 DEF TypeInv
  <2>7. /\ ses[s].left \subseteq PackId /\ NoPack \notin PackId
        /\ \A p \in PackId : packs[p] # {} => p \in ses[s].left
    BY Zenon, <1>2, <2>1, RepoAssumption DEF RebuildInv, NoPack
  <2>8. ASSUME NEW b \in Blob
        PROVE  /\ Indexed(b) => f[b] # NoPack
               /\ f[b] # NoPack => b \in packs[f[b]]
    <3> DEFINE holding == {p \in ses[s].left : b \in packs[p]}
    <3>1. IF holding = {} THEN f[b] = NoPack ELSE f[b] \in holding
      BY SMTT(40), <2>2
    <3>2. Indexed(b) => holding # {}
      <4> SUFFICES ASSUME NEW i \in IndexId, indexes[i][b] # NoPack PROVE holding # {}
        BY SMTT(40) DEF Indexed
      <4>1. indexes[i][b] \in PackId /\ b \in packs[indexes[i][b]]
        BY SMTT(40), <1>2, <2>1 DEF IndexHeld, TypeInv, DiskType
      <4> QED BY SMTT(40), <2>7, <4>1
    <3> QED BY <2>7, <3>1, <3>2
  <2>9. RebuildInv(s)'
    BY ZenonT(40), <1>2, <2>1, <2>3, <2>5, <2>8 DEF RebuildInv, Indexed, LocInv
  <2>10. IndexInv' /\ SnapInv' /\ DropInv'
    BY SMTT(40), <1>2, <2>1, <2>5, QuietDisk
  <2> QED BY ZenonT(40), <1>2, <2>1, <2>5, <2>6, <2>9, <2>10, RebuildOnly, Continue
<1>5. CASE RebuildPersist(s)
  <2>1. /\ RebuildStep(s) /\ UNCHANGED <<packs, snaps, lock>> /\ ses[s].pc = "persist"
    BY <1>5 DEF RebuildStep, RebuildPersist, Rebuilding, Running
  <2> DEFINE next == [ses[s] EXCEPT !.old = @ \ ses[s].mem.files, !.pc = "sweep"]
  <2>2. /\ next \in SesType /\ next.mem = ses[s].mem /\ next.pc = "sweep"
        /\ next.cmd = ses[s].cmd /\ next.stop = ses[s].stop /\ next.old \subseteq ses[s].old
    BY ZenonT(40), <1>2, <2>1 DEF SesType, SesRec, PCs
  <2>3. Persist(s, next)
    BY <1>5 DEF RebuildPersist
  <2> HIDE DEF next
  <2>4. /\ LocInv(ses[s].mem)
        /\ \A b \in Blob : /\ Indexed(b) => ses[s].mem.pend[b] # NoPack
                           /\ ses[s].mem.pend[b] # NoPack => b \in packs[ses[s].mem.pend[b]]
    BY Zenon, <1>2, <2>1 DEF RebuildInv
  <2>5. /\ \A u \in Session \ {s} : ses'[u] = ses[u]
        /\ ses'[s].cmd = ses[s].cmd /\ ses'[s].pc = "sweep" /\ ses'[s].stop = ses[s].stop
        /\ ses'[s].old \subseteq ses[s].old
        /\ \A j \in IndexId : \/ indexes'[j] = indexes[j]
                              \/ j \in FreshIndexes /\ indexes'[j] = ses[s].mem.pend
        /\ \A b \in Blob : ses[s].mem.pend[b] # NoPack =>
                             \E j \in FreshIndexes : indexes'[j][b] # NoPack
        /\ \A b \in Blob : Indexed(b) => Indexed(b)'
    <3>1. LocInv(next.mem)
      BY Zenon, <2>2, <2>4
    <3>2. /\ \A u \in Session \ {s} : ses'[u] = ses[u]
          /\ ses'[s].cmd = next.cmd /\ ses'[s].pc = next.pc /\ ses'[s].stop = next.stop
          /\ ses'[s].old = next.old
      BY ZenonT(40), <2>2, <2>3, <3>1, PersistFacts
    <3>3. /\ \A j \in IndexId : \/ indexes'[j] = indexes[j]
                                \/ j \in FreshIndexes /\ indexes'[j] = next.mem.pend
          /\ \A b \in Blob : next.mem.pend[b] # NoPack =>
                               \E j \in FreshIndexes : indexes'[j][b] # NoPack
          /\ \A b \in Blob : Indexed(b) => Indexed(b)'
      BY ZenonT(40), <2>2, <2>3, <3>1, PersistFacts
    <3> QED BY Zenon, <2>2, <3>2, <3>3
  <2>6. IndexHeld'
    BY Zenon, <1>2, <2>1, <2>4, <2>5 DEF IndexHeld
  <2>7. RebuildInv(s)'
    <3> SUFFICES ASSUME NEW b \in Blob, Indexed(b)'
                 PROVE  \E j \in IndexId \ ses'[s].old : indexes'[j][b] # NoPack
      BY ZenonT(40), <2>5 DEF RebuildInv
    <3>1. ses[s].mem.pend[b] # NoPack
      BY ZenonT(40), <2>4, <2>5 DEF Indexed
    <3>2. FreshIndexes \subseteq IndexId \ ses[s].old
      BY SMTT(40) DEF FreshIndexes
    <3> QED BY SMTT(40), <2>5, <3>1, <3>2
  <2>8. IndexInv' /\ SnapInv' /\ DropInv'
    BY ZenonT(40), <1>2, <2>1, <2>5, <2>6 DEF IndexInv, SnapInv, DropInv, LiveSnaps, Listed
  <2> QED BY ZenonT(40), <1>2, <2>1, <2>5, <2>7, <2>8, RebuildOnly, Continue
<1>6. CASE RebuildSweep(s)
  <2>1. /\ RebuildStep(s) /\ UNCHANGED <<packs, snaps, lock>> /\ ses[s].pc = "sweep"
    BY Zenon, <1>6 DEF RebuildStep, RebuildSweep, Rebuilding, Running
  <2>2. PICK i \in ses[s].old :
          /\ ses' = [ses EXCEPT ![s].old = @ \ {i}]
          /\ \/ indexes' = [indexes EXCEPT ![i] = Empty]
             \/ UNCHANGED indexes
    BY Zenon, <1>6 DEF RebuildSweep
  <2>3. /\ ses'[s].cmd = ses[s].cmd /\ ses'[s].stop = ses[s].stop /\ ses'[s].pc = "sweep"
        /\ ses'[s].old = ses[s].old \ {i} /\ \A u \in Session \ {s} : ses'[u] = ses[u]
    BY <1>2, <2>1, <2>2 DEF TypeInv, SesType, SesRec
  <2>4. \A j \in IndexId : indexes'[j] = indexes[j] \/ (j = i /\ indexes'[j] = Empty)
    BY SMTT(40), <2>2 DEF TypeInv, DiskType
  <2>5. \A b \in Blob : Indexed(b) => \E j \in IndexId \ ses[s].old : indexes[j][b] # NoPack
    BY Zenon, <1>2, <2>1 DEF RebuildInv
  <2>6. \A b \in Blob : Indexed(b)' <=> Indexed(b)
    BY SMTT(40), <2>4, <2>5 DEF Indexed, Empty
  <2>7. RebuildInv(s)'
    <3>1. \A b \in Blob : Indexed(b)' => \E j \in IndexId \ ses'[s].old : indexes'[j][b] # NoPack
      BY ZenonT(40), <2>3, <2>4, <2>5, <2>6
    <3> QED BY ZenonT(40), <2>3, <3>1 DEF RebuildInv
  <2>8. IndexHeld'
    BY SMTT(40), <1>2, <2>1, <2>4 DEF IndexHeld, Empty
  <2>9. IndexInv' /\ SnapInv' /\ DropInv'
    BY ZenonT(40), <1>2, <2>1, <2>6, <2>8 DEF IndexInv, SnapInv, DropInv, LiveSnaps, Listed
  <2> QED BY ZenonT(40), <1>2, <2>1, <2>3, <2>7, <2>9, RebuildOnly, Continue
<1>7. CASE RebuildEnd(s)
  BY Zenon, <1>2, <1>7, EndKeeps DEF RebuildStep, RebuildEnd, Busy
<1> QED BY SMTT(40), <1>1, <1>3, <1>4, <1>5, <1>6, <1>7 DEF RebuildStep

-----------------------------------------------------------------------------
(* A crash, and every step.                                                  *)

(* A crash where the code can afford one.                                    *)
LEMMA CrashKeeps ==
    ASSUME Careful, TypeInv, RepoInv, NEW s \in Session, Crash(s)
    PROVE  RepoInv'
<1>1. /\ ~CleanExposed(s) /\ ~CleanSweeping(s) /\ ~RechunkExposed(s)
      /\ Finish(s) /\ UNCHANGED <<packs, indexes, snaps>>
  BY DEF Crash, Careful
<1>2. Busy(s)
  BY DEF Crash, Busy, TypeInv, LockType
<1>3. CASE ses[s].cmd = "rechunk"
  <2>1. IndexHeld
    BY SMTT(40), <1>2, <1>3, Calm DEF Collects
  <2>2. /\ ses[s].todo = {} /\ ses[s].mem.pend = Empty /\ RechunkInv(s) /\ DropInv
        /\ \A i \in SnapId : snaps[i].blobs \subseteq Blob
    BY SMTT(40), <1>1, <1>3 DEF RechunkExposed, RepoInv, SesInv, TypeInv, DiskType
  <2>3. \A i \in LiveSnaps : Listed(i)
    BY SMTT(40), <1>3, <2>2 DEF RechunkInv, Listed, LiveSnaps, Empty
  <2>4. (\A i \in LiveSnaps' : Listed(i)') /\ DropInv'
    BY SMTT(40), <1>1, <2>2, <2>3 DEF LiveSnaps, Listed, Indexed, DropInv
  <2> QED BY SMTT(40), <1>1, <1>2, <2>1, <2>4, FinishInv
<1>4. CASE ses[s].cmd # "rechunk"
  <2>1. IndexHeld
    <3>1. CASE Collects(s, Deleting)
      <4>1. ses[s].unused = {}
        BY SMTT(40), <1>1, <3>1 DEF CleanExposed, CleanSweeping, Cleaning, Collects, Deleting
      <4>2. RepackInv(s)
        BY SMTT(40) DEF RepoInv, SesInv, CleanInv
      <4> QED BY ZenonT(40), <3>1, <4>1, <4>2 DEF RepackInv, IndexHeld
    <3>2. CASE ~Collects(s, Deleting)
      BY SMTT(40), <1>2, <3>2, Calm
    <3> QED BY SMTT(40), <3>1, <3>2
  <2>2. (\A i \in LiveSnaps : Listed(i)) /\ DropInv
    BY ZenonT(40), <1>2, <1>4, Calm DEF RepoInv
  <2>3. (\A i \in LiveSnaps' : Listed(i)') /\ DropInv'
    BY <1>1, <2>2 DEF LiveSnaps, Listed, Indexed, DropInv
  <2> QED BY <1>1, <1>2, <2>1, <2>3, FinishInv
<1> QED BY SMTT(40), <1>3, <1>4

-----------------------------------------------------------------------------
(* The invariant holds in an empty repository and at every step.             *)

(* An empty repository, with no command at work.                             *)
LEMMA RepoInvInit == Init => RepoInv
<1> SUFFICES ASSUME Init PROVE RepoInv
  BY SMTT(40)
<1>1. \A s \in Session : ses[s].cmd = "none" /\ ~ses[s].stop /\ ses[s].pc = "idle"
  BY DEF Init, Idle
<1>2. LiveSnaps = {} /\ \A i \in SnapId : snaps[i].at = "none"
  BY DEF Init, LiveSnaps, NoSnap
<1>3. IndexHeld
  BY SMTT(40) DEF Init, IndexHeld, Empty
<1>4. LockInv /\ AloneInv /\ IndexInv /\ SnapInv /\ DropInv
  BY SMTT(40), <1>1, <1>2, <1>3 DEF LockInv, AloneInv, IndexInv, SnapInv, DropInv, Busy
<1>5. \A s \in Session : SesInv(s)
  BY ZenonT(40), <1>1 DEF SesInv, WriteInv, BackupInv, RewriteInv, RechunkInv, ForgetInv, Forgetting,
              RebuildInv, CleanInv, PlanInv, DroppedGone, RepackInv, CollectInv, Collects
<1> QED BY <1>4, <1>5 DEF RepoInv

(* Every step of every command, and every crash the code can afford.         *)
LEMMA RepoInvNext ==
    ASSUME Careful
    PROVE  TypeInv /\ RepoInv /\ NothingOverlooked /\ [Next]_vars => RepoInv'
<1> SUFFICES ASSUME TypeInv, RepoInv, NothingOverlooked, [Next]_vars PROVE RepoInv'
  OBVIOUS
<1>1. ASSUME NEW s \in Session, Begin(s) PROVE RepoInv'
  BY SMTT(40), <1>1, BackupKeeps, CopyKeeps, CleanKeeps, ForgetKeeps, RewriteKeeps, RebuildKeeps DEF Begin
<1>2. ASSUME NEW s \in Session, Step(s) PROVE RepoInv'
  BY SMTT(40), <1>2, BackupKeeps, CopyKeeps, CleanKeeps, ForgetKeeps, RewriteKeeps, RebuildKeeps DEF Step
<1>3. ASSUME NEW s \in Session, Interrupt(s) PROVE RepoInv'
  BY <1>3 DEF Interrupt, Careful
<1>4. ASSUME NEW s \in Session, Crash(s) PROVE RepoInv'
  BY SMTT(40), <1>4, CrashKeeps
<1>5. CASE UNCHANGED vars
  BY <1>5, NothingMoves
<1> QED BY <1>1, <1>2, <1>3, <1>4, <1>5 DEF Next

-----------------------------------------------------------------------------
(* What the invariant says of a repository in use.                           *)

(* In a settled repository every index entry can be followed and every live  *)
(* snapshot is listed.                                                       *)
LEMMA SettledFacts ==
    ASSUME TypeInv, RepoInv, Settled
    PROVE  IndexHeld /\ \A i \in LiveSnaps : Listed(i)
<1>1. \A s \in Session : ses[s].cmd \notin {"clean", "forget_clean", "rechunk"}
  <2>1. ASSUME NEW s \in Session, ses[s].cmd \in {"clean", "forget_clean", "rechunk"} PROVE FALSE
    <3>1. ses[s] # Idle /\ LockMode(ses[s].cmd) = "exclusive"
      BY <2>1 DEF Idle, LockMode
    <3> QED BY <3>1 DEF Settled
  <2> QED BY <2>1
<1> QED BY <1>1 DEF RepoInv, IndexInv, SnapInv, Collects

(* A listed snapshot of a repository whose index entries can be followed.    *)
LEMMA ListedRestorable ==
    ASSUME TypeInv, IndexHeld, NEW i \in SnapId, Listed(i)
    PROVE  Restorable(i)
<1>1. DiskType /\ snaps[i].blobs \subseteq Blob
  BY DEF TypeInv, DiskType
<1>2. ASSUME NEW b \in snaps[i].blobs PROVE DiskGet(b) # NoPack /\ b \in packs[DiskGet(b)]
  <2>1. b \in Blob /\ Indexed(b)
    BY <1>1 DEF Listed
  <2>2. DiskGet(b) # NoPack /\ \E j \in OnDisk : indexes[j][b] = DiskGet(b)
    BY <1>1, <2>1, DiskGetFacts
  <2> QED BY <2>1, <2>2 DEF IndexHeld, OnDisk
<1> QED BY SMTT(40), <1>2 DEF Restorable

(* The inductive invariant, for every behaviour in which no clean overlooks  *)
(* an obsolete pack.                                                         *)
LEMMA RepoInvariant ==
    ASSUME Careful
    PROVE  Spec /\ []NothingOverlooked => [](TypeInv /\ RepoInv)
BY TypeInit, TypeNext, RepoInvInit, RepoInvNext, PTL DEF Spec

(* Whatever commands run beside each other and wherever they crash outside   *)
(* the windows the code leaves open, each live snapshot of a settled         *)
(* repository can be restored from the index files (reload_master_index,     *)
(* MasterIndex::get, load_from_pack).                                        *)
THEOREM SnapshotsStayRestorable ==
    ASSUME Careful
    PROVE  Spec /\ []NothingOverlooked => []SnapshotsRestorable
<1>1. TypeInv /\ RepoInv => SnapshotsRestorable
  BY SMTT(40), SettledFacts, ListedRestorable DEF SnapshotsRestorable, LiveSnaps
<1> QED BY <1>1, RepoInvariant, PTL

(* Every entry of every index file of a settled repository can be followed   *)
(* to a pack that holds the blob (what verify checks first).                 *)
THEOREM IndicesStaySound ==
    ASSUME Careful
    PROVE  Spec /\ []NothingOverlooked => []IndexSound
<1>1. TypeInv /\ RepoInv => IndexSound
  BY SMTT(40), SettledFacts DEF IndexSound, IndexHeld, OnDisk
<1> QED BY <1>1, RepoInvariant, PTL

(* A blob that a backup left out, because the index it loaded when it began  *)
(* had it, is in that pack as long as the backup runs (encode_and_save_blob).*)
THEOREM DedupStaysSound ==
    ASSUME Careful
    PROVE  Spec /\ []NothingOverlooked => []DedupSound
<1>1. TypeInv /\ RepoInv => DedupSound
  <2> SUFFICES ASSUME TypeInv, RepoInv, NEW s \in Session, NEW b \in ses[s].want \ ses[s].todo,
                      ses[s].cmd = "backup"
               PROVE  b \in packs[Get(ses[s].mem, b)]
    BY SMTT(40) DEF DedupSound
  <2>1. /\ ses[s].mem \in MemType /\ b \in Blob /\ TrueIndex(ses[s].mem)
        /\ Get(ses[s].mem, b) # NoPack
    BY DEF TypeInv, SesType, SesRec, RepoInv, SesInv, WriteInv, BackupInv
  <2>2. <<b, Get(ses[s].mem, b)>> \in AllEntries(ses[s].mem)
    BY <2>1, GetFacts DEF TrueIndex
  <2> QED BY SMTT(40), <2>1, <2>2 DEF TrueIndex, Valid
<1> QED BY <1>1, RepoInvariant, PTL

(* While no deletion fails, a dropped snapshot of a settled repository can   *)
(* be recalled and then restored (the .dropped files of delete_trash_files). *)
THEOREM DroppedStayRecallable ==
    ASSUME Careful, "storage" \notin Faults
    PROVE  Spec /\ []NothingOverlooked => []DroppedRecallable
<1>1. TypeInv /\ RepoInv => DroppedRecallable
  BY SettledFacts, ListedRestorable DEF DroppedRecallable, RepoInv, DropInv
<1> QED BY <1>1, RepoInvariant, PTL

(* A clean that runs to its end has deleted every pack without a referenced  *)
(* blob (delete_unused_packs, repack, delete_obsolete_packs together).       *)
THEOREM CleanAlwaysCollects ==
    ASSUME Careful
    PROVE  Spec /\ []NothingOverlooked => CleanCollects
<1> DEFINE Collected == \A s \in Session : Cleaning(s, "obsolete") /\ ses'[s].pc = "end" =>
                          \A p \in PackId : packs[p] # {} => packs[p] \cap Referenced # {}
<1>1. TypeInv /\ RepoInv => Collected
  <2> SUFFICES ASSUME TypeInv, RepoInv, NEW s \in Session, Cleaning(s, "obsolete"),
                      NEW p \in PackId, packs[p] # {}
               PROVE  packs[p] \cap Referenced # {}
    BY SMTT(40)
  <2>1. RepackInv(s) /\ CollectInv(s) /\ Collects(s, {"obsolete"})
    BY Zenon DEF RepoInv, SesInv, CleanInv, Cleaning, Collects
  <2>2. Collects(s, Deleting \cup {"trash", "obsolete"})
        /\ Collects(s, {"repack", "flush", "sweep", "obsolete"})
    BY <2>1 DEF Collects, Deleting
  <2> QED BY ZenonT(40), <2>1, <2>2 DEF RepackInv, CollectInv
<1>2. Spec /\ []NothingOverlooked => [][Collected]_vars
  <2>1. TypeInv /\ RepoInv /\ [Next]_vars => [Collected]_vars
    BY <1>1
  <2> HIDE DEF Collected
  <2> QED BY <2>1, RepoInvariant, PTL DEF Spec
<1> QED BY SMTT(40), <1>2 DEF CleanCollects
=============================================================================

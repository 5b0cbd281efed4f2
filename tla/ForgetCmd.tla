----------------------------- MODULE ForgetCmd ------------------------------
(***************************************************************************)
(* forget, forget --clean (commands/cmd_forget.rs) and recall              *)
(* (commands/cmd_recall.rs).                                               *)
(***************************************************************************)
EXTENDS RepoBase

Forgetting(s) == ses[s].cmd \in {"forget", "forget_clean"} /\ ses[s].pc = "forget"

(* The retention rules choose the snapshots to remove: left.                 *)
ForgetStart(s) ==
    \E c \in {"forget", "forget_clean"}, gone \in SUBSET LiveSnaps :
      /\ Start(s, c, [Idle EXCEPT !.cmd = c, !.pc = "forget", !.left = gone])
      /\ UNCHANGED <<packs, indexes, snaps>>

(* A snapshot is renamed to .dropped, or deleted with --force.  An interrupt *)
(* is not looked at between two snapshots.                                   *)
ForgetOne(s) ==
    /\ Forgetting(s)
    /\ \E i \in ses[s].left :
         /\ ses' = [ses EXCEPT ![s].left = @ \ {i}]
         /\ \/ snaps' = [snaps EXCEPT ![i].at = "dropped"]
            \/ snaps' = [snaps EXCEPT ![i] = NoSnap]
    /\ UNCHANGED <<packs, indexes, lock>>

(* The phase ends and its CleanupHandler is dropped, which releases the      *)
(* lock.  forget --clean goes on to collect garbage unless interrupted.      *)
ForgetDone(s) ==
    /\ Forgetting(s)
    /\ ses[s].left = {}
    /\ IF ses[s].cmd = "forget_clean" /\ ~ses[s].stop
       THEN /\ ses' = [ses EXCEPT ![s].pc = "load"]
            /\ lock' = [lock EXCEPT ![s] = "none"]
       ELSE Finish(s)
    /\ UNCHANGED <<packs, indexes, snaps>>

RecallStart(s) ==
    /\ \E i \in {j \in SnapId : snaps[j].at = "dropped"} :
         Start(s, "recall", [Idle EXCEPT !.cmd = "recall", !.pc = "recall", !.left = {i}])
    /\ UNCHANGED <<packs, indexes, snaps>>

(* recall_dropped_snapshot renames the file back; it fails if it is gone.    *)
Recall(s) ==
    /\ Running(s, "recall", "recall")
    /\ snaps' = [i \in SnapId |-> IF i \in ses[s].left /\ snaps[i].at = "dropped"
                                  THEN [snaps[i] EXCEPT !.at = "live"] ELSE snaps[i]]
    /\ Finish(s)
    /\ UNCHANGED <<packs, indexes>>

ForgetStep(s) == ForgetOne(s) \/ ForgetDone(s) \/ Recall(s)
=============================================================================

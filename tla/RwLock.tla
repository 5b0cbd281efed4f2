------------------------------- MODULE RwLock -------------------------------
(***************************************************************************)
(* What the repository's locks promise to the commands that use them       *)
(* (repository/lock.rs, the documentation of the struct Lock): an          *)
(* exclusive lock is held alone, and non-exclusive locks are held together *)
(* with other non-exclusive locks only.                                    *)
(***************************************************************************)
CONSTANTS Session,     \* the commands that may hold a lock
          Exclusive    \* those of them whose command asks for an exclusive lock

VARIABLE holders       \* the sessions that are working under a lock

(* Two sessions whose locks may not be held at the same time.                *)
Conflict(s, t) == s # t /\ (s \in Exclusive \/ t \in Exclusive)

Init == holders = {}

(* A lock is granted only when it conflicts with no lock that is held.       *)
Grant(s) == /\ s \notin holders
            /\ \A t \in holders : ~Conflict(s, t)
            /\ holders' = holders \cup {s}

Release(s) == /\ s \in holders
              /\ holders' = holders \ {s}

Next == \E s \in Session : Grant(s) \/ Release(s)

Spec == Init /\ [][Next]_holders
=============================================================================

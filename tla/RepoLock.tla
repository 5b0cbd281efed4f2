------------------------------ MODULE RepoLock ------------------------------
(***************************************************************************)
(* The repository lock (repository/lock.rs): lock files in the backend's   *)
(* locks directory, the write-then-list acquisition, expiry, the refresh   *)
(* task, the removal of stale locks, and the release of a LockHandle by    *)
(* unlock, by a signal (commands/cleanup.rs) or by the drop of any clone.  *)
(*                                                                         *)
(* A session is one attempt of one command to lock the repository.  A lock *)
(* has a fresh random ID, so a session stands for its ID as well: it is    *)
(* used again only when nobody remembers it.  Time is kept as the AGE of   *)
(* each timestamp (now - timestamp), which stops growing once it is past   *)
(* the expiry timeout.                                                     *)
(***************************************************************************)
EXTENDS Integers

CONSTANTS
    Session,      \* attempts to lock the repository
    Exclusive,    \* attempts of commands that ask for an exclusive lock
    Unlocker,     \* runs of the unlock command: no lock of their own
    Collector,    \* runs of the GC's removal of old locks: none of their own
    EarlyDrop,    \* commands that drop a clone of their handle while they work
    HostOf,       \* the host each session runs on
    Expire,       \* LOCK_EXPIRE_TIMEOUT, in ticks
    HolderMax,    \* the oldest a live session's lock file gets between refreshes
    AcquireMax,   \* the longest an attempt takes from its write to its verdict
    Faults        \* the environment's faults that an instance explores

FaultKinds == {"storage", \* a delete, a listing or a refresh fails
               "read",    \* a lock file that exists cannot be read
               "stall",   \* a process stands still for any length of time
               "signal"}  \* SIGINT or SIGTERM

ASSUME SessionAssumption ==
    /\ Exclusive \subseteq Session
    /\ Unlocker \subseteq Session
    /\ Collector \subseteq Session
    /\ EarlyDrop \subseteq Session
    /\ Exclusive \cap (Unlocker \cup Collector) = {}

ASSUME FaultAssumption == Faults \subseteq FaultKinds

(* Between two refreshes a lock file may grow HolderMax old, and whoever     *)
(* reads it may take AcquireMax to act on what it read.                      *)
ASSUME TimingAssumption ==
    /\ Expire \in Nat /\ HolderMax \in Nat /\ AcquireMax \in Nat
    /\ HolderMax + AcquireMax <= Expire

VARIABLES
    phase,        \* where each session's attempt or command stands
    lockfile,     \* the age of the timestamp in each session's lock file
    elapsed,      \* the time since an attempt under way began
    todo,         \* get_locks: the lock files listed and not read yet
    known,        \* get_locks: the age of each timestamp read, not judged yet
    alive,        \* LockHandle.alive_flag
    refresh,      \* the age of a refreshed timestamp that is being written
    releasing     \* unlock_mutex is held and the lock file is being deleted

vars == <<phase, lockfile, elapsed, todo, known, alive, refresh, releasing>>

None == -1

Age == 0 .. Expire + 1

(* Lock.timestamp, seen from a clock that has moved on by one tick.          *)
Older(a) == IF a = None \/ a > Expire THEN a ELSE a + 1

Sweeper == Unlocker \cup Collector

Acquiring == {"list", "read"}

Phases == {"idle", "work", "unlock", "done"} \cup Acquiring

(* Lock::is_expired, on the copy of l's lock that s has read.                *)
IsExpired(s, l) == known[s][l] > Expire

(* Mutant: a process of another host, which cannot be found, counts as dead. *)
ProcessAliveHere(s, l) == HostOf[s] = HostOf[l] /\ phase[l] # "idle"

(* Lock::process_alive: another host's process counts as alive.              *)
ProcessAlive(s, l) == HostOf[s] # HostOf[l] \/ phase[l] # "idle"

(* Mutant: a lock counts as stale once it misses one refresh.                *)
IsStaleTooSoon(s, l) == known[s][l] > AcquireMax

(* Mutant: only a dead process makes a lock stale, whatever its age.         *)
IsStaleIfDead(s, l) == ~ProcessAlive(s, l)

(* Lock::is_stale; the unlock command asks is_expired only.                  *)
IsStale(s, l) == IsExpired(s, l) \/ (s \notin Unlocker /\ ~ProcessAlive(s, l))

(* Whether a delete_file of l's lock, which nobody retries, succeeds: one    *)
(* of a file that has gone already does not.                                 *)
Deletes(l) ==
    {ok \in BOOLEAN : IF ok THEN lockfile[l] # None
                            ELSE lockfile[l] = None \/ "storage" \in Faults}

Without(l, ok) == IF ok THEN [lockfile EXCEPT ![l] = None] ELSE lockfile

NothingRead == [l \in Session |-> None]

Init ==
    /\ phase = [s \in Session |-> "idle"]
    /\ lockfile = [s \in Session |-> None]
    /\ elapsed = [s \in Session |-> 0]
    /\ todo = [s \in Session |-> {}]
    /\ known = [s \in Session |-> NothingRead]
    /\ alive = [s \in Session |-> FALSE]
    /\ refresh = [s \in Session |-> None]
    /\ releasing = [s \in Session |-> FALSE]

(* s's attempt or command moves on to phase p; an attempt that is over keeps *)
(* nothing of what it listed and read.                                       *)
Goto(s, p) ==
    /\ phase' = [phase EXCEPT ![s] = p]
    /\ elapsed' = IF p \in Acquiring THEN elapsed ELSE [elapsed EXCEPT ![s] = 0]
    /\ known' = IF p \in Acquiring THEN known ELSE [known EXCEPT ![s] = NothingRead]

(* try_acquire_lock_once writes its own lock before it looks at the others.  *)
(* The fresh ID of the lock is known to nobody.                              *)
Begin(s) ==
    /\ phase[s] = "idle"
    /\ lockfile[s] = None
    /\ \A o \in Session : s \notin todo[o] /\ known[o][s] = None
    /\ Goto(s, "list")
    /\ lockfile' = IF s \in Sweeper THEN lockfile ELSE [lockfile EXCEPT ![s] = 0]
    /\ UNCHANGED <<todo, alive, refresh, releasing>>

(* get_locks: the listing.                                                   *)
List(s) ==
    /\ phase[s] = "list"
    /\ Goto(s, "read")
    /\ todo' = [todo EXCEPT ![s] = {l \in Session \ {s} : lockfile[l] # None}]
    /\ UNCHANGED <<lockfile, alive, refresh, releasing>>

(* The listing fails: the attempt takes its own lock back and gives up.      *)
ListFails(s) ==
    /\ phase[s] = "list"
    /\ "storage" \in Faults
    /\ Goto(s, "done")
    /\ \E ok \in Deletes(s) : lockfile' = Without(s, ok)
    /\ UNCHANGED <<todo, alive, refresh, releasing>>

(* get_locks reads the listed files one by one; one that has gone since, or  *)
(* that cannot be read, is ignored.                                          *)
Read(s, l) ==
    /\ l \in todo[s]
    /\ todo' = [todo EXCEPT ![s] = @ \ {l}]
    /\ \/ known' = [known EXCEPT ![s][l] = lockfile[l]]
       \/ "read" \in Faults /\ UNCHANGED known
    /\ UNCHANGED <<phase, lockfile, elapsed, alive, refresh, releasing>>

(* The loop over the locks that were read, in the order of the listing,      *)
(* which is any order.                                                       *)
Judging(s, l) == phase[s] = "read" /\ todo[s] = {} /\ known[s][l] # None

(* A stale lock is removed.  The attempt ignores a removal that fails; the   *)
(* unlock command and the GC give up.                                        *)
JudgeStale(s, l) ==
    /\ Judging(s, l)
    /\ IsStale(s, l)
    /\ \E ok \in Deletes(l) :
         /\ lockfile' = Without(l, ok)
         /\ IF ok \/ s \notin Sweeper
            THEN /\ known' = [known EXCEPT ![s][l] = None]
                 /\ UNCHANGED <<phase, elapsed>>
            ELSE Goto(s, "done")
    /\ UNCHANGED <<todo, alive, refresh, releasing>>

(* A live lock that conflicts: the attempt takes its own lock back.          *)
JudgeConflict(s, l) ==
    /\ Judging(s, l)
    /\ ~IsStale(s, l)
    /\ s \notin Sweeper /\ (s \in Exclusive \/ l \in Exclusive)
    /\ Goto(s, "done")
    /\ \E ok \in Deletes(s) : lockfile' = Without(s, ok)
    /\ UNCHANGED <<todo, alive, refresh, releasing>>

(* Mutant: only the mode of the new lock is looked at.                       *)
JudgeOwnModeOnly(s, l) ==
    /\ Judging(s, l)
    /\ ~IsStale(s, l)
    /\ s \notin Exclusive
    /\ known' = [known EXCEPT ![s][l] = None]
    /\ UNCHANGED <<phase, lockfile, elapsed, todo, alive, refresh, releasing>>

JudgeCompatible(s, l) ==
    /\ Judging(s, l)
    /\ ~IsStale(s, l)
    /\ s \in Sweeper \/ (s \notin Exclusive /\ l \notin Exclusive)
    /\ known' = [known EXCEPT ![s][l] = None]
    /\ UNCHANGED <<phase, lockfile, elapsed, todo, alive, refresh, releasing>>

(* Every other lock was stale or compatible: the command has its lock and    *)
(* LockHandle::new starts the refresh task.                                  *)
Acquire(s) ==
    /\ phase[s] = "read" /\ todo[s] = {} /\ known[s] = NothingRead
    /\ Goto(s, IF s \in Sweeper THEN "done" ELSE "work")
    /\ alive' = [alive EXCEPT ![s] = s \notin Sweeper]
    /\ UNCHANGED <<lockfile, todo, refresh, releasing>>

(* The refresh task: it looks at alive_flag, takes a new timestamp, and only *)
(* then writes the file.                                                     *)
RefreshStart(s) ==
    /\ alive[s] /\ refresh[s] = None
    /\ refresh' = [refresh EXCEPT ![s] = 0]
    /\ UNCHANGED <<phase, lockfile, elapsed, todo, known, alive, releasing>>

RefreshWrite(s) ==
    /\ refresh[s] # None
    /\ refresh' = [refresh EXCEPT ![s] = None]
    /\ \/ lockfile' = [lockfile EXCEPT ![s] = refresh[s]]
       \/ "storage" \in Faults /\ UNCHANGED lockfile
    /\ UNCHANGED <<phase, elapsed, todo, known, alive, releasing>>

(* trigger_unlock while the command still works: the signal handler calls it *)
(* at once, and so does the drop of any clone of the handle.                 *)
TriggerUnlock(s) ==
    /\ phase[s] = "work" /\ alive[s]
    /\ "signal" \in Faults \/ s \in EarlyDrop
    /\ alive' = [alive EXCEPT ![s] = FALSE]
    /\ releasing' = [releasing EXCEPT ![s] = TRUE]
    /\ UNCHANGED <<phase, lockfile, elapsed, todo, known, refresh>>

(* Mutant: unlock looks at alive_flag and does not clear it.                 *)
UnlockAlive(s) ==
    /\ phase[s] = "work" /\ ~releasing[s]
    /\ Goto(s, "unlock")
    /\ releasing' = [releasing EXCEPT ![s] = alive[s]]
    /\ UNCHANGED <<lockfile, todo, alive, refresh>>

(* with_repository_lock: the command is over and calls unlock.               *)
Unlock(s) ==
    /\ phase[s] = "work" /\ ~releasing[s]
    /\ Goto(s, "unlock")
    /\ alive' = [alive EXCEPT ![s] = FALSE]
    /\ releasing' = [releasing EXCEPT ![s] = alive[s]]
    /\ UNCHANGED <<lockfile, todo, refresh>>

(* perform_delete; a failure is only logged.                                 *)
DeleteLock(s) ==
    /\ releasing[s]
    /\ releasing' = [releasing EXCEPT ![s] = FALSE]
    /\ \E ok \in Deletes(s) : lockfile' = Without(s, ok)
    /\ UNCHANGED <<phase, elapsed, todo, known, alive, refresh>>

Unlocked(s) ==
    /\ phase[s] = "unlock" /\ ~releasing[s]
    /\ Goto(s, "done")
    /\ UNCHANGED <<lockfile, todo, alive, refresh, releasing>>

(* The process ends, and its refresh task with it: a retry of the same       *)
(* process is another session, and leaves this one in phase "done".          *)
Exit(s) ==
    /\ phase[s] = "done"
    /\ Goto(s, "idle")
    /\ refresh' = [refresh EXCEPT ![s] = None]
    /\ UNCHANGED <<lockfile, todo, alive, releasing>>

(* The process dies at any point; its lock file stays.                       *)
Crash(s) ==
    /\ phase[s] # "idle"
    /\ Goto(s, "idle")
    /\ todo' = [todo EXCEPT ![s] = {}]
    /\ alive' = [alive EXCEPT ![s] = FALSE]
    /\ refresh' = [refresh EXCEPT ![s] = None]
    /\ releasing' = [releasing EXCEPT ![s] = FALSE]
    /\ UNCHANGED lockfile

(* An attempt under way, and a command that has not begun to release its     *)
(* lock, count on their lock file.                                           *)
CountsOn(s) == s \notin Sweeper /\ (phase[s] \in Acquiring \/ alive[s])

(* No attempt takes longer than AcquireMax, and the lock file of a session   *)
(* that counts on it is rewritten before it is older than HolderMax.         *)
Timely ==
    \A s \in Session :
      /\ phase[s] \in Acquiring => elapsed[s] < AcquireMax
      /\ CountsOn(s) => lockfile[s] < HolderMax

Tick ==
    /\ Timely \/ "stall" \in Faults
    /\ lockfile' = [s \in Session |-> Older(lockfile[s])]
    /\ elapsed' = [s \in Session |->
                     IF phase[s] \in Acquiring THEN Older(elapsed[s]) ELSE elapsed[s]]
    /\ known' = [s \in Session |-> [l \in Session |-> Older(known[s][l])]]
    /\ refresh' = [s \in Session |-> Older(refresh[s])]
    /\ UNCHANGED <<phase, todo, alive, releasing>>

(* The steps of s itself, when nothing goes wrong.                           *)
Step(s) ==
    \/ List(s) \/ Acquire(s) \/ Unlock(s) \/ DeleteLock(s) \/ Unlocked(s) \/ Exit(s)
    \/ RefreshStart(s) \/ RefreshWrite(s)
    \/ \E l \in Session :
         Read(s, l) \/ JudgeStale(s, l) \/ JudgeConflict(s, l) \/ JudgeCompatible(s, l)

Next ==
    \/ \E s \in Session :
         \/ Begin(s) \/ Step(s) \/ ListFails(s)
         \/ TriggerUnlock(s) \/ Crash(s)
    \/ Tick

Spec == Init /\ [][Next]_vars

(* Processes keep running and time passes; crashes and faults need not       *)
(* happen.  That commands keep being started (or retried, --retry-lock) is   *)
(* an assumption about the users.  A listing, a read or a deletion that the  *)
(* unlock command tries again and again does not fail for ever.              *)
Fairness ==
    /\ WF_vars(Tick)
    /\ \A s \in Session : WF_vars(Step(s)) /\ WF_vars(Begin(s))
    /\ \A s \in Unlocker :
         /\ SF_vars(List(s))
         /\ \A l \in Session \ Sweeper :
              /\ SF_vars(Read(s, l) /\ known'[s][l] = lockfile[l])
              /\ SF_vars(JudgeStale(s, l) /\ lockfile'[l] = None)

FairSpec == Spec /\ Fairness

(* What a session has goes with its phase: it has a live handle (alive_flag) *)
(* only while its command works, nobody deletes the lock of a live handle,   *)
(* and nothing that was listed or read outlasts the attempt.                 *)
HandleOK(s) ==
    /\ alive[s] => phase[s] = "work" /\ ~releasing[s] /\ s \notin Sweeper
    /\ releasing[s] => phase[s] \in {"work", "unlock"}
    /\ refresh[s] # None => phase[s] \in {"work", "unlock", "done"}
    /\ todo[s] # {} \/ known[s] # NothingRead => phase[s] = "read"

(* The variables have their types, and LockHandle's flags, the lock's        *)
(* refresh and the locks read by get_locks fit the phase of the session.     *)
TypeOK ==
    /\ phase \in [Session -> Phases]
    /\ lockfile \in [Session -> Age \cup {None}]
    /\ elapsed \in [Session -> Age]
    /\ todo \in [Session -> SUBSET Session]
    /\ known \in [Session -> [Session -> Age \cup {None}]]
    /\ alive \in [Session -> BOOLEAN]
    /\ refresh \in [Session -> Age \cup {None}]
    /\ releasing \in [Session -> BOOLEAN]
    /\ \A s \in Session : HandleOK(s)

(* Lock's documentation: while a command works under an exclusive lock, no   *)
(* other command works under any lock (try_acquire_lock_once).               *)
MutualExclusion ==
    \A s, t \in Session :
      s # t /\ phase[s] = "work" /\ phase[t] = "work"
        => s \notin Exclusive /\ t \notin Exclusive

(* Nobody removes the lock file of a command that still counts on it: what   *)
(* is_stale concludes from a copy read earlier is never wrong about a        *)
(* session that is alive and refreshes its lock.                             *)
LiveLockKept == \A s \in Session : alive[s] => lockfile[s] # None

(* The processes stop dying at some time.  Leaving phase "done" is no crash: *)
(* Exit does what Crash would do there.                                      *)
FewCrashes == <>[][\A s \in Session : phase[s] # "done" => ~Crash(s)]_vars

(* A lock file left behind by a process that ended without deleting it does  *)
(* not stay for ever, as long as somebody keeps running the unlock command   *)
(* and processes stop crashing: it expires and is removed.                   *)
AbandonedLockRemoved ==
    FewCrashes =>
      \A s \in Session \ Sweeper :
        (phase[s] = "idle" /\ lockfile[s] # None) ~> (lockfile[s] = None)

Abstract == INSTANCE RwLock WITH holders <- {s \in Session : phase[s] = "work"}

(* The lock files implement the reader-writer lock that the commands rely on. *)
ImplementsRwLock == Abstract!Spec
=============================================================================

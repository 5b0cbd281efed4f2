------------------------------ MODULE Limiter -------------------------------
(***************************************************************************)
(* RateLimiter and ThrottledBackend (backend/limiter.rs).  Time and        *)
(* amounts are in the same unit: an amount is the time it takes at the     *)
(* limit.  A transfer pays for its chunks one after another; a payment     *)
(* reads the clock once and then tries to advance nextFree until no other  *)
(* payment got in between.                                                 *)
(***************************************************************************)
EXTENDS Integers, Sequences, FiniteSets, FiniteSetsExt

CONSTANTS
    Payers,         \* transfers that share a limiter
    Loads,          \* what they transfer: functions of Payers to
                    \*   [size, dry]
    Burst,          \* burst_ns: how far the limiter may lag behind the clock
    MaxDebt,        \* max_debt_ns: how far it may run ahead
    MinSleep,       \* MIN_SLEEP: a shorter wait is none
    ChunkSize,      \* DISCRETE_CHUNK_SIZE, THROTTLE_CHUNK
    MaxClock        \* bound of the model

ASSUME LimiterAssumption ==
    /\ Burst \in Nat /\ MaxDebt \in Nat /\ MinSleep \in Nat
    /\ ChunkSize \in Nat \ {0} /\ MaxClock \in Nat
    /\ Loads \subseteq [Payers -> [size : Nat, dry : BOOLEAN]]

VARIABLES
    clock,          \* nanoseconds since base_instant
    nextFree,       \* next_free_ns
    payer,          \* where each transfer stands
    grants          \* what was granted: [of, left, start, amount, capped]

limiterVars == <<clock, nextFree, payer, grants>>

MaxOf(a, b) == IF a >= b THEN a ELSE b
MinOf(a, b) == IF a <= b THEN a ELSE b

(* chunks(): the next amount to pay for.                                     *)
NextPart(c) == MinOf(ChunkSize, payer[c].left)

(* ThrottledBackend::read, write: a dry run pays nothing.                    *)
Enter(c) ==
    /\ payer[c].pc = "begin"
    /\ payer' = [payer EXCEPT ![c].pc = IF payer[c].dry \/ payer[c].left = 0 THEN "done"
                                        ELSE "clock"]
    /\ UNCHANGED <<clock, nextFree, grants>>

(* consume.                                                                  *)
ReadClock(c) ==
    /\ payer[c].pc = "clock"
    /\ payer' = [payer EXCEPT ![c].pc = "load", ![c].now = clock]
    /\ UNCHANGED <<clock, nextFree, grants>>

LoadFree(c) ==
    /\ payer[c].pc = "load"
    /\ payer' = [payer EXCEPT ![c].pc = "swap", ![c].free = nextFree]
    /\ UNCHANGED <<clock, nextFree, grants>>

Uncapped(now, free) == MaxOf(free, now - Burst)
StartTime(now, free) == MinOf(Uncapped(now, free), now + MaxDebt)

WaitTime(now, start) ==
    IF start <= now \/ start - now < MinSleep THEN 0 ELSE start - now

(* Mutant of Swap: stores without comparing.                                 *)
SwapBlind(c) ==
    /\ payer[c].pc = "swap"
    /\ LET start == StartTime(payer[c].now, payer[c].free)
       IN  /\ nextFree' = start + NextPart(c)
           /\ grants' = grants \union
                {[of |-> c, left |-> payer[c].left, start |-> start, amount |-> NextPart(c),
                  capped |-> start < Uncapped(payer[c].now, payer[c].free)]}
           /\ payer' = [payer EXCEPT ![c].pc = "sleep",
                                     ![c].due = clock + WaitTime(payer[c].now, start)]
    /\ UNCHANGED clock

Swap(c) ==
    /\ payer[c].pc = "swap"
    /\ nextFree = payer[c].free
    /\ LET start == StartTime(payer[c].now, payer[c].free)
       IN  /\ nextFree' = start + NextPart(c)
           /\ grants' = grants \union
                {[of |-> c, left |-> payer[c].left, start |-> start, amount |-> NextPart(c),
                  capped |-> start < Uncapped(payer[c].now, payer[c].free)]}
           /\ payer' = [payer EXCEPT ![c].pc = "sleep",
                                     ![c].due = clock + WaitTime(payer[c].now, start)]
    /\ UNCHANGED clock

(* compare_exchange_weak fails, also for no reason.                          *)
SwapFails(c) ==
    /\ payer[c].pc = "swap"
    /\ payer' = [payer EXCEPT ![c].pc = "load"]
    /\ UNCHANGED <<clock, nextFree, grants>>

(* The wait is over; the transfer goes on with its next chunk.               *)
Slept(c) ==
    /\ payer[c].pc = "sleep" /\ payer[c].due <= clock
    /\ LET left == payer[c].left - NextPart(c)
       IN  payer' = [payer EXCEPT ![c].left = left,
                                  ![c].pc = IF left = 0 THEN "done" ELSE "clock"]
    /\ UNCHANGED <<clock, nextFree, grants>>

ClockTick ==
    /\ clock < MaxClock
    /\ clock' = clock + 1
    /\ UNCHANGED <<nextFree, payer, grants>>

LimiterIdle ==
    /\ clock = MaxClock
    /\ \A c \in Payers : payer[c].pc \in {"done", "sleep"}
    /\ UNCHANGED limiterVars

LimiterStart(load) ==
    /\ clock = Burst /\ nextFree = Burst /\ grants = {}
    /\ payer = [c \in Payers |-> [pc |-> "begin", left |-> load[c].size, dry |-> load[c].dry,
                                  now |-> 0, free |-> 0, due |-> 0]]
LimiterInit == \E load \in Loads : LimiterStart(load)

LimiterNext ==
    \/ \E c \in Payers : \/ Enter(c) \/ ReadClock(c) \/ LoadFree(c) \/ Swap(c)
                         \/ SwapFails(c) \/ Slept(c)
    \/ ClockTick \/ LimiterIdle

LimiterSpec == LimiterInit /\ [][LimiterNext]_limiterVars

----------------------------------------------------------------------------
(* Properties.                                                               *)

NoneCapped == \A g \in grants : ~g.capped

(* consume: payments that race each other never get overlapping stretches of *)
(* the limiter's time, unless the limiter was more than MaxDebt behind.      *)
GrantsDisjoint ==
    NoneCapped =>
      \A g, h \in grants :
        g # h => \/ g.start + g.amount <= h.start
                 \/ h.start + h.amount <= g.start

(* What has been paid for and waited for.                                    *)
Passed ==
    {g \in grants : \/ payer[g.of].left < g.left
                    \/ payer[g.of].pc = "sleep" /\ payer[g.of].due <= clock}

(* RateLimiter: since its creation the transfers went on with no more than   *)
(* the limit allows for the time gone by, apart from the last chunk and the  *)
(* shortest sleep.                                                           *)
RateBound ==
    NoneCapped /\ Passed # {} =>
      \E last \in Passed :
        MapThenSumSet(LAMBDA g : g.amount, Passed \ {last})
          <= clock - Burst + MinSleep

(* RateLimiter::consume: however payments race for the limiter's clock, they *)
(* get stretches of it that do not overlap, and all together no more than    *)
(* the limit.                                                                *)
RateKept == GrantsDisjoint /\ RateBound
=============================================================================

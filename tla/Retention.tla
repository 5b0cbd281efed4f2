----------------------------- MODULE Retention ------------------------------
(***************************************************************************)
(* Which snapshots mapache forget removes: the retention rules             *)
(* (repository/retention.rs) and the selection of forget_phase             *)
(* (commands/cmd_forget.rs).  A time is an instant, in fractions of a      *)
(* second; the clock on the wall may be put forward or back by an hour     *)
(* once (job.clock).  The calendar is small: hours of a few seconds,       *)
(* months of equal length, years of whole months, weeks that do not end    *)
(* with the year.  A week belongs to the year of its middle day (ISO 8601).*)
(***************************************************************************)
EXTENDS Integers, Sequences, FiniteSets, SequencesExt, FiniteSetsExt, Functions

CONSTANTS
    ForgetJobs,     \* [snaps, rules, ids, hosts, tags, min, now, clock]; snaps is
                    \*   sorted, a snapshot is [time, host, tags], rules is a set of
                    \*   [kind, n], clock is [at, by], by: hours
    SecondParts, HourSeconds, DayHours, WeekDays, MonthDays, YearMonths,
    UsizeMax        \* 2^w - 1: a small word

VARIABLE rt         \* [job, pc, removed]

HourTicks == SecondParts * HourSeconds
DayTicks == HourTicks * DayHours
YearDays == MonthDays * YearMonths

(* DateTime<Local>: what the clock shows, in ticks since year 0.             *)
ClockOffset(t) == IF t < rt.job.clock.at THEN 0 ELSE rt.job.clock.by * HourTicks
LocalTime(t) == t + ClockOffset(t)

(* from_local_datetime: no instant, one, or two.                             *)
Instants(l) == {t \in {l, l - rt.job.clock.by * HourTicks} : LocalTime(t) = l}
EarliestInstant(l) == Min(IF Instants(l) # {} THEN Instants(l) ELSE Instants(l + HourTicks))

HourOf(l) == l \div HourTicks
DayOf(l) == l \div DayTicks
MonthOf(l) == DayOf(l) \div MonthDays           \* months since year 0
YearOf(l) == DayOf(l) \div YearDays
WeekOf(l) == DayOf(l) \div WeekDays             \* weeks since a Monday in year 0

(* iso_week().week(): the number of the week in the year of its middle day.  *)
IsoYear(w) == (w * WeekDays + WeekDays \div 2) \div YearDays
IsoWeek(l) ==
    LET w == WeekOf(l)
    IN  Cardinality({v \in 0 .. w : IsoYear(v) = IsoYear(w)})

(* now with minute and second 0, and its fraction of a second; itself if the *)
(* clock shows that hour twice.                                              *)
NowTruncated(now) ==
    LET l == (HourOf(LocalTime(now)) * HourTicks) + (LocalTime(now) % SecondParts)
    IN  IF Cardinality(Instants(l)) = 1 THEN CHOOSE t \in Instants(l) : TRUE ELSE now

(* A cast of usize to a signed integer.                                      *)
AsSigned(n) == IF n > UsizeMax \div 2 THEN n - (UsizeMax + 1) ELSE n

(* parse_retention_number: "all" is the largest number.                      *)
ParseRetentionNumber(s) == IF s = "all" THEN UsizeMax ELSE s

-----------------------------------------------------------------------------
(* Mutant of Cutoff: one period too many.                                    *)
CutoffLate(rule, now) ==
    LET back == AsSigned(rule.n)
        today == LocalTime(now)
    IN  CASE rule.kind = "yearly" -> EarliestInstant((YearOf(today) - back) * YearDays * DayTicks)
          [] rule.kind = "monthly" ->
               IF MonthOf(today) < rule.n - 1 THEN now
               ELSE EarliestInstant((MonthOf(today) - (rule.n - 1)) * MonthDays * DayTicks)
          [] rule.kind = "weekly" -> EarliestInstant((WeekOf(today) - back) * WeekDays * DayTicks)
          [] rule.kind = "daily" -> EarliestInstant(DayOf(today) * DayTicks) - back * DayTicks
          [] rule.kind = "hourly" -> NowTruncated(now) - back * HourTicks

(* The start of the oldest period of a rule.  Years, months and weeks are    *)
(* counted back on the calendar, days and hours by the time that has passed. *)
(* Months are counted one by one; before the first date there is none, and   *)
(* now is taken.                                                             *)
Cutoff(rule, now) ==
    LET back == AsSigned(rule.n - 1)
        today == LocalTime(now)
    IN  CASE rule.kind = "yearly" -> EarliestInstant((YearOf(today) - back) * YearDays * DayTicks)
          [] rule.kind = "monthly" ->
               IF MonthOf(today) < rule.n - 1 THEN now
               ELSE EarliestInstant((MonthOf(today) - (rule.n - 1)) * MonthDays * DayTicks)
          [] rule.kind = "weekly" -> EarliestInstant((WeekOf(today) - back) * WeekDays * DayTicks)
          [] rule.kind = "daily" -> EarliestInstant(DayOf(today) * DayTicks) - back * DayTicks
          [] rule.kind = "hourly" -> NowTruncated(now) - back * HourTicks

(* The key of a snapshot's period.                                           *)
PeriodKey(kind, t) ==
    LET l == LocalTime(t)
    IN  CASE kind = "yearly" -> <<YearOf(l), 0>>
          [] kind = "monthly" -> <<YearOf(l), MonthOf(l)>>
          [] kind = "weekly" -> <<YearOf(l), IsoWeek(l)>>
          [] kind = "daily" -> <<DayOf(l), 0>>
          [] kind = "hourly" -> <<DayOf(l), HourOf(l) % DayHours>>

KeepLatestPerPeriod(snaps, kind, cutoff) ==
    LET fits == {k \in DOMAIN snaps : snaps[k].time >= cutoff}
    IN  {k \in fits : \A j \in fits :
           PeriodKey(kind, snaps[j].time) = PeriodKey(kind, snaps[k].time) => j <= k}

HasTags(snap, tags) == snap.tags \intersect tags # {} \/ ("untagged" \in tags /\ snap.tags = {})

KeptBy(rule, snaps, now) ==
    CASE rule.kind = "last" -> {k \in DOMAIN snaps : k > Len(snaps) - rule.n}
      [] rule.kind = "within" -> {k \in DOMAIN snaps : snaps[k].time >= now - rule.n}
      [] rule.kind = "tags" -> {k \in DOMAIN snaps : HasTags(snaps[k], rule.tags)}
      [] OTHER -> KeepLatestPerPeriod(snaps, rule.kind, Cutoff(rule, now))

(* The newest are added until enough are kept.                               *)
KeepMin(snaps, kept, min) ==
    LET target == IF min < Len(snaps) THEN min ELSE Len(snaps)
        From(n) == kept \union {k \in DOMAIN snaps : k > Len(snaps) - n}
    IN  From(CHOOSE n \in 0 .. Len(snaps) :
               /\ Cardinality(From(n)) >= target
               /\ \A m \in 0 .. (n - 1) : Cardinality(From(m)) < target)

ApplyRetentionRules(snaps, rules, min, now) ==
    LET kept == UNION {KeptBy(rule, snaps, now) : rule \in rules}
    IN  IF min = <<>> THEN kept ELSE KeepMin(snaps, kept, min[1])

-----------------------------------------------------------------------------
(* forget_phase: the snapshots that are considered.                          *)
Considered(job) ==
    SelectSeq(job.snaps, LAMBDA s : /\ job.tags # {} => HasTags(s, job.tags)
                                    /\ job.hosts # {} => s.host \in job.hosts)

(* Snapshots named on the command line are removed; otherwise what no rule   *)
(* keeps.  Without a rule nothing is.                                        *)
SelectRemoved ==
    /\ rt.pc = "start"
    /\ LET snaps == Considered(rt.job)
           kept == IF rt.job.ids # {} THEN {k \in DOMAIN snaps : snaps[k].id \notin rt.job.ids}
                   ELSE ApplyRetentionRules(snaps, rt.job.rules, rt.job.min, rt.job.now)
       IN  rt' = IF rt.job.ids = {} /\ rt.job.rules = {} THEN [rt EXCEPT !.pc = "failed"]
                 ELSE [rt EXCEPT !.pc = "done",
                                 !.removed = {snaps[k].id : k \in (DOMAIN snaps) \ kept}]

RetentionRests == rt.pc # "start" /\ UNCHANGED rt

RetentionStart(job) == [job |-> job, pc |-> "start", removed |-> {}]
RetentionInit == \E job \in ForgetJobs : rt = RetentionStart(job)

RetentionNext == SelectRemoved \/ RetentionRests

RetentionSpec == RetentionInit /\ [][RetentionNext]_rt

-----------------------------------------------------------------------------
(* Properties.                                                               *)

(* The number of a period, for the statements.                               *)
PeriodOf(kind, t) ==
    LET l == LocalTime(t)
    IN  CASE kind = "yearly" -> YearOf(l) [] kind = "monthly" -> MonthOf(l)
          [] kind = "weekly" -> WeekOf(l) [] kind = "daily" -> DayOf(l)
          [] kind = "hourly" -> HourOf(l)

Periods == {"yearly", "monthly", "weekly", "daily", "hourly"}

LatestOfPeriods(kind, n) ==
    LET Shown(s) == s \in Range(Considered(rt.job))
        fits == {s \in Range(rt.job.snaps) :
                   Shown(s) /\ PeriodOf(kind, s.time) > PeriodOf(kind, rt.job.now) - n}
    IN  {s.id : s \in {t \in fits : \A u \in fits :
           PeriodOf(kind, u.time) = PeriodOf(kind, t.time) => u.id <= t.id}}

Removing == rt.pc = "done" /\ rt.job.ids = {}

(* Where the start of the oldest period is not sharp: the first second of    *)
(* the oldest hour, whose cutoff has now's fraction of a second; an hour     *)
(* around the start of the oldest day, if the clock has changed since.       *)
AtEdge(rule, t) ==
    LET now == rt.job.now
        day == EarliestInstant((PeriodOf("daily", now) - (rule.n - 1)) * DayTicks)
    IN  \/ /\ rule.kind = "hourly"
           /\ PeriodOf("hourly", t) = PeriodOf("hourly", now) - (rule.n - 1)
           /\ LocalTime(t) % HourTicks < SecondParts
        \/ /\ rule.kind = "daily" /\ ClockOffset(day) # ClockOffset(now)
           /\ t >= day - HourTicks /\ t < day + HourTicks

(* The last n hours, and the next one, on a clock that is not changed.       *)
SteadyClock(n) ==
    \A t \in {rt.job.now - n * HourTicks, rt.job.now + HourTicks} : ClockOffset(t) = ClockOffset(rt.job.now)

(* apply_retention_rules: a rule of n periods keeps the latest snapshot of   *)
(* each of the last n years, months, days or hours with a snapshot, and if   *)
(* it is the only rule no other snapshot is kept.  Of weeks there are less   *)
(* than a year holds, and the one with the new year may keep two.  The       *)
(* oldest hour and day may begin a little early or late (AtEdge), and hours  *)
(* are not counted across a change of the clock.                             *)
PeriodsKept ==
    Removing => \A rule \in rt.job.rules :
      LET all == Range(Considered(rt.job))
          edge == {s.id : s \in {u \in all : AtEdge(rule, u.time)}}
      IN  /\ rule.kind \in Periods /\ rule.n # UsizeMax
          /\ rule.kind = "weekly" => (rule.n + 2) * WeekDays <= YearDays
          /\ rule.kind = "hourly" => SteadyClock(rule.n)
          =>
          /\ rt.removed \intersect LatestOfPeriods(rule.kind, rule.n) \subseteq edge
          /\ rule.kind # "weekly" /\ rt.job.rules = {rule} /\ rt.job.min = <<>> =>
               rt.removed \union edge
                 = ({s.id : s \in all} \ LatestOfPeriods(rule.kind, rule.n)) \union edge

(* apply_retention_rules: whatever the rules say, --keep-min snapshots are   *)
(* left if there are as many, and only what the rules leave or the newest.   *)
EnoughKept ==
    Removing /\ rt.job.min # <<>> =>
      LET snaps == Considered(rt.job)
          left == {k \in DOMAIN snaps : snaps[k].id \notin rt.removed}
          byRules == UNION {KeptBy(rule, snaps, rt.job.now) : rule \in rt.job.rules}
      IN  /\ Cardinality(left) >= Min({rt.job.min[1], Len(snaps)})
          /\ byRules \subseteq left
          /\ left # byRules => Cardinality(left) = Min({rt.job.min[1], Len(snaps)})

(* apply_retention_rules: forget keeps exactly what the rules say, and at    *)
(* least --keep-min snapshots.                                               *)
RulesKept == PeriodsKept /\ EnoughKept
=============================================================================

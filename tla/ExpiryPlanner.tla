--------------------------- MODULE ExpiryPlanner ---------------------------
(***************************************************************************)
(* The rolling planner of domain/expiry.rs: which expirations are alive at *)
(* a simulated instant.                                                    *)
(*                                                                         *)
(* An instant is a number of ticks, DayTicks to the day; a date is a number*)
(* of days, and day 0 is a Monday.  A zone has one transition: before the  *)
(* instant `shift' its local time is ahead of UTC by `before' ticks, from  *)
(* then on by `after' ticks.  If the clock goes forward a stretch of local *)
(* time is missing (a gap), if it goes back one occurs twice (a fold).     *)
(***************************************************************************)
EXTENDS Totals, SequencesExt

CONSTANTS DayTicks,        \* the ticks of a day
          FirstOf,         \* the first date of each <<year, month>> of the calendar
          MaxRules,        \* MAX_SCHEDULE_RULES
          MaxTargetCount,  \* MAX_TARGET_COUNT
          MaxExpirations   \* MAX_EXPIRATIONS_PER_SNAPSHOT

ASSUME PlannerAssumption ==
    /\ DayTicks \in Nat \ {0}
    /\ FirstOf \in [DOMAIN FirstOf -> Nat]
    /\ DOMAIN FirstOf \subseteq Nat \X (1..12)
    /\ {MaxRules, MaxTargetCount, MaxExpirations} \subseteq Nat

Years == {ym[1] : ym \in DOMAIN FirstOf}

MonthNumber(ym) == 12 * ym[1] + ym[2]

\* The calendar has whole years, none is missing between two others, and its months
\* come in order, each of four weeks or more.
ASSUME CalendarAssumption ==
    /\ DOMAIN FirstOf = Years \X (1..12)
    /\ \A early, late \in Years : early..late \subseteq Years
    /\ \A a, b \in DOMAIN FirstOf :
            MonthNumber(a) < MonthNumber(b) => FirstOf[a] + 28 <= FirstOf[b]

\* What a record has in a field, or `value' if it has no such field.
Default(record, field, value) == IF field \in DOMAIN record THEN record[field] ELSE value

WithDefaults(record, defaults) ==
    [field \in DOMAIN record \cup DOMAIN defaults |-> Default(record, field, defaults[field])]

Weekday(date) == date % 7

\* weekdays_v1: Saturday and Sunday carry no expiration.
Eligible(date) == Weekday(date) < 5

\* No zone is further than a day from UTC.
IsZone(zone) ==
    /\ zone.shift \in Int
    /\ {zone.before, zone.after} \subseteq -DayTicks..DayTicks

Offset(zone, instant) == IF instant < zone.shift THEN zone.before ELSE zone.after

\* The local date and time, as ticks since local day 0.
Local(zone, instant) == instant + Offset(zone, instant)

LocalDate(zone, instant) == Local(zone, instant) \div DayTicks

\* The instants at which the zone's clocks show `local': none, one or two.
Readings(zone, local) ==
    {u \in {local - zone.before, local - zone.after} : Local(zone, u) = local}

\* The instant of a local expiration: the earlier of two, or the end of the gap.
InstantFor(zone, local) ==
    IF Readings(zone, local) = {} THEN zone.shift ELSE Min(Readings(zone, local))

AddMonths(year, month, offset) ==
    LET total == (month - 1) + offset
    IN  <<year + (total \div 12), (total % 12) + 1>>

AddYears(year, offset) == year + offset

\* The date of the last `weekday' of the month, walking back from its last day.
LastWeekday(year, month, weekday) ==
    LET last == FirstOf[AddMonths(year, month, 1)] - 1
    IN  last - ((Weekday(last) + 7 - weekday) % 7)

\* The year and month a date is in.
MonthOf(date) ==
    CHOOSE ym \in DOMAIN FirstOf :
        FirstOf[ym] <= date /\ date < FirstOf[AddMonths(ym[1], ym[2], 1)]

\* The calendar has the date, and as many years after the one that it is in.
Covers(date, years) ==
    \E ym \in DOMAIN FirstOf :
        /\ ym[1] + years \in Years
        /\ FirstOf[ym] <= date /\ date < FirstOf[AddMonths(ym[1], ym[2], 1)]

\* The date the rule expires on at the index-th place of its scan, if any.
DayCandidate(rule, start, index) ==
    LET date == start + index
    IN  IF Eligible(date) /\ (rule.kind = "weekly" => Weekday(date) \in rule.weekdays)
        THEN {date} ELSE {}

PeriodCandidate(rule, start, index) ==
    LET ym   == MonthOf(start)
        to   == IF rule.kind = "monthly" THEN AddMonths(ym[1], ym[2], index)
                                         ELSE <<AddYears(ym[1], index), rule.month>>
        date == LastWeekday(to[1], to[2], rule.weekday)
    IN  IF Eligible(date) THEN {date} ELSE {}

ByDay(rule) == rule.kind \in {"daily", "weekly"}

\* Bug: no room for a first period whose expiration is already past.
ScanBudgetWithoutSlack(rule) == IF ByDay(rule) THEN 8 * rule.count + 32 ELSE rule.count

\* How many places a scan looks at before it gives up.
ScanBudget(rule) == IF ByDay(rule) THEN 8 * rule.count + 32 ELSE rule.count + 2

Candidate(rule, start, index) ==
    IF ByDay(rule) THEN DayCandidate(rule, start, index)
                   ELSE PeriodCandidate(rule, start, index)

\* The instants after `now' that a place of the scan gives, at most one ...
InstantsAt(schedule, rule, now, index) ==
    {i \in {InstantFor(schedule.zone, date * DayTicks + schedule.time) :
               date \in Candidate(rule, LocalDate(schedule.zone, now), index)} : i > now}

\* ... and the distinct ones of its first places.
Found(schedule, rule, now, places) ==
    UNION {InstantsAt(schedule, rule, now, index) : index \in 0 .. places - 1}

\* The scan stops when there are enough of them or its budget is spent.
Stops(schedule, rule, now, places) ==
    \/ Cardinality(Found(schedule, rule, now, places)) >= rule.count
    \/ places = ScanBudget(rule)

ProjectRule(schedule, rule, now) ==
    Found(schedule, rule, now,
          CHOOSE places \in 0 .. ScanBudget(rule) :
              /\ Stops(schedule, rule, now, places)
              /\ \A fewer \in 0 .. places - 1 : ~Stops(schedule, rule, now, fewer))

\* Whether every rule has as many expirations as it asks for; an error if not.
Projects(schedule, now) ==
    \A rule \in ToSet(schedule.rules) :
        Cardinality(ProjectRule(schedule, rule, now)) >= rule.count

\* The live expirations, coincident ones merged, with the ids of their rules.
ActiveAt(schedule, now) ==
    LET found == [rule \in ToSet(schedule.rules) |-> ProjectRule(schedule, rule, now)]
    IN  [instant \in UNION Range(found) |->
            {rule.id : rule \in {r \in DOMAIN found : instant \in found[r]}}]

(***************************************************************************)
(* What a schedule may be.  A rule arrives with the fields its client gave;*)
(* the order that rules and weekdays are normalised to plays no part here. *)
(***************************************************************************)
\* What the types of a wire rule say of its fields.
IsWire(wire) ==
    /\ {"id", "kind", "count"} \subseteq DOMAIN wire
    /\ "weekday" \in DOMAIN wire => wire.weekday \in 0..6
    /\ "weekdays" \in DOMAIN wire => wire.weekdays \in Seq(0..6)

Given(wire) == DOMAIN wire \ {"id", "kind", "count"}

\* The fields belong to the rule's kind, and those that it needs are there.
FieldsFit(wire) ==
    CASE wire.kind = "daily"   -> Given(wire) = {}
      [] wire.kind = "weekly"  -> Given(wire) = {"weekdays"}
      [] wire.kind = "monthly" -> Given(wire) = {"weekday"}
      [] wire.kind = "yearly"  -> Given(wire) \in {{"weekday"}, {"weekday", "month"}}
      [] OTHER                 -> FALSE

\* The rule they describe: weekdays are a set, and a yearly rule is for December
\* unless it says otherwise.
Rule(wire) ==
    CASE wire.kind = "weekly" -> [wire EXCEPT !.weekdays = ToSet(@)]
      [] wire.kind = "yearly" -> WithDefaults(wire, [month |-> 12])
      [] OTHER                -> wire

NamedWeekdays(rule) ==
    CASE rule.kind = "daily"  -> {}
      [] rule.kind = "weekly" -> rule.weekdays
      [] OTHER                -> {rule.weekday}

\* ExpiryRule::from_parts.
ValidRule(rule) ==
    /\ rule.count \in 1..MaxTargetCount
    /\ rule.kind = "weekly" => rule.weekdays # {}
    /\ \A weekday \in NamedWeekdays(rule) : weekday < 5
    /\ rule.kind = "yearly" => rule.month \in 1..12

\* The expirations that the rules ask for, before coincident ones are merged.
TotalCount(rules) == TotalOf([i \in DOMAIN rules |-> rules[i].count])

\* ExpirationSchedule::validate.
ValidSchedule(schedule) ==
    /\ Len(schedule.rules) \in 1..MaxRules
    /\ \A rule \in ToSet(schedule.rules) : ValidRule(rule)
    /\ \A i, j \in DOMAIN schedule.rules :
            schedule.rules[i].id = schedule.rules[j].id => i = j
    /\ TotalCount(schedule.rules) <= MaxExpirations
=============================================================================

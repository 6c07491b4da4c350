---------------------------- MODULE RuleEvaluation ----------------------------
(***************************************************************************)
(* What AutomationProcessor decides about one rule: is it effective now,   *)
(* and do its conditions hold?  Every condition needs the latest reading   *)
(* of a sensor from the platform, so the nested loops over triggers,       *)
(* devices and conditions are walked one reading at a time, with the early *)
(* exits of the code.                                                      *)
(*                                                                         *)
(* All conditions of a trigger look at one sensor of each of its devices;  *)
(* a device stands for the reading of that sensor.  Numbers stand for      *)
(* gauge values, texts and switch states alike.                            *)
(***************************************************************************)
EXTENDS Integers, Sequences, FiniteSets, SequencesExt

CONSTANTS
    Inputs,     \* the rules and times to decide on
    DaysInYear, \* days of the current year
    Included    \* pairs of texts, the second of which is part of the first

IsList(s) == s \in Seq(Range(s))

\* The minutes of a day.
Minutes == 0..1439

\* A day of the year is 0 when it does not exist this year, see NoDay below.
IsRule(r) ==
    /\ IsList(r.if)
    /\ \A t \in Range(r.if) : IsList(t.devices) /\ IsList(t.conditions)
    /\ r.effectiveAt.start \in 0..DaysInYear /\ r.effectiveAt.end \in 0..DaysInYear
    /\ r.effectiveAt.from \in Minutes /\ r.effectiveAt.to \in Minutes

IsMoment(m) == m.day \in 1..DaysInYear /\ m.minute \in Minutes

ASSUME EvaluationAssumption ==
    /\ DaysInYear \in Nat \ {0}
    /\ Inputs # {}
    /\ \A in \in Inputs : IsRule(in.rule) /\ IsMoment(in.now)

VARIABLES
    rule,     \* the rule, as read from the database
    now,      \* day of the year, weekday and minute in the rule's time zone
    pc,       \* where the processor is, or how it ended
    i, j, k,  \* trigger, device and condition being looked at
    conditionsPassed, devicesPassed, triggersPassed

counters == <<conditionsPassed, devicesPassed, triggersPassed>>

evalVars == <<rule, now, pc, i, j, k, counters>>

-----------------------------------------------------------------------------
(* When the rule is effective.                                             *)

\* The day does not exist this year (February 29): comparisons with its ordinal,
\* which is NaN, are all false.
NoDay == 0

AtMost(a, b) == a # NoDay /\ b # NoDay /\ a <= b

\* Mutation: the last day is left out when the interval crosses the year.
ShortYearEndMutation(day, start, end) ==
    IF AtMost(start, end) THEN day >= start /\ day <= end
    ELSE ~(day >= end /\ end # NoDay /\ day < start)

isEffectiveDate(day, start, end) ==
    IF AtMost(start, end) THEN day >= start /\ day <= end
    ELSE ~(day > end /\ end # NoDay /\ day < start)

isEffectiveTime(minute, from, to) ==
    IF from <= to THEN minute >= from /\ minute <= to
    ELSE ~(minute > to /\ minute < from)

isEffectiveRule ==
    LET at == rule.effectiveAt
    IN  /\ isEffectiveDate(now.day, at.start, at.end)
        /\ now.weekday \in at.weekdays
        /\ isEffectiveTime(now.minute, at.from, at.to)

-----------------------------------------------------------------------------
(* When a reading meets a condition.                                       *)

Cases == <<"GAUGE", "TEXT", "SWITCH", "SNAPSHOT">>

Operators == {"GREATER", "GREATER_OR_EQUAL", "LESS", "LESS_OR_EQUAL", "EQUAL", "NOT_EQUAL",
              "BETWEEN", "UPDATED", "CONTAIN", "IS_ONE_OF"}

Handled(type) ==
    CASE type = "GAUGE"    -> Operators \ {"CONTAIN", "IS_ONE_OF"}
      [] type = "TEXT"     -> {"EQUAL", "NOT_EQUAL", "CONTAIN", "IS_ONE_OF", "UPDATED"}
      [] type = "SWITCH"   -> {"EQUAL", "NOT_EQUAL", "UPDATED"}
      [] type = "SNAPSHOT" -> Operators

\* The case of the switch that decides: a case that does not handle the
\* operator has no break and falls through to the next one.
Deciding(type, operator) ==
    Cases[CHOOSE c \in DOMAIN Cases :
            /\ \E first \in 1..c : Cases[first] = type
            /\ operator \in Handled(Cases[c])
            /\ \A b \in 1..(c - 1) : (\E first \in 1..b : Cases[first] = type)
                                     => operator \notin Handled(Cases[b])]

Updated(reading, value) == reading.age <= value[1]

\* condition.value is a list: of two elements for BETWEEN, of any for IS_ONE_OF.
GaugeMeets(reading, operator, value) ==
    CASE operator = "GREATER"          -> reading.value > value[1]
      [] operator = "GREATER_OR_EQUAL" -> reading.value >= value[1]
      [] operator = "LESS"             -> reading.value < value[1]
      [] operator = "LESS_OR_EQUAL"    -> reading.value <= value[1]
      [] operator = "EQUAL"            -> reading.value = value[1]
      [] operator = "NOT_EQUAL"        -> reading.value # value[1]
      [] operator = "BETWEEN"          -> Len(value) > 1 /\ reading.value \in value[1]..value[2]
      [] operator = "UPDATED"          -> Updated(reading, value)

TextMeets(reading, operator, value) ==
    CASE operator = "EQUAL"     -> <<reading.value>> = value
      [] operator = "NOT_EQUAL" -> <<reading.value>> # value
      [] operator = "CONTAIN"   -> <<reading.value, value[1]>> \in Included
      [] operator = "IS_ONE_OF" -> reading.type = "TEXT" /\ reading.value \in Range(value)
      [] operator = "UPDATED"   -> Updated(reading, value)

SwitchMeets(reading, operator, value) ==
    CASE operator = "EQUAL"     -> (reading.value = 1) = (value[1] = 1)
      [] operator = "NOT_EQUAL" -> (reading.value = 1) # (value[1] = 1)
      [] operator = "UPDATED"   -> Updated(reading, value)

\* The device has no such sensor, or a number is asked for its substrings.
Throws(reading, condition) ==
    \/ reading.type = "MISSING"
    \/ reading.type = "GAUGE" /\ condition.operator = "CONTAIN"

Meets(reading, condition) ==
    LET decides == Deciding(reading.type, condition.operator)
    IN  CASE decides = "GAUGE"    -> GaugeMeets(reading, condition.operator, condition.value)
          [] decides = "TEXT"     -> TextMeets(reading, condition.operator, condition.value)
          [] decides = "SWITCH"   -> SwitchMeets(reading, condition.operator, condition.value)
          [] decides = "SNAPSHOT" -> Updated(reading, condition.value)

-----------------------------------------------------------------------------
(* checkCondition.                                                         *)

Trigger == rule.if[i]

Reading == Trigger.devices[j]

Condition == Trigger.conditions[k]

\* isValidBuildRuleInput: several triggers, or several conditions, need a logic.
ValidRule(r) ==
    /\ Len(r.if) > 1 => r.logic # "NONE"
    /\ \A t \in Range(r.if) : Len(t.conditions) > 1 => t.logic # "NONE"
    /\ r.effectiveAt.weekdays \subseteq 1..7

CheckEffective ==
    /\ pc = "effective"
    /\ pc' = IF isEffectiveRule THEN "trigger" ELSE "ineffective"
    /\ UNCHANGED <<rule, now, i, j, k, counters>>

NextTrigger ==
    /\ pc = "trigger"
    /\ i <= Len(rule.if)
    /\ pc' = "device"
    /\ j' = 1
    /\ devicesPassed' = 0
    /\ UNCHANGED <<rule, now, i, k, conditionsPassed, triggersPassed>>

\* No need to check other devices if any one of them passes.
NoDevicePassed == devicesPassed = 0

NextDevice ==
    /\ pc = "device"
    /\ j <= Len(Trigger.devices)
    /\ NoDevicePassed
    /\ pc' = "condition"
    /\ k' = 1
    /\ conditionsPassed' = 0
    /\ UNCHANGED <<rule, now, i, j, devicesPassed, triggersPassed>>

\* One reading from the platform, and what it decides.
CheckOne ==
    /\ pc = "condition"
    /\ k <= Len(Trigger.conditions)
    /\ Trigger.logic = "AND" \/ conditionsPassed = 0
    /\ IF Throws(Reading, Condition)
       THEN pc' = "error" /\ UNCHANGED <<k, conditionsPassed>>
       ELSE /\ pc' = pc
            /\ k' = k + 1
            /\ conditionsPassed' = conditionsPassed + (IF Meets(Reading, Condition) THEN 1 ELSE 0)
    /\ UNCHANGED <<rule, now, i, j, devicesPassed, triggersPassed>>

\* Mutation: some condition is enough, whatever the logic.
AnyConditionMutation == conditionsPassed > 0

\* With AND every condition must pass; with OR, or no logic, the first is enough.
DevicePasses ==
    IF Trigger.logic = "AND" THEN conditionsPassed = Len(Trigger.conditions)
    ELSE conditionsPassed > 0

DeviceDone ==
    /\ pc = "condition"
    /\ k > Len(Trigger.conditions) \/ (Trigger.logic # "AND" /\ conditionsPassed > 0)
    /\ devicesPassed' = devicesPassed + (IF DevicePasses THEN 1 ELSE 0)
    /\ pc' = "device"
    /\ j' = j + 1
    /\ UNCHANGED <<rule, now, i, k, conditionsPassed, triggersPassed>>

\* Mutation: with AND a failed trigger is passed over.
LenientMutation == FALSE

\* A failed trigger ends the evaluation when the logic is AND.
Hopeless == rule.logic = "AND" /\ devicesPassed = 0

TriggerDone ==
    /\ pc = "device"
    /\ j > Len(Trigger.devices) \/ ~NoDevicePassed
    /\ IF Hopeless
       THEN pc' = "untriggered" /\ UNCHANGED <<i, triggersPassed>>
       ELSE /\ triggersPassed' = triggersPassed + (IF devicesPassed # 0 THEN 1 ELSE 0)
            /\ pc' = IF rule.logic = "OR" /\ devicesPassed # 0 THEN "summary" ELSE "trigger"
            /\ i' = i + 1
    /\ UNCHANGED <<rule, now, j, k, conditionsPassed, devicesPassed>>

LoopOver == pc = "summary" \/ (pc = "trigger" /\ i > Len(rule.if))

Summary ==
    /\ LoopOver
    /\ pc' = IF triggersPassed = 0 THEN "untriggered" ELSE "triggered"
    /\ UNCHANGED <<rule, now, i, j, k, counters>>

EvalInit ==
    /\ \E in \in Inputs : rule = in.rule /\ now = in.now /\ ValidRule(in.rule)
    /\ pc = "effective"
    /\ i = 1 /\ j = 1 /\ k = 1
    /\ conditionsPassed = 0 /\ devicesPassed = 0 /\ triggersPassed = 0

EvalNext ==
    \/ CheckEffective \/ NextTrigger \/ NextDevice \/ CheckOne
    \/ DeviceDone \/ TriggerDone \/ Summary

EvalSpec == EvalInit /\ [][EvalNext]_evalVars

-----------------------------------------------------------------------------
(* Properties.                                                             *)

Ends == {"ineffective", "untriggered", "triggered", "error"}

\* The day is met on the way from start to end, turning the year if need be.
InSeason(day, start, end) == (day - start) % DaysInYear <= (end - start) % DaysInYear

InHours(minute, from, to) == (minute - from) % 1440 <= (to - from) % 1440

\* The rule is passed over exactly when the moment is outside its season, its
\* weekdays or its hours, whether or not these wrap around the year or midnight.
EffectiveWhenMeant ==
    LET at == rule.effectiveAt
    IN  at.start # NoDay /\ at.end # NoDay /\ pc # "effective" =>
          (pc # "ineffective" <=> /\ InSeason(now.day, at.start, at.end)
                                  /\ now.weekday \in at.weekdays
                                  /\ InHours(now.minute, at.from, at.to))

Holds(reading, condition) == ~Throws(reading, condition) /\ Meets(reading, condition)

TriggerHolds(t) ==
    \E d \in Range(t.devices) :
        IF t.logic = "AND" THEN \A c \in Range(t.conditions) : Holds(d, c)
        ELSE \E c \in Range(t.conditions) : Holds(d, c)

RuleHolds ==
    IF rule.logic = "AND" THEN rule.if # <<>> /\ \A t \in Range(rule.if) : TriggerHolds(t)
    ELSE \E t \in Range(rule.if) : TriggerHolds(t)

\* The early exits do not change the answer: the loops trigger the rule exactly
\* when all (AND) or some (OR) of its triggers hold on some device.
TriggersWhenMeant ==
    /\ pc = "triggered" => RuleHolds
    /\ pc = "untriggered" => ~RuleHolds

\* The evaluation fails only on a reading it had to take: every trigger before
\* that one holds when the logic is AND, and none does when it is OR.
ErrorWhenMet ==
    pc = "error" =>
        /\ Throws(Reading, Condition)
        /\ \A t \in 1..(i - 1) : CASE rule.logic = "AND" -> TriggerHolds(rule.if[t])
                                   [] rule.logic = "OR" -> ~TriggerHolds(rule.if[t])
                                   [] OTHER -> TRUE
=============================================================================

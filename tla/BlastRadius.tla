----------------------------- MODULE BlastRadius -----------------------------
(***************************************************************************)
(* The admission webhook (internal/webhook): a write of a ChaosExperiment  *)
(* is held against the BlastRadiusPolicies one after the other, each at    *)
(* the time it is looked at, and is allowed, denied or, when the request   *)
(* or the policies cannot be read, refused with an error.  The webhook is  *)
(* called for every create and every update of an experiment.              *)
(*                                                                         *)
(* A field that may be left out is a set with at most one element.  A glob *)
(* is the set of what it matches.  Time goes by in minutes; an hour and a  *)
(* day may be shorter than the real ones.                                  *)
(***************************************************************************)
EXTENDS Integers, Sequences

CONSTANTS
  MinutesPerHour, HoursPerDay,
  Calendar,       \* the days: day of the month, month and weekday of each
  Start, Horizon, \* the time considered, in minutes since the first day
  Patience,       \* the minutes a request may take: the API server gives up on it
  Offset,         \* of a zone, at each minute: local time less this time
  Experiments,    \* the experiments that are written, by name
  Policies,       \* the policies, by name
  PolicyLists     \* what List may return: sequences of policies' names

Day == MinutesPerHour * HoursPerDay

ASSUME TimeAssumption ==
  /\ MinutesPerHour \in Nat \ {0} /\ HoursPerDay \in Nat \ {0}
  /\ Start \in Nat /\ Horizon \in Nat /\ Start <= Horizon
  /\ Patience \in Nat

ASSUME ListsAssumption == PolicyLists \subseteq Seq(DOMAIN Policies)

VARIABLES
  now,       \* the clock
  experiment, \* the name of the experiment of the request being handled
  policies,  \* the policies listed for it
  at,        \* the position of the policy to be looked at next
  begun,     \* when the handling began
  last,      \* when a policy was last looked at
  response,  \* "none" until Handle returns
  warnings   \* positions of the policies with an audit warning

vars == <<now, experiment, policies, at, begun, last, response, warnings>>
-----------------------------------------------------------------------------
(* Time windows.                                                           *)

\* A part of a cron field, by how its text divides: s/n with * or a number
\* before the slash, or lo-hi; lo-hi without a step; a number; a * in a list; the
\* name of a month or a weekday, with its number; anything else.
PartForms == {"every", "from", "spanStep", "range", "value", "star", "name", "junk"}
Part == [form: PartForms, lo: Int, hi: Int, step: Int]
Field == [any: BOOLEAN, parts: SUBSET Part]

\* Faulty variant: steps are counted from zero.
MatchCronPartFromZero(p, value, min) ==
  CASE p.form = "every" -> p.step > 0 /\ value % p.step = 0
    [] p.form = "from" -> p.step > 0 /\ value >= p.lo /\ value % p.step = 0
    [] p.form = "range" -> value \in p.lo..p.hi
    [] p.form = "value" -> value = p.lo
    [] OTHER -> FALSE

\* matchCronPart.  What is before a slash must be * or a number.
MatchCronPart(p, value, min) ==
  LET onStep(start) == p.step > 0 /\ value >= start /\ (value - start) % p.step = 0
  IN CASE p.form = "every" -> onStep(min)
       [] p.form = "from" -> onStep(p.lo)
       [] p.form = "range" -> value >= p.lo /\ value <= p.hi
       [] p.form = "value" -> value = p.lo
       [] OTHER -> FALSE

\* A field is * or a list of parts.
FieldMatches(field, value, min) ==
  field.any \/ \E p \in field.parts : MatchCronPart(p, value, min)

\* All five fields must match, the day of the month and the weekday too.
CronMatches(schedule, t) ==
  LET day == Calendar[t \div Day]
  IN /\ Len(schedule) = 5
     /\ FieldMatches(schedule[1], t % MinutesPerHour, 0)
     /\ FieldMatches(schedule[2], (t \div MinutesPerHour) % HoursPerDay, 0)
     /\ FieldMatches(schedule[3], day.day, 1)
     /\ FieldMatches(schedule[4], day.month, 1)
     /\ FieldMatches(schedule[5], day.weekday, 0)

\* A duration below a minute counts as one.
MaxMinutes(w) == IF w.seconds \div 60 < 1 THEN 1 ELSE w.seconds \div 60

\* Days are numbered as time.Time numbers them, and every minute has a local day.
ASSUME CalendarAssumption ==
  /\ \A d \in DOMAIN Calendar : Calendar[d] \in [day: 1..31, month: 1..12, weekday: 0..6]
  /\ \A zone \in DOMAIN Offset : \A t \in 0..Horizon :
       /\ Offset[zone][t] \in Int
       /\ (t + Offset[zone][t]) \div Day \in DOMAIN Calendar

\* A zone that loads is known.  The calendar begins long enough before the time
\* considered for every window to be looked back through.
ASSUME WindowsAssumption ==
  \A p \in DOMAIN Policies : \A w \in Policies[p].blocked \cup Policies[p].allowed :
    /\ w.schedule \in Seq(Field) /\ w.seconds \in Int
    /\ w.loads => w.zone \in DOMAIN Offset
    /\ MaxMinutes(w) <= Start

\* isInTimeWindow looks back minute by minute for a start, in the local time of
\* each minute.  A window whose timezone or duration is not understood is shut.
IsInTimeWindow(w, t) ==
  /\ w.loads
  /\ \E i \in 0..MaxMinutes(w) : CronMatches(w.schedule, t - i + Offset[w.zone][t - i])
-----------------------------------------------------------------------------
(* The checks of one policy; each says whether it objects.                 *)

\* A nil selector selects every experiment, an invalid one none.
PolicyMatchesExperiment(policy, exp) ==
  /\ policy.scope = {} \/ \E glob \in policy.scope : exp.namespace \in glob
  /\ exp.label \in policy.selects

CheckProtectedResources(policy, exp) ==
  \/ \E r \in policy.protectedNames :
       /\ \A k \in r.kind : k = exp.kind
       /\ \A n \in r.namespace : n = exp.namespace
       /\ \E i \in 1..Len(exp.names) : exp.names[i] = r.name
  \/ policy.protectedLabels \cap exp.targetLabels # {}

CheckProtectedNamespaces(policy, exp) ==
  \E glob \in policy.protectedNamespaces : exp.namespace \in glob

\* The action's own duration counts before the experiment's.
ExperimentDuration(exp) ==
  IF exp.actionDuration # {} THEN exp.actionDuration ELSE {exp.duration}

CheckActionLimits(policy, exp) ==
  \/ policy.allowedActions # {} /\ exp.action \notin policy.allowedActions
  \/ \E max \in policy.maxDuration : \E d \in ExperimentDuration(exp) : d > max

\* Faulty variant: an allowed window is enough.
CheckTimeWindowsAllowedFirst(policy, t) ==
  /\ \A w \in policy.allowed : ~IsInTimeWindow(w, t)
  /\ policy.allowed # {} \/ \E w \in policy.blocked : IsInTimeWindow(w, t)

\* A blocked window wins over an allowed one.
CheckTimeWindows(policy, t) ==
  \/ \E w \in policy.blocked : IsInTimeWindow(w, t)
  \/ policy.allowed # {} /\ \A w \in policy.allowed : ~IsInTimeWindow(w, t)

\* Targets are counted when they are listed by name, not when a selector finds
\* them; the percentage is compared with the number of parallel targets.
CheckTargetLimits(policy, exp) ==
  \/ \E max \in policy.maxTargets : Len(exp.names) > 0 /\ Len(exp.names) > max
  \/ \E max \in policy.maxPercentage : \E n \in exp.parallelism : n > max

\* evaluatePolicyAt says no.
Objects(policy, exp, t) ==
  /\ policy.enforcement \in {"Enforce", "Audit"}
  /\ \/ CheckProtectedResources(policy, exp)
     \/ CheckProtectedNamespaces(policy, exp)
     \/ CheckActionLimits(policy, exp)
     \/ CheckTimeWindows(policy, t)
     \/ CheckTargetLimits(policy, exp)
-----------------------------------------------------------------------------
(* Handle.                                                                 *)

Init ==
  /\ now = Start
  /\ experiment \in DOMAIN Experiments
  /\ policies = <<>>
  /\ at = 0
  /\ begun = Start /\ last = Start
  /\ response = "none"
  /\ warnings = {}

Tick ==
  /\ now < Horizon
  /\ at = 0 \/ now - begun < Patience
  /\ now' = now + 1
  /\ UNCHANGED <<experiment, policies, at, begun, last, response, warnings>>

\* The request is decoded and the policies are listed, from the cache of the
\* operator's client.
List ==
  /\ at = 0 /\ response = "none"
  /\ experiment' \in DOMAIN Experiments
  /\ policies' \in PolicyLists
  /\ at' = 1
  /\ begun' = now /\ last' = now
  /\ UNCHANGED <<now, response, warnings>>

\* The request cannot be decoded or the policies cannot be listed.
Unreadable ==
  /\ at = 0 /\ response = "none"
  /\ response' = "errored"
  /\ UNCHANGED <<now, experiment, policies, at, begun, last, warnings>>

Policy(i) == Policies[policies[i]]
Applies(i) == PolicyMatchesExperiment(Policy(i), Experiments[experiment])
ObjectsAt(i, t) == Objects(Policy(i), Experiments[experiment], t)

\* Faulty variant: the first audit warning ends the loop.
EvaluateAuditReturns ==
  /\ at \in 1..Len(policies) /\ response = "none"
  /\ last' = now
  /\ at' = at + 1
  /\ IF ~Applies(at) \/ ~ObjectsAt(at, now)
     THEN UNCHANGED <<response, warnings>>
     ELSE IF Policy(at).enforcement = "Audit"
     THEN warnings' = warnings \cup {at} /\ response' = "allowed"
     ELSE response' = "denied" /\ UNCHANGED warnings
  /\ UNCHANGED <<now, experiment, policies, begun>>

\* Faulty variant: a warning replaces the earlier ones.
EvaluateOneWarning ==
  /\ at \in 1..Len(policies) /\ response = "none"
  /\ last' = now
  /\ at' = at + 1
  /\ IF ~Applies(at) \/ ~ObjectsAt(at, now)
     THEN UNCHANGED <<response, warnings>>
     ELSE IF Policy(at).enforcement = "Audit"
     THEN warnings' = {at} /\ UNCHANGED response
     ELSE response' = "denied" /\ UNCHANGED warnings
  /\ UNCHANGED <<now, experiment, policies, begun>>

\* One turn of the loop, with the clock read again.
Evaluate ==
  /\ at \in 1..Len(policies) /\ response = "none"
  /\ last' = now
  /\ at' = at + 1
  /\ IF ~Applies(at) \/ ~ObjectsAt(at, now)
     THEN UNCHANGED <<response, warnings>>
     ELSE IF Policy(at).enforcement = "Audit"
     THEN warnings' = warnings \cup {at} /\ UNCHANGED response
     ELSE response' = "denied" /\ UNCHANGED warnings
  /\ UNCHANGED <<now, experiment, policies, begun>>

\* No policy is left, or there was none.
Allow ==
  /\ at = Len(policies) + 1 /\ response = "none"
  /\ response' = "allowed"
  /\ UNCHANGED <<now, experiment, policies, at, begun, last, warnings>>

\* The answer is sent; the next request may come.
Respond ==
  /\ response # "none"
  /\ policies' = <<>> /\ at' = 0 /\ warnings' = {} /\ response' = "none"
  /\ begun' = now /\ last' = now
  /\ UNCHANGED <<now, experiment>>

Next == Tick \/ List \/ Unreadable \/ Evaluate \/ Allow \/ Respond

Spec == Init /\ [][Next]_vars
-----------------------------------------------------------------------------
(* What a window denotes, without the matcher: a 5-field cron expression,  *)
(* and a duration that runs from each of its starts.                       *)

Values(p, min, max) ==
  CASE p.form \in {"every", "from", "spanStep"} ->
         LET start == IF p.form = "every" THEN min ELSE p.lo
             end == IF p.form = "spanStep" THEN p.hi ELSE max
         IN {v \in min..end : p.step > 0 /\ \E k \in 0..(end - start) : v = start + k * p.step}
    [] p.form = "range" -> p.lo..p.hi
    [] p.form \in {"value", "name"} -> {p.lo}
    [] p.form = "star" -> min..max
    [] OTHER -> {}

InField(field, value, min, max) ==
  field.any \/ value \in UNION {Values(p, min, max) : p \in field.parts}

\* Sunday is 0 and also 7.
OnWeekday(field, weekday) ==
  InField(field, weekday, 0, 6) \/ (weekday = 0 /\ InField(field, 7, 0, 6))

\* When both day fields are restricted, a day that either denotes will do.
OnDay(schedule, day) ==
  IF schedule[3].any \/ schedule[5].any
  THEN InField(schedule[3], day.day, 1, 31) /\ OnWeekday(schedule[5], day.weekday)
  ELSE InField(schedule[3], day.day, 1, 31) \/ OnWeekday(schedule[5], day.weekday)

Opens(w, t) ==
  LET local == t + Offset[w.zone][t]
      day == Calendar[local \div Day]
  IN /\ w.loads /\ Len(w.schedule) = 5
     /\ InField(w.schedule[1], local % MinutesPerHour, 0, MinutesPerHour - 1)
     /\ InField(w.schedule[2], (local \div MinutesPerHour) % HoursPerDay, 0, HoursPerDay - 1)
     /\ InField(w.schedule[4], day.month, 1, 12)
     /\ OnDay(w.schedule, day)

\* Some of the minute t is less than the duration away from a start.
Open(w, t) == \E s \in 0..t : Opens(w, s) /\ (t - s) * 60 < w.seconds

\* The minute after the last whole one: isInTimeWindow looks back one minute
\* more than the duration has.
Overstays(w, t) == Opens(w, t - MaxMinutes(w))

\* The schedules that the matcher reads as cron does.  It knows neither lo-hi/n,
\* names, a * in a list nor 7 for Sunday, passes over parts that cron refuses, and
\* takes a day only if both day fields match.  A duration is to be positive.
Understood(w) ==
  /\ w.seconds > 0
  /\ Len(w.schedule) = 5 =>
       /\ \A f \in 1..5 : \A p \in w.schedule[f].parts :
            p.form \in {"every", "from", "range", "value"}
       /\ \A p \in w.schedule[5].parts : 7 \notin Values(p, 0, 6)
       /\ w.schedule[3].any \/ w.schedule[5].any
-----------------------------------------------------------------------------
Positions == 1..Len(policies)

\* Every variable has its type; what one request left is gone before the next.
TypeOK ==
  /\ now \in Start..Horizon
  /\ experiment \in DOMAIN Experiments
  /\ policies \in PolicyLists \cup {<<>>}
  /\ at \in 0..Len(policies) + 1
  /\ begun \in Start..Horizon /\ last \in Start..Horizon
  /\ response \in {"none", "allowed", "denied", "errored"}
  /\ warnings \subseteq Positions

\* A write that is allowed was free of objection: every enforcing policy that
\* applies to it was content at some minute while the request was handled,
\* wherever the policy stands in the list and whatever audit policies said.
AllowedIsSafe ==
  response = "allowed" =>
    \A i \in Positions :
      Policy(i).enforcement = "Enforce" /\ Applies(i) =>
        \E t \in begun..last : ~ObjectsAt(i, t)

\* A write that is denied was denied by an enforcing policy that applies to it,
\* at the time the policy was looked at; an audit policy never denies.
DeniedIsJustified ==
  response = "denied" =>
    \E i \in Positions :
      Policy(i).enforcement = "Enforce" /\ Applies(i) /\ ObjectsAt(i, last)

\* The audit warnings are those of the audit policies that apply: all that
\* objected from the beginning to the end, and none that objected at no time.
WarningsExact ==
  response = "allowed" =>
    \A i \in Positions :
      LET applies == Policy(i).enforcement = "Audit" /\ Applies(i)
      IN /\ i \in warnings =>
              applies /\ \E t \in begun..last : ObjectsAt(i, t)
         /\ applies /\ (\A t \in begun..last : ObjectsAt(i, t)) => i \in warnings

\* A write allowed in the face of time windows came at a minute in which no
\* blocked window was open and, where there are allowed windows, one was or had
\* closed at the beginning of that minute: the windows taken as what their cron
\* expression denotes, in local time across a change of the clocks, each open for
\* its duration.  So isInTimeWindow is never late with a blocked window, and at most
\* a minute late in closing an allowed one.  Schedules with forms that the matcher
\* does not read as cron does are left out.
AllowedInsideWindows ==
  response = "allowed" =>
    \A i \in Positions :
      LET policy == Policy(i)
          windows == policy.blocked \cup policy.allowed
      IN /\ policy.enforcement = "Enforce" /\ Applies(i)
         /\ \A w \in windows : Understood(w)
         => \E t \in begun..last :
             /\ \A w \in policy.blocked : ~Open(w, t)
             /\ \/ policy.allowed = {}
                \/ \E w \in policy.allowed : Open(w, t) \/ Overstays(w, t)

\* The backward scan of isInTimeWindow and the cron expression agree, for every
\* window of the policies whose schedule the matcher reads as cron does, up to one
\* minute: the scan finds a window open in the minutes that it is open, and in the
\* one that begins when its whole minutes are over, and in no other.
ScanFindsStarts ==
  at = 0 => \A p \in DOMAIN Policies :
    \A w \in Policies[p].blocked \cup Policies[p].allowed :
      Understood(w) => (IsInTimeWindow(w, now) <=> Open(w, now) \/ Overstays(w, now))
=============================================================================

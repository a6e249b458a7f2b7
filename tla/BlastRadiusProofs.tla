-------------------------- MODULE BlastRadiusProofs --------------------------
(***************************************************************************)
(* What an answer of the webhook is worth, for every list of policies,     *)
(* every experiment and every calendar: the loop of Handle keeps, for each *)
(* policy it has passed, the minute at which that policy was looked at.    *)
(***************************************************************************)
EXTENDS BlastRadius, TLAPS

\* What is known of a policy the loop has passed: at some minute of the handling
\* it did not apply or did not object, or it did and left an audit warning.
Passed(i) ==
  \E t \in begun..last :
    \/ (~Applies(i) \/ ~ObjectsAt(i, t)) /\ i \notin warnings
    \/ /\ Applies(i) /\ ObjectsAt(i, t)
       /\ Policy(i).enforcement = "Audit" /\ i \in warnings

Progress ==
  /\ begun <= last /\ last <= now
  /\ at = 0 => policies = <<>>
  /\ \A i \in warnings : i < at
  /\ response \in {"none", "allowed"} => \A i \in Positions : i < at => Passed(i)
  /\ response = "allowed" => at = Len(policies) + 1

IInv == TypeOK /\ Progress /\ DeniedIsJustified

\* A policy that objects is of one of the two kinds.
LEMMA ObjectsKinds ==
  ASSUME NEW i, NEW t, ObjectsAt(i, t)
  PROVE  Policy(i).enforcement = "Enforce" \/ Policy(i).enforcement = "Audit"
BY DEF ObjectsAt, Objects

\* Every state has a list of policies with a length.
LEMMA Lists ==
  ASSUME TypeOK
  PROVE  policies \in Seq(DOMAIN Policies) /\ Len(policies) \in Nat
<1>1. policies \in Seq(DOMAIN Policies)
  <2>1. CASE policies \in PolicyLists
    BY <2>1, ListsAssumption
  <2>2. CASE policies = <<>>
    BY <2>2
  <2> QED
    BY <2>1, <2>2 DEF TypeOK
<1> QED
  BY <1>1

\* The webhook starts with no request.
LEMMA InitIInv == Init => IInv
BY TimeAssumption, ListsAssumption
   DEF Init, IInv, TypeOK, Progress, DeniedIsJustified, Positions

\* What is said of the answer depends on nothing but the request and the answer.
LEMMA Stays ==
  ASSUME UNCHANGED <<experiment, policies>>
  PROVE  /\ \A i : Policy(i)' = Policy(i) /\ Applies(i)' = Applies(i)
         /\ \A i, t : ObjectsAt(i, t)' = ObjectsAt(i, t)
         /\ Positions' = Positions
BY DEF Policy, Applies, ObjectsAt, Positions

\* Each step of the clock and of Handle keeps what is known.
LEMMA StepIInv == IInv /\ [Next]_vars => IInv'
<1> SUFFICES ASSUME IInv, [Next]_vars PROVE IInv'
  OBVIOUS
<1> USE DEF IInv
<1>l. policies \in Seq(DOMAIN Policies) /\ Len(policies) \in Nat
  BY Lists
<1>t. /\ now \in Int /\ Start \in Int /\ Horizon \in Int /\ at \in Int
      /\ begun \in Int /\ last \in Int
  BY <1>l, TimeAssumption DEF TypeOK
<1>1. CASE Tick
  <2>1. UNCHANGED <<experiment, policies>>
    BY <1>1 DEF Tick
  <2>2. TypeOK'
    BY <1>1, <1>t DEF Tick, TypeOK, Positions
  <2>3. \A i : Passed(i)' = Passed(i)
    BY <1>1, <2>1, Stays DEF Tick, Passed
  <2>4. Progress'
    BY <1>1, <1>t, <2>1, <2>3, Stays DEF Tick, Progress
  <2>5. DeniedIsJustified'
    BY <1>1, <2>1, Stays DEF Tick, DeniedIsJustified
  <2> QED
    BY <2>2, <2>4, <2>5
<1>2. CASE List
  <2>1. Len(policies') \in Nat /\ policies' \in Seq(DOMAIN Policies)
    BY <1>2, ListsAssumption DEF List
  <2>2. warnings = {}
    BY <1>2, <1>l DEF List, TypeOK, Progress, Positions
  <2>3. TypeOK'
    BY <1>2, <1>t, <2>1, <2>2 DEF List, TypeOK, Positions
  <2>4. Progress'
    BY <1>2, <1>t, <2>1, <2>2 DEF List, Progress, Positions
  <2>5. DeniedIsJustified'
    BY <1>2 DEF List, DeniedIsJustified
  <2> QED
    BY <2>3, <2>4, <2>5
<1>3. CASE Unreadable
  BY <1>3, <1>l DEF Unreadable, TypeOK, Progress, DeniedIsJustified, Positions
<1>4. CASE Evaluate
  <2>1. /\ UNCHANGED <<experiment, policies>>
        /\ now' = now /\ begun' = begun /\ last' = now /\ at' = at + 1
        /\ at \in 1..Len(policies) /\ response = "none"
    BY <1>4 DEF Evaluate
  <2>2. \/ /\ ~Applies(at) \/ ~ObjectsAt(at, now)
           /\ warnings' = warnings /\ response' = "none"
        \/ /\ Applies(at) /\ ObjectsAt(at, now) /\ Policy(at).enforcement = "Audit"
           /\ warnings' = warnings \cup {at} /\ response' = "none"
        \/ /\ Applies(at) /\ ObjectsAt(at, now) /\ Policy(at).enforcement # "Audit"
           /\ warnings' = warnings /\ response' = "denied"
    BY <1>4 DEF Evaluate
  <2>w. warnings' \subseteq warnings \cup {at} /\ response' \in {"none", "denied"}
    BY <2>2
  <2>3. TypeOK'
    BY <2>1, <2>w, <1>t, <1>l DEF TypeOK, Positions
  <2>4. DeniedIsJustified'
    <3> SUFFICES ASSUME response' = "denied"
                 PROVE  DeniedIsJustified'
      BY DEF DeniedIsJustified
    <3>1. Policy(at).enforcement = "Enforce" /\ Applies(at) /\ ObjectsAt(at, last')
      BY <2>1, <2>2, ObjectsKinds
    <3> QED
      BY <2>1, <3>1, Stays DEF DeniedIsJustified, Positions
  <2>5. ASSUME NEW i \in Positions, i < at', response' = "none"
        PROVE  Passed(i)'
    <3>1. CASE i = at
      <4>1. now \in begun'..last' /\ i \notin warnings
        BY <2>1, <3>1, <1>t DEF Progress
      <4>2. \/ (~Applies(i)' \/ ~ObjectsAt(i, now)') /\ i \notin warnings'
            \/ /\ Applies(i)' /\ ObjectsAt(i, now)'
               /\ Policy(i).enforcement' = "Audit" /\ i \in warnings'
        BY <2>1, <2>2, <2>5, <3>1, <4>1, Stays
      <4> QED
        BY <4>1, <4>2, <2>1 DEF Passed
    <3>2. CASE i # at
      <4>1. i < at /\ Passed(i)
        BY <2>1, <2>5, <3>2, <1>t DEF Positions, Progress
      <4>2. i \in warnings' <=> i \in warnings
        BY <2>2, <3>2
      <4>3. begun..last \subseteq begun'..last'
        BY <2>1, <1>t DEF Progress
      <4> QED
        BY <4>1, <4>2, <4>3, <2>1, Stays DEF Passed
    <3> QED
      BY <3>1, <3>2
  <2>6. Progress'
    <3>1. \A i \in warnings' : i < at'
      BY <2>1, <2>w, <1>t, <1>l DEF Progress, TypeOK, Positions
    <3>2. begun' <= last' /\ last' <= now' /\ at' # 0
      BY <2>1, <1>t DEF Progress
    <3>3. response' # "allowed" /\ Positions' = Positions
      BY <2>1, <2>2, Stays
    <3> QED
      BY <3>1, <3>2, <3>3, <2>5 DEF Progress
  <2> QED
    BY <2>3, <2>4, <2>6
<1>5. CASE Allow
  <2>1. UNCHANGED <<experiment, policies>>
    BY <1>5 DEF Allow
  <2>2. \A i : Passed(i)' = Passed(i)
    BY <1>5, <2>1, Stays DEF Allow, Passed
  <2>3. TypeOK' /\ DeniedIsJustified'
    BY <1>5 DEF Allow, TypeOK, DeniedIsJustified, Positions
  <2>4. Progress'
    BY <1>5, <1>t, <2>1, <2>2, Stays DEF Allow, Progress
  <2> QED
    BY <2>3, <2>4
<1>6. CASE Respond
  <2>1. Len(policies') = 0
    BY <1>6 DEF Respond
  <2> QED
    BY <1>6, <1>t, <2>1 DEF Respond, TypeOK, Progress, DeniedIsJustified, Positions
<1>7. CASE UNCHANGED vars
  <2>1. UNCHANGED <<experiment, policies>>
    BY <1>7 DEF vars
  <2>2. \A i : Passed(i)' = Passed(i)
    BY <1>7, <2>1, Stays DEF vars, Passed
  <2>3. TypeOK'
    BY <1>7 DEF vars, TypeOK, Positions
  <2>4. Progress' /\ DeniedIsJustified'
    BY <1>7, <2>1, <2>2, Stays DEF vars, Progress, DeniedIsJustified
  <2> QED
    BY <2>3, <2>4
<1> QED
  BY <1>1, <1>2, <1>3, <1>4, <1>5, <1>6, <1>7 DEF Next

\* The inductive invariant holds in every state of the webhook.
THEOREM Invariance == Spec => []IInv
BY InitIInv, StepIInv, PTL DEF Spec

\* An allowed answer has passed every policy.
LEMMA AllowedPassed ==
  ASSUME IInv, response = "allowed", NEW i \in Positions
  PROVE  Passed(i)
<1>1. Len(policies) \in Nat
  BY Lists DEF IInv
<1> QED
  BY <1>1 DEF IInv, Progress, Positions

\* An answer of Handle is justified: what is allowed was free of objection from
\* every enforcing policy, what is denied was objected to by one.
THEOREM Verdict == Spec => [](AllowedIsSafe /\ DeniedIsJustified)
<1>1. IInv => AllowedIsSafe
  BY AllowedPassed DEF AllowedIsSafe, Passed
<1>2. IInv => DeniedIsJustified
  BY DEF IInv
<1> QED
  BY <1>1, <1>2, Invariance, PTL

\* The audit warnings of an allowed write are those of the audit policies that
\* apply and object.
THEOREM Warnings == Spec => []WarningsExact
<1>1. IInv => WarningsExact
  BY AllowedPassed DEF WarningsExact, Passed
<1> QED
  BY <1>1, Invariance, PTL
-----------------------------------------------------------------------------
(* The time windows: the matcher and the backward scan find what a schedule *)
(* denotes.                                                                *)

\* A value is on a step just when it is the start and some number of steps.
LEMMA StepsCounted ==
  ASSUME NEW start \in Int, NEW end \in Int, NEW step \in Int, step > 0,
         NEW v \in Int, v <= end
  PROVE  (v >= start /\ (v - start) % step = 0)
           <=> \E k \in 0..(end - start) : v = start + k * step
<1>1. ASSUME v >= start, (v - start) % step = 0
      PROVE  \E k \in 0..(end - start) : v = start + k * step
  <2> DEFINE k == (v - start) \div step
  <2>1. k \in Int /\ v - start = step * k
    BY <1>1
  <2>2. k >= 0
    BY <1>1, <2>1
  <2>3. k <= step * k
    BY <2>1, <2>2
  <2> QED BY <2>1, <2>2, <2>3
<1>2. ASSUME NEW k \in 0..(end - start), v = start + k * step
      PROVE  v >= start /\ (v - start) % step = 0
  <2>1. k * step \in Int /\ k * step >= 0
    OBVIOUS
  <2>2. (k * step) % step = 0
    OBVIOUS
  <2> QED BY <1>2, <2>1, <2>2
<1> QED BY <1>1, <1>2, Zenon

\* matchCronPart finds the values that a part denotes in its field, if it is of a
\* form that the matcher knows.
LEMMA PartsAgree ==
  ASSUME NEW p \in Part, p.form \in {"every", "from", "range", "value"},
         NEW min \in Int, NEW max \in Int, NEW value \in min..max
  PROVE  MatchCronPart(p, value, min) <=> value \in Values(p, min, max)
<1>0. p.lo \in Int /\ p.hi \in Int /\ p.step \in Int
  BY DEF Part
<1>1. CASE p.form = "every"
  <2>1. CASE p.step > 0
    BY <1>0, <1>1, <2>1, StepsCounted DEF MatchCronPart, Values
  <2>2. CASE ~(p.step > 0)
    BY <1>1, <2>2 DEF MatchCronPart, Values
  <2> QED BY <2>1, <2>2
<1>2. CASE p.form = "from"
  <2>1. CASE p.step > 0
    BY <1>0, <1>2, <2>1, StepsCounted DEF MatchCronPart, Values
  <2>2. CASE ~(p.step > 0)
    BY <1>2, <2>2 DEF MatchCronPart, Values
  <2> QED BY <2>1, <2>2
<1>3. CASE p.form = "range"
  BY <1>0, <1>3 DEF MatchCronPart, Values
<1>4. CASE p.form = "value"
  BY <1>0, <1>4 DEF MatchCronPart, Values
<1> QED BY <1>1, <1>2, <1>3, <1>4

\* A field matches the values that it denotes.
LEMMA FieldsAgree ==
  ASSUME NEW field \in Field,
         \A p \in field.parts : p.form \in {"every", "from", "range", "value"},
         NEW min \in Int, NEW max \in Int, NEW value \in min..max
  PROVE  FieldMatches(field, value, min) <=> InField(field, value, min, max)
<1>1. \A p \in field.parts : MatchCronPart(p, value, min) <=> value \in Values(p, min, max)
  BY PartsAgree DEF Field
<1> QED BY <1>1 DEF FieldMatches, InField

\* The windows of the policies.
Windows == UNION {Policies[p].blocked \cup Policies[p].allowed : p \in DOMAIN Policies}

\* A remainder is below its divisor.
LEMMA RemainderRange ==
  ASSUME NEW a \in Int, NEW n \in Int, n > 0
  PROVE  a % n \in 0..(n - 1)
BY SMTT(60)

\* Each of the five fields is matched against a value of its range.
LEMMA SchedulesAgree ==
  ASSUME NEW w \in Windows, Understood(w), w.loads, NEW t \in 0..Horizon
  PROVE  CronMatches(w.schedule, t + Offset[w.zone][t]) <=> Opens(w, t)
<1> DEFINE local == t + Offset[w.zone][t]
           day == Calendar[local \div Day]
<1>1. /\ w.schedule \in Seq(Field) /\ w.zone \in DOMAIN Offset
      /\ MinutesPerHour \in Int /\ MinutesPerHour > 0 /\ HoursPerDay \in Int /\ HoursPerDay > 0
  BY WindowsAssumption, TimeAssumption DEF Windows
<1>2. local \in Int /\ local \div Day \in DOMAIN Calendar
  BY <1>1, CalendarAssumption, TimeAssumption
<1>3. local \div MinutesPerHour \in Int
  BY <1>1, <1>2
<1> HIDE DEF local, day
<1>4. /\ local % MinutesPerHour \in 0..(MinutesPerHour - 1)
      /\ (local \div MinutesPerHour) % HoursPerDay \in 0..(HoursPerDay - 1)
  BY <1>1, <1>2, <1>3, RemainderRange, Zenon
<1>5. day.day \in 1..31 /\ day.month \in 1..12 /\ day.weekday \in 0..6
  <2>1. \A d \in DOMAIN Calendar : Calendar[d] \in [day: 1..31, month: 1..12, weekday: 0..6]
    BY CalendarAssumption, Zenon
  <2>2. day \in [day: 1..31, month: 1..12, weekday: 0..6]
    BY <1>2, <2>1, ZenonT(40) DEF day
  <2> QED BY <2>2
<1>6. CASE Len(w.schedule) = 5
  <2>0. MinutesPerHour - 1 \in Int /\ HoursPerDay - 1 \in Int
    BY <1>1
  <2>1. \A f \in 1..5 : /\ w.schedule[f] \in Field
                        /\ \A p \in w.schedule[f].parts :
                             p.form \in {"every", "from", "range", "value"}
    <3>1. \A f \in 1..Len(w.schedule) : w.schedule[f] \in Field
      BY <1>1
    <3> QED BY <1>6, <3>1 DEF Understood
  <2>2. \A f \in 1..5 : \A min, max \in Int : \A value \in min..max :
          FieldMatches(w.schedule[f], value, min) <=> InField(w.schedule[f], value, min, max)
    BY <2>1, FieldsAgree
  <2>3. FieldMatches(w.schedule[1], local % MinutesPerHour, 0)
          <=> InField(w.schedule[1], local % MinutesPerHour, 0, MinutesPerHour - 1)
    BY <1>4, <2>0, <2>2, 0 \in Int, 1 \in 1..5, Zenon
  <2>4. FieldMatches(w.schedule[2], (local \div MinutesPerHour) % HoursPerDay, 0)
          <=> InField(w.schedule[2], (local \div MinutesPerHour) % HoursPerDay, 0, HoursPerDay - 1)
    BY <1>4, <2>0, <2>2, 0 \in Int, 2 \in 1..5, Zenon
  <2>5. FieldMatches(w.schedule[3], day.day, 1) <=> InField(w.schedule[3], day.day, 1, 31)
    BY <1>5, <2>2, 1 \in Int, 31 \in Int, 3 \in 1..5, Zenon
  <2>6. FieldMatches(w.schedule[4], day.month, 1) <=> InField(w.schedule[4], day.month, 1, 12)
    BY <1>5, <2>2, 1 \in Int, 12 \in Int, 4 \in 1..5, Zenon
  <2>7. FieldMatches(w.schedule[5], day.weekday, 0) <=> InField(w.schedule[5], day.weekday, 0, 6)
    BY <1>5, <2>2, 0 \in Int, 6 \in Int, 5 \in 1..5, Zenon
  <2>8. OnWeekday(w.schedule[5], day.weekday) <=> InField(w.schedule[5], day.weekday, 0, 6)
    <3>1. \A p \in w.schedule[5].parts : 7 \notin Values(p, 0, 6)
      BY <1>6 DEF Understood
    <3>2. InField(w.schedule[5], 7, 0, 6) => w.schedule[5].any
      BY <3>1 DEF InField
    <3> QED BY <3>2 DEF OnWeekday, InField
  <2>9. OnDay(w.schedule, day) <=>
          InField(w.schedule[3], day.day, 1, 31) /\ InField(w.schedule[5], day.weekday, 0, 6)
    BY <1>6, <2>8 DEF OnDay, Understood
  <2> QED BY <2>3, <2>4, <2>5, <2>6, <2>7, <2>9, <1>6 DEF CronMatches, Opens, local, day
<1> QED BY <1>6 DEF CronMatches, Opens

\* A duration has fewer whole minutes than parts of minutes, by one at most.
LEMMA WholeMinutes ==
  ASSUME NEW w \in Windows, w.seconds > 0, NEW n \in Nat
  PROVE  n <= MaxMinutes(w) <=> n * 60 < w.seconds \/ n = MaxMinutes(w)
<1>1. w.seconds \in Int
  BY WindowsAssumption DEF Windows
<1>2. PICK q \in Int : q = w.seconds \div 60 /\ q * 60 <= w.seconds /\ w.seconds < q * 60 + 60
  BY <1>1
<1>3. MaxMinutes(w) = IF q < 1 THEN 1 ELSE q
  BY <1>2 DEF MaxMinutes
<1> QED BY <1>1, <1>2, <1>3

\* isInTimeWindow, at any minute.
LEMMA ScanAgrees ==
  ASSUME NEW w \in Windows, Understood(w), NEW t \in Start..Horizon
  PROVE  IsInTimeWindow(w, t) <=> Open(w, t) \/ Overstays(w, t)
<1>1. /\ MaxMinutes(w) \in Int /\ 0 <= MaxMinutes(w) /\ MaxMinutes(w) <= Start
      /\ Start \in Nat /\ Horizon \in Nat /\ t \in Int /\ w.seconds > 0
  BY WindowsAssumption, TimeAssumption DEF Windows, MaxMinutes, Understood
<1>2. CASE ~w.loads
  BY <1>2 DEF IsInTimeWindow, Open, Overstays, Opens
<1>3. CASE w.loads
  <2>1. ASSUME NEW i \in 0..MaxMinutes(w), CronMatches(w.schedule, t - i + Offset[w.zone][t - i])
        PROVE  Open(w, t) \/ Overstays(w, t)
    <3>1. t - i \in 0..t /\ t - i \in 0..Horizon /\ i = t - (t - i)
      BY <1>1
    <3>2. Opens(w, t - i)
      BY <1>3, <2>1, <3>1, SchedulesAgree
    <3>3. i * 60 < w.seconds \/ i = MaxMinutes(w)
      BY <1>1, WholeMinutes
    <3> QED BY <3>1, <3>2, <3>3 DEF Open, Overstays
  <2>2. ASSUME NEW s \in 0..t, Opens(w, s), t - s <= MaxMinutes(w)
        PROVE  IsInTimeWindow(w, t)
    <3>1. s \in 0..Horizon /\ t - s \in 0..MaxMinutes(w) /\ t - (t - s) = s
      BY <1>1, <2>2
    <3>2. CronMatches(w.schedule, s + Offset[w.zone][s])
      BY <1>3, <2>2, <3>1, SchedulesAgree
    <3> QED BY <1>3, <3>1, <3>2 DEF IsInTimeWindow
  <2>3. Open(w, t) => IsInTimeWindow(w, t)
    <3>1. ASSUME NEW s \in 0..t, Opens(w, s), (t - s) * 60 < w.seconds
          PROVE  t - s <= MaxMinutes(w)
      BY <1>1, <3>1, WholeMinutes
    <3> QED BY <2>2, <3>1 DEF Open
  <2>4. Overstays(w, t) => IsInTimeWindow(w, t)
    <3>1. t - MaxMinutes(w) \in 0..t /\ t - (t - MaxMinutes(w)) <= MaxMinutes(w)
      BY <1>1
    <3> QED BY <2>2, <3>1 DEF Overstays
  <2> QED BY <2>1, <2>3, <2>4 DEF IsInTimeWindow
<1> QED BY <1>2, <1>3

\* The scan of isInTimeWindow and the minutes that a cron expression and a duration
\* denote agree up to the closing minute, in every zone and for every duration, on
\* the schedules that the matcher reads as cron does.
THEOREM ScanIsExact == Spec => []ScanFindsStarts
<1>1. IInv => ScanFindsStarts
  BY ScanAgrees DEF IInv, TypeOK, ScanFindsStarts, Windows
<1> QED BY <1>1, Invariance, PTL

\* A write allowed in the face of time windows came outside the blocked ones, as
\* their cron expressions denote them, and inside an allowed one or in the minute
\* that begins when it closes.
THEOREM WindowsHold == Spec => []AllowedInsideWindows
<1>1. ASSUME IInv, response = "allowed", NEW i \in Positions,
             Policy(i).enforcement = "Enforce", Applies(i),
             \A w \in Policy(i).blocked \cup Policy(i).allowed : Understood(w)
      PROVE  \E t \in begun..last :
               /\ \A w \in Policy(i).blocked : ~Open(w, t)
               /\ \/ Policy(i).allowed = {}
                  \/ \E w \in Policy(i).allowed : Open(w, t) \/ Overstays(w, t)
  <2>1. PICK t \in begun..last : ~ObjectsAt(i, t)
    BY <1>1, AllowedPassed DEF Passed
  <2>2. t \in Start..Horizon
    BY <1>1, TimeAssumption DEF IInv, TypeOK
  <2>3. policies[i] \in DOMAIN Policies
    BY <1>1, Lists DEF IInv, Positions
  <2>4. \A w \in Policy(i).blocked \cup Policy(i).allowed :
          IsInTimeWindow(w, t) <=> Open(w, t) \/ Overstays(w, t)
    BY <1>1, <2>2, <2>3, ScanAgrees DEF Policy, Windows
  <2>5. ~CheckTimeWindows(Policy(i), t)
    BY <1>1, <2>1 DEF ObjectsAt, Objects
  <2> QED BY <2>4, <2>5 DEF CheckTimeWindows
<1>2. IInv => AllowedInsideWindows
  BY <1>1 DEF AllowedInsideWindows
<1> QED BY <1>2, Invariance, PTL
=============================================================================

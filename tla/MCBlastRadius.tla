---------------------------- MODULE MCBlastRadius ----------------------------
(* An instance of BlastRadius for TLC: an hour of four minutes, a day of   *)
(* three hours, and days across a weekend and the end of a month.          *)
EXTENDS BlastRadius

MCCalendar == [d \in 0..4 |->
  [day     |-> <<30, 31, 1, 2, 3>>[d + 1],
   month   |-> <<1, 1, 2, 2, 2>>[d + 1],
   weekday |-> <<5, 6, 0, 1, 2>>[d + 1]]]

\* Cron fields.
Star == [any |-> TRUE, parts |-> {}]
Of(parts) == [any |-> FALSE, parts |-> parts]
Val(n) == [form |-> "value", lo |-> n, hi |-> 0, step |-> 0]
Rng(a, b) == [form |-> "range", lo |-> a, hi |-> b, step |-> 0]
Every(n) == [form |-> "every", lo |-> 0, hi |-> 0, step |-> n]
From(a, n) == [form |-> "from", lo |-> a, hi |-> 0, step |-> n]
SpanStep(a, b, n) == [form |-> "spanStep", lo |-> a, hi |-> b, step |-> n]
Name(n) == [form |-> "name", lo |-> n, hi |-> 0, step |-> 0]
Other(form) == [form |-> form, lo |-> 0, hi |-> 0, step |-> 0]

\* Zones: one fixed, one whose clocks go forward by an hour and back again.
MCOffset ==
  [fixed |-> [t \in 0..Horizon |-> 0],
   summer |-> [t \in 0..Horizon |-> IF t \in 18..29 THEN 4 ELSE 0]]

Window(schedule, seconds, zone) ==
  [schedule |-> schedule, seconds |-> seconds, zone |-> zone, loads |-> TRUE]

Weekdays == Window(<<Of({Val(1)}), Of({Val(1)}), Star, Star, Of({Rng(1, 5)})>>, 300, "fixed")
SummerHour == Window(<<Of({Val(0)}), Of({Val(1)}), Star, Star, Star>>, 120, "summer")
EachThird == Window(<<Of({Every(3), Val(2)}), Of({Every(2)}), Of({Every(2)}), Star, Star>>, 30, "fixed")
OddMinutes == Window(<<Of({From(1, 2)}), Of({Val(0)}), Star, Of({Val(2)}), Star>>, 90, "summer")
FirstOfMonth == Window(<<Of({Val(0)}), Of({Val(0)}), Of({Val(1)}), Star, Star>>, 0, "fixed")
Always == Window(<<Star, Star, Star, Star, Star>>, 60, "fixed")
FourFields == Window(<<Star, Star, Star, Star>>, 60, "fixed")
NoZone == [Always EXCEPT !.loads = FALSE]

\* Schedules that the matcher does not read as cron does.
Unread ==
  {Window(<<Of({SpanStep(0, 3, 2)}), Star, Star, Star, Star>>, 60, "fixed"),
   Window(<<Of({Val(0)}), Star, Of({Val(31)}), Star, Of({Val(1)})>>, 60, "fixed"),
   Window(<<Of({Val(0)}), Star, Star, Of({Name(2)}), Of({Val(7)})>>, 60, "fixed"),
   Window(<<Of({Val(2), Other("star")}), Of({Other("junk")}), Star, Star, Star>>, 60, "fixed"),
   [Weekdays EXCEPT !.seconds = 0]}

Lenient ==
  [enforcement |-> "Enforce", scope |-> {}, selects |-> {"app", "db"},
   protectedNames |-> {}, protectedLabels |-> {}, protectedNamespaces |-> {},
   allowedActions |-> {}, maxDuration |-> {}, maxTargets |-> {}, maxPercentage |-> {},
   blocked |-> {}, allowed |-> {}]

MCPolicies ==
  [weekdays |-> [Lenient EXCEPT !.blocked = {Weekdays, NoZone}],
   both     |-> [Lenient EXCEPT !.blocked = {EachThird, FourFields},
                                !.allowed = {SummerHour, Weekdays}],
   odd      |-> [Lenient EXCEPT !.allowed = {OddMinutes}, !.scope = {{"shop"}},
                                !.enforcement = "Audit"],
   shop     |-> [Lenient EXCEPT !.allowed = {FirstOfMonth, SummerHour}, !.scope = {{"shop"}}],
   unknown  |-> [Lenient EXCEPT !.blocked = Unread],
   names    |-> [Lenient EXCEPT !.protectedNames =
                                  {[kind |-> {"pod"}, namespace |-> {}, name |-> "a"]}],
   labels   |-> [Lenient EXCEPT !.protectedLabels = {"tier"}, !.selects = {"db"}],
   spaces   |-> [Lenient EXCEPT !.protectedNamespaces = {{"shop", "pay"}},
                                !.enforcement = "Audit"],
   actions  |-> [Lenient EXCEPT !.allowedActions = {"kill"}, !.maxDuration = {5}],
   targets  |-> [Lenient EXCEPT !.maxTargets = {1}, !.maxPercentage = {2},
                                !.enforcement = "Audit"],
   off      |-> [Lenient EXCEPT !.maxTargets = {0}, !.enforcement = "Off"]]

\* A policy with time windows and any other, or fewer.
MCPolicyLists ==
  LET timed == {"weekdays", "both", "odd", "shop", "unknown"}
  IN {<<>>} \cup {<<p>> : p \in timed}
     \cup {l \in [1..2 -> DOMAIN MCPolicies] : l[1] \in timed \/ l[2] \in timed}

Kill == [namespace |-> "shop", label |-> "app", kind |-> "pod", names |-> <<"a", "b">>,
         targetLabels |-> {}, action |-> "kill", actionDuration |-> {}, duration |-> 5,
         parallelism |-> {3}]
Delay == [Kill EXCEPT !.namespace = "dev", !.label = "db", !.names = <<>>,
          !.targetLabels = {"tier"}, !.action = "delay", !.actionDuration = {6},
          !.duration = 1, !.parallelism = {}]
Short == [Delay EXCEPT !.action = "kill", !.actionDuration = {}, !.label = "app"]

MCExperiments == [kill |-> Kill, delay |-> Delay, short |-> Short]
=============================================================================

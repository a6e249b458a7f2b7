CONSTANTS
  MinutesPerHour = 4
  HoursPerDay = 3
  Calendar <- MCCalendar
  Start = 12
  Horizon = 42
  Patience = 2
  Offset <- MCOffset
  Experiments <- MCExperiments
  Policies <- MCPolicies
  PolicyLists <- MCPolicyLists
SPECIFICATION Spec
INVARIANTS
  AllowedIsSafe
  WarningsExact
  AllowedInsideWindows
  ScanFindsStarts

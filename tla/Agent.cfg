CONSTANTS
  Items = {i}
  Runs = {r, s}
  MaxClaims = 2
  MaxChanges = 1
SPECIFICATION FairSpec
INVARIANTS
  VerdictsAreTrue
  AbortedWasAsked
  OneVerdict
  OncePerClaim
PROPERTIES
  WatchEnds

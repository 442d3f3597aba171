CONSTANTS
  r1 = r1
  r2 = r2
  r3 = r3
  r4 = r4
  f1 = f1
  f2 = f2
  f3 = f3
  acme = acme
  apex = apex
  Requests = {r1, r2, r3, r4}
  NoRequest = NoRequest
  Anchored = {r1, r4}
  MaxTurns = 1
  SummaryCap = 4
  Facts = {f1, f2, f3}
  FactsOf <- MCFactsOf
  Names = {acme, apex}
  NoName = NoName
  NameOf <- MCNameOf
  NoMetadata = NoMetadata
  ConstraintCap = 3
  MaxInFlight = 1
SPECIFICATION Spec
CHECK_DEADLOCK FALSE
INVARIANT PromptsValid

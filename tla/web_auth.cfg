SPECIFICATION FairSpec
CONSTANTS
  r1 = r1  r2 = r2  s1 = s1  s2 = s2  c1 = c1  c2 = c2
  NoOne = NoOne
  Requests <- Two
  Sessions <- Tokens
  Clients <- Browsers
  MaxAttempts = 1
  Window = 2
  MaxEntries = 1
  MaxPasswords = 2
INVARIANTS TypeOK SessionsOfPassword OneAdministrator LimiterBounded
PROPERTIES EveryRequestEnds

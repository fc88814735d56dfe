SPECIFICATION FairSpec
CONSTANTS
  Jobs = {a, b}
  Calls = {r1, r2, r3}
  Codes = {x, y, z}
  None = None
INVARIANTS
  ChallengeHasCaller
  CodeStaysInChallenge
PROPERTY ChallengeEnds
\* Every call of Request is made once; then nothing is left to do.
CHECK_DEADLOCK FALSE

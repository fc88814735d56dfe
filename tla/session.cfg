SPECIFICATION Spec
CONSTANTS
  Emails = {p, q}
  MACs = {m, n}
  NoEmail = NoEmail
  None = None
  Torn = Torn
  MaxTokens = 3
INVARIANTS
  SavedSessionSurvives
  TokenMatchesIdentity

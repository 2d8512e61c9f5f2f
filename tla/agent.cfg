SPECIFICATION Spec
CONSTANTS
  p = p
  q = q
  Process = {p, q}
  ProjectScoped = {q}
  Casts <- MCCasts
  Answers <- MCAnswers
  Allowed = {"exec"}
  MaxTurns = 3
  Recent = 1
  None = None
INVARIANTS ResultsAreKept TranscriptIsAccepted ResultIsTrue
PROPERTIES CancelStopsAgent Closes

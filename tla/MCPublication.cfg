SPECIFICATION Spec
CONSTANTS
  None = None
  Paths = {"fixture", "other", "third"}
  Fixture = "fixture"
  Allowed = {"fixture", "other"}
  Contents = {"A", "B", "ABSENT"}
  Engines = {"fixture", "codex", "code"}
  Targets = {"B", "ABSENT"}
  MaxOutside = 2
  MaxCommits = 3
  MaxPublications = 2
INVARIANTS
  ResultsValidate
  PublishedBounded
  PublishedWasValidated
  StraysExplained
CHECK_DEADLOCK FALSE

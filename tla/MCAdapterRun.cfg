CONSTANTS
  Streams = {"stdout"}
  PromptSize = 2
  PipeSize = 1
  Limit = 1
  MaxOutput = 2
  Modes = {"prepare", "preflight", "execute-read-only", "execute-workspace-write"}
  Launches = {TRUE, FALSE}
  Versions = 2
SPECIFICATION Spec
CHECK_DEADLOCK FALSE
INVARIANTS CapturedWhole AcceptedStands DisabledStops
PROPERTY CallEnds

CONSTANTS
  Streams = {"stdout"}
  PromptSize = 2
  PipeSize = 1
  Limit = 1
  MaxOutput = 2
  Modes = {"execute-workspace-write"}
  Launches = {TRUE}
  Versions = 1
SPECIFICATION Spec
CHECK_DEADLOCK FALSE
INVARIANT RefusalHasCause

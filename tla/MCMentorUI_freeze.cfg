\* Clips out of the browser's cache load faster than a crossfade.
SPECIFICATION MentorSpec
CONSTANTS
  Steps <- AllSteps
  ClipTicks = 9
  PauseDelay = 3
  IdleLead = 3
  RevealDelay = 4
  AckDelay = 4
  LoadTimes = {1, 4}
  MayFail = {}
  Accepted <- TakenWords
CHECK_DEADLOCK FALSE
PROPERTIES
  SafetyNetFires

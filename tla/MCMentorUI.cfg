\* Clips take longer to load than a crossfade takes; the idle clip may be missing.
SPECIFICATION MentorSpec
CONSTANTS
  Steps <- AllSteps
  ClipTicks = 9
  PauseDelay = 3
  IdleLead = 3
  RevealDelay = 4
  AckDelay = 4
  LoadTimes = {4, 7}
  MayFail = {"idle"}
  Accepted <- TakenWords
CHECK_DEADLOCK FALSE
INVARIANTS
  MentorTypeOK
  DriverNotPaused
  OneVoice
PROPERTIES
  FollowsScript
  MentorGoesOn

\* A student who answers with the chips on offer.
SPECIFICATION MentorSpec
CONSTANTS
  Steps <- AllSteps
  ClipTicks = 9
  PauseDelay = 3
  IdleLead = 3
  RevealDelay = 4
  AckDelay = 4
  LoadTimes = {4}
  MayFail = {}
  Accepted <- TakenWords
CHECK_DEADLOCK FALSE
INVARIANTS
  OffersAreAccepted

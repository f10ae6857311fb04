\* The scheduler's check and one an admin asks for at the same time.
SPECIFICATION PipelineSpec
CONSTANTS
  cs = cs
  matric = matric
  inter = inter
  pct60 = pct60
  pct60half = pct60half
  pct65 = pct65
  Programs = {cs}
  Fields = {matric, inter}
  Values = {blank, pct60, pct60half, pct65}
  Blank = blank
  NotFound = not_found
  Null = null
  Summaries <- Texts
  LastDay = 1
  MaxLead = 0
  MaxDrafts = 2
  Reviewers = {r1}
  Checkers = {scheduler, admin}
  SeedRules <- Seed
  Incoming <- Found
  Sources <- OnePage
  Contents <- PageContents
  Near <- Noise
CHECK_DEADLOCK FALSE
INVARIANT
  PendingUnique

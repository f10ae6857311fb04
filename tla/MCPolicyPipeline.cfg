\* One check at a time, one review request at a time, two pages.
SPECIFICATION PipelineSpec
CONSTANTS
  cs = cs
  matric = matric
  inter = inter
  pct60 = pct60
  pct60half = pct60half
  pct65 = pct65
  Programs = {cs}
  Fields = {matric, inter}
  Values = {blank, pct60, pct60half, pct65}
  Blank = blank
  NotFound = not_found
  Null = null
  Summaries <- Texts
  LastDay = 1
  MaxLead = 0
  MaxDrafts = 4
  Reviewers = {r1}
  Checkers = {scheduler}
  SeedRules <- Seed
  Incoming <- Found
  Sources <- TwoPages
  Contents <- PageContents
  Near <- Noise
CHECK_DEADLOCK FALSE
INVARIANTS
  PipelineTypeOK
  PendingUnique
  EveryDiffIsRecorded
  ApprovalSettlesPage
PROPERTIES
  ReviewSafety
  ChecksFinish

\* Two requests at a time over two drafts and two days: every interleaving of
\* approvals and rejections of the same draft and of two drafts of one program.
SPECIFICATION Spec
CONSTANTS
  cs = cs
  ds = ds
  matric = matric
  inter = inter
  pct60 = pct60
  pct65 = pct65
  Programs = {cs, ds}
  Fields = {matric, inter}
  Values = {blank, pct60, pct65}
  Blank = blank
  NotFound = not_found
  Null = null
  Summaries = {"changed"}
  LastDay = 1
  MaxLead = 1
  MaxDrafts = 2
  Reviewers = {r1, r2}
  SeedRules <- Seed
  Incoming <- AllPages
CHECK_DEADLOCK FALSE
INVARIANTS
  TypeOK
  RuleTracesToReview
  ApprovedPointsToOwnRule
  NoBlankRequirement
  EndsMeetBegins
PROPERTIES
  CoverageKept
  RulesAreVersioned
  RequestsFinish

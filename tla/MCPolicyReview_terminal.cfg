\* Two requests for the same draft.
SPECIFICATION Spec
CONSTANTS
  cs = cs
  ds = ds
  matric = matric
  inter = inter
  pct60 = pct60
  pct65 = pct65
  Programs = {cs}
  Fields = {matric, inter}
  Values = {blank, pct60, pct65}
  Blank = blank
  NotFound = not_found
  Null = null
  Summaries = {"changed"}
  LastDay = 1
  MaxLead = 1
  MaxDrafts = 2
  Reviewers = {r1, r2}
  SeedRules <- Seed
  Incoming <- Pages
CHECK_DEADLOCK FALSE
PROPERTY
  TerminalStatus

\* One request at a time, but an approval may be dated tomorrow.
SPECIFICATION Spec
CONSTANTS
  cs = cs
  ds = ds
  matric = matric
  inter = inter
  pct60 = pct60
  pct65 = pct65
  Programs = {cs}
  Fields = {matric, inter}
  Values = {blank, pct60, pct65}
  Blank = blank
  NotFound = not_found
  Null = null
  Summaries = {"changed"}
  LastDay = 2
  MaxLead = 1
  MaxDrafts = 2
  Reviewers = {r1}
  SeedRules <- Seed
  Incoming <- Pages
CHECK_DEADLOCK FALSE
INVARIANT
  OneOpenVersion

\* One request, no change of the rules, a model that may answer anything.
SPECIFICATION RecommendSpec
CONSTANTS
  pct60 = pct60
  pct80 = pct80
  tech = tech
  maths = maths
  Programs = {1, 2, 3}
  Fields <- Columns
  Values = {blank, pct60, pct80, tech, maths}
  Blank = blank
  NotFound = not_found
  Null = null
  Summaries = {"changed"}
  LastDay = 0
  MaxLead = 0
  MaxDrafts = 0
  SeedRules <- Seed
  Incoming <- Found
  Words <- Vocabulary
  Fold <- LowerCase
  Cut <- AtCommas
  Alphabet <- InAlphabet
  NoWord = ""
  Minimum <- Marks
  Listed <- Lists
  Catalogue <- Shelf
  TopN = 2
  Requests = {q1}
  Reviewers = {r1}
  Students <- Applicants
  Replies <- Said
CHECK_DEADLOCK FALSE
PROPERTIES
  ExplanationNeverFails

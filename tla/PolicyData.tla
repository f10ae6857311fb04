------------------------------ MODULE PolicyData ------------------------------
(***************************************************************************)
(* The two tables behind the admission policy, and the pure parts of       *)
(* app/policy/service.py that read and rewrite them: which rule is in      *)
(* force on a day, what an approval does to the rows, what a rejection     *)
(* does.  No variables: the modules that hold the tables apply these       *)
(* operators to them.                                                      *)
(*                                                                         *)
(* A row's id is its position in the table's sequence.  Dates are day      *)
(* numbers.  What a rule demands is a function from the four demand        *)
(* columns (min_matric_pct, min_inter_pct, allowed_streams,                *)
(* required_subjects; the instances keep one or two of them) to a value;   *)
(* Blank is the falsy value of a column (0 or []), which demands nothing,  *)
(* and NotFound is what the scraper reports for a column it did not find.  *)
(***************************************************************************)
EXTENDS Integers, Sequences

CONSTANTS
  Programs,   \* rows of the programs table
  Fields,     \* the demand columns of admission_rules
  Values,     \* what a demand column can hold, Blank included
  Blank,      \* 0 or []: the column demands nothing
  NotFound,   \* the scraper did not find the column on the page
  Summaries,  \* the texts policy_drafts.diff_summary can hold
  Null,       \* SQL NULL
  LastDay,    \* the last day of the calendar (bound of the instance)
  SeedRules   \* admission_rules as the operators first filled it by hand

ASSUME BlankAssumption == Blank \in Values
ASSUME NotFoundAssumption == NotFound \notin Values
ASSUME NullAssumption == Null \notin Int /\ Null \notin Programs
ASSUME LastDayAssumption == LastDay \in Nat

Days == 0 .. LastDay

-------------------------------------------------------------------------------
(***************************************************************************)
(* Rows.                                                                   *)
(***************************************************************************)
Demands == [Fields -> Values]
Scraped == [Fields -> (Values \ {Blank}) \cup {NotFound}]

\* admission_rules.  origin is not a column: it records the draft whose
\* approval inserted the row, 0 for a row that was seeded by hand.
AdmissionRule ==
  [ program : Programs,
    demands : Demands,
    effective_from : Days,
    effective_to : {-1} \cup Days \cup {Null},
    origin : Nat ]

\* policy_drafts.  program Null is a page that belongs to no program yet;
\* created_rule 0 stands for a NULL created_rule_id.
PolicyDraft ==
  [ program : Programs \cup {Null},
    scraped : Scraped,
    summary : Summaries,
    status : {"pending", "approved", "rejected"},
    created_rule : Nat ]

ASSUME SeedAssumption ==
  /\ SeedRules \in Seq(AdmissionRule)
  /\ \A i \in DOMAIN SeedRules : SeedRules[i].origin = 0

\* The rows persist_drafts() inserts.
NewDraft == { d \in PolicyDraft : d.status = "pending" /\ d.created_rule = 0 }

-------------------------------------------------------------------------------
(***************************************************************************)
(* Which rules are in force.  The same filter stands in is_rule_active(),  *)
(* get_active_rule_rows(), build_live_snapshot_map() and approve_draft().  *)
(***************************************************************************)
IsActive(rule, day) ==
  /\ rule.effective_from <= day
  /\ rule.effective_to = Null \/ rule.effective_to >= day

ActiveRules(rules, program, day) ==
  { i \in DOMAIN rules : rules[i].program = program /\ IsActive(rules[i], day) }

-------------------------------------------------------------------------------
(***************************************************************************)
(* approve_draft(), the rows it leaves behind.  live is the id of the rule *)
(* the SELECT found, 0 for none.                                           *)
(***************************************************************************)
\* A slip the runs must notice: the columns the page lacks are dropped.
MergedNoFallback(scraped, rules, live) ==
  [ f \in Fields |-> IF scraped[f] # NotFound THEN scraped[f] ELSE Blank ]

\* Another: the rule in force wins over the page.
MergedKeepsLive(scraped, rules, live) ==
  [ f \in Fields |->
      IF live # 0 THEN rules[live].demands[f]
      ELSE IF scraped[f] # NotFound THEN scraped[f] ELSE Blank ]

\* "scraped.get(f) or (live_rule.f if live_rule else 0)", column by column.
MergedDemands(scraped, rules, live) ==
  [ f \in Fields |->
      IF scraped[f] # NotFound THEN scraped[f]
      ELSE IF live # 0 THEN rules[live].demands[f] ELSE Blank ]

NewRule(drafts, id, rules, live, effective) ==
  [ program |-> drafts[id].program,
    demands |-> MergedDemands(drafts[id].scraped, rules, live),
    effective_from |-> effective,
    effective_to |-> Null,
    origin |-> id ]

\* Two slips in the date arithmetic the runs must notice.
CloseTooEarly(rules, live, effective) ==
  IF live = 0 THEN rules
  ELSE [rules EXCEPT ![live].effective_to = effective - 2]

CloseOneDayLate(rules, live, effective) ==
  IF live = 0 THEN rules
  ELSE [rules EXCEPT ![live].effective_to = effective]

\* Step 3 of approve_draft(): the live rule ends the day before.
CloseLive(rules, live, effective) ==
  IF live = 0 THEN rules
  ELSE [rules EXCEPT ![live].effective_to = effective - 1]

\* A slip: the id is taken before the flush that makes it.
DraftsBeforeFlush(drafts, id, rules) ==
  [drafts EXCEPT ![id].status = "approved",
                 ![id].created_rule = Len(rules)]

\* Step 5: status and the pointer to the new row, the last of the table.
DraftsAfterApproval(drafts, id, rules) ==
  [drafts EXCEPT ![id].status = "approved",
                 ![id].created_rule = Len(rules) + 1]

\* reject_draft(): the UPDATE names the review columns alone, so a
\* created_rule_id another session wrote in the meantime stays.
DraftsAfterRejection(drafts, id) == [drafts EXCEPT ![id].status = "rejected"]
===============================================================================

------------------------------ MODULE ReviewDesk ------------------------------
(***************************************************************************)
(* What the review service of app/policy/service.py promises, with every   *)
(* request as one indivisible step: a pending draft is decided once, by an *)
(* approval that closes the rule in force and puts the draft's rule in its *)
(* place, or by a rejection that touches no rule.  A request takes time in *)
(* the program, so the rule an approval closes is one that was in force on *)
(* the day the request read, today or earlier.                             *)
(***************************************************************************)
EXTENDS PolicyData

CONSTANTS
  MaxLead,    \* how far ahead of today an approval may be dated (bound)
  MaxDrafts,  \* drafts in the table (bound)
  Incoming    \* the drafts a policy check may hand over, all pending

ASSUME MaxLeadAssumption == MaxLead \in Nat
ASSUME MaxDraftsAssumption == MaxDrafts \in Nat
ASSUME IncomingAssumption == Incoming \subseteq NewDraft

VARIABLES
  today,   \* what date.today() returns
  rules,   \* the admission_rules table
  drafts   \* the policy_drafts table

deskVars == <<today, rules, drafts>>

IsPending(id) == drafts[id].status = "pending"

DeskInit == today = 0 /\ rules = SeedRules /\ drafts = <<>>

\* persist_drafts(): one commit appends the batch a check came up with.
SubmitDrafts(batch) ==
  /\ Len(drafts) + Len(batch) <= MaxDrafts
  /\ drafts' = drafts \o batch
  /\ UNCHANGED <<today, rules>>

\* A slip the runs must notice: the rule in force is overwritten.
ApproveInPlace(id, effective, day) ==
  /\ IsPending(id) /\ drafts[id].program # Null
  /\ LET active == ActiveRules(rules, drafts[id].program, day) IN
     \E live \in IF active = {} THEN {0} ELSE active :
        rules' = IF live = 0 THEN Append(rules, NewRule(drafts, id, rules, live, effective))
                 ELSE [rules EXCEPT ![live] = NewRule(drafts, id, rules, live, effective)]
  /\ drafts' = DraftsAfterApproval(drafts, id, rules)
  /\ UNCHANGED today

\* live = 0 when no rule of the program was in force on the day read.
Approve(id, effective, day) ==
  /\ IsPending(id) /\ drafts[id].program # Null
  /\ LET active == ActiveRules(rules, drafts[id].program, day) IN
     \E live \in IF active = {} THEN {0} ELSE active :
        rules' = Append(CloseLive(rules, live, effective),
                        NewRule(drafts, id, rules, live, effective))
  /\ drafts' = DraftsAfterApproval(drafts, id, rules)
  /\ UNCHANGED today

Reject(id) ==
  /\ IsPending(id)
  /\ drafts' = DraftsAfterRejection(drafts, id)
  /\ UNCHANGED <<today, rules>>

Midnight ==
  /\ today < LastDay
  /\ today' = today + 1
  /\ UNCHANGED <<rules, drafts>>

\* The dates an approval may carry on a given day.
Dates(day) == { d \in Days : d <= day + MaxLead }

DeskNext ==
  \/ \E n \in 1 .. MaxDrafts : \E batch \in [1 .. n -> Incoming] : SubmitDrafts(batch)
  \/ \E id \in DOMAIN drafts : \E day \in 0 .. today : \E effective \in Dates(today) :
       Approve(id, effective, day)
  \/ \E id \in DOMAIN drafts : Reject(id)
  \/ Midnight

DeskSpec == DeskInit /\ [][DeskNext]_deskVars
===============================================================================

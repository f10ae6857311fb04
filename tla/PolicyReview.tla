----------------------------- MODULE PolicyReview -----------------------------
(***************************************************************************)
(* approve_draft() and reject_draft() of app/policy/service.py as the      *)
(* server runs them: each request in a thread and a database session of    *)
(* its own (PostgreSQL, READ COMMITTED), so that what a request read may   *)
(* have changed by the time it writes.  No row is read FOR UPDATE and no   *)
(* row has a version: the only thing that makes a request wait is the lock *)
(* a flushed UPDATE holds on its row until the transaction ends.           *)
(***************************************************************************)
EXTENDS ReviewDesk

CONSTANT Reviewers  \* the requests that may be under way at once

VARIABLE sess  \* Reviewer -> the request it is serving and what it has read

vars == <<today, rules, drafts, sess>>

Request(pc, draft, effective, live, old) ==
  [pc |-> pc, draft |-> draft, effective |-> effective, live |-> live, old |-> old]
Idle == Request("idle", 0, 0, 0, Null)

\* draft: the id in the URL; effective: the date in the body; live, old: the
\* rule the SELECT of step 3 returned (0: none) and its effective_to then.
Session ==
  [ pc : {"idle", "approve", "read", "flushed", "reject"},
    draft : Nat,
    effective : Days,
    live : Nat,
    old : {-1} \cup Days \cup {Null} ]

Init == DeskInit /\ sess = [s \in Reviewers |-> Idle]

-------------------------------------------------------------------------------
(***************************************************************************)
(* Approve.                                                                *)
(***************************************************************************)
\* The draft is read and passes the three guards; a request that fails one
\* of them raises and changes nothing.
ApproveBegin(s, id, effective) ==
  /\ sess[s].pc = "idle"
  /\ IsPending(id) /\ drafts[id].program # Null
  /\ sess' = [sess EXCEPT ![s] = Request("approve", id, effective, 0, Null)]
  /\ UNCHANGED deskVars

\* SELECT ... .first() without ORDER BY: any rule in force will do.
ReadLive(s) ==
  LET r == sess[s]
      active == ActiveRules(rules, drafts[r.draft].program, today) IN
  /\ r.pc = "approve"
  /\ \/ /\ active = {}
        /\ sess' = [sess EXCEPT ![s] = Request("read", r.draft, r.effective, 0, Null)]
     \/ \E live \in active :
          sess' = [sess EXCEPT ![s] = Request("read", r.draft, r.effective, live,
                                              rules[live].effective_to)]
  /\ UNCHANGED deskVars

\* The ORM sends an UPDATE only if the attribute differs from what it read.
Writes(s) == sess[s].live # 0 /\ sess[s].old # sess[s].effective - 1

\* A slip: both requests hold the row they read and wait for the other.
LocksFromRead(s, rule) ==
  sess[s].pc \in {"read", "flushed"} /\ Writes(s) /\ sess[s].live = rule

\* The lock on a rule's row is held from the UPDATE to the end of the transaction.
Locks(s, rule) == sess[s].pc = "flushed" /\ Writes(s) /\ sess[s].live = rule

\* db.flush(): INSERT of the new rule, UPDATE of the live one.
Flush(s) ==
  /\ sess[s].pc = "read"
  /\ Writes(s) => ~ \E t \in Reviewers \ {s} : Locks(t, sess[s].live)
  /\ sess' = [sess EXCEPT ![s].pc = "flushed"]
  /\ UNCHANGED deskVars

\* Two slips: the status of the draft is forgotten; the live row is
\* rewritten in place of a new version.
CommitUnmarked(s) ==
  LET r == sess[s] IN
  /\ r.pc = "flushed"
  /\ rules' = Append(IF Writes(s) THEN CloseLive(rules, r.live, r.effective) ELSE rules,
                     NewRule(drafts, r.draft, rules, r.live, r.effective))
  /\ sess' = [sess EXCEPT ![s] = Idle]
  /\ UNCHANGED <<today, drafts>>

CommitInPlace(s) ==
  LET r == sess[s] IN
  /\ r.pc = "flushed" /\ r.live # 0
  /\ rules' = [rules EXCEPT ![r.live] =
                 NewRule(drafts, r.draft, rules, r.live, r.effective)]
  /\ drafts' = DraftsAfterApproval(drafts, r.draft, rules)
  /\ sess' = [sess EXCEPT ![s] = Idle]
  /\ UNCHANGED today

\* Step 5 and db.commit(): both tables change at once.  The UPDATE of the
\* draft says WHERE id = ... alone, whatever its status is by now.
CommitApprove(s) ==
  LET r == sess[s] IN
  /\ r.pc = "flushed"
  /\ rules' = Append(IF Writes(s) THEN CloseLive(rules, r.live, r.effective) ELSE rules,
                     NewRule(drafts, r.draft, rules, r.live, r.effective))
  /\ drafts' = DraftsAfterApproval(drafts, r.draft, rules)
  /\ sess' = [sess EXCEPT ![s] = Idle]
  /\ UNCHANGED today

-------------------------------------------------------------------------------
(***************************************************************************)
(* Reject, and a request that ends without a commit.                       *)
(***************************************************************************)
RejectBegin(s, id) ==
  /\ sess[s].pc = "idle"
  /\ IsPending(id)
  /\ sess' = [sess EXCEPT ![s] = Request("reject", id, 0, 0, Null)]
  /\ UNCHANGED deskVars

CommitReject(s) ==
  /\ sess[s].pc = "reject"
  /\ drafts' = DraftsAfterRejection(drafts, sess[s].draft)
  /\ sess' = [sess EXCEPT ![s] = Idle]
  /\ UNCHANGED <<today, rules>>

\* The database refuses a statement or the server dies: get_db() closes the
\* session, the transaction rolls back and its locks go.
Abort(s) ==
  /\ sess[s].pc # "idle"
  /\ sess' = [sess EXCEPT ![s] = Idle]
  /\ UNCHANGED deskVars

-------------------------------------------------------------------------------
Environment ==
  /\ UNCHANGED sess
  /\ \/ Midnight
     \/ \E n \in 1 .. MaxDrafts : \E batch \in [1 .. n -> Incoming] : SubmitDrafts(batch)

Review(s) ==
  \/ \E id \in DOMAIN drafts :
       \/ \E effective \in Dates(today) : ApproveBegin(s, id, effective)
       \/ RejectBegin(s, id)
  \/ ReadLive(s) \/ Flush(s) \/ CommitApprove(s) \/ CommitReject(s) \/ Abort(s)

Next == Environment \/ \E s \in Reviewers : Review(s)

\* A thread that is serving a request keeps running, and the database queues
\* the transactions that wait for a row, so that a wait does not last for ever.
Fairness ==
  \A s \in Reviewers :
    /\ WF_vars(ReadLive(s)) /\ SF_vars(Flush(s))
    /\ WF_vars(CommitApprove(s)) /\ WF_vars(CommitReject(s))

Spec == Init /\ [][Next]_vars /\ Fairness

-------------------------------------------------------------------------------
(***************************************************************************)
(* Invariants.                                                             *)
(***************************************************************************)
\* Both tables and every request have the columns and the values they may have.
TypeOK ==
  /\ today \in Days
  /\ rules \in Seq(AdmissionRule)
  /\ drafts \in Seq(PolicyDraft)
  /\ sess \in [Reviewers -> Session]

\* "approve_draft() is the ONLY place that writes to admission_rules": every
\* rule that was not seeded comes from a reviewed draft of its own program,
\* however requests for the same draft interleave.
RuleTracesToReview ==
  \A i \in DOMAIN rules : rules[i].origin # 0 =>
    /\ rules[i].origin \in DOMAIN drafts
    /\ drafts[rules[i].origin].status # "pending"
    /\ drafts[rules[i].origin].program = rules[i].program

\* created_rule_id of an approved draft is a rule made from that very draft,
\* also when the draft was approved twice and the other request committed
\* between this one's flush and its commit.
ApprovedPointsToOwnRule ==
  \A id \in DOMAIN drafts : drafts[id].status = "approved" =>
    /\ drafts[id].created_rule \in DOMAIN rules
    /\ rules[drafts[id].created_rule].origin = id

\* A page on which the scraper finds no minimum must not lower the bar: if
\* the operators seeded a program with rules that demand something in every
\* column, one of them open from the first day, then no rule approval ever
\* inserts demands nothing in a column, although each approval looks for the
\* rule it falls back on in a table that other requests are rewriting.
Complete(rule) == \A f \in Fields : rule.demands[f] # Blank
Protected ==
  { p \in Programs :
      /\ \A i \in DOMAIN SeedRules : SeedRules[i].program = p => Complete(SeedRules[i])
      /\ \E i \in ActiveRules(SeedRules, p, 0) : SeedRules[i].effective_to = Null }
NoBlankRequirement ==
  \A i \in DOMAIN rules : rules[i].program \in Protected => Complete(rules[i])

\* "old row gets effective_to set, new row added": an end date that was not seeded
\* is the eve of a later version of the same program, with no gap and no overlap
\* between the two, although requests that read a row before another one closed
\* it go on to close it again, or find there the end they would set and leave it.
EndsMeetBegins ==
  \A i \in DOMAIN rules :
    \/ rules[i].effective_to = Null
    \/ i \in DOMAIN SeedRules /\ rules[i].effective_to = SeedRules[i].effective_to
    \/ \E j \in i + 1 .. Len(rules) :
         /\ rules[j].program = rules[i].program
         /\ rules[j].effective_from = rules[i].effective_to + 1

\* A program never has two rules in force on the same day, from today on:
\* build_live_snapshot_map() keeps one rule per program, approve_draft()
\* closes one, and main.py would put a student in both answer lists.
OneRuleInForce ==
  \A p \in Programs : \A day \in today .. LastDay :
    \A i, j \in ActiveRules(rules, p, day) : i = j

\* "old row gets effective_to set, new row added" and "null = currently
\* active": one version of a program's rule at most is open.  It fails as soon
\* as two approvals are dated in the future: the second one closes the rule of
\* today again and leaves the first one's open.
OneOpenVersion ==
  \A i, j \in DOMAIN rules :
    (/\ rules[i].program = rules[j].program
     /\ rules[i].effective_to = Null /\ rules[j].effective_to = Null) => i = j

\* An approved change outlives the approvals after it: in every column the
\* rule in force today demands what the latest approved page showed that had
\* something to say on the column.  It rests on step 3 reading the rule that
\* the approval just before it left, which a second request under way or a
\* date in the future would both prevent.
NoApprovedChangeLost ==
  \A p \in Programs, f \in Fields :
    LET Shown(k) == /\ rules[k].program = p /\ rules[k].origin # 0
                    /\ drafts[rules[k].origin].scraped[f] # NotFound IN
    \A k \in DOMAIN rules :
      (Shown(k) /\ \A later \in k + 1 .. Len(rules) : ~ Shown(later)) =>
         \A i \in ActiveRules(rules, p, today) : rules[i].demands[f] = rules[k].demands[f]

-------------------------------------------------------------------------------
(***************************************************************************)
(* Action properties.                                                      *)
(***************************************************************************)
\* No step takes from a program the rule of a day: whatever the dates of the
\* approvals and the order their transactions commit in, a day on which some
\* rule of the program is in force stays such a day.
Covered(table, p, day) == ActiveRules(table, p, day) # {}
CoverageKept ==
  [][\A p \in Programs, day \in Days :
       Covered(rules, p, day) => Covered(rules', p, day)]_vars

\* "Versioned.  Never overwrite": a rule keeps all but its effective_to, and
\* no row of the table goes.
RulesAreVersioned ==
  [][/\ Len(rules') >= Len(rules)
     /\ \A i \in DOMAIN rules :
          rules'[i] = [rules[i] EXCEPT !.effective_to = rules'[i].effective_to]]_vars

\* "approved -> (terminal), rejected -> (terminal)": a decided draft stays as
\* it was decided.
TerminalStatus ==
  [][\A id \in DOMAIN drafts :
       drafts[id].status # "pending" => drafts'[id].status = drafts[id].status]_vars

-------------------------------------------------------------------------------
(***************************************************************************)
(* Liveness.                                                               *)
(***************************************************************************)
\* Requests never wait for one another in a circle, nor for a request that
\* died: each that begins ends, by its commit or by its rollback.
RequestsFinish ==
  \A s \in Reviewers : sess[s].pc # "idle" ~> sess[s].pc = "idle"
===============================================================================

-------------------------- MODULE PolicyReviewProofs --------------------------
(***************************************************************************)
(* What holds of PolicyReview for every set of programs, columns, values,  *)
(* seeded rules, incoming drafts and requests.                             *)
(***************************************************************************)
EXTENDS PolicyReview, SequenceTheorems, TLAPS

USE DEF Days

-------------------------------------------------------------------------------
(***************************************************************************)
(* What the writes to the two tables leave behind.                         *)
(***************************************************************************)
\* Closing a rule touches the effective_to of that row alone.
LEMMA CloseLiveEffect ==
  ASSUME NEW table \in Seq(AdmissionRule), NEW live \in {0} \cup DOMAIN table,
         NEW effective \in Days
  PROVE  /\ CloseLive(table, live, effective) \in Seq(AdmissionRule)
         /\ Len(CloseLive(table, live, effective)) = Len(table)
         /\ \A i \in DOMAIN table :
              CloseLive(table, live, effective)[i] =
                IF i = live THEN [table[i] EXCEPT !.effective_to = effective - 1]
                ELSE table[i]
<1>1. CASE live = 0
  BY <1>1, LenProperties DEF CloseLive
<1>2. CASE live # 0
  <2>1. live \in 1 .. Len(table) /\ table[live] \in AdmissionRule
    BY <1>2, LenProperties, ElementOfSeq
  <2>2. effective - 1 \in {-1} \cup Days
    BY LastDayAssumption
  <2>3. [table[live] EXCEPT !.effective_to = effective - 1] \in AdmissionRule
    BY <2>1, <2>2 DEF AdmissionRule
  <2>4. CloseLive(table, live, effective) =
          [table EXCEPT ![live] = [table[live] EXCEPT !.effective_to = effective - 1]]
    BY <1>2 DEF CloseLive
  <2>5. QED
    BY <2>1, <2>3, <2>4, ExceptSeq, LenProperties
<1>3. QED
  BY <1>1, <1>2

\* The row an approval inserts has the columns a rule must have.
LEMMA NewRuleType ==
  ASSUME NEW papers \in Seq(PolicyDraft), NEW id \in DOMAIN papers,
         papers[id].program # Null,
         NEW table \in Seq(AdmissionRule), NEW live \in {0} \cup DOMAIN table,
         NEW effective \in Days
  PROVE  NewRule(papers, id, table, live, effective) \in AdmissionRule
<1>1. papers[id] \in PolicyDraft /\ id \in Nat
  BY LenProperties, ElementOfSeq
<1>2. papers[id].program \in Programs /\ papers[id].scraped \in Scraped
  BY <1>1 DEF PolicyDraft
<1>3. live # 0 => table[live].demands \in Demands
  <2>1. live # 0 => table[live] \in AdmissionRule
    BY LenProperties, ElementOfSeq
  <2>2. QED
    BY <2>1 DEF AdmissionRule
<1>4. MergedDemands(papers[id].scraped, table, live) \in Demands
  <2>1. \A f \in Fields :
          papers[id].scraped[f] # NotFound => papers[id].scraped[f] \in Values
    BY <1>2 DEF Scraped
  <2>2. \A f \in Fields : live # 0 => table[live].demands[f] \in Values
    BY <1>3 DEF Demands
  <2>3. QED
    BY <2>1, <2>2, BlankAssumption DEF MergedDemands, Demands
<1>5. QED
  BY <1>1, <1>2, <1>4 DEF NewRule, AdmissionRule

\* A batch of drafts is appended behind the drafts that are there.
LEMMA SubmitEffect ==
  ASSUME drafts \in Seq(PolicyDraft), NEW n \in 1 .. MaxDrafts, NEW batch \in [1 .. n -> Incoming],
         SubmitDrafts(batch)
  PROVE  /\ drafts' \in Seq(PolicyDraft)
         /\ DOMAIN drafts \subseteq DOMAIN drafts'
         /\ \A id \in DOMAIN drafts : drafts'[id] = drafts[id]
         /\ \A id \in DOMAIN drafts' : id \notin DOMAIN drafts => drafts'[id] \in NewDraft
         /\ rules' = rules
<1>1. batch \in Seq(NewDraft) /\ Len(batch) = n
  <2>1. batch \in [1 .. n -> NewDraft]
    BY IncomingAssumption
  <2>2. n \in Nat
    BY MaxDraftsAssumption
  <2>3. QED
    BY <2>1, <2>2
<1>2. batch \in Seq(PolicyDraft)
  BY <1>1, SeqMonotonic DEF NewDraft
<1>3. drafts \in Seq(PolicyDraft) /\ drafts' = drafts \o batch /\ rules' = rules
  BY DEF SubmitDrafts
<1>4. /\ drafts' \in Seq(PolicyDraft)
      /\ Len(drafts') = Len(drafts) + Len(batch)
      /\ \A i \in 1 .. Len(drafts) + Len(batch) :
           drafts'[i] = IF i <= Len(drafts) THEN drafts[i] ELSE batch[i - Len(drafts)]
  BY <1>2, <1>3, ConcatProperties
<1>5. /\ DOMAIN drafts = 1 .. Len(drafts) /\ DOMAIN drafts' = 1 .. Len(drafts')
      /\ Len(drafts) \in Nat /\ Len(batch) \in Nat
  BY <1>1, <1>3, <1>4, LenProperties
<1>6. \A i \in 1 .. Len(batch) : batch[i] \in NewDraft
  BY <1>1, ElementOfSeq
<1>7. QED
  BY <1>3, <1>4, <1>5, <1>6

\* Marking a draft leaves a draft.
LEMMA ApprovedDraftType ==
  ASSUME NEW draft \in PolicyDraft, NEW rule \in Nat
  PROVE  [draft EXCEPT !.status = "approved", !.created_rule = rule] \in PolicyDraft
BY DEF PolicyDraft

-------------------------------------------------------------------------------
(***************************************************************************)
(* Type correctness.  The tables keep their types because a request that   *)
(* writes names a draft with a program and a rule that exists: the two     *)
(* invariants hold together or not at all.                                 *)
(***************************************************************************)
\* A request that is under way names rows that exist: a draft, which has a
\* program if the request approves it, and a rule of that program once it has
\* read one.
NamesRows(r) ==
  /\ r.pc # "idle" => r.draft \in DOMAIN drafts
  /\ r.pc \in {"approve", "read", "flushed"} => drafts[r.draft].program # Null
  /\ r.pc \in {"read", "flushed"} /\ r.live # 0 =>
       /\ r.live \in DOMAIN rules
       /\ rules[r.live].program = drafts[r.draft].program
SessionsPointAtRows == \A s \in Reviewers : NamesRows(sess[s])

RowsInv == TypeOK /\ SessionsPointAtRows

\* What a session-only step may leave in the session it changes.
LEMMA IdleType == Idle \in Session
BY LastDayAssumption DEF Idle, Request, Session

\* An approval that commits appends one rule, closes at most the rule it
\* read, and marks its draft.
LEMMA CommitApproveEffect ==
  ASSUME RowsInv, NEW s \in Reviewers, CommitApprove(s)
  PROVE  /\ sess[s].draft \in DOMAIN drafts
         /\ sess[s].live \in {0} \cup DOMAIN rules
         /\ rules' \in Seq(AdmissionRule)
         /\ Len(rules') = Len(rules) + 1
         /\ \A i \in DOMAIN rules :
              rules'[i] = IF i = sess[s].live /\ Writes(s)
                          THEN [rules[i] EXCEPT !.effective_to = sess[s].effective - 1]
                          ELSE rules[i]
         /\ rules'[Len(rules) + 1] =
              NewRule(drafts, sess[s].draft, rules, sess[s].live, sess[s].effective)
         /\ drafts' \in Seq(PolicyDraft)
         /\ Len(drafts') = Len(drafts)
         /\ \A id \in DOMAIN drafts :
              drafts'[id] = IF id = sess[s].draft
                            THEN [drafts[id] EXCEPT !.status = "approved",
                                                    !.created_rule = Len(rules) + 1]
                            ELSE drafts[id]
<1> DEFINE r == sess[s]
           closed == IF Writes(s) THEN CloseLive(rules, r.live, r.effective) ELSE rules
           new == NewRule(drafts, r.draft, rules, r.live, r.effective)
<1>1. r \in Session /\ r.pc = "flushed"
  BY DEF RowsInv, TypeOK, CommitApprove
<1>2. /\ rules \in Seq(AdmissionRule) /\ drafts \in Seq(PolicyDraft)
      /\ r.effective \in Days
  BY <1>1 DEF RowsInv, TypeOK, Session
<1>3. /\ r.draft \in DOMAIN drafts /\ drafts[r.draft].program # Null
      /\ r.live \in {0} \cup DOMAIN rules
  BY <1>1 DEF RowsInv, SessionsPointAtRows, NamesRows
<1>4. /\ closed \in Seq(AdmissionRule) /\ Len(closed) = Len(rules)
      /\ \A i \in DOMAIN rules :
           closed[i] = IF i = r.live /\ Writes(s)
                       THEN [rules[i] EXCEPT !.effective_to = r.effective - 1]
                       ELSE rules[i]
  <2>1. CASE Writes(s)
    <3>1. closed = CloseLive(rules, r.live, r.effective)
      BY <2>1
    <3>2. /\ closed \in Seq(AdmissionRule) /\ Len(closed) = Len(rules)
          /\ \A i \in DOMAIN rules :
               closed[i] = IF i = r.live
                           THEN [rules[i] EXCEPT !.effective_to = r.effective - 1]
                           ELSE rules[i]
      <4> DEFINE table == CloseLive(rules, r.live, r.effective)
      <4> HIDE DEF r
      <4>1. /\ table \in Seq(AdmissionRule) /\ Len(table) = Len(rules)
            /\ \A i \in DOMAIN rules :
                 table[i] = IF i = r.live
                            THEN [rules[i] EXCEPT !.effective_to = r.effective - 1]
                            ELSE rules[i]
        BY <1>2, <1>3, CloseLiveEffect
      <4> HIDE DEF table, closed
      <4>2. closed = table
        BY <3>1 DEF table
      <4>3. QED
        BY <4>1, <4>2
    <3> HIDE DEF closed, r
    <3>3. QED
      BY <2>1, <3>2
  <2>2. CASE ~ Writes(s)
    BY <1>2, <2>2
  <2>3. QED
    BY <2>1, <2>2
<1>5. new \in AdmissionRule
  BY <1>2, <1>3, NewRuleType
<1>6. rules' = Append(closed, new) /\ drafts' = DraftsAfterApproval(drafts, r.draft, rules)
  BY DEF CommitApprove
<1>7. /\ rules' \in Seq(AdmissionRule) /\ Len(rules') = Len(closed) + 1
      /\ \A i \in 1 .. Len(closed) : rules'[i] = closed[i]
      /\ rules'[Len(closed) + 1] = new
  <2> HIDE DEF closed, new
  <2>1. QED
    BY <1>4, <1>5, <1>6, AppendProperties
<1>8. DOMAIN rules = 1 .. Len(rules) /\ Len(rules) \in Nat
  BY <1>2, LenProperties
<1>9. /\ drafts' \in Seq(PolicyDraft) /\ Len(drafts') = Len(drafts)
      /\ \A id \in DOMAIN drafts :
           drafts'[id] = IF id = r.draft
                         THEN [drafts[id] EXCEPT !.status = "approved",
                                                 !.created_rule = Len(rules) + 1]
                         ELSE drafts[id]
  <2> DEFINE marked == [drafts[r.draft] EXCEPT !.status = "approved",
                                               !.created_rule = Len(rules) + 1]
  <2>1. r.draft \in 1 .. Len(drafts) /\ drafts[r.draft] \in PolicyDraft
    BY <1>2, <1>3, LenProperties, ElementOfSeq
  <2>2. marked \in PolicyDraft
    <3>1. Len(rules) + 1 \in Nat
      BY <1>8
    <3>2. QED
      BY <2>1, <3>1, ApprovedDraftType, Zenon
  <2>3. drafts' = [drafts EXCEPT ![r.draft] = marked]
    BY <1>6, <2>1 DEF DraftsAfterApproval, PolicyDraft
  <2> HIDE DEF marked
  <2>4. /\ drafts' \in Seq(PolicyDraft) /\ Len(drafts') = Len(drafts)
        /\ \A id \in 1 .. Len(drafts) :
             drafts'[id] = IF id = r.draft THEN marked ELSE drafts[id]
    BY <1>2, <2>1, <2>2, <2>3, ExceptSeq
  <2>5. QED
    BY <1>2, <2>4, LenProperties DEF marked
<1>10. QED
  BY <1>3, <1>4, <1>7, <1>8, <1>9

\* A rejection that commits changes the status of its draft and nothing else.
LEMMA CommitRejectEffect ==
  ASSUME RowsInv, NEW s \in Reviewers, CommitReject(s)
  PROVE  /\ sess[s].draft \in DOMAIN drafts
         /\ rules' = rules
         /\ drafts' \in Seq(PolicyDraft)
         /\ Len(drafts') = Len(drafts)
         /\ \A id \in DOMAIN drafts :
              drafts'[id] = IF id = sess[s].draft
                            THEN [drafts[id] EXCEPT !.status = "rejected"]
                            ELSE drafts[id]
<1> DEFINE id == sess[s].draft
           marked == [drafts[id] EXCEPT !.status = "rejected"]
<1>1. drafts \in Seq(PolicyDraft) /\ id \in DOMAIN drafts
  BY DEF RowsInv, TypeOK, SessionsPointAtRows, NamesRows, CommitReject
<1>2. id \in 1 .. Len(drafts) /\ drafts[id] \in PolicyDraft
  BY <1>1, LenProperties, ElementOfSeq
<1>3. marked \in PolicyDraft
  BY <1>2 DEF PolicyDraft
<1>4. drafts' = [drafts EXCEPT ![id] = marked] /\ rules' = rules
  BY <1>2 DEF CommitReject, DraftsAfterRejection, PolicyDraft
<1> HIDE DEF marked
<1>5. /\ drafts' \in Seq(PolicyDraft) /\ Len(drafts') = Len(drafts)
      /\ \A k \in 1 .. Len(drafts) : drafts'[k] = IF k = id THEN marked ELSE drafts[k]
  BY <1>1, <1>2, <1>3, <1>4, ExceptSeq
<1>6. QED
  BY <1>1, <1>4, <1>5, LenProperties DEF marked

-------------------------------------------------------------------------------
\* Rows stay: what a request named before a step still exists after it.
RowsStay ==
  /\ DOMAIN drafts \subseteq DOMAIN drafts'
  /\ \A id \in DOMAIN drafts : drafts'[id].program = drafts[id].program
  /\ DOMAIN rules \subseteq DOMAIN rules'
  /\ \A i \in DOMAIN rules : rules'[i].program = rules[i].program

\* A session that does not move still names rows that exist.
LEMMA NamesRowsStays ==
  ASSUME RowsStay, SessionsPointAtRows, NEW t \in Reviewers, sess'[t] = sess[t]
  PROVE  NamesRows(sess[t])'
<1>1. NamesRows(sess[t])
  BY DEF SessionsPointAtRows
<1>2. QED
  BY <1>1 DEF NamesRows, RowsStay

\* A session without a request names no row.
LEMMA NamesRowsIdle ==
  ASSUME NEW t \in Reviewers, sess'[t] = Idle
  PROVE  NamesRows(sess[t])'
BY DEF NamesRows, Idle, Request

\* A commit or a batch leaves every row where it was.
LEMMA CommitsKeepRows ==
  ASSUME RowsInv, [Next]_vars
  PROVE  RowsStay
<1>1. CASE UNCHANGED <<rules, drafts>>
  BY <1>1 DEF RowsStay
<1>2. ASSUME NEW n \in 1 .. MaxDrafts, NEW batch \in [1 .. n -> Incoming], SubmitDrafts(batch)
      PROVE  RowsStay
  BY <1>2, SubmitEffect DEF RowsStay, RowsInv, TypeOK
<1>3. ASSUME NEW s \in Reviewers, CommitApprove(s)
      PROVE  RowsStay
  <2>1. /\ rules \in Seq(AdmissionRule) /\ rules' \in Seq(AdmissionRule)
        /\ drafts \in Seq(PolicyDraft) /\ drafts' \in Seq(PolicyDraft)
        /\ Len(rules') = Len(rules) + 1 /\ Len(drafts') = Len(drafts)
    BY <1>3, CommitApproveEffect DEF RowsInv, TypeOK
  <2>2. /\ DOMAIN drafts = DOMAIN drafts'
        /\ DOMAIN rules \subseteq DOMAIN rules'
    BY <2>1, LenProperties
  <2>3. \A i \in DOMAIN rules : rules[i] \in AdmissionRule
    BY <2>1, LenProperties, ElementOfSeq
  <2>4. \A id \in DOMAIN drafts : drafts[id] \in PolicyDraft
    BY <2>1, LenProperties, ElementOfSeq
  <2>5. \A i \in DOMAIN rules : rules'[i].program = rules[i].program
    BY <1>3, <2>3, CommitApproveEffect DEF AdmissionRule
  <2>6. \A id \in DOMAIN drafts : drafts'[id].program = drafts[id].program
    BY <1>3, <2>4, CommitApproveEffect DEF PolicyDraft
  <2>7. QED
    BY <2>2, <2>5, <2>6 DEF RowsStay
<1>4. ASSUME NEW s \in Reviewers, CommitReject(s)
      PROVE  RowsStay
  <2>1. /\ drafts \in Seq(PolicyDraft) /\ drafts' \in Seq(PolicyDraft)
        /\ Len(drafts') = Len(drafts) /\ rules' = rules
    BY <1>4, CommitRejectEffect DEF RowsInv, TypeOK
  <2>2. DOMAIN drafts = DOMAIN drafts'
    BY <2>1, LenProperties
  <2>3. \A id \in DOMAIN drafts : drafts[id] \in PolicyDraft
    BY <2>1, LenProperties, ElementOfSeq
  <2>4. \A id \in DOMAIN drafts : drafts'[id].program = drafts[id].program
    BY <1>4, <2>3, CommitRejectEffect DEF PolicyDraft
  <2>5. QED
    BY <2>1, <2>2, <2>4 DEF RowsStay
<1>5. QED
  BY <1>1, <1>2, <1>3, <1>4
  DEF Next, Environment, Review, Midnight, ApproveBegin, ReadLive, Flush, RejectBegin,
      Abort, vars, deskVars

\* The tables as they are created.
LEMMA RowsInvInit ==
  ASSUME Init
  PROVE  RowsInv
<1>1. today \in Days /\ rules \in Seq(AdmissionRule) /\ drafts \in Seq(PolicyDraft)
  BY LastDayAssumption, SeedAssumption DEF Init, DeskInit
<1>2. sess \in [Reviewers -> Session]
  BY IdleType DEF Init
<1>3. SessionsPointAtRows
  BY DEF Init, SessionsPointAtRows, NamesRows, Idle, Request
<1>4. QED
  BY <1>1, <1>2, <1>3 DEF RowsInv, TypeOK

\* Every step keeps the rows and what points at them.
LEMMA RowsInvStep ==
  ASSUME RowsInv, [Next]_vars
  PROVE  RowsInv'
<1>1. RowsStay
  BY CommitsKeepRows
<1>2. TypeOK /\ SessionsPointAtRows
  BY DEF RowsInv
<1>3. SUFFICES /\ today' \in Days /\ rules' \in Seq(AdmissionRule)
               /\ drafts' \in Seq(PolicyDraft) /\ sess' \in [Reviewers -> Session]
               /\ \A t \in Reviewers : NamesRows(sess[t])'
  BY DEF RowsInv, TypeOK, SessionsPointAtRows
<1>4. CASE UNCHANGED vars
  BY <1>1, <1>2, <1>4, NamesRowsStays DEF vars, TypeOK
<1>5. ASSUME NEW n \in 1 .. MaxDrafts, NEW batch \in [1 .. n -> Incoming],
             SubmitDrafts(batch), UNCHANGED sess
      PROVE  <1>3!1
  <2>1. drafts' \in Seq(PolicyDraft) /\ rules' = rules
    BY <1>2, <1>5, SubmitEffect DEF TypeOK
  <2>2. today' = today /\ sess' = sess
    BY <1>5 DEF SubmitDrafts
  <2>3. \A t \in Reviewers : NamesRows(sess[t])'
    BY <1>1, <1>2, <2>2, NamesRowsStays
  <2>4. QED
    BY <1>2, <2>1, <2>2, <2>3 DEF TypeOK
<1>6. CASE Midnight /\ UNCHANGED sess
  <2>1. today' \in Days
    BY <1>2, <1>6, LastDayAssumption DEF Midnight, TypeOK
  <2>2. UNCHANGED <<rules, drafts, sess>>
    BY <1>6 DEF Midnight
  <2>3. \A t \in Reviewers : NamesRows(sess[t])'
    BY <1>1, <1>2, <2>2, NamesRowsStays
  <2>4. QED
    BY <1>2, <2>1, <2>2, <2>3 DEF TypeOK
<1>7. ASSUME NEW s \in Reviewers, Review(s)
      PROVE  <1>3!1
  <2>1. /\ today \in Days /\ rules \in Seq(AdmissionRule)
        /\ drafts \in Seq(PolicyDraft) /\ sess \in [Reviewers -> Session]
        /\ sess[s] \in Session /\ NamesRows(sess[s])
    BY <1>2 DEF TypeOK, SessionsPointAtRows
  <2>2. ASSUME NEW r \in Session, sess' = [sess EXCEPT ![s] = r],
               NamesRows(sess[s])'
        PROVE  /\ sess' \in [Reviewers -> Session]
               /\ \A t \in Reviewers : NamesRows(sess[t])'
    <3>1. sess' \in [Reviewers -> Session]
      BY <2>1, <2>2
    <3>2. ASSUME NEW t \in Reviewers, t # s
          PROVE  NamesRows(sess[t])'
      <4>1. sess'[t] = sess[t]
        BY <2>1, <2>2, <3>2
      <4>2. QED
        BY <1>1, <1>2, <4>1, NamesRowsStays
    <3>3. QED
      BY <2>2, <3>1, <3>2
  <2>3. CASE sess' = [sess EXCEPT ![s] = Idle]
    <3>1. sess'[s] = Idle
      BY <2>1, <2>3
    <3>2. NamesRows(sess[s])'
      BY <3>1, NamesRowsIdle
    <3>3. /\ sess' \in [Reviewers -> Session]
          /\ \A t \in Reviewers : NamesRows(sess[t])'
      BY <2>2, <2>3, <3>2, IdleType
    <3>4. CASE CommitApprove(s)
      <4>1. rules' \in Seq(AdmissionRule) /\ drafts' \in Seq(PolicyDraft)
        BY <3>4, CommitApproveEffect
      <4>2. today' = today
        BY <3>4 DEF CommitApprove
      <4>3. QED
        BY <2>1, <3>3, <4>1, <4>2
    <3>5. CASE CommitReject(s)
      <4>1. rules' = rules /\ drafts' \in Seq(PolicyDraft)
        BY <3>5, CommitRejectEffect
      <4>2. today' = today
        BY <3>5 DEF CommitReject
      <4>3. QED
        BY <2>1, <3>3, <4>1, <4>2
    <3>6. CASE UNCHANGED deskVars
      BY <2>1, <3>3, <3>6 DEF deskVars
    <3>7. QED
      BY <1>7, <3>4, <3>5, <3>6
      DEF Review, ApproveBegin, RejectBegin, ReadLive, Flush, Abort
  <2>4. ASSUME NEW id \in DOMAIN drafts, NEW effective \in Dates(today),
               ApproveBegin(s, id, effective)
        PROVE  <1>3!1
    <3> DEFINE r == Request("approve", id, effective, 0, Null)
    <3>1. r \in Session
      <4>1. id \in Nat
        BY <2>1, <2>4, LenProperties
      <4>2. QED
        BY <2>4, <4>1 DEF Session, Request, Dates
    <3>2. sess' = [sess EXCEPT ![s] = r] /\ UNCHANGED deskVars
      BY <2>4 DEF ApproveBegin
    <3>3. sess'[s] = r /\ drafts' = drafts
      BY <2>1, <3>2 DEF deskVars
    <3>4. NamesRows(sess[s])'
      BY <2>4, <3>3 DEF NamesRows, ApproveBegin, Request
    <3> HIDE DEF r
    <3>5. QED
      BY <2>1, <2>2, <3>1, <3>2, <3>4 DEF deskVars
  <2>5. ASSUME NEW id \in DOMAIN drafts, RejectBegin(s, id)
        PROVE  <1>3!1
    <3> DEFINE r == Request("reject", id, 0, 0, Null)
    <3>1. r \in Session
      <4>1. id \in Nat
        BY <2>1, <2>5, LenProperties
      <4>2. QED
        BY <4>1, LastDayAssumption DEF Session, Request
    <3>2. sess' = [sess EXCEPT ![s] = r] /\ UNCHANGED deskVars
      BY <2>5 DEF RejectBegin
    <3>3. sess'[s] = r /\ drafts' = drafts
      BY <2>1, <3>2 DEF deskVars
    <3>4. NamesRows(sess[s])'
      BY <2>5, <3>3 DEF NamesRows, Request
    <3> HIDE DEF r
    <3>5. QED
      BY <2>1, <2>2, <3>1, <3>2, <3>4 DEF deskVars
  <2>6. CASE ReadLive(s)
    <3> DEFINE r == sess[s]
               active == ActiveRules(rules, drafts[r.draft].program, today)
    <3>1. /\ UNCHANGED deskVars /\ r.pc = "approve" /\ r \in Session
          /\ r.draft \in DOMAIN drafts /\ drafts[r.draft].program # Null
      BY <2>1, <2>6 DEF ReadLive, NamesRows
    <3>2. ASSUME NEW q \in Session, sess' = [sess EXCEPT ![s] = q], q.draft = r.draft,
                 q.pc = "read",
                 q.live # 0 => /\ q.live \in DOMAIN rules
                               /\ rules[q.live].program = drafts[r.draft].program
          PROVE  <1>3!1
      <4>1. sess'[s] = q /\ rules' = rules /\ drafts' = drafts
        BY <2>1, <3>1, <3>2 DEF deskVars
      <4>2. NamesRows(sess[s])'
        BY <3>1, <3>2, <4>1 DEF NamesRows
      <4>3. QED
        BY <2>1, <2>2, <3>1, <3>2, <4>2 DEF deskVars
    <3>3. CASE sess' = [sess EXCEPT ![s] = Request("read", r.draft, r.effective, 0, Null)]
      <4> DEFINE q == Request("read", r.draft, r.effective, 0, Null)
      <4>1. q \in Session /\ q.draft = r.draft /\ q.pc = "read" /\ q.live = 0
        BY <3>1 DEF Session, Request
      <4> HIDE DEF q
      <4>2. QED
        BY <3>2, <3>3, <4>1 DEF q
    <3>4. ASSUME NEW live \in active,
                 sess' = [sess EXCEPT ![s] = Request("read", r.draft, r.effective, live,
                                                     rules[live].effective_to)]
          PROVE  <1>3!1
      <4> DEFINE q == Request("read", r.draft, r.effective, live, rules[live].effective_to)
      <4>1. live \in DOMAIN rules /\ rules[live].program = drafts[r.draft].program
        BY <3>4 DEF ActiveRules
      <4>2. live \in Nat /\ rules[live] \in AdmissionRule
        BY <2>1, <4>1, LenProperties, ElementOfSeq
      <4>3. rules[live].effective_to \in {-1} \cup Days \cup {Null}
        BY <4>2 DEF AdmissionRule
      <4>4. q \in Session /\ q.draft = r.draft /\ q.pc = "read" /\ q.live = live
        BY <3>1, <4>2, <4>3 DEF Session, Request
      <4> HIDE DEF q
      <4>5. QED
        BY <3>2, <3>4, <4>1, <4>4 DEF q
    <3>5. QED
      BY <2>6, <3>3, <3>4 DEF ReadLive
  <2>7. CASE Flush(s)
    <3> DEFINE r == [sess[s] EXCEPT !.pc = "flushed"]
    <3>1. /\ UNCHANGED deskVars /\ sess[s].pc = "read" /\ sess' = [sess EXCEPT ![s] = r]
      BY <2>7 DEF Flush
    <3>2. r \in Session
      BY <2>1 DEF Session
    <3>3. /\ sess'[s].pc = "flushed" /\ sess'[s].draft = sess[s].draft
          /\ sess'[s].live = sess[s].live
      BY <2>1, <3>1 DEF Session
    <3>4. NamesRows(sess[s])'
      BY <2>1, <3>1, <3>3 DEF NamesRows, deskVars
    <3> HIDE DEF r
    <3>5. QED
      BY <2>1, <2>2, <3>1, <3>2, <3>4 DEF deskVars
  <2>8. QED
    BY <1>7, <2>3, <2>4, <2>5, <2>6, <2>7
    DEF Review, CommitApprove, CommitReject, Abort
<1>8. QED
  BY <1>4, <1>5, <1>6, <1>7 DEF Next, Environment

\* Both tables and every request keep their types, whatever requests
\* interleave and whichever of them die on the way.
THEOREM TypeCorrect == Spec => []TypeOK
<1>1. Init => RowsInv
  BY RowsInvInit
<1>2. RowsInv /\ [Next]_vars => RowsInv'
  BY RowsInvStep
<1>3. RowsInv => TypeOK
  BY DEF RowsInv
<1>4. QED
  BY <1>1, <1>2, <1>3, PTL DEF Spec

-------------------------------------------------------------------------------
(***************************************************************************)
(* The audit trail between the two tables.                                 *)
(***************************************************************************)
\* The only steps that write a table.
LEMMA WhoWrites ==
  ASSUME [Next]_vars
  PROVE  \/ UNCHANGED <<rules, drafts>>
         \/ \E n \in 1 .. MaxDrafts : \E batch \in [1 .. n -> Incoming] : SubmitDrafts(batch)
         \/ \E s \in Reviewers : CommitApprove(s)
         \/ \E s \in Reviewers : CommitReject(s)
BY DEF Next, Environment, Review, Midnight, ApproveBegin, ReadLive, Flush, RejectBegin,
       Abort, vars, deskVars

\* CommitApproveEffect, said of the columns the invariants look at.
LEMMA CommitApproveColumns ==
  ASSUME RowsInv, NEW s \in Reviewers, CommitApprove(s)
  PROVE  /\ DOMAIN rules = 1 .. Len(rules) /\ Len(rules) \in Nat
         /\ DOMAIN rules' = 1 .. Len(rules) + 1
         /\ \A i \in DOMAIN rules :
              /\ rules'[i].program = rules[i].program
              /\ rules'[i].demands = rules[i].demands
              /\ rules'[i].effective_from = rules[i].effective_from
              /\ rules'[i].origin = rules[i].origin
              /\ rules'[i].effective_to \in {rules[i].effective_to, sess[s].effective - 1}
              /\ rules'[i].effective_to # rules[i].effective_to => i = sess[s].live
         /\ rules'[Len(rules) + 1].program = drafts[sess[s].draft].program
         /\ rules'[Len(rules) + 1].origin = sess[s].draft
         /\ rules'[Len(rules) + 1].effective_from = sess[s].effective
         /\ rules'[Len(rules) + 1].effective_to = Null
         /\ DOMAIN drafts' = DOMAIN drafts
         /\ \A id \in DOMAIN drafts :
              /\ drafts'[id].program = drafts[id].program
              /\ drafts'[id].scraped = drafts[id].scraped
              /\ id # sess[s].draft => drafts'[id] = drafts[id]
         /\ drafts'[sess[s].draft].status = "approved"
         /\ drafts'[sess[s].draft].created_rule = Len(rules) + 1
<1>1. /\ rules \in Seq(AdmissionRule) /\ rules' \in Seq(AdmissionRule)
      /\ drafts \in Seq(PolicyDraft) /\ drafts' \in Seq(PolicyDraft)
      /\ Len(rules') = Len(rules) + 1 /\ Len(drafts') = Len(drafts)
      /\ sess[s].draft \in DOMAIN drafts
  BY CommitApproveEffect DEF RowsInv, TypeOK
<1>2. /\ DOMAIN rules = 1 .. Len(rules) /\ Len(rules) \in Nat
      /\ DOMAIN rules' = 1 .. Len(rules) + 1 /\ DOMAIN drafts' = DOMAIN drafts
  BY <1>1, LenProperties
<1>3. \A i \in DOMAIN rules : rules[i] \in AdmissionRule
  BY <1>1, <1>2, ElementOfSeq
<1>4. \A id \in DOMAIN drafts : drafts[id] \in PolicyDraft
  BY <1>1, LenProperties, ElementOfSeq
<1>5. \A i \in DOMAIN rules :
        /\ rules'[i].program = rules[i].program
        /\ rules'[i].demands = rules[i].demands
        /\ rules'[i].effective_from = rules[i].effective_from
        /\ rules'[i].origin = rules[i].origin
        /\ rules'[i].effective_to \in {rules[i].effective_to, sess[s].effective - 1}
        /\ rules'[i].effective_to # rules[i].effective_to => i = sess[s].live
  <2>1. \A i \in DOMAIN rules :
          \/ rules'[i] = rules[i]
          \/ /\ i = sess[s].live
             /\ rules'[i] = [rules[i] EXCEPT !.effective_to = sess[s].effective - 1]
    BY CommitApproveEffect
  <2>2. QED
    BY <1>3, <2>1 DEF AdmissionRule
<1>6. \A id \in DOMAIN drafts :
        /\ drafts'[id].program = drafts[id].program
        /\ drafts'[id].scraped = drafts[id].scraped
        /\ id # sess[s].draft => drafts'[id] = drafts[id]
  BY <1>4, CommitApproveEffect DEF PolicyDraft
<1>7. /\ drafts'[sess[s].draft].status = "approved"
      /\ drafts'[sess[s].draft].created_rule = Len(rules) + 1
  BY <1>1, <1>4, CommitApproveEffect DEF PolicyDraft
<1>8. /\ rules'[Len(rules) + 1].program = drafts[sess[s].draft].program
      /\ rules'[Len(rules) + 1].origin = sess[s].draft
      /\ rules'[Len(rules) + 1].effective_from = sess[s].effective
      /\ rules'[Len(rules) + 1].effective_to = Null
  <2>1. rules'[Len(rules) + 1] =
          NewRule(drafts, sess[s].draft, rules, sess[s].live, sess[s].effective)
    BY CommitApproveEffect
  <2>2. QED
    BY <2>1 DEF NewRule
<1>9. QED
  BY <1>1, <1>2, <1>5, <1>6, <1>7, <1>8

\* The same of a rejection.
LEMMA CommitRejectColumns ==
  ASSUME RowsInv, NEW s \in Reviewers, CommitReject(s)
  PROVE  /\ rules' = rules
         /\ DOMAIN drafts' = DOMAIN drafts
         /\ \A id \in DOMAIN drafts :
              /\ drafts'[id].program = drafts[id].program
              /\ drafts'[id].scraped = drafts[id].scraped
              /\ drafts'[id].created_rule = drafts[id].created_rule
              /\ drafts'[id].status \in {drafts[id].status, "rejected"}
<1>1. /\ drafts \in Seq(PolicyDraft) /\ drafts' \in Seq(PolicyDraft)
      /\ Len(drafts') = Len(drafts) /\ rules' = rules
  BY CommitRejectEffect DEF RowsInv, TypeOK
<1>2. \A id \in DOMAIN drafts : drafts[id] \in PolicyDraft
  BY <1>1, LenProperties, ElementOfSeq
<1>3. DOMAIN drafts' = DOMAIN drafts
  BY <1>1, LenProperties
<1>4. \A id \in DOMAIN drafts :
        drafts'[id] = IF id = sess[s].draft
                      THEN [drafts[id] EXCEPT !.status = "rejected"] ELSE drafts[id]
  BY CommitRejectEffect
<1>5. ASSUME NEW id \in DOMAIN drafts
      PROVE  /\ drafts'[id].program = drafts[id].program
             /\ drafts'[id].scraped = drafts[id].scraped
             /\ drafts'[id].created_rule = drafts[id].created_rule
             /\ drafts'[id].status \in {drafts[id].status, "rejected"}
  BY <1>2, <1>4 DEF PolicyDraft
<1>6. QED
  BY <1>1, <1>3, <1>5

\* Every step keeps each rule traceable to an approval.
LEMMA TraceStep ==
  ASSUME RowsInv, RuleTracesToReview, [Next]_vars
  PROVE  RuleTracesToReview'
<1>1. CASE UNCHANGED <<rules, drafts>>
  BY <1>1 DEF RuleTracesToReview
<1>2. ASSUME NEW n \in 1 .. MaxDrafts, NEW batch \in [1 .. n -> Incoming], SubmitDrafts(batch)
      PROVE  RuleTracesToReview'
  BY <1>2, SubmitEffect DEF RuleTracesToReview, RowsInv, TypeOK
<1>3. ASSUME NEW s \in Reviewers, CommitApprove(s)
      PROVE  RuleTracesToReview'
  <2> SUFFICES ASSUME NEW i \in DOMAIN rules', rules'[i].origin # 0
               PROVE  /\ rules'[i].origin \in DOMAIN drafts'
                      /\ drafts'[rules'[i].origin].status # "pending"
                      /\ drafts'[rules'[i].origin].program = rules'[i].program
    BY DEF RuleTracesToReview
  <2>1. CASE i \in DOMAIN rules
    BY <1>3, <2>1, CommitApproveColumns DEF RuleTracesToReview
  <2>2. CASE i = Len(rules) + 1
    <3>1. sess[s].draft \in DOMAIN drafts
      BY <1>3, CommitApproveEffect
    <3>2. QED
      BY <1>3, <2>2, <3>1, CommitApproveColumns
  <2>3. QED
    BY <1>3, <2>1, <2>2, CommitApproveColumns
<1>4. ASSUME NEW s \in Reviewers, CommitReject(s)
      PROVE  RuleTracesToReview'
  BY <1>4, CommitRejectColumns DEF RuleTracesToReview
<1>5. QED
  BY <1>1, <1>2, <1>3, <1>4, WhoWrites

\* Every rule that was not seeded comes from a reviewed draft of its program,
\* for any number of requests and whatever they do to the same draft.
THEOREM EveryRuleWasReviewed == Spec => []RuleTracesToReview
<1>1. Init => RowsInv /\ RuleTracesToReview
  <2>1. Init => RuleTracesToReview
    BY SeedAssumption DEF Init, DeskInit, RuleTracesToReview
  <2>2. QED
    BY <2>1, RowsInvInit
<1>2. RowsInv /\ RuleTracesToReview /\ [Next]_vars => RowsInv' /\ RuleTracesToReview'
  BY RowsInvStep, TraceStep
<1>3. QED
  BY <1>1, <1>2, PTL DEF Spec

\* Every step keeps each approved draft at its own rule.
LEMMA OwnRuleStep ==
  ASSUME RowsInv, ApprovedPointsToOwnRule, [Next]_vars
  PROVE  ApprovedPointsToOwnRule'
<1>1. CASE UNCHANGED <<rules, drafts>>
  BY <1>1 DEF ApprovedPointsToOwnRule
<1>2. ASSUME NEW n \in 1 .. MaxDrafts, NEW batch \in [1 .. n -> Incoming], SubmitDrafts(batch)
      PROVE  ApprovedPointsToOwnRule'
  BY <1>2, SubmitEffect DEF ApprovedPointsToOwnRule, RowsInv, TypeOK, NewDraft
<1>3. ASSUME NEW s \in Reviewers, CommitApprove(s)
      PROVE  ApprovedPointsToOwnRule'
  <2> SUFFICES ASSUME NEW id \in DOMAIN drafts', drafts'[id].status = "approved"
               PROVE  /\ drafts'[id].created_rule \in DOMAIN rules'
                      /\ rules'[drafts'[id].created_rule].origin = id
    BY DEF ApprovedPointsToOwnRule
  <2>1. CASE id = sess[s].draft
    BY <1>3, <2>1, CommitApproveColumns
  <2>2. CASE id # sess[s].draft
    <3>1. id \in DOMAIN drafts /\ drafts'[id] = drafts[id]
      BY <1>3, <2>2, CommitApproveColumns
    <3>2. drafts[id].created_rule \in DOMAIN rules /\ rules[drafts[id].created_rule].origin = id
      BY <3>1 DEF ApprovedPointsToOwnRule
    <3>3. QED
      BY <1>3, <3>1, <3>2, CommitApproveColumns
  <2>3. QED
    BY <2>1, <2>2
<1>4. ASSUME NEW s \in Reviewers, CommitReject(s)
      PROVE  ApprovedPointsToOwnRule'
  BY <1>4, CommitRejectColumns DEF ApprovedPointsToOwnRule
<1>5. QED
  BY <1>1, <1>2, <1>3, <1>4, WhoWrites

\* created_rule_id of an approved draft is a rule made from that draft, also
\* when several requests approved or rejected it.
THEOREM ApprovalNamesItsRule == Spec => []ApprovedPointsToOwnRule
<1>1. Init => RowsInv /\ ApprovedPointsToOwnRule
  <2>1. Init => ApprovedPointsToOwnRule
    BY DEF Init, DeskInit, ApprovedPointsToOwnRule
  <2>2. QED
    BY <2>1, RowsInvInit
<1>2. RowsInv /\ ApprovedPointsToOwnRule /\ [Next]_vars
        => RowsInv' /\ ApprovedPointsToOwnRule'
  BY RowsInvStep, OwnRuleStep
<1>3. QED
  BY <1>1, <1>2, PTL DEF Spec

-------------------------------------------------------------------------------
(***************************************************************************)
(* The rules over time.                                                    *)
(***************************************************************************)
\* The row an approval closes gives way to the row it inserts on the very
\* day, so no day is lost.
LEMMA CoverageStep ==
  ASSUME RowsInv, [Next]_vars, NEW p \in Programs, NEW day \in Days, Covered(rules, p, day)
  PROVE  Covered(rules', p, day)
<1>1. CASE rules' = rules
  BY <1>1
<1>2. ASSUME NEW s \in Reviewers, CommitApprove(s)
      PROVE  Covered(rules', p, day)
  <2>1. PICK i \in DOMAIN rules : rules[i].program = p /\ IsActive(rules[i], day)
    BY DEF Covered, ActiveRules
  <2>2. sess[s].effective \in Days /\ sess[s].pc = "flushed"
    BY <1>2 DEF RowsInv, TypeOK, Session, CommitApprove
  <2>3. rules[i].effective_from \in Days /\ rules[i] \in AdmissionRule
    <3>1. rules[i] \in AdmissionRule
      BY <1>2, CommitApproveColumns, ElementOfSeq DEF RowsInv, TypeOK
    <3>2. QED
      BY <3>1 DEF AdmissionRule
  <2>4. i \in DOMAIN rules' /\ Len(rules) + 1 \in DOMAIN rules'
    BY <1>2, CommitApproveColumns
  <2>5. CASE rules'[i].effective_to = rules[i].effective_to
    <3>1. /\ rules'[i].program = p
          /\ rules'[i].effective_from = rules[i].effective_from
      BY <1>2, <2>1, CommitApproveColumns
    <3>2. IsActive(rules'[i], day)
      BY <2>1, <2>5, <3>1 DEF IsActive
    <3>3. QED
      BY <2>4, <3>1, <3>2 DEF Covered, ActiveRules
  <2>6. CASE rules'[i].effective_to # rules[i].effective_to
    <3>1. i = sess[s].live /\ rules'[i].effective_to = sess[s].effective - 1
      BY <1>2, <2>6, CommitApproveColumns
    <3>2. CASE day < sess[s].effective
      <4>1. /\ rules'[i].program = p
            /\ rules'[i].effective_from = rules[i].effective_from
        BY <1>2, <2>1, CommitApproveColumns
      <4>2. IsActive(rules'[i], day)
        BY <2>1, <2>2, <3>1, <3>2, <4>1, LastDayAssumption DEF IsActive
      <4>3. QED
        BY <2>4, <4>1, <4>2 DEF Covered, ActiveRules
    <3>3. CASE sess[s].effective <= day
      <4> DEFINE new == Len(rules) + 1
      <4>1. drafts[sess[s].draft].program = p
        <5>1. NamesRows(sess[s]) /\ i # 0
          BY <1>2, CommitApproveColumns DEF RowsInv, SessionsPointAtRows
        <5>2. QED
          BY <2>1, <2>2, <3>1, <5>1 DEF NamesRows
      <4>2. /\ rules'[new].program = p
            /\ rules'[new].effective_from = sess[s].effective
            /\ rules'[new].effective_to = Null
        BY <1>2, <4>1, CommitApproveColumns
      <4>3. IsActive(rules'[new], day)
        BY <3>3, <4>2 DEF IsActive
      <4> HIDE DEF new
      <4>4. QED
        BY <2>4, <4>2, <4>3 DEF Covered, ActiveRules, new
    <3>4. QED
      BY <2>2, <3>2, <3>3, LastDayAssumption
  <2>7. QED
    BY <2>5, <2>6
<1>3. QED
  BY <1>1, <1>2, WhoWrites, CommitRejectColumns DEF SubmitDrafts

\* No approval, whatever its date and whatever requests are under way beside
\* it, leaves a program without a rule on a day that had one.
THEOREM NoDayLosesItsRule == Spec => CoverageKept
<1>1. Init => RowsInv
  BY RowsInvInit
<1>2. RowsInv /\ [Next]_vars => RowsInv'
  BY RowsInvStep
<1>3. RowsInv /\ [Next]_vars =>
        [\A p \in Programs, day \in Days : Covered(rules, p, day) => Covered(rules', p, day)]_vars
  BY CoverageStep
<1>4. QED
  BY <1>1, <1>2, <1>3, PTL DEF Spec, CoverageKept

\* Every step keeps each end date on the eve of a later version.
LEMMA EndsStep ==
  ASSUME RowsInv, EndsMeetBegins, [Next]_vars
  PROVE  EndsMeetBegins'
<1> DEFINE Ends(table, i) ==
             \/ table[i].effective_to = Null
             \/ i \in DOMAIN SeedRules /\ table[i].effective_to = SeedRules[i].effective_to
             \/ \E j \in i + 1 .. Len(table) :
                  /\ table[j].program = table[i].program
                  /\ table[j].effective_from = table[i].effective_to + 1
<1>1. \A i \in DOMAIN rules : Ends(rules, i)
  BY DEF EndsMeetBegins
<1>2. SUFFICES \A i \in DOMAIN rules' : Ends(rules', i)
  BY DEF EndsMeetBegins
<1>3. CASE rules' = rules
  BY <1>1, <1>3
<1>4. ASSUME NEW s \in Reviewers, CommitApprove(s)
      PROVE  \A i \in DOMAIN rules' : Ends(rules', i)
  <2> DEFINE new == Len(rules) + 1
  <2>1. /\ DOMAIN rules = 1 .. Len(rules) /\ Len(rules) \in Nat
        /\ DOMAIN rules' = 1 .. new /\ Len(rules') = new
        /\ rules'[new].effective_to = Null
        /\ rules'[new].effective_from = sess[s].effective
        /\ rules'[new].program = drafts[sess[s].draft].program
    BY <1>4, CommitApproveColumns, CommitApproveEffect
  <2>2. \A i \in DOMAIN rules :
          /\ rules'[i].program = rules[i].program
          /\ rules'[i].effective_from = rules[i].effective_from
          /\ rules'[i].effective_to \in {rules[i].effective_to, sess[s].effective - 1}
          /\ rules'[i].effective_to # rules[i].effective_to => i = sess[s].live
    BY <1>4, CommitApproveColumns
  <2>3. ASSUME NEW i \in DOMAIN rules, rules'[i].effective_to = rules[i].effective_to
        PROVE  Ends(rules', i)
    <3>1. ASSUME NEW j \in i + 1 .. Len(rules)
          PROVE  j \in DOMAIN rules /\ j \in i + 1 .. Len(rules')
      BY <2>1
    <3>2. QED
      BY <1>1, <2>2, <2>3, <3>1
  <2>4. ASSUME NEW i \in DOMAIN rules, rules'[i].effective_to # rules[i].effective_to
        PROVE  Ends(rules', i)
    <3>1. i = sess[s].live /\ rules'[i].effective_to = sess[s].effective - 1
      BY <2>2, <2>4
    <3>2. sess[s].effective \in Int
      BY <1>4, LastDayAssumption DEF RowsInv, TypeOK, Session
    <3>3. rules'[i].program = drafts[sess[s].draft].program
      BY <1>4, <2>1, <2>2, <3>1
      DEF RowsInv, SessionsPointAtRows, NamesRows, CommitApprove
    <3>4. new \in i + 1 .. Len(rules')
      BY <2>1
    <3>5. rules'[new].effective_from = rules'[i].effective_to + 1
      BY <2>1, <3>1, <3>2
    <3>6. QED
      BY <2>1, <3>3, <3>4, <3>5
  <2>5. QED
    BY <2>1, <2>3, <2>4
<1>5. QED
  BY <1>3, <1>4, WhoWrites, CommitRejectColumns DEF SubmitDrafts

\* The end date an approval set is the eve of a later version of the program, for
\* any number of requests that close and re-close each other's rows.
THEOREM VersionsMeet == Spec => []EndsMeetBegins
<1>1. Init => RowsInv /\ EndsMeetBegins
  BY RowsInvInit DEF Init, DeskInit, EndsMeetBegins
<1>2. RowsInv /\ EndsMeetBegins /\ [Next]_vars => RowsInv' /\ EndsMeetBegins'
  BY RowsInvStep, EndsStep
<1>3. QED
  BY <1>1, <1>2, PTL DEF Spec

\* A version keeps all but its end date.
VersionsKept ==
  /\ Len(rules') >= Len(rules)
  /\ \A i \in DOMAIN rules :
       rules'[i] = [rules[i] EXCEPT !.effective_to = rules'[i].effective_to]

\* Every step keeps the versions there are.
LEMMA VersionsStep ==
  ASSUME RowsInv, [Next]_vars
  PROVE  VersionsKept
<1>1. \A i \in DOMAIN rules : rules[i] \in AdmissionRule
  BY LenProperties, ElementOfSeq DEF RowsInv, TypeOK
<1>2. Len(rules) \in Nat
  BY LenProperties DEF RowsInv, TypeOK
<1>3. CASE rules' = rules
  BY <1>1, <1>2, <1>3 DEF AdmissionRule, VersionsKept
<1>4. ASSUME NEW s \in Reviewers, CommitApprove(s)
      PROVE  VersionsKept
  <2>1. \A i \in DOMAIN rules :
          \/ rules'[i] = rules[i]
          \/ rules'[i] = [rules[i] EXCEPT !.effective_to = sess[s].effective - 1]
    BY <1>4, CommitApproveEffect
  <2>2. Len(rules') = Len(rules) + 1
    BY <1>4, CommitApproveEffect
  <2>3. ASSUME NEW i \in DOMAIN rules
        PROVE  rules'[i] = [rules[i] EXCEPT !.effective_to = rules'[i].effective_to]
    <3>1. CASE rules'[i] = rules[i]
      BY <1>1, <3>1 DEF AdmissionRule
    <3>2. CASE rules'[i] = [rules[i] EXCEPT !.effective_to = sess[s].effective - 1]
      <4>1. rules'[i].effective_to = sess[s].effective - 1
        BY <1>1, <3>2 DEF AdmissionRule
      <4>2. QED
        BY <3>2, <4>1, Zenon
    <3>3. QED
      BY <2>1, <3>1, <3>2
  <2>4. QED
    BY <1>2, <2>2, <2>3 DEF VersionsKept
<1>5. QED
  BY <1>3, <1>4, WhoWrites, CommitRejectColumns DEF SubmitDrafts

\* A version of a rule, once inserted, loses nothing but its end date.
THEOREM VersionsAreKept == Spec => RulesAreVersioned
<1>1. Init => RowsInv
  BY RowsInvInit
<1>2. RowsInv /\ [Next]_vars => RowsInv'
  BY RowsInvStep
<1>3. RowsInv /\ [Next]_vars => [VersionsKept]_vars
  BY VersionsStep
<1>4. QED
  BY <1>1, <1>2, <1>3, PTL DEF Spec, RulesAreVersioned, VersionsKept

-------------------------------------------------------------------------------
(***************************************************************************)
(* The bar is never lowered by a page that says nothing.  NoBlank alone is *)
(* not inductive: it needs that every approval finds a rule to fall back   *)
(* on, hence that a protected program is covered on every day (it is when  *)
(* seeded, and no step takes a day away), hence that a request which has   *)
(* read holds the id of a rule of its program.                             *)
(***************************************************************************)
AlwaysCovered == \A p \in Protected, day \in Days : Covered(rules, p, day)
FallbackInHand ==
  \A s \in Reviewers :
    (/\ sess[s].pc \in {"read", "flushed"}
     /\ drafts[sess[s].draft].program \in Protected) => sess[s].live # 0
BarInv == RowsInv /\ NoBlankRequirement /\ AlwaysCovered /\ FallbackInHand

\* At first a seeded rule covers each protected program, with demands of its own.
LEMMA BarInit ==
  ASSUME Init
  PROVE  BarInv
<1>1. RowsInv
  BY RowsInvInit
<1>2. NoBlankRequirement
  BY DEF Init, DeskInit, NoBlankRequirement, Protected
<1>3. AlwaysCovered
  <2> SUFFICES ASSUME NEW p \in Protected, NEW day \in Days
               PROVE  Covered(rules, p, day)
    BY DEF AlwaysCovered
  <2>1. PICK i \in DOMAIN SeedRules :
          /\ SeedRules[i].program = p /\ SeedRules[i].effective_from <= 0
          /\ SeedRules[i].effective_to = Null
    BY DEF Protected, ActiveRules, IsActive
  <2>2. SeedRules[i] \in AdmissionRule
    BY SeedAssumption, LenProperties, ElementOfSeq
  <2>3. SeedRules[i].effective_from \in Days
    BY <2>2 DEF AdmissionRule
  <2>4. SeedRules[i].effective_from <= day
    BY <2>1, <2>3, LastDayAssumption
  <2>5. QED
    BY <2>1, <2>4 DEF Init, DeskInit, Covered, ActiveRules, IsActive
<1>4. FallbackInHand
  BY DEF Init, FallbackInHand, Idle, Request
<1>5. QED
  BY <1>1, <1>2, <1>3, <1>4 DEF BarInv

\* What an approval inserts for a protected program demands something.
LEMMA NewRuleComplete ==
  ASSUME BarInv, NEW s \in Reviewers, CommitApprove(s),
         drafts[sess[s].draft].program \in Protected
  PROVE  Complete(rules'[Len(rules) + 1])
<1> DEFINE r == sess[s]
           merged == MergedDemands(drafts[r.draft].scraped, rules, r.live)
<1>1. RowsInv /\ r.pc = "flushed"
  BY DEF BarInv, CommitApprove
<1>2. rules'[Len(rules) + 1].demands = merged
  <2>1. rules'[Len(rules) + 1] = NewRule(drafts, r.draft, rules, r.live, r.effective)
    BY <1>1, CommitApproveEffect
  <2>2. QED
    BY <2>1 DEF NewRule
<1>3. /\ r.live # 0 /\ r.live \in DOMAIN rules
      /\ rules[r.live].program = drafts[r.draft].program
  BY <1>1 DEF BarInv, RowsInv, FallbackInHand, SessionsPointAtRows, NamesRows
<1>4. \A f \in Fields : rules[r.live].demands[f] # Blank
  BY <1>3 DEF BarInv, NoBlankRequirement, Complete
<1>5. drafts[r.draft] \in PolicyDraft
  BY <1>1, CommitApproveEffect, LenProperties, ElementOfSeq DEF RowsInv, TypeOK
<1>6. \A f \in Fields :
        drafts[r.draft].scraped[f] # NotFound => drafts[r.draft].scraped[f] # Blank
  BY <1>5 DEF PolicyDraft, Scraped
<1>7. \A f \in Fields : merged[f] # Blank
  BY <1>3, <1>4, <1>6 DEF MergedDemands
<1>8. QED
  BY <1>2, <1>7 DEF Complete

\* Every step keeps the protected programs covered, and no rule without demands.
LEMMA BarStep ==
  ASSUME BarInv, [Next]_vars
  PROVE  BarInv'
<1>1. RowsInv /\ RowsInv'
  BY RowsInvStep DEF BarInv
<1>2. AlwaysCovered'
  BY <1>1, CoverageStep DEF BarInv, AlwaysCovered, Protected
<1>3. NoBlankRequirement'
  <2>1. CASE rules' = rules
    BY <2>1 DEF BarInv, NoBlankRequirement
  <2>2. ASSUME NEW s \in Reviewers, CommitApprove(s)
        PROVE  NoBlankRequirement'
    <3> SUFFICES ASSUME NEW i \in DOMAIN rules', rules'[i].program \in Protected
                 PROVE  Complete(rules'[i])
      BY DEF NoBlankRequirement
    <3>1. CASE i \in DOMAIN rules
      BY <1>1, <2>2, <3>1, CommitApproveColumns DEF BarInv, NoBlankRequirement, Complete
    <3>2. CASE i = Len(rules) + 1
      BY <1>1, <2>2, <3>2, CommitApproveColumns, NewRuleComplete
    <3>3. QED
      BY <1>1, <2>2, <3>1, <3>2, CommitApproveColumns
  <2>3. QED
    BY <1>1, <2>1, <2>2, WhoWrites, CommitRejectColumns DEF SubmitDrafts
<1>4. FallbackInHand'
  <2> SUFFICES ASSUME NEW t \in Reviewers, sess'[t].pc \in {"read", "flushed"},
                      drafts'[sess'[t].draft].program \in Protected
               PROVE  sess'[t].live # 0
    BY DEF FallbackInHand
  <2>1. RowsStay /\ sess \in [Reviewers -> Session]
    BY <1>1, CommitsKeepRows DEF RowsInv, TypeOK
  <2>2. CASE sess'[t] = sess[t]
    <3>1. sess[t].draft \in DOMAIN drafts
      BY <1>1, <2>2 DEF RowsInv, SessionsPointAtRows, NamesRows
    <3>2. drafts'[sess[t].draft].program = drafts[sess[t].draft].program
      BY <2>1, <3>1 DEF RowsStay
    <3>3. QED
      BY <2>2, <3>2 DEF BarInv, FallbackInHand
  <2>3. CASE ReadLive(t)
    <3> DEFINE active == ActiveRules(rules, drafts[sess[t].draft].program, today)
    <3>1. UNCHANGED deskVars
      BY <2>3 DEF ReadLive
    <3>2. sess'[t].draft = sess[t].draft
      BY <2>1, <2>3 DEF ReadLive, Request
    <3>3. active # {}
      BY <1>1, <3>1, <3>2 DEF BarInv, RowsInv, TypeOK, AlwaysCovered, Covered, deskVars
    <3>4. \E live \in active : sess'[t].live = live
      BY <2>1, <2>3, <3>3 DEF ReadLive, Request
    <3>5. active \subseteq DOMAIN rules /\ 0 \notin DOMAIN rules
      BY <1>1, LenProperties DEF ActiveRules, RowsInv, TypeOK
    <3>6. QED
      BY <3>4, <3>5
  <2>4. CASE Flush(t)
    <3>1. /\ sess[t].pc = "read" /\ sess'[t].live = sess[t].live
          /\ sess'[t].draft = sess[t].draft /\ drafts' = drafts
      BY <2>1, <2>4 DEF Flush, deskVars, Session
    <3>2. QED
      BY <3>1 DEF BarInv, FallbackInHand
  <2>5. QED
    BY <2>1, <2>2, <2>3, <2>4
    DEF Next, Environment, Review, Midnight, SubmitDrafts, ApproveBegin, ReadLive, Flush,
        CommitApprove, RejectBegin, CommitReject, Abort, Idle, Request, vars, deskVars
<1>5. QED
  BY <1>1, <1>2, <1>3, <1>4 DEF BarInv

\* A program that was seeded with complete rules, one of them open from the
\* first day, never gets a rule that demands nothing in a column, whatever
\* pages are approved, in whatever order and with whatever dates.
THEOREM BarIsNeverLowered == Spec => []NoBlankRequirement
<1>1. BarInv => NoBlankRequirement
  BY DEF BarInv
<1>2. Init => BarInv
  BY BarInit
<1>3. BarInv /\ [Next]_vars => BarInv'
  BY BarStep
<1>4. QED
  BY <1>1, <1>2, <1>3, PTL DEF Spec

-------------------------------------------------------------------------------
(***************************************************************************)
(* The invariants together, for the modules that compose this one.         *)
(***************************************************************************)
Audited ==
  /\ TypeOK /\ RuleTracesToReview /\ ApprovedPointsToOwnRule
  /\ NoBlankRequirement /\ EndsMeetBegins

\* They need no fairness: whatever steps of requests, checks and the calendar
\* come, in whatever order, the tables can be audited.
THEOREM TablesAreAudited == Init /\ [][Next]_vars => []Audited
<1> DEFINE Inv == BarInv /\ RuleTracesToReview /\ ApprovedPointsToOwnRule /\ EndsMeetBegins
<1>1. Init => Inv
  <2>1. Init => RuleTracesToReview /\ ApprovedPointsToOwnRule /\ EndsMeetBegins
    BY SeedAssumption
    DEF Init, DeskInit, RuleTracesToReview, ApprovedPointsToOwnRule, EndsMeetBegins
  <2>2. QED
    BY <2>1, BarInit
<1>2. Inv /\ [Next]_vars => Inv'
  BY BarStep, TraceStep, OwnRuleStep, EndsStep DEF BarInv
<1>3. Inv => Audited
  BY DEF BarInv, RowsInv, Audited
<1>4. QED
  BY <1>1, <1>2, <1>3, PTL

===============================================================================

-------------------------- MODULE PolicySerialProofs --------------------------
(***************************************************************************)
(* One request at a time: PolicyReview then implements ReviewDesk, for all *)
(* values of the constants.                                                *)
(***************************************************************************)
EXTENDS PolicyReviewProofs

USE DEF Days

Serial == \A s, t \in Reviewers : s = t

(***************************************************************************)
(* What a request read is still so when it writes: its draft is pending,   *)
(* and the rule it will close was in force on a day that has come, with    *)
(* the effective_to the request remembers.                                 *)
(***************************************************************************)
Candidates(program, day) ==
  LET active == ActiveRules(rules, program, day) IN IF active = {} THEN {0} ELSE active

FreshRequest(r) ==
  /\ r.pc # "idle" => IsPending(r.draft)
  /\ r.pc \in {"approve", "read", "flushed"} => r.effective \in Dates(today)
  /\ r.pc \in {"read", "flushed"} =>
       /\ r.live # 0 => r.old = rules[r.live].effective_to
       /\ \E day \in 0 .. today : r.live \in Candidates(drafts[r.draft].program, day)

SerialInv == RowsInv /\ \A s \in Reviewers : FreshRequest(sess[s])

\* Nobody has read anything at first.
LEMMA SerialInit ==
  ASSUME Init
  PROVE  SerialInv
BY RowsInvInit DEF Init, SerialInv, FreshRequest, Idle, Request

\* Time and batches leave what was read as it was.
LEMMA FreshStays ==
  ASSUME SerialInv, NEW t \in Reviewers, sess'[t] = sess[t], rules' = rules,
         today' \in Nat, today <= today', DOMAIN drafts \subseteq DOMAIN drafts',
         \A id \in DOMAIN drafts : drafts'[id] = drafts[id]
  PROVE  FreshRequest(sess[t])'
<1> DEFINE r == sess[t]
<1>1. /\ r.pc # "idle" => r.draft \in DOMAIN drafts
      /\ today \in Nat /\ FreshRequest(r)
  BY LastDayAssumption DEF SerialInv, RowsInv, TypeOK, SessionsPointAtRows, NamesRows
<1>2. r.pc # "idle" => drafts'[r.draft] = drafts[r.draft]
  BY <1>1
<1>3. r.pc # "idle" => IsPending(r.draft)'
  BY <1>1, <1>2 DEF FreshRequest, IsPending
<1>4. Dates(today) \subseteq Dates(today')
  BY <1>1, MaxLeadAssumption, LastDayAssumption DEF Dates
<1>5. ASSUME r.pc \in {"read", "flushed"}
      PROVE  /\ r.live # 0 => r.old = rules'[r.live].effective_to
             /\ \E day \in 0 .. today' : r.live \in Candidates(drafts[r.draft].program, day)'
  <2>1. PICK day \in 0 .. today : r.live \in Candidates(drafts[r.draft].program, day)
    BY <1>1, <1>5 DEF FreshRequest
  <2>2. day \in 0 .. today'
    BY <1>1
  <2>3. r.live \in Candidates(drafts[r.draft].program, day)'
    BY <1>2, <1>5, <2>1 DEF Candidates
  <2>4. QED
    BY <1>1, <1>5, <2>2, <2>3 DEF FreshRequest
<1>6. QED
  BY <1>1, <1>3, <1>4, <1>5 DEF FreshRequest

\* A session without a request has read nothing that could be old.
LEMMA FreshIdle ==
  ASSUME NEW t \in Reviewers, sess'[t] = Idle
  PROVE  FreshRequest(sess[t])'
BY DEF FreshRequest, Idle, Request

\* Every step of a desk with one request at a time keeps what it read fresh.
LEMMA SerialStep ==
  ASSUME Serial, SerialInv, [Next]_vars
  PROVE  SerialInv'
<1>1. RowsInv /\ RowsInv'
  BY RowsInvStep DEF SerialInv
<1>2. SUFFICES ASSUME NEW t \in Reviewers
               PROVE  FreshRequest(sess[t])'
  BY <1>1 DEF SerialInv
<1>3. /\ sess \in [Reviewers -> Session] /\ today \in Nat /\ today' \in Nat
      /\ FreshRequest(sess[t]) /\ NamesRows(sess[t])
  BY <1>1, LastDayAssumption DEF SerialInv, RowsInv, TypeOK, SessionsPointAtRows
<1>4. CASE UNCHANGED vars
  BY <1>3, <1>4, FreshStays DEF vars
<1>5. CASE Environment
  <2>1. sess' = sess
    BY <1>5 DEF Environment
  <2>2. ASSUME NEW n \in 1 .. MaxDrafts, NEW batch \in [1 .. n -> Incoming], SubmitDrafts(batch)
        PROVE  FreshRequest(sess[t])'
    <3>1. /\ DOMAIN drafts \subseteq DOMAIN drafts' /\ rules' = rules
          /\ \A id \in DOMAIN drafts : drafts'[id] = drafts[id]
      BY <1>1, <2>2, SubmitEffect DEF RowsInv, TypeOK
    <3>2. today' = today
      BY <2>2 DEF SubmitDrafts
    <3>3. QED
      BY <1>3, <2>1, <3>1, <3>2, FreshStays
  <2>3. CASE Midnight
    BY <1>3, <2>1, <2>3, FreshStays DEF Midnight
  <2>4. QED
    BY <1>5, <2>2, <2>3 DEF Environment
<1>6. CASE Review(t)
  <2>1. CASE sess'[t] = Idle
    BY <2>1, FreshIdle
  <2>2. ASSUME NEW id \in DOMAIN drafts, NEW effective \in Dates(today),
               ApproveBegin(t, id, effective)
        PROVE  FreshRequest(sess[t])'
    <3>1. sess'[t] = Request("approve", id, effective, 0, Null)
      BY <1>3, <2>2 DEF ApproveBegin
    <3>2. UNCHANGED deskVars /\ IsPending(id)
      BY <2>2 DEF ApproveBegin
    <3>3. QED
      BY <2>2, <3>1, <3>2 DEF FreshRequest, Request, IsPending, deskVars
  <2>3. ASSUME NEW id \in DOMAIN drafts, RejectBegin(t, id)
        PROVE  FreshRequest(sess[t])'
    <3>1. sess'[t] = Request("reject", id, 0, 0, Null)
      BY <1>3, <2>3 DEF RejectBegin
    <3>2. UNCHANGED deskVars /\ IsPending(id)
      BY <2>3 DEF RejectBegin
    <3>3. QED
      BY <3>1, <3>2 DEF FreshRequest, Request, IsPending, deskVars
  <2>4. CASE ReadLive(t)
    <3> DEFINE r == sess[t]
               active == ActiveRules(rules, drafts[r.draft].program, today)
    <3>1. UNCHANGED deskVars /\ r.pc = "approve"
      BY <2>4 DEF ReadLive
    <3> DEFINE Chosen(live) ==
                 sess'[t] = Request("read", r.draft, r.effective, live,
                                    IF live = 0 THEN Null ELSE rules[live].effective_to)
    <3>2. PICK live \in Candidates(drafts[r.draft].program, today) : Chosen(live)
      <4>1. 0 \notin active
        BY <1>1, LenProperties DEF RowsInv, TypeOK, ActiveRules
      <4>2. CASE /\ active = {}
                 /\ sess' = [sess EXCEPT ![t] = Request("read", r.draft, r.effective, 0, Null)]
        BY <1>3, <4>2 DEF Candidates
      <4>3. ASSUME NEW live \in active,
                   sess' = [sess EXCEPT ![t] = Request("read", r.draft, r.effective, live,
                                                       rules[live].effective_to)]
            PROVE  \E l \in Candidates(drafts[r.draft].program, today) : Chosen(l)
        <5>1. live # 0 /\ live \in Candidates(drafts[r.draft].program, today)
          BY <4>1, <4>3 DEF Candidates
        <5>2. Chosen(live)
          BY <1>3, <4>3, <5>1
        <5>3. QED
          BY <5>1, <5>2
      <4>4. QED
        BY <2>4, <4>2, <4>3 DEF ReadLive
    <3>3. /\ sess'[t].pc = "read" /\ sess'[t].draft = r.draft /\ sess'[t].live = live
          /\ live # 0 => sess'[t].old = rules[live].effective_to
          /\ sess'[t].effective = r.effective
      BY <3>2 DEF Request
    <3>4. /\ UNCHANGED <<rules, drafts, today>>
          /\ IsPending(r.draft) /\ r.effective \in Dates(today)
      BY <1>3, <3>1 DEF FreshRequest, deskVars
    <3>5. today \in 0 .. today
      BY <1>3
    <3>6. QED
      BY <3>2, <3>3, <3>4, <3>5 DEF FreshRequest, IsPending, Candidates
  <2>5. CASE Flush(t)
    <3>1. /\ UNCHANGED deskVars /\ sess[t].pc = "read"
          /\ sess'[t].pc = "flushed" /\ sess'[t].draft = sess[t].draft
          /\ sess'[t].live = sess[t].live /\ sess'[t].old = sess[t].old
          /\ sess'[t].effective = sess[t].effective
      BY <1>3, <2>5 DEF Flush, Session
    <3>2. QED
      BY <1>3, <3>1 DEF FreshRequest, IsPending, Candidates, deskVars
  <2>6. CASE CommitApprove(t) \/ CommitReject(t) \/ Abort(t)
    BY <1>3, <2>1, <2>6 DEF CommitApprove, CommitReject, Abort
  <2>7. QED
    BY <1>6, <2>2, <2>3, <2>4, <2>5, <2>6 DEF Review
<1>7. QED
  BY <1>4, <1>5, <1>6 DEF Next, Serial

-------------------------------------------------------------------------------
(***************************************************************************)
(* Refinement: a commit is the abstract approval of the draft, with the    *)
(* rule that was read; every step before it stutters.                      *)
(***************************************************************************)
LEMMA ApproveImplements ==
  ASSUME SerialInv, NEW s \in Reviewers, CommitApprove(s)
  PROVE  DeskNext
<1> DEFINE r == sess[s]
           id == r.draft
           program == drafts[id].program
<1>1. RowsInv /\ FreshRequest(r) /\ r.pc = "flushed" /\ NamesRows(r)
  BY DEF SerialInv, RowsInv, SessionsPointAtRows, CommitApprove
<1>2. /\ id \in DOMAIN drafts /\ program # Null /\ IsPending(id)
      /\ r.effective \in Dates(today)
      /\ r.live # 0 => r.old = rules[r.live].effective_to
  BY <1>1 DEF FreshRequest, NamesRows
<1>3. PICK day \in 0 .. today : r.live \in Candidates(program, day)
  BY <1>1 DEF FreshRequest
<1>4. (IF Writes(s) THEN CloseLive(rules, r.live, r.effective) ELSE rules)
        = CloseLive(rules, r.live, r.effective)
  <2>1. CASE Writes(s)
    BY <2>1
  <2>2. CASE r.live = 0
    BY <2>2 DEF CloseLive
  <2>3. CASE r.live # 0 /\ ~ Writes(s)
    <3>1. /\ rules \in Seq(AdmissionRule) /\ r.live \in 1 .. Len(rules)
          /\ rules[r.live] \in AdmissionRule
      BY <1>1, <2>3, LenProperties, ElementOfSeq DEF NamesRows, RowsInv, TypeOK
    <3>2. rules[r.live].effective_to = r.effective - 1
      BY <1>2, <2>3 DEF Writes
    <3>3. [rules[r.live] EXCEPT !.effective_to = r.effective - 1] = rules[r.live]
      <4>1. [rules[r.live] EXCEPT !.effective_to = rules[r.live].effective_to] = rules[r.live]
        BY <3>1 DEF AdmissionRule
      <4>2. QED
        BY <3>2, <4>1
    <3>4. [rules EXCEPT ![r.live] = rules[r.live]] = rules
      BY <3>1
    <3>5. [rules EXCEPT ![r.live] =
             [rules[r.live] EXCEPT !.effective_to = r.effective - 1]] = rules
      BY <3>3, <3>4
    <3>6. CloseLive(rules, r.live, r.effective) = rules
      BY <2>3, <3>5 DEF CloseLive
    <3>7. QED
      BY <2>3, <3>6
  <2>4. QED
    BY <2>1, <2>2, <2>3
<1>5. rules' = Append(CloseLive(rules, r.live, r.effective),
                      NewRule(drafts, id, rules, r.live, r.effective))
  BY <1>4 DEF CommitApprove
<1>6. Approve(id, r.effective, day)
  <2>1. \E live \in Candidates(program, day) :
          rules' = Append(CloseLive(rules, live, r.effective),
                          NewRule(drafts, id, rules, live, r.effective))
    BY <1>3, <1>5
  <2>2. drafts' = DraftsAfterApproval(drafts, id, rules) /\ UNCHANGED today
    BY DEF CommitApprove
  <2>3. QED
    BY <1>2, <2>1, <2>2 DEF Approve, Candidates
<1>7. QED
  <2>1. \E d \in 0 .. today : \E e \in Dates(today) : Approve(id, e, d)
    BY <1>2, <1>3, <1>6
  <2>2. \E k \in DOMAIN drafts :
          \E d \in 0 .. today : \E e \in Dates(today) : Approve(k, e, d)
    BY <1>2, <2>1
  <2>3. QED
    BY <2>2, Zenon DEF DeskNext

\* Every step is one of the desk's, or none of it.
LEMMA StepImplements ==
  ASSUME SerialInv, [Next]_vars
  PROVE  [DeskNext]_deskVars
<1>1. ASSUME NEW s \in Reviewers, CommitReject(s)
      PROVE  DeskNext
  <2>1. sess[s].draft \in DOMAIN drafts /\ IsPending(sess[s].draft)
    BY <1>1 DEF SerialInv, RowsInv, SessionsPointAtRows, NamesRows, FreshRequest, CommitReject
  <2>2. Reject(sess[s].draft)
    BY <1>1, <2>1 DEF Reject, CommitReject
  <2>3. QED
    BY <2>1, <2>2 DEF DeskNext
<1>2. CASE Environment
  BY <1>2 DEF Environment, DeskNext
<1>3. CASE UNCHANGED deskVars
  BY <1>3
<1>4. ASSUME NEW s \in Reviewers, CommitApprove(s)
      PROVE  DeskNext
  BY <1>4, ApproveImplements
<1>5. QED
  BY <1>1, <1>2, <1>3, <1>4
  DEF Next, Review, ApproveBegin, ReadLive, Flush, RejectBegin, Abort, vars, deskVars

\* With one request at a time the review service is the abstract one: each
\* draft is decided once, and an approval replaces, in one step, the rule that
\* was in force on the day it looked.
THEOREM OneAtATimeImplementsDesk == Serial => (Spec => DeskSpec)
<1> SUFFICES ASSUME Serial
             PROVE  Spec => DeskSpec
  OBVIOUS
<1>1. Init => SerialInv /\ DeskInit
  BY SerialInit DEF Init
<1>2. SerialInv /\ [Next]_vars => SerialInv'
  BY SerialStep
<1>3. SerialInv /\ [Next]_vars => [DeskNext]_deskVars
  BY StepImplements
<1>4. QED
  BY <1>1, <1>2, <1>3, PTL DEF Spec, DeskSpec

===============================================================================

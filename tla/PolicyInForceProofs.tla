-------------------------- MODULE PolicyInForceProofs --------------------------
(***************************************************************************)
(* What a careful desk gets: one request at a time, and no approval dated  *)
(* in the future.  The rules a program had are over, and one is open.      *)
(***************************************************************************)
EXTENDS PolicySerialProofs

USE DEF Days

Careful == Serial /\ MaxLead = 0

IsOpen(table, i) == table[i].effective_to = Null

\* On that day every rule has begun and is open or over, one of a program's is
\* open at most.
OpenOrOver(table, day) ==
  /\ \A i \in DOMAIN table :
       /\ table[i].effective_from <= day
       /\ IsOpen(table, i) \/ table[i].effective_to < day
  /\ \A i, j \in DOMAIN table :
       (IsOpen(table, i) /\ IsOpen(table, j) /\ table[i].program = table[j].program) => i = j

\* The rules the operators seeded have begun, one of a program's is open at most.
SeedsInForce == OpenOrOver(SeedRules, 0)

\* A request that has read holds the open rule of its program, if there is one.
HoldsOpen(r) ==
  r.pc \in {"read", "flushed"} =>
    IF r.live = 0
    THEN \A i \in DOMAIN rules : rules[i].program = drafts[r.draft].program => ~ IsOpen(rules, i)
    ELSE IsOpen(rules, r.live)

ForceInv ==
  /\ SerialInv
  /\ OpenOrOver(rules, today)
  /\ \A s \in Reviewers : HoldsOpen(sess[s])

\* What the types say of a rule and of a request.
LEMMA ForceTypes ==
  ASSUME RowsInv
  PROVE  /\ today \in Nat /\ DOMAIN rules = 1 .. Len(rules) /\ Len(rules) \in Nat
         /\ \A i \in DOMAIN rules :
              /\ rules[i] \in AdmissionRule
              /\ rules[i].effective_from \in Int
              /\ rules[i].effective_to \in Int \cup {Null}
         /\ \A id \in DOMAIN drafts : drafts[id] \in PolicyDraft
         /\ \A s \in Reviewers : sess[s] \in Session /\ NamesRows(sess[s])
<1>1. /\ today \in Nat /\ rules \in Seq(AdmissionRule) /\ drafts \in Seq(PolicyDraft)
  BY LastDayAssumption DEF RowsInv, TypeOK
<1>2. \A i \in DOMAIN rules : rules[i] \in AdmissionRule
  BY <1>1, LenProperties, ElementOfSeq
<1>3. \A id \in DOMAIN drafts : drafts[id] \in PolicyDraft
  BY <1>1, LenProperties, ElementOfSeq
<1>4. \A i \in DOMAIN rules :
        rules[i].effective_from \in Int /\ rules[i].effective_to \in Int \cup {Null}
  BY <1>2, LastDayAssumption DEF AdmissionRule
<1>5. \A s \in Reviewers : sess[s] \in Session /\ NamesRows(sess[s])
  BY DEF RowsInv, TypeOK, SessionsPointAtRows
<1>6. DOMAIN rules = 1 .. Len(rules) /\ Len(rules) \in Nat
  BY <1>1, LenProperties
<1>7. QED
  BY <1>1, <1>2, <1>3, <1>4, <1>5, <1>6

\* A rule in force today or later is the open one.
LEMMA InForceIsOpen ==
  ASSUME RowsInv, OpenOrOver(rules, today), NEW p \in Programs, NEW day \in Int, day >= today,
         NEW i \in ActiveRules(rules, p, day)
  PROVE  i \in DOMAIN rules /\ rules[i].program = p /\ IsOpen(rules, i)
<1>1. i \in DOMAIN rules /\ rules[i].program = p /\ IsActive(rules[i], day)
  BY DEF ActiveRules
<1>2. rules[i].effective_to = Null \/ rules[i].effective_to >= day
  BY <1>1 DEF IsActive
<1>3. IsOpen(rules, i) \/ rules[i].effective_to < today
  BY <1>1 DEF OpenOrOver
<1>4. today \in Int /\ rules[i].effective_to \in Int \cup {Null}
  BY <1>1, ForceTypes
<1>5. QED
  BY <1>1, <1>2, <1>3, <1>4 DEF IsOpen

\* The open rule is in force today.
LEMMA OpenIsInForce ==
  ASSUME OpenOrOver(rules, today), NEW i \in DOMAIN rules, IsOpen(rules, i)
  PROVE  i \in ActiveRules(rules, rules[i].program, today)
BY DEF OpenOrOver, IsOpen, ActiveRules, IsActive

\* A request holds what it held while rules and its draft stay.
LEMMA HoldsOpenStays ==
  ASSUME RowsInv, NEW s \in Reviewers, HoldsOpen(sess[s]), rules' = rules,
         \A id \in DOMAIN drafts : drafts'[id].program = drafts[id].program,
         sess'[s].pc \in {"read", "flushed"} => sess[s].pc \in {"read", "flushed"},
         sess'[s].live = sess[s].live, sess'[s].draft = sess[s].draft
  PROVE  HoldsOpen(sess[s])'
<1>1. sess[s].pc \in {"read", "flushed"} => sess[s].draft \in DOMAIN drafts
  BY DEF RowsInv, SessionsPointAtRows, NamesRows
<1>2. QED
  BY <1>1 DEF HoldsOpen, IsOpen

\* The SELECT of step 3 finds the open rule.
LEMMA ReadFindsOpen ==
  ASSUME ForceInv, NEW s \in Reviewers, ReadLive(s)
  PROVE  HoldsOpen(sess[s])'
<1> DEFINE r == sess[s]
           p == drafts[r.draft].program
           active == ActiveRules(rules, p, today)
<1>1. RowsInv /\ OpenOrOver(rules, today) /\ r.pc = "approve" /\ UNCHANGED <<rules, drafts>>
  BY DEF ForceInv, SerialInv, ReadLive, deskVars
<1>2. /\ sess \in [Reviewers -> Session] /\ today \in Int
      /\ r.draft \in DOMAIN drafts /\ p \in Programs
  <2>1. sess \in [Reviewers -> Session] /\ r.draft \in DOMAIN drafts /\ p # Null
    BY <1>1, ForceTypes DEF RowsInv, TypeOK, NamesRows
  <2>2. drafts[r.draft] \in PolicyDraft
    BY <1>1, <2>1, ForceTypes
  <2>3. QED
    BY <1>1, <2>1, <2>2, ForceTypes DEF PolicyDraft
<1>3. CASE /\ active = {}
           /\ sess' = [sess EXCEPT ![s] = Request("read", r.draft, r.effective, 0, Null)]
  <2>1. sess'[s].live = 0 /\ sess'[s].draft = r.draft
    BY <1>2, <1>3 DEF Request
  <2>2. \A i \in DOMAIN rules : rules[i].program = p => ~ IsOpen(rules, i)
    BY <1>1, <1>3, OpenIsInForce
  <2>3. QED
    BY <1>1, <2>1, <2>2 DEF HoldsOpen, IsOpen
<1>4. ASSUME NEW live \in active,
             sess' = [sess EXCEPT ![s] = Request("read", r.draft, r.effective, live,
                                                 rules[live].effective_to)]
      PROVE  HoldsOpen(sess[s])'
  <2>1. sess'[s].live = live /\ sess'[s].draft = r.draft
    BY <1>2, <1>4 DEF Request
  <2>2. live \in DOMAIN rules /\ IsOpen(rules, live)
    BY <1>1, <1>2, <1>4, InForceIsOpen
  <2>3. live # 0
    BY <1>1, <2>2, ForceTypes
  <2>4. QED
    BY <1>1, <2>1, <2>2, <2>3 DEF HoldsOpen, IsOpen
<1>5. QED
  BY <1>3, <1>4 DEF ReadLive

\* An approval closes the open rule of its program and leaves the new one open.
LEMMA ApprovalTurnsOver ==
  ASSUME MaxLead = 0, ForceInv, NEW s \in Reviewers, CommitApprove(s)
  PROVE  LET p == drafts[sess[s].draft].program
             n == Len(rules) + 1 IN
         /\ DOMAIN rules' = DOMAIN rules \cup {n} /\ n \notin DOMAIN rules
         /\ rules'[n] = NewRule(drafts, sess[s].draft, rules, sess[s].live, sess[s].effective)
         /\ rules'[n].program = p /\ IsOpen(rules', n)
         /\ \A i \in DOMAIN rules :
              /\ rules'[i].program = rules[i].program /\ rules'[i].demands = rules[i].demands
              /\ rules'[i].origin = rules[i].origin
              /\ rules[i].program # p => rules'[i] = rules[i]
              /\ rules[i].program = p => ~ IsOpen(rules', i)
         /\ OpenOrOver(rules', today)
<1> DEFINE r == sess[s]
           p == drafts[r.draft].program
           n == Len(rules) + 1
           new == NewRule(drafts, r.draft, rules, r.live, r.effective)
<1>1. /\ RowsInv /\ OpenOrOver(rules, today) /\ FreshRequest(r) /\ HoldsOpen(r)
      /\ r.pc = "flushed"
  BY DEF ForceInv, SerialInv, CommitApprove
<1>2. /\ r.live \in {0} \cup DOMAIN rules
      /\ rules' \in Seq(AdmissionRule) /\ Len(rules') = n
      /\ \A i \in DOMAIN rules :
           rules'[i] = IF i = r.live /\ Writes(s)
                       THEN [rules[i] EXCEPT !.effective_to = r.effective - 1]
                       ELSE rules[i]
      /\ rules'[n] = new
  BY <1>1, CommitApproveEffect
<1>3. /\ today \in Nat /\ DOMAIN rules = 1 .. Len(rules) /\ Len(rules) \in Nat
      /\ \A i \in DOMAIN rules :
           /\ rules[i] \in AdmissionRule
           /\ rules[i].effective_from \in Int
           /\ rules[i].effective_to \in Int \cup {Null}
      /\ r \in Session /\ NamesRows(r)
  BY <1>1, ForceTypes
<1>4. r.effective \in Nat /\ r.effective <= today
  BY <1>1, <1>3, LastDayAssumption DEF FreshRequest, Dates
<1>5. DOMAIN rules' = DOMAIN rules \cup {n} /\ n \notin DOMAIN rules
  <2>1. DOMAIN rules' = 1 .. n
    BY <1>2, LenProperties
  <2>2. QED
    BY <1>3, <2>1
<1>6. rules'[n].program = p /\ IsOpen(rules', n) /\ rules'[n].effective_from = r.effective
  BY <1>2 DEF NewRule, IsOpen
<1>7. ASSUME r.live # 0
      PROVE  Writes(s) /\ r.live \in DOMAIN rules /\ rules[r.live].program = p
             /\ IsOpen(rules, r.live)
  <2>1. IsOpen(rules, r.live) /\ r.old = rules[r.live].effective_to
    BY <1>1, <1>7 DEF HoldsOpen, FreshRequest
  <2>2. r.old # r.effective - 1
    BY <1>4, <2>1, NullAssumption DEF IsOpen
  <2>3. QED
    BY <1>1, <1>3, <1>7, <2>1, <2>2 DEF Writes, NamesRows
<1>8. ASSUME NEW i \in DOMAIN rules
      PROVE  /\ rules'[i].program = rules[i].program /\ rules'[i].demands = rules[i].demands
             /\ rules'[i].origin = rules[i].origin
             /\ rules'[i].effective_from = rules[i].effective_from
             /\ i = r.live => rules'[i].effective_to = r.effective - 1
             /\ i # r.live => rules'[i] = rules[i]
  <2>1. CASE i = r.live
    <3>1. r.live # 0
      BY <1>3, <2>1
    <3>2. rules'[i] = [rules[i] EXCEPT !.effective_to = r.effective - 1]
      BY <1>2, <1>7, <2>1, <3>1
    <3>3. QED
      BY <1>3, <2>1, <3>2 DEF AdmissionRule
  <2>2. CASE i # r.live
    BY <1>2, <2>2
  <2>3. QED
    BY <2>1, <2>2
<1>9. ASSUME NEW i \in DOMAIN rules, rules[i].program = p
      PROVE  ~ IsOpen(rules', i)
  <2>1. CASE i = r.live
    BY <1>4, <1>8, <2>1, NullAssumption DEF IsOpen
  <2>2. CASE i # r.live
    <3>1. ~ IsOpen(rules, i)
      <4>1. CASE r.live = 0
        BY <1>1, <1>9, <4>1 DEF HoldsOpen
      <4>2. CASE r.live # 0
        BY <1>1, <1>7, <1>9, <2>2, <4>2 DEF OpenOrOver
      <4>3. QED
        BY <4>1, <4>2
    <3>2. QED
      BY <1>8, <2>2, <3>1 DEF IsOpen
  <2>3. QED
    BY <2>1, <2>2
<1>10. ASSUME NEW i \in DOMAIN rules, rules[i].program # p
       PROVE  rules'[i] = rules[i]
  BY <1>3, <1>7, <1>8, <1>10
<1>11. OpenOrOver(rules', today)
  <2>1. ASSUME NEW i \in DOMAIN rules'
        PROVE  /\ rules'[i].effective_from <= today
               /\ IsOpen(rules', i) \/ rules'[i].effective_to < today
    <3>1. CASE i = n
      BY <1>4, <1>6, <3>1
    <3>2. CASE i # n
      BY <1>1, <1>3, <1>4, <1>5, <1>8, <2>1, <3>2 DEF OpenOrOver, IsOpen
    <3>3. QED
      BY <3>1, <3>2
  <2>2. ASSUME NEW i \in DOMAIN rules', NEW j \in DOMAIN rules', IsOpen(rules', i),
               IsOpen(rules', j), rules'[i].program = rules'[j].program
        PROVE  i = j
    <3>1. CASE i = n \/ j = n
      BY <1>5, <1>6, <1>8, <1>9, <2>2, <3>1
    <3>2. CASE i # n /\ j # n
      <4>1. i \in DOMAIN rules /\ j \in DOMAIN rules
        BY <1>5, <2>2, <3>2
      <4>2. rules'[i] = rules[i] /\ rules'[j] = rules[j]
        BY <1>8, <1>9, <1>10, <2>2, <4>1
      <4>3. QED
        BY <1>1, <2>2, <4>1, <4>2 DEF OpenOrOver, IsOpen
    <3>3. QED
      BY <3>1, <3>2
  <2>3. QED
    BY <2>1, <2>2 DEF OpenOrOver
<1>12. QED
  BY <1>2, <1>5, <1>6, <1>8, <1>9, <1>10, <1>11

\* Every step of a careful desk keeps the rules open or over.
LEMMA ForceStep ==
  ASSUME Careful, ForceInv, [Next]_vars
  PROVE  ForceInv'
<1>1. /\ RowsInv /\ SerialInv' /\ OpenOrOver(rules, today) /\ MaxLead = 0
      /\ sess \in [Reviewers -> Session] /\ \A t \in Reviewers : HoldsOpen(sess[t])
  BY SerialStep DEF Careful, ForceInv, SerialInv, RowsInv, TypeOK
<1>2. \A id \in DOMAIN drafts : drafts'[id].program = drafts[id].program
  BY <1>1, CommitsKeepRows DEF RowsStay
<1>3. ASSUME UNCHANGED <<rules, today>>
      PROVE  OpenOrOver(rules', today')
  BY <1>1, <1>3
<1>4. ASSUME NEW t \in Reviewers, rules' = rules, sess'[t] = sess[t]
      PROVE  HoldsOpen(sess[t])'
  BY <1>1, <1>2, <1>4, HoldsOpenStays
<1>5. ASSUME NEW t \in Reviewers, sess'[t].pc \notin {"read", "flushed"}
      PROVE  HoldsOpen(sess[t])'
  BY <1>5 DEF HoldsOpen
<1>6. CASE UNCHANGED vars
  BY <1>1, <1>3, <1>4, <1>6 DEF ForceInv, vars
<1>7. CASE Environment
  <2>1. sess' = sess
    BY <1>7 DEF Environment
  <2>2. ASSUME NEW k \in 1 .. MaxDrafts, NEW batch \in [1 .. k -> Incoming], SubmitDrafts(batch)
        PROVE  ForceInv'
    BY <1>1, <1>3, <1>4, <2>1, <2>2 DEF SubmitDrafts, ForceInv
  <2>3. CASE Midnight
    <3>1. rules' = rules /\ today' = today + 1
      BY <2>3 DEF Midnight
    <3>2. OpenOrOver(rules', today')
      BY <1>1, <3>1, ForceTypes DEF OpenOrOver, IsOpen
    <3>3. QED
      BY <1>1, <1>4, <2>1, <3>1, <3>2 DEF ForceInv
  <2>4. QED
    BY <1>7, <2>2, <2>3 DEF Environment
<1>8. ASSUME NEW s \in Reviewers, Review(s)
      PROVE  ForceInv'
  <2>1. \A t \in Reviewers : t = s
    BY DEF Careful, Serial
  <2>2. ASSUME HoldsOpen(sess[s])', OpenOrOver(rules', today')
        PROVE  ForceInv'
    BY <1>1, <2>1, <2>2 DEF ForceInv
  <2>3. ASSUME NEW id \in DOMAIN drafts, NEW effective \in Dates(today),
               ApproveBegin(s, id, effective)
        PROVE  ForceInv'
    <3>1. UNCHANGED <<rules, today>> /\ sess'[s].pc = "approve"
      BY <1>1, <2>3 DEF ApproveBegin, Request, deskVars
    <3>2. QED
      BY <1>3, <1>5, <2>2, <3>1
  <2>4. ASSUME NEW id \in DOMAIN drafts, RejectBegin(s, id)
        PROVE  ForceInv'
    <3>1. UNCHANGED <<rules, today>> /\ sess'[s].pc = "reject"
      BY <1>1, <2>4 DEF RejectBegin, Request, deskVars
    <3>2. QED
      BY <1>3, <1>5, <2>2, <3>1
  <2>5. CASE ReadLive(s)
    <3>1. UNCHANGED <<rules, today>>
      BY <2>5 DEF ReadLive, deskVars
    <3>2. QED
      BY <1>3, <2>2, <2>5, <3>1, ReadFindsOpen
  <2>6. CASE Flush(s)
    <3>1. /\ UNCHANGED <<rules, today>> /\ sess[s].pc = "read"
          /\ sess'[s].live = sess[s].live /\ sess'[s].draft = sess[s].draft
      BY <1>1, <2>6 DEF Flush, deskVars, Session
    <3>2. HoldsOpen(sess[s])'
      BY <1>1, <1>2, <3>1, HoldsOpenStays
    <3>3. QED
      BY <1>3, <2>2, <3>1, <3>2
  <2>7. CASE CommitReject(s) \/ Abort(s)
    <3>1. UNCHANGED <<rules, today>> /\ sess'[s] = Idle
      BY <1>1, <2>7 DEF CommitReject, Abort, deskVars
    <3>2. QED
      BY <1>3, <1>5, <2>2, <3>1 DEF Idle, Request
  <2>8. CASE CommitApprove(s)
    <3>1. OpenOrOver(rules', today) /\ today' = today /\ sess'[s] = Idle
      BY <1>1, <2>8, ApprovalTurnsOver DEF CommitApprove
    <3>2. QED
      BY <1>5, <2>2, <3>1 DEF Idle, Request
  <2>9. QED
    BY <1>8, <2>3, <2>4, <2>5, <2>6, <2>7, <2>8 DEF Review
<1>9. QED
  BY <1>6, <1>7, <1>8 DEF Next

\* The seeded rules are open or over, and nobody has read any.
LEMMA ForceInit ==
  ASSUME SeedsInForce, Init
  PROVE  ForceInv
BY SerialInit DEF SeedsInForce, Init, DeskInit, ForceInv, HoldsOpen, Idle, Request

\* With one request at a time and no date in the future a program never has two
\* rules in force on a day, from today on, if the operators seeded it so.
THEOREM CarefulDeskHasOneRule ==
  ASSUME Careful, SeedsInForce
  PROVE  Spec => []OneRuleInForce
<1>1. Init => ForceInv
  BY ForceInit
<1>2. ForceInv /\ [Next]_vars => ForceInv'
  BY ForceStep
<1>3. ForceInv => OneRuleInForce
  <2> SUFFICES ASSUME ForceInv, NEW p \in Programs, NEW day \in today .. LastDay,
                      NEW i \in ActiveRules(rules, p, day), NEW j \in ActiveRules(rules, p, day)
               PROVE  i = j
    BY DEF OneRuleInForce
  <2>1. RowsInv /\ OpenOrOver(rules, today) /\ today \in Int
    BY ForceTypes DEF ForceInv, SerialInv
  <2>2. day \in Int /\ day >= today
    BY <2>1, LastDayAssumption
  <2>3. /\ i \in DOMAIN rules /\ rules[i].program = p /\ IsOpen(rules, i)
        /\ j \in DOMAIN rules /\ rules[j].program = p /\ IsOpen(rules, j)
    BY <2>1, <2>2, InForceIsOpen
  <2>4. QED
    BY <2>1, <2>3 DEF OpenOrOver
<1>4. QED
  BY <1>1, <1>2, <1>3, PTL DEF Spec

\* "null = currently active": nor does it ever have two open versions.
THEOREM CarefulDeskHasOneOpenVersion ==
  ASSUME Careful, SeedsInForce
  PROVE  Spec => []OneOpenVersion
<1>1. Init => ForceInv
  BY ForceInit
<1>2. ForceInv /\ [Next]_vars => ForceInv'
  BY ForceStep
<1>3. ForceInv => OneOpenVersion
  BY DEF ForceInv, OpenOrOver, IsOpen, OneOpenVersion
<1>4. QED
  BY <1>1, <1>2, <1>3, PTL DEF Spec

-------------------------------------------------------------------------------
(***************************************************************************)
(* What approved pages have said of a program its open rule demands.       *)
(***************************************************************************)
\* Rule k comes from a page that shows column f.
Shows(k, f) == rules[k].origin # 0 /\ drafts[rules[k].origin].scraped[f] # NotFound

LastShown(p, f, k) ==
  /\ rules[k].program = p /\ Shows(k, f)
  /\ \A later \in k + 1 .. Len(rules) : ~ (rules[later].program = p /\ Shows(later, f))

OpenSaysSo ==
  \A p \in Programs, f \in Fields : \A k \in DOMAIN rules :
    LastShown(p, f, k) =>
      \A i \in DOMAIN rules :
        (rules[i].program = p /\ IsOpen(rules, i)) => rules[i].demands[f] = rules[k].demands[f]

\* A program with an approved rule has an open one.
ApprovedHasOpen ==
  \A k \in DOMAIN rules : rules[k].origin # 0 =>
    \E i \in DOMAIN rules : rules[i].program = rules[k].program /\ IsOpen(rules, i)

ChangeInv == ForceInv /\ RuleTracesToReview /\ OpenSaysSo /\ ApprovedHasOpen

\* Rules that stay keep saying what they said, for their drafts keep their pages.
LEMMA ChangeStays ==
  ASSUME ChangeInv, rules' = rules,
         \A id \in DOMAIN drafts : drafts'[id].scraped = drafts[id].scraped
  PROVE  (OpenSaysSo /\ ApprovedHasOpen)'
<1>1. \A k \in DOMAIN rules, f \in Fields : Shows(k, f)' <=> Shows(k, f)
  BY DEF ChangeInv, RuleTracesToReview, Shows
<1>2. DOMAIN rules = 1 .. Len(rules) /\ Len(rules) \in Nat
  BY ForceTypes DEF ChangeInv, ForceInv, SerialInv
<1>3. \A p \in Programs, f \in Fields : \A k \in DOMAIN rules :
        LastShown(p, f, k)' => LastShown(p, f, k)
  BY <1>1, <1>2 DEF LastShown
<1>4. OpenSaysSo'
  BY <1>3 DEF ChangeInv, OpenSaysSo, IsOpen
<1>5. ApprovedHasOpen'
  BY DEF ChangeInv, ApprovedHasOpen, IsOpen
<1>6. QED
  BY <1>4, <1>5

\* An approval that finds nothing on its page demands what the open rule did.
LEMMA ApprovalSaysSo ==
  ASSUME Careful, ChangeInv, NEW s \in Reviewers, CommitApprove(s)
  PROVE  (OpenSaysSo /\ ApprovedHasOpen)'
<1> DEFINE r == sess[s]
           q == drafts[r.draft].program
           n == Len(rules) + 1
           ShowsNow(k, f) ==
             rules'[k].origin # 0 /\ drafts'[rules'[k].origin].scraped[f] # NotFound
<1>1. ForceInv /\ RowsInv /\ MaxLead = 0 /\ HoldsOpen(r) /\ r.pc = "flushed" /\ NamesRows(r)
  BY ForceTypes DEF Careful, ChangeInv, ForceInv, SerialInv, CommitApprove
<1>2. /\ DOMAIN rules' = DOMAIN rules \cup {n} /\ n \notin DOMAIN rules
      /\ rules'[n] = NewRule(drafts, r.draft, rules, r.live, r.effective)
      /\ rules'[n].program = q /\ IsOpen(rules', n)
      /\ \A i \in DOMAIN rules :
           /\ rules'[i].program = rules[i].program /\ rules'[i].demands = rules[i].demands
           /\ rules'[i].origin = rules[i].origin
           /\ rules[i].program # q => rules'[i] = rules[i]
           /\ rules[i].program = q => ~ IsOpen(rules', i)
  BY <1>1, ApprovalTurnsOver
<1>3. /\ r.draft \in DOMAIN drafts /\ r.draft # 0
      /\ \A id \in DOMAIN drafts : drafts'[id].scraped = drafts[id].scraped
      /\ r.live # 0 => r.live \in DOMAIN rules /\ rules[r.live].program = q
  <2>1. 0 \notin DOMAIN drafts
    BY <1>1, LenProperties DEF RowsInv, TypeOK
  <2>2. QED
    BY <1>1, <2>1, CommitApproveColumns DEF NamesRows
<1>4. DOMAIN rules = 1 .. Len(rules) /\ Len(rules) \in Nat /\ Len(rules') = n
  <2>1. rules' \in Seq(AdmissionRule) /\ Len(rules') = n
    BY <1>1, CommitApproveEffect
  <2>2. QED
    BY <1>1, <2>1, ForceTypes
<1>5. \A k \in DOMAIN rules, f \in Fields : ShowsNow(k, f) <=> Shows(k, f)
  BY <1>2, <1>3 DEF ChangeInv, RuleTracesToReview, Shows
<1>6. \A f \in Fields :
        /\ rules'[n].demands[f] =
             IF drafts[r.draft].scraped[f] # NotFound THEN drafts[r.draft].scraped[f]
             ELSE IF r.live # 0 THEN rules[r.live].demands[f] ELSE Blank
        /\ ShowsNow(n, f) <=> drafts[r.draft].scraped[f] # NotFound
  BY <1>2, <1>3 DEF NewRule, MergedDemands, Shows
<1>7. ASSUME NEW p \in Programs, NEW f \in Fields, NEW k \in DOMAIN rules, LastShown(p, f, k)'
      PROVE  LastShown(p, f, k) /\ (p = q => ~ ShowsNow(n, f))
  <2>1. rules[k].program = p /\ Shows(k, f)
    BY <1>2, <1>5, <1>7 DEF LastShown, Shows
  <2>2. \A later \in k + 1 .. n : ~ (rules'[later].program = p /\ ShowsNow(later, f))
    BY <1>4, <1>7 DEF LastShown, Shows
  <2>3. \A later \in k + 1 .. Len(rules) :
          later \in DOMAIN rules /\ later \in k + 1 .. n
    BY <1>4
  <2>4. \A later \in k + 1 .. Len(rules) : ~ (rules[later].program = p /\ Shows(later, f))
    BY <1>2, <1>5, <2>2, <2>3
  <2>5. n \in k + 1 .. n
    BY <1>4
  <2>6. QED
    BY <1>2, <2>1, <2>2, <2>4, <2>5 DEF LastShown
<1>8. ASSUME NEW p \in Programs, NEW f \in Fields, NEW k \in DOMAIN rules', LastShown(p, f, k)',
             NEW i \in DOMAIN rules', rules'[i].program = p, IsOpen(rules', i)
      PROVE  rules'[i].demands[f] = rules'[k].demands[f]
  <2>1. CASE p # q
    <3>1. /\ k \in DOMAIN rules /\ i \in DOMAIN rules /\ rules'[i] = rules[i]
          /\ rules'[k].demands = rules[k].demands
      BY <1>2, <1>8, <2>1 DEF LastShown
    <3>2. LastShown(p, f, k) /\ rules[i].program = p /\ IsOpen(rules, i)
      BY <1>7, <1>8, <3>1 DEF IsOpen
    <3>3. QED
      BY <3>1, <3>2 DEF ChangeInv, OpenSaysSo
  <2>2. CASE p = q /\ k # n
    <3>1. i = n /\ k \in DOMAIN rules
      BY <1>2, <1>8, <2>2
    <3>2. LastShown(p, f, k) /\ ~ ShowsNow(n, f)
      BY <1>7, <1>8, <2>2, <3>1
    <3>3. rules[k].origin # 0 /\ rules[k].program = p
      BY <3>2 DEF LastShown, Shows
    <3>4. \E j \in DOMAIN rules : rules[j].program = p /\ IsOpen(rules, j)
      BY <3>1, <3>3 DEF ChangeInv, ApprovedHasOpen
    <3>5. r.live # 0 /\ IsOpen(rules, r.live)
      BY <1>1, <2>2, <3>4 DEF HoldsOpen
    <3>6. rules[r.live].demands[f] = rules[k].demands[f]
      BY <1>3, <2>2, <3>1, <3>2, <3>5 DEF ChangeInv, OpenSaysSo
    <3>7. rules'[n].demands[f] = rules[r.live].demands[f]
      BY <1>6, <3>2, <3>5
    <3>8. QED
      BY <1>2, <3>1, <3>6, <3>7
  <2>3. CASE p = q /\ k = n
    BY <1>2, <1>8, <2>3
  <2>4. QED
    BY <2>1, <2>2, <2>3
<1>9. OpenSaysSo'
  BY <1>8 DEF OpenSaysSo
<1>10. ASSUME NEW k \in DOMAIN rules', rules'[k].origin # 0
       PROVE  \E i \in DOMAIN rules' : rules'[i].program = rules'[k].program /\ IsOpen(rules', i)
  <2>1. CASE rules'[k].program = q
    BY <1>2, <2>1
  <2>2. CASE rules'[k].program # q
    <3>1. k \in DOMAIN rules /\ rules[k].origin # 0 /\ rules[k].program = rules'[k].program
      BY <1>2, <1>10, <2>2
    <3>2. PICK i \in DOMAIN rules : rules[i].program = rules[k].program /\ IsOpen(rules, i)
      BY <3>1 DEF ChangeInv, ApprovedHasOpen
    <3>3. rules'[i] = rules[i] /\ i \in DOMAIN rules'
      BY <1>2, <2>2, <3>1, <3>2
    <3>4. QED
      BY <3>1, <3>2, <3>3 DEF IsOpen
  <2>3. QED
    BY <2>1, <2>2
<1>11. ApprovedHasOpen'
  BY <1>10 DEF ApprovedHasOpen
<1>12. QED
  BY <1>9, <1>11

\* Every step of a careful desk keeps what the pages said.
LEMMA ChangeStep ==
  ASSUME Careful, ChangeInv, [Next]_vars
  PROVE  ChangeInv'
<1>1. RowsInv /\ ForceInv' /\ RuleTracesToReview'
  BY ForceStep, TraceStep DEF ChangeInv, ForceInv, SerialInv
<1>2. CASE UNCHANGED <<rules, drafts>>
  BY <1>1, <1>2, ChangeStays DEF ChangeInv
<1>3. ASSUME NEW k \in 1 .. MaxDrafts, NEW batch \in [1 .. k -> Incoming], SubmitDrafts(batch)
      PROVE  ChangeInv'
  <2>1. rules' = rules /\ \A id \in DOMAIN drafts : drafts'[id] = drafts[id]
    BY <1>1, <1>3, SubmitEffect DEF RowsInv, TypeOK
  <2>2. QED
    BY <1>1, <2>1, ChangeStays DEF ChangeInv
<1>4. ASSUME NEW s \in Reviewers, CommitApprove(s)
      PROVE  ChangeInv'
  BY <1>1, <1>4, ApprovalSaysSo DEF ChangeInv
<1>5. ASSUME NEW s \in Reviewers, CommitReject(s)
      PROVE  ChangeInv'
  <2>1. /\ rules' = rules
        /\ \A id \in DOMAIN drafts :
             drafts'[id] = IF id = sess[s].draft
                           THEN [drafts[id] EXCEPT !.status = "rejected"] ELSE drafts[id]
    BY <1>1, <1>5, CommitRejectEffect
  <2>2. \A id \in DOMAIN drafts : drafts'[id].scraped = drafts[id].scraped
    BY <1>1, <2>1, ForceTypes DEF PolicyDraft
  <2>3. QED
    BY <1>1, <2>1, <2>2, ChangeStays DEF ChangeInv
<1>6. QED
  BY <1>2, <1>3, <1>4, <1>5, WhoWrites

\* With one request at a time and no date in the future no approval undoes what
\* an earlier one changed: in every column the rule in force demands what the
\* latest approved page showed that had something to say on it.
THEOREM CarefulDeskLosesNoChange ==
  ASSUME Careful, SeedsInForce
  PROVE  Spec => []NoApprovedChangeLost
<1>1. Init => ChangeInv
  <2> SUFFICES ASSUME Init PROVE ChangeInv
    OBVIOUS
  <2>1. \A i \in DOMAIN rules : rules[i].origin = 0
    BY SeedAssumption DEF Init, DeskInit
  <2>2. QED
    BY <2>1, ForceInit
    DEF ChangeInv, RuleTracesToReview, OpenSaysSo, LastShown, Shows, ApprovedHasOpen
<1>2. ChangeInv /\ [Next]_vars => ChangeInv'
  BY ChangeStep
<1>3. ChangeInv => NoApprovedChangeLost
  <2> SUFFICES ASSUME ChangeInv PROVE NoApprovedChangeLost
    OBVIOUS
  <2>1. RowsInv /\ OpenOrOver(rules, today) /\ today \in Int
    BY ForceTypes DEF ChangeInv, ForceInv, SerialInv
  <2>2. ASSUME NEW p \in Programs, NEW f \in Fields, NEW k \in DOMAIN rules, LastShown(p, f, k),
               NEW i \in ActiveRules(rules, p, today)
        PROVE  rules[i].demands[f] = rules[k].demands[f]
    <3>1. i \in DOMAIN rules /\ rules[i].program = p /\ IsOpen(rules, i)
      BY <2>1, InForceIsOpen
    <3>2. QED
      BY <2>2, <3>1 DEF ChangeInv, OpenSaysSo
  <2>3. QED
    BY <2>2 DEF NoApprovedChangeLost, LastShown, Shows
<1>4. QED
  BY <1>1, <1>2, <1>3, PTL DEF Spec

===============================================================================

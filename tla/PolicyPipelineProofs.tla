------------------------- MODULE PolicyPipelineProofs -------------------------
(***************************************************************************)
(* The checks and the review requests together, for every set of sources,  *)
(* pages and checks.  Incoming stands for what a check may hand over: here *)
(* it is any new draft.                                                    *)
(***************************************************************************)
EXTENDS PolicyPipeline, PolicyReviewProofs, FiniteSetTheorems

USE DEF Days

AnyDraft == NewDraft \subseteq Incoming

-------------------------------------------------------------------------------
(***************************************************************************)
(* The local variables of a check.                                         *)
(***************************************************************************)
CheckRecord ==
  [ pc : {"idle", "running"}, live : [Programs -> Nat], source : 1 .. Len(Sources) + 1,
    diffs : Seq(NewDraft), next : Nat, created : Seq(NewDraft) ]

\* A check has no more changes than sources, and no more drafts than changes.
CheckOk(r) ==
  /\ r \in CheckRecord
  /\ r.next \in 1 .. Len(r.diffs) + 1
  /\ Len(r.created) < r.next /\ Len(r.diffs) < r.source

\* What the steps of a check make of its record.
WithLive(r, live) == [r EXCEPT !.pc = "running", !.live = live]
WithSource(r, i, ds) == [r EXCEPT !.source = i, !.diffs = ds]
WithNext(r, k, made) == [r EXCEPT !.next = k, !.created = made]

\* Its snapshot names rules that exist.
LiveOk(r) == \A p \in Programs : r.live[p] \in {0} \cup DOMAIN rules

Running == { c \in Checkers : check[c].pc # "idle" }

\* What the running checks may add fits into the table.
Room == Len(drafts) + Len(Sources) * Cardinality(Running) <= MaxDrafts

ChecksOk ==
  /\ check \in [Checkers -> CheckRecord]
  /\ \A c \in Checkers : CheckOk(check[c]) /\ LiveOk(check[c])

PipeInv == RowsInv /\ ChecksOk /\ Room

\* There are so many sources, and each has a place.
LEMMA SourceTypes ==
  /\ Len(Sources) \in Nat /\ DOMAIN Sources = 1 .. Len(Sources)
  /\ \A i \in DOMAIN Sources : Sources[i].program \in Programs \cup {Null}
<1> DEFINE S == [name : STRING, program : Programs \cup {Null}]
<1>1. Sources \in Seq(S)
  BY SourcesAssumption
<1>2. /\ Len(Sources) \in Nat /\ DOMAIN Sources = 1 .. Len(Sources)
      /\ \A i \in DOMAIN Sources : Sources[i] \in S
  <2> HIDE DEF S
  <2>1. QED
    BY <1>1, LenProperties, ElementOfSeq
<1>3. QED
  BY <1>2

\* What a check holds when it has read the rules.
LEMMA SetLive ==
  ASSUME NEW r \in CheckRecord, NEW live \in [Programs -> Nat]
  PROVE  LET new == WithLive(r, live) IN
         /\ new \in CheckRecord /\ new.pc = "running" /\ new.live = live
         /\ new.source = r.source /\ new.diffs = r.diffs
         /\ new.next = r.next /\ new.created = r.created
<1> DEFINE a == [r EXCEPT !.pc = "running"]
           b == [a EXCEPT !.live = live]
<1>1. /\ a \in CheckRecord /\ a.pc = "running" /\ a.source = r.source /\ a.diffs = r.diffs
      /\ a.next = r.next /\ a.created = r.created
  BY DEF CheckRecord
<1>2. [r EXCEPT !.pc = "running", !.live = live] = b
  BY Zenon DEF CheckRecord
<1> HIDE DEF a
<1>3. /\ b \in CheckRecord /\ b.pc = a.pc /\ b.live = live /\ b.source = a.source
      /\ b.diffs = a.diffs /\ b.next = a.next /\ b.created = a.created
  BY <1>1 DEF CheckRecord
<1> HIDE DEF b
<1>4. QED
  BY <1>1, <1>2, <1>3 DEF WithLive

\* What a check holds when it takes the next page.
LEMMA SetSource ==
  ASSUME NEW r \in CheckRecord, NEW i \in 1 .. Len(Sources) + 1, NEW ds \in Seq(NewDraft)
  PROVE  LET new == WithSource(r, i, ds) IN
         /\ new \in CheckRecord /\ new.source = i /\ new.diffs = ds
         /\ new.pc = r.pc /\ new.live = r.live /\ new.next = r.next /\ new.created = r.created
<1> DEFINE a == [r EXCEPT !.source = i]
           b == [a EXCEPT !.diffs = ds]
<1>1. /\ a \in CheckRecord /\ a.source = i /\ a.diffs = r.diffs
      /\ a.pc = r.pc /\ a.live = r.live /\ a.next = r.next /\ a.created = r.created
  BY DEF CheckRecord
<1>2. [r EXCEPT !.source = i, !.diffs = ds] = b
  BY Zenon DEF CheckRecord
<1> HIDE DEF a
<1>3. /\ b \in CheckRecord /\ b.source = a.source /\ b.diffs = ds
      /\ b.pc = a.pc /\ b.live = a.live /\ b.next = a.next /\ b.created = a.created
  BY <1>1 DEF CheckRecord
<1> HIDE DEF b
<1>4. QED
  BY <1>1, <1>2, <1>3 DEF WithSource

\* What a check holds when it has dealt with a change.
LEMMA SetNext ==
  ASSUME NEW r \in CheckRecord, NEW k \in Nat, NEW made \in Seq(NewDraft)
  PROVE  LET new == WithNext(r, k, made) IN
         /\ new \in CheckRecord /\ new.next = k /\ new.created = made
         /\ new.pc = r.pc /\ new.live = r.live /\ new.source = r.source /\ new.diffs = r.diffs
<1> DEFINE a == [r EXCEPT !.next = k]
           b == [a EXCEPT !.created = made]
<1>1. /\ a \in CheckRecord /\ a.next = k /\ a.created = r.created
      /\ a.pc = r.pc /\ a.live = r.live /\ a.source = r.source /\ a.diffs = r.diffs
  BY DEF CheckRecord
<1>2. [r EXCEPT !.next = k, !.created = made] = b
  BY Zenon DEF CheckRecord
<1> HIDE DEF a
<1>3. /\ b \in CheckRecord /\ b.next = a.next /\ b.created = made
      /\ b.pc = a.pc /\ b.live = a.live /\ b.source = a.source /\ b.diffs = a.diffs
  BY <1>1 DEF CheckRecord
<1> HIDE DEF b
<1>4. QED
  BY <1>1, <1>2, <1>3 DEF WithNext

\* A check that does not run holds nothing.
LEMMA NoCheckOk == CheckOk(NoCheck) /\ LiveOk(NoCheck) /\ NoCheck.pc = "idle"
<1>1. << >> \in Seq(NewDraft) /\ Len(<< >>) = 0
  BY EmptySeq
<1>2. 1 \in 1 .. Len(Sources) + 1
  BY SourceTypes
<1>3. QED
  BY <1>1, <1>2 DEF NoCheck, CheckOk, CheckRecord, LiveOk

\* A check that begins holds its snapshot.
LEMMA BeginsOk ==
  ASSUME NEW live \in [Programs -> Nat]
  PROVE  LET new == WithLive(NoCheck, live) IN
         CheckOk(new) /\ new.live = live /\ new.pc = "running" /\ new.next = 1
         /\ new.diffs = << >> /\ new.created = << >> /\ new.source = 1
<1>1. << >> \in Seq(NewDraft) /\ Len(<< >>) = 0
  BY EmptySeq
<1>2. 1 \in 1 .. Len(Sources) + 1
  BY SourceTypes
<1>3. NoCheck \in CheckRecord
  BY NoCheckOk DEF CheckOk
<1>4. LET new == WithLive(NoCheck, live) IN
      /\ new \in CheckRecord /\ new.pc = "running" /\ new.live = live
      /\ new.source = NoCheck.source /\ new.diffs = NoCheck.diffs
      /\ new.next = NoCheck.next /\ new.created = NoCheck.created
  BY <1>3, SetLive, Zenon
<1>5. /\ NoCheck.source = 1 /\ NoCheck.next = 1
      /\ NoCheck.diffs = << >> /\ NoCheck.created = << >>
  BY DEF NoCheck
<1>6. QED
  BY <1>1, <1>4, <1>5 DEF CheckOk

\* What the differ makes of a page is a new draft of its source's program.
LEMMA DraftType ==
  ASSUME RowsInv, NEW i \in DOMAIN Sources, NEW page \in Contents,
         NEW live \in {0} \cup DOMAIN rules
  PROVE  /\ Draft(Sources[i], page, live) \in NewDraft
         /\ Draft(Sources[i], page, live).program = Sources[i].program
         /\ Draft(Sources[i], page, live).summary = Summary(Sources[i], page, live)
<1>1. Sources[i].program \in Programs \cup {Null}
  BY SourceTypes
<1>2. page \in Scraped
  BY ContentsAssumption
<1>3. Summary(Sources[i], page, live) \in Summaries
  <2>1. live # 0 => rules[live] \in AdmissionRule
    BY LenProperties, ElementOfSeq DEF RowsInv, TypeOK
  <2>2. live # 0 => rules[live].demands \in Demands
    BY <2>1 DEF AdmissionRule
  <2>3. QED
    BY <2>2, SummariesAssumption DEF Summary
<1>4. QED
  BY <1>1, <1>2, <1>3 DEF Draft, NewDraft, PolicyDraft

\* A turn of the differ keeps what is there and adds one change at most.
LEMMA DiffNextType ==
  ASSUME RowsInv, NEW i \in DOMAIN Sources, NEW page \in Contents,
         NEW live, \A p \in Programs : live[p] \in {0} \cup DOMAIN rules,
         NEW diffs \in Seq(NewDraft)
  PROVE  LET new == DiffNext(diffs, Sources[i], page, live)
             d == Draft(Sources[i], page, LiveRule(Sources[i], live)) IN
         /\ LiveRule(Sources[i], live) \in {0} \cup DOMAIN rules
         /\ new = diffs \/ new = Append(diffs, d)
         /\ d \in NewDraft /\ new \in Seq(NewDraft) /\ Len(new) <= Len(diffs) + 1
<1> DEFINE l == LiveRule(Sources[i], live)
           d == Draft(Sources[i], page, l)
           new == DiffNext(diffs, Sources[i], page, live)
<1>1. l \in {0} \cup DOMAIN rules
  BY SourceTypes DEF LiveRule
<1>2. d \in NewDraft
  BY <1>1, DraftType
<1>3. new = diffs \/ new = Append(diffs, d)
  BY DEF DiffNext
<1> HIDE DEF l, d, new
<1>4. new \in Seq(NewDraft) /\ Len(new) <= Len(diffs) + 1
  BY <1>2, <1>3, AppendProperties, LenProperties
<1>5. QED
  BY <1>1, <1>2, <1>3, <1>4 DEF l, d, new

\* A turn of the scraper, as a change of the check's record.
LEMMA ScrapeOk ==
  ASSUME PipeInv, NEW c \in Checkers, Scrape(c)
  PROVE  \E ds \in Seq(NewDraft) :
           LET new == WithSource(check[c], check[c].source + 1, ds) IN
           /\ check[c].source \in DOMAIN Sources
           /\ ds = check[c].diffs
              \/ \E page \in Contents :
                   ds = Append(check[c].diffs,
                               Draft(Sources[check[c].source], page,
                                     LiveRule(Sources[check[c].source], check[c].live)))
           /\ check' = [check EXCEPT ![c] = new] /\ UNCHANGED vars
           /\ CheckOk(new) /\ LiveOk(new) /\ new.pc = "running" /\ check[c].pc = "running"
           /\ new.diffs = ds /\ new.next = check[c].next /\ new.created = check[c].created
           /\ new.source = check[c].source + 1
<1> DEFINE r == check[c]
<1>1. /\ RowsInv /\ check \in [Checkers -> CheckRecord] /\ r \in CheckRecord
      /\ CheckOk(r) /\ LiveOk(r)
  BY DEF PipeInv, ChecksOk
<1>2. /\ r.source \in DOMAIN Sources /\ r.source + 1 \in 1 .. Len(Sources) + 1
      /\ r.pc = "running" /\ UNCHANGED vars
  BY <1>1, SourceTypes DEF Scrape, CheckRecord
<1>3. PICK ds \in {r.diffs} \cup { DiffNext(r.diffs, Sources[r.source], page, r.live) :
                                     page \in Contents } :
        check' = [check EXCEPT ![c].source = r.source + 1, ![c].diffs = ds]
  BY DEF Scrape
<1>4. r.diffs \in Seq(NewDraft) /\ Len(r.diffs) \in Nat /\ Len(r.created) \in Nat
  BY <1>1, LenProperties DEF CheckRecord
<1>5. /\ ds \in Seq(NewDraft) /\ Len(ds) <= Len(r.diffs) + 1 /\ Len(r.diffs) <= Len(ds)
      /\ ds = r.diffs
         \/ \E page \in Contents :
              ds = Append(r.diffs, Draft(Sources[r.source], page,
                                         LiveRule(Sources[r.source], r.live)))
  <2>1. CASE ds = r.diffs
    BY <1>4, <2>1
  <2>2. CASE ds # r.diffs
    <3>1. PICK page \in Contents : ds = DiffNext(r.diffs, Sources[r.source], page, r.live)
      BY <1>3, <2>2
    <3> DEFINE d == Draft(Sources[r.source], page, LiveRule(Sources[r.source], r.live))
    <3>2. /\ ds = Append(r.diffs, d) /\ d \in NewDraft
          /\ ds \in Seq(NewDraft) /\ Len(ds) <= Len(r.diffs) + 1
      BY <1>1, <1>2, <1>4, <2>2, <3>1, DiffNextType DEF LiveOk
    <3> HIDE DEF d
    <3>3. Len(ds) = Len(r.diffs) + 1
      BY <1>4, <3>2, AppendProperties
    <3>4. QED
      BY <1>4, <3>2, <3>3 DEF d
  <2>3. QED
    BY <2>1, <2>2
<1> DEFINE new == WithSource(r, r.source + 1, ds)
<1>6. /\ new \in CheckRecord /\ new.source = r.source + 1 /\ new.diffs = ds
      /\ new.pc = r.pc /\ new.live = r.live /\ new.next = r.next /\ new.created = r.created
  BY <1>1, <1>2, <1>5, SetSource
<1>7. check' = [check EXCEPT ![c] = new]
  BY <1>1, <1>3, Zenon DEF WithSource
<1>8. Len(ds) \in Nat /\ r.source \in Nat /\ r.next \in Nat
  BY <1>1, <1>5, LenProperties DEF CheckRecord
<1> HIDE DEF new
<1>9. CheckOk(new) /\ LiveOk(new)
  BY <1>1, <1>4, <1>5, <1>6, <1>8 DEF CheckOk, LiveOk
<1>10. QED
  BY <1>2, <1>5, <1>6, <1>7, <1>9 DEF new


\* The snapshot of a check that begins names rules of the table.
LEMMA LoadOk ==
  ASSUME PipeInv, NEW c \in Checkers, LoadLive(c)
  PROVE  \E live \in [Programs -> Nat] :
           LET new == WithLive(NoCheck, live) IN
           /\ check' = [check EXCEPT ![c] = new] /\ UNCHANGED vars
           /\ CheckOk(new) /\ LiveOk(new)
           /\ new.diffs = << >> /\ new.created = << >> /\ new.next = 1 /\ new.source = 1
           /\ RoomForCheck /\ check[c].pc = "idle" /\ new.pc = "running"
<1>1. PICK live \in [Programs -> {0} \cup DOMAIN rules] :
        check' = [check EXCEPT ![c] = [NoCheck EXCEPT !.pc = "running", !.live = live]]
  BY DEF LoadLive
<1>2. live \in [Programs -> Nat]
  <2>1. DOMAIN rules \subseteq Nat
    BY LenProperties DEF PipeInv, RowsInv, TypeOK
  <2>2. QED
    BY <2>1
<1> DEFINE new == WithLive(NoCheck, live)
<1>3. /\ CheckOk(new) /\ new.live = live /\ new.pc = "running" /\ new.next = 1
      /\ new.diffs = << >> /\ new.created = << >> /\ new.source = 1
  BY <1>2, BeginsOk
<1>4. check' = [check EXCEPT ![c] = new]
  BY <1>1, Zenon DEF WithLive
<1>5. UNCHANGED vars /\ RoomForCheck /\ check[c].pc = "idle"
  BY DEF LoadLive
<1> HIDE DEF new
<1>6. LiveOk(new)
  BY <1>3 DEF LiveOk
<1>7. QED
  BY <1>2, <1>3, <1>4, <1>5, <1>6 DEF new

\* A turn of persist_drafts(): the change is pending already, or one more draft.
LEMMA PersistOk ==
  ASSUME PipeInv, NEW c \in Checkers, PersistNext(c)
  PROVE  LET r == check[c]
             d == r.diffs[r.next]
             made == IF AlreadyPending(d) THEN r.created ELSE Append(r.created, d)
             new == WithNext(r, r.next + 1, made) IN
         /\ r.pc = "running" /\ r.next \in 1 .. Len(r.diffs) /\ d \in NewDraft
         /\ check' = [check EXCEPT ![c] = new] /\ UNCHANGED vars
         /\ CheckOk(new) /\ LiveOk(new) /\ made \in Seq(NewDraft)
         /\ new.diffs = r.diffs /\ new.created = made /\ new.next = r.next + 1
         /\ new.pc = "running" /\ new.source = r.source
<1> DEFINE r == check[c]
           d == r.diffs[r.next]
           made == IF AlreadyPending(d) THEN r.created ELSE Append(r.created, d)
           new == WithNext(r, r.next + 1, made)
<1>1. /\ check \in [Checkers -> CheckRecord] /\ r \in CheckRecord /\ CheckOk(r) /\ LiveOk(r)
  BY DEF PipeInv, ChecksOk
<1>2. /\ r.pc = "running" /\ r.next <= Len(r.diffs) /\ UNCHANGED vars
      /\ check' = [check EXCEPT ![c].next = r.next + 1,
                                ![c].created = IF AlreadyPending(d) THEN @ ELSE Append(@, d)]
  BY DEF PersistNext, Persisting
<1>3. /\ r.diffs \in Seq(NewDraft) /\ Len(r.diffs) \in Nat
      /\ r.created \in Seq(NewDraft) /\ Len(r.created) \in Nat
      /\ r.next \in Nat /\ r.next \in 1 .. Len(r.diffs) /\ r.source \in Nat
  BY <1>1, <1>2, LenProperties DEF CheckRecord, CheckOk
<1>4. d \in NewDraft
  BY <1>3, ElementOfSeq
<1>5. made \in Seq(NewDraft) /\ Len(made) \in Nat /\ Len(made) <= Len(r.created) + 1
  <2> HIDE DEF d
  <2>1. Append(r.created, d) \in Seq(NewDraft) /\ Len(Append(r.created, d)) = Len(r.created) + 1
    BY <1>3, <1>4, AppendProperties
  <2>2. QED
    BY <1>3, <2>1
<1>6. check' = [check EXCEPT ![c] = new]
  <2>1. [check EXCEPT ![c].next = r.next + 1,
                      ![c].created = IF AlreadyPending(d) THEN @ ELSE Append(@, d)]
          = [check EXCEPT ![c] = [r EXCEPT !.next = r.next + 1, !.created = made]]
    <3>1. CASE AlreadyPending(d)
      BY <1>1, <3>1, Zenon
    <3>2. CASE ~ AlreadyPending(d)
      BY <1>1, <3>2, Zenon
    <3>3. QED
      BY <3>1, <3>2
  <2>2. QED
    BY <1>2, <2>1, Zenon DEF WithNext
<1>7. /\ new \in CheckRecord /\ new.next = r.next + 1 /\ new.created = made
      /\ new.pc = r.pc /\ new.live = r.live /\ new.source = r.source /\ new.diffs = r.diffs
  <2>1. r.next + 1 \in Nat
    BY <1>3
  <2> HIDE DEF made
  <2>2. QED
    BY <1>1, <1>5, <2>1, SetNext, Zenon
<1> HIDE DEF new, made
<1>8. CheckOk(new) /\ LiveOk(new)
  BY <1>1, <1>3, <1>5, <1>7 DEF CheckOk, LiveOk
<1>9. QED
  BY <1>2, <1>3, <1>4, <1>5, <1>6, <1>7, <1>8 DEF new, made

-------------------------------------------------------------------------------
(***************************************************************************)
(* The checks fit into the table, and what one commits is a batch that     *)
(* PolicyReview allows.                                                    *)
(***************************************************************************)
\* There are so many checks under way.
LEMMA RunningTypes ==
  /\ IsFiniteSet(Running) /\ Cardinality(Running) \in Nat
  /\ \A c \in Checkers : check[c].pc # "idle" => Cardinality(Running) >= 1
<1>1. IsFiniteSet(Running)
  BY CheckersAssumption, FS_Subset DEF Running
<1>2. Cardinality(Running) \in Nat
  BY <1>1, FS_CardinalityType
<1>3. ASSUME NEW c \in Checkers, check[c].pc # "idle"
      PROVE  Cardinality(Running) >= 1
  <2>1. Running # {}
    BY <1>3 DEF Running
  <2>2. Cardinality(Running) # 0
    BY <1>1, <2>1, FS_EmptySet
  <2>3. QED
    BY <1>2, <2>2
<1>4. QED
  BY <1>1, <1>2, <1>3

\* So many places are left for so many checks.
LEMMA Places ==
  ASSUME NEW n \in Nat, NEW k \in Nat
  PROVE  n * k \in Nat /\ n * (k + 1) = n * k + n
OBVIOUS

\* The drafts of a check that commits: one for each source at most, new, and a
\* batch there is room for.
LEMMA CommitFits ==
  ASSUME PipeInv, NEW c \in Checkers, CommitCheck(c)
  PROVE  LET batch == check[c].created IN
         /\ check[c].pc = "running" /\ check[c].next = Len(check[c].diffs) + 1
         /\ batch \in Seq(NewDraft) /\ Len(batch) \in Nat /\ Len(batch) <= Len(Sources)
         /\ Len(drafts) + Len(batch) <= MaxDrafts /\ Len(drafts) \in Nat
         /\ drafts' = drafts \o batch /\ UNCHANGED <<today, rules, sess>>
         /\ check' = [check EXCEPT ![c] = NoCheck]
<1> DEFINE r == check[c]
           batch == r.created
           k == Cardinality(Running)
           n == Len(Sources)
<1>1. /\ r \in CheckRecord /\ CheckOk(r) /\ Room /\ drafts \in Seq(PolicyDraft)
  BY DEF PipeInv, ChecksOk, RowsInv, TypeOK
<1>2. /\ r.pc = "running" /\ r.next > Len(r.diffs)
      /\ drafts' = drafts \o batch /\ UNCHANGED <<today, rules, sess>>
      /\ check' = [check EXCEPT ![c] = NoCheck]
  BY DEF CommitCheck, Persisting
<1>3. /\ r.created \in Seq(NewDraft) /\ Len(r.created) \in Nat /\ Len(r.diffs) \in Nat
      /\ Len(drafts) \in Nat /\ n \in Nat
  BY <1>1, LenProperties, SourceTypes DEF CheckRecord
<1>4. /\ r.next \in 1 .. Len(r.diffs) + 1 /\ r.source \in 1 .. n + 1
      /\ Len(batch) < r.next /\ Len(r.diffs) < r.source
  BY <1>1 DEF CheckOk, CheckRecord
<1>5. Len(batch) <= n /\ r.next = Len(r.diffs) + 1
  BY <1>2, <1>3, <1>4
<1>6. k \in Nat /\ k >= 1
  BY <1>2, RunningTypes
<1>7. Len(drafts) + n * k <= MaxDrafts
  BY <1>1 DEF Room
<1> HIDE DEF k, n
<1>8. n * k >= n
  <2>1. PICK j \in Nat : k = j + 1
    <3>1. k - 1 \in Nat /\ k = (k - 1) + 1
      BY <1>6
    <3>2. QED
      BY <3>1
  <2>2. n * k = n * j + n /\ n * j \in Nat
    BY <1>3, <2>1, Places
  <2>3. QED
    BY <1>3, <2>2
<1>9. n * k \in Nat
  BY <1>3, <1>6, Places
<1>10. Len(drafts) + Len(batch) <= MaxDrafts
  BY <1>3, <1>5, <1>7, <1>8, <1>9, MaxDraftsAssumption
<1>11. QED
  BY <1>2, <1>3, <1>5, <1>10 DEF n

\* Every step of the pipeline is a step of PolicyReview or leaves its state alone.
LEMMA PipelineImplements ==
  ASSUME AnyDraft, PipeInv, [PipelineNext]_pipelineVars
  PROVE  [Next]_vars
<1>1. CASE UNCHANGED pipelineVars
  BY <1>1 DEF pipelineVars, vars
<1>2. CASE \E s \in Reviewers : Review(s) /\ UNCHANGED check
  BY <1>2 DEF Next
<1>3. CASE Midnight /\ UNCHANGED <<sess, check>>
  BY <1>3 DEF Next, Environment
<1>4. ASSUME NEW c \in Checkers, Check(c)
      PROVE  [Next]_vars
  <2>1. CASE LoadLive(c) \/ Scrape(c) \/ PersistNext(c) \/ FailCheck(c)
    BY <2>1 DEF LoadLive, Scrape, PersistNext, FailCheck
  <2>2. CASE CommitCheck(c)
    <3> DEFINE batch == check[c].created
               n == Len(batch)
    <3>1. /\ batch \in Seq(NewDraft) /\ n \in Nat /\ Len(drafts) \in Nat
          /\ Len(drafts) + n <= MaxDrafts
          /\ drafts' = drafts \o batch /\ UNCHANGED <<today, rules, sess>>
      BY <2>2, CommitFits
    <3>2. drafts \in Seq(PolicyDraft)
      BY DEF PipeInv, RowsInv, TypeOK
    <3>3. CASE n = 0
      <4>1. batch = << >>
        BY <3>1, <3>3, EmptySeq
      <4>2. drafts' = drafts
        BY <3>1, <3>2, <4>1, ConcatEmptySeq
      <4>3. QED
        BY <3>1, <4>2 DEF vars
    <3>4. CASE n # 0
      <4>1. n \in 1 .. MaxDrafts
        BY <3>1, <3>4, MaxDraftsAssumption
      <4>2. batch \in [1 .. n -> Incoming]
        <5>1. batch \in [1 .. n -> NewDraft]
          BY <3>1, LenProperties
        <5>2. QED
          BY <5>1 DEF AnyDraft
      <4>3. SubmitDrafts(batch)
        BY <3>1 DEF SubmitDrafts
      <4> HIDE DEF batch, n
      <4>4. QED
        BY <3>1, <4>1, <4>2, <4>3 DEF Next, Environment
    <3>5. QED
      BY <3>3, <3>4
  <2>3. QED
    BY <1>4, <2>1, <2>2 DEF Check
<1>5. QED
  BY <1>1, <1>2, <1>3, <1>4 DEF PipelineNext

\* A step of a check leaves it with another record of the same kind.
LEMMA CheckStep ==
  ASSUME PipeInv, NEW c \in Checkers, Check(c)
  PROVE  \E new \in CheckRecord :
           check' = [check EXCEPT ![c] = new] /\ CheckOk(new) /\ LiveOk(new)
<1>1. CASE LoadLive(c)
  BY <1>1, LoadOk DEF CheckOk
<1>2. CASE Scrape(c)
  BY <1>2, ScrapeOk DEF CheckOk
<1>3. CASE PersistNext(c)
  BY <1>3, PersistOk DEF CheckOk
<1>4. CASE CommitCheck(c) \/ FailCheck(c)
  <2>1. check' = [check EXCEPT ![c] = NoCheck]
    BY <1>4 DEF CommitCheck, FailCheck
  <2>2. QED
    BY <2>1, NoCheckOk DEF CheckOk
<1>5. QED
  BY <1>1, <1>2, <1>3, <1>4 DEF Check

\* The records of the checks stay what they are.
LEMMA ChecksOkStep ==
  ASSUME AnyDraft, PipeInv, [PipelineNext]_pipelineVars
  PROVE  ChecksOk'
<1>1. RowsStay
  BY PipelineImplements, CommitsKeepRows DEF PipeInv
<1>2. /\ check \in [Checkers -> CheckRecord]
      /\ \A c \in Checkers : CheckOk(check[c]) /\ LiveOk(check[c])
  BY DEF PipeInv, ChecksOk
<1>3. CASE UNCHANGED check
  <2> SUFFICES ASSUME NEW c \in Checkers
               PROVE  CheckOk(check[c])' /\ LiveOk(check[c])'
    BY <1>2, <1>3 DEF ChecksOk
  <2>1. LiveOk(check[c])'
    BY <1>1, <1>2, <1>3 DEF LiveOk, RowsStay
  <2>2. QED
    BY <1>2, <1>3, <2>1 DEF CheckOk
<1>4. ASSUME NEW c \in Checkers, Check(c)
      PROVE  ChecksOk'
  <2>1. PICK new \in CheckRecord :
          check' = [check EXCEPT ![c] = new] /\ CheckOk(new) /\ LiveOk(new)
    BY <1>4, CheckStep
  <2>2. check' \in [Checkers -> CheckRecord]
    BY <1>2, <2>1
  <2> SUFFICES ASSUME NEW d \in Checkers
               PROVE  CheckOk(check[d])' /\ LiveOk(check[d])'
    BY <2>2 DEF ChecksOk
  <2>3. check'[d] = IF d = c THEN new ELSE check[d]
    BY <1>2, <2>1
  <2>4. CheckOk(check[d])'
    BY <1>2, <2>1, <2>3 DEF CheckOk
  <2>5. LiveOk(check[d])'
    BY <1>1, <1>2, <2>1, <2>3 DEF LiveOk, RowsStay
  <2>6. QED
    BY <2>4, <2>5
<1>5. QED
  BY <1>3, <1>4 DEF PipelineNext, pipelineVars

\* A review request adds no draft.
LEMMA ReviewsAddNoDraft ==
  ASSUME RowsInv, NEW s \in Reviewers, Review(s)
  PROVE  Len(drafts') = Len(drafts) /\ DOMAIN drafts' = DOMAIN drafts
<1>1. CASE CommitApprove(s)
  BY <1>1, CommitApproveEffect, LenProperties DEF RowsInv, TypeOK
<1>2. CASE CommitReject(s)
  BY <1>2, CommitRejectEffect, LenProperties DEF RowsInv, TypeOK
<1>3. CASE UNCHANGED drafts
  BY <1>3
<1>4. QED
  BY <1>1, <1>2, <1>3 DEF Review, ApproveBegin, RejectBegin, ReadLive, Flush, Abort, deskVars

\* Room is left for the checks under way.
LEMMA RoomStep ==
  ASSUME PipeInv, [PipelineNext]_pipelineVars
  PROVE  Room'
<1> DEFINE n == Len(Sources)
           k == Cardinality(Running)
<1>1. /\ check \in [Checkers -> CheckRecord] /\ Len(drafts) + n * k <= MaxDrafts
      /\ Len(drafts) \in Nat /\ n \in Nat /\ k \in Nat /\ IsFiniteSet(Running)
  BY SourceTypes, RunningTypes, LenProperties DEF PipeInv, ChecksOk, Room, RowsInv, TypeOK
<1>2. CASE UNCHANGED check /\ Len(drafts') = Len(drafts)
  BY <1>1, <1>2 DEF Room, Running
<1>3. ASSUME NEW c \in Checkers, NEW new, check' = [check EXCEPT ![c] = new],
             new.pc = "running", UNCHANGED drafts,
             check[c].pc = "running" \/ (check[c].pc = "idle" /\ RoomForCheck)
      PROVE  Room'
  <2>1. Running' = Running \cup {c}
    BY <1>1, <1>3 DEF Running
  <2>2. Cardinality(Running') = IF c \in Running THEN k ELSE k + 1
    BY <1>1, <2>1, FS_AddElement
  <2>3. CASE c \in Running
    BY <1>1, <1>3, <2>2, <2>3 DEF Room
  <2>4. CASE c \notin Running
    <3>1. Len(drafts) + n * (1 + k) <= MaxDrafts
      BY <1>3, <2>4 DEF RoomForCheck, Running
    <3>2. Cardinality(Running') = 1 + k
      BY <1>1, <2>2, <2>4
    <3>3. QED
      BY <1>3, <3>1, <3>2 DEF Room
  <2>5. QED
    BY <2>3, <2>4
<1>4. ASSUME NEW c \in Checkers, check' = [check EXCEPT ![c] = NoCheck], check[c].pc # "idle",
             NEW more \in Nat, more <= n, Len(drafts') = Len(drafts) + more
      PROVE  Room'
  <2>1. Running' = Running \ {c} /\ c \in Running
    BY <1>1, <1>4, NoCheckOk DEF Running
  <2>2. Cardinality(Running') = k - 1
    BY <1>1, <2>1, FS_RemoveElement
  <2>3. k >= 1
    BY <1>4, RunningTypes
  <2>4. PICK j \in Nat : j = k - 1 /\ k = j + 1
    <3>1. k - 1 \in Nat /\ k = (k - 1) + 1
      BY <1>1, <2>3
    <3>2. QED
      BY <3>1
  <2>5. n * k = n * j + n /\ n * j \in Nat
    BY <1>1, <2>4, Places
  <2>6. Len(drafts') + n * j <= MaxDrafts
    BY <1>1, <1>4, <2>5, MaxDraftsAssumption
  <2>7. QED
    BY <2>2, <2>4, <2>6 DEF Room
<1>5. ASSUME NEW c \in Checkers, Check(c)
      PROVE  Room'
  <2>1. CASE LoadLive(c)
    BY <1>3, <2>1, LoadOk DEF vars
  <2>2. CASE Scrape(c)
    BY <1>3, <2>2, ScrapeOk DEF vars
  <2>3. CASE PersistNext(c)
    BY <1>3, <2>3, PersistOk DEF vars
  <2>4. CASE CommitCheck(c)
    <3> DEFINE batch == check[c].created
    <3>1. /\ check[c].pc = "running" /\ Len(batch) \in Nat /\ Len(batch) <= n
          /\ batch \in Seq(NewDraft)
          /\ drafts' = drafts \o batch /\ check' = [check EXCEPT ![c] = NoCheck]
      BY <2>4, CommitFits
    <3>2. drafts \in Seq(PolicyDraft) /\ batch \in Seq(PolicyDraft)
      BY <3>1, SeqMonotonic DEF NewDraft, PipeInv, RowsInv, TypeOK
    <3> HIDE DEF batch
    <3>3. Len(drafts') = Len(drafts) + Len(batch)
      BY <3>1, <3>2, ConcatProperties
    <3>4. QED
      BY <1>4, <3>1, <3>3
  <2>5. CASE FailCheck(c)
    <3>1. check' = [check EXCEPT ![c] = NoCheck] /\ check[c].pc # "idle" /\ drafts' = drafts
      BY <2>5 DEF FailCheck, vars
    <3>2. Len(drafts') = Len(drafts) + 0 /\ 0 \in Nat /\ 0 <= n
      BY <1>1, <3>1
    <3> HIDE DEF n
    <3>3. QED
      BY <1>4, <3>1, <3>2, Zenon
  <2>6. QED
    BY <1>5, <2>1, <2>2, <2>3, <2>4, <2>5 DEF Check
<1>6. CASE \E s \in Reviewers : Review(s) /\ UNCHANGED check
  BY <1>2, <1>6, ReviewsAddNoDraft DEF PipeInv
<1>7. CASE Midnight /\ UNCHANGED <<sess, check>>
  BY <1>2, <1>7 DEF Midnight
<1>8. CASE UNCHANGED pipelineVars
  BY <1>2, <1>8 DEF pipelineVars
<1>9. QED
  BY <1>5, <1>6, <1>7, <1>8 DEF PipelineNext

-------------------------------------------------------------------------------
(***************************************************************************)
(* What holds of the pipeline for every set of sources, pages and checks.  *)
(***************************************************************************)
\* The instance starts with an empty queue that one check fits into.
LEMMA PipeInvInit ==
  ASSUME PipelineInit
  PROVE  PipeInv
<1>1. RowsInv
  BY RowsInvInit DEF PipelineInit
<1>2. check = [c \in Checkers |-> NoCheck]
  BY DEF PipelineInit
<1>3. ChecksOk
  BY <1>2, NoCheckOk DEF ChecksOk, CheckOk
<1>4. Room
  <2>1. Running = {}
    BY <1>2, NoCheckOk DEF Running
  <2>2. Cardinality(Running) = 0
    BY <2>1, FS_EmptySet
  <2>3. Len(drafts) = 0
    BY DEF PipelineInit, Init, DeskInit
  <2>4. QED
    BY <2>2, <2>3, SourceTypes, MaxDraftsAssumption DEF Room
<1>5. QED
  BY <1>1, <1>3, <1>4 DEF PipeInv

\* Every step keeps the tables and the checks in order.
LEMMA PipeInvStep ==
  ASSUME AnyDraft, PipeInv, [PipelineNext]_pipelineVars
  PROVE  PipeInv'
<1>1. RowsInv'
  BY PipelineImplements, RowsInvStep DEF PipeInv
<1>2. QED
  BY <1>1, ChecksOkStep, RoomStep DEF PipeInv

\* The local variables of every check have their types.
THEOREM PipelineTypeCorrect ==
  ASSUME AnyDraft
  PROVE  PipelineSpec => []PipelineTypeOK
<1>1. PipeInv => PipelineTypeOK
  BY DEF PipeInv, ChecksOk, CheckOk, CheckRecord, LiveOk, PipelineTypeOK
<1>2. PipelineInit => PipeInv
  BY PipeInvInit
<1>3. PipeInv /\ [PipelineNext]_pipelineVars => PipeInv'
  BY PipeInvStep
<1>4. QED
  BY <1>1, <1>2, <1>3, PTL DEF PipelineSpec

\* What the review requests and any number of checks do together is what
\* PolicyReview allows: the commit of a check is one batch of new drafts, and
\* nothing else a check does touches a table.
THEOREM PipelineImplementsReview ==
  ASSUME AnyDraft
  PROVE  PipelineSpec => ReviewSafety
<1>1. PipelineInit => PipeInv /\ Init
  BY PipeInvInit DEF PipelineInit
<1>2. PipeInv /\ [PipelineNext]_pipelineVars => PipeInv'
  BY PipeInvStep
<1>3. PipeInv /\ [PipelineNext]_pipelineVars => [Next]_vars
  BY PipelineImplements
<1>4. QED
  BY <1>1, <1>2, <1>3, PTL DEF PipelineSpec, ReviewSafety

\* So every rule was reviewed, every approved draft names its rule and the bar is
\* not lowered also while checks fill the queue.
THEOREM ChecksAreAudited ==
  ASSUME AnyDraft
  PROVE  PipelineSpec => []Audited
<1>1. PipelineSpec => Init /\ [][Next]_vars
  BY PipelineImplementsReview DEF ReviewSafety
<1>2. QED
  BY <1>1, TablesAreAudited, PTL

-------------------------------------------------------------------------------
(***************************************************************************)
(* What the checks hold and what the queue holds.                          *)
(***************************************************************************)
\* A draft keeps the change it stands for, and none that was decided is
\* pending again.
DraftsStay ==
  /\ DOMAIN drafts \subseteq DOMAIN drafts'
  /\ \A id \in DOMAIN drafts :
       /\ drafts'[id].program = drafts[id].program
       /\ drafts'[id].scraped = drafts[id].scraped
       /\ drafts'[id].summary = drafts[id].summary
       /\ drafts'[id].status = "pending" => drafts[id].status = "pending"

\* A review request keeps the drafts.
LEMMA ReviewsKeepDrafts ==
  ASSUME RowsInv, NEW s \in Reviewers, Review(s)
  PROVE  DraftsStay /\ DOMAIN drafts' = DOMAIN drafts
<1>1. \A id \in DOMAIN drafts : drafts[id] \in PolicyDraft
  BY LenProperties, ElementOfSeq DEF RowsInv, TypeOK
<1>2. DOMAIN drafts' = DOMAIN drafts
  BY ReviewsAddNoDraft
<1>3. ASSUME NEW id \in DOMAIN drafts
      PROVE  /\ drafts'[id].program = drafts[id].program
             /\ drafts'[id].scraped = drafts[id].scraped
             /\ drafts'[id].summary = drafts[id].summary
             /\ drafts'[id].status = "pending" => drafts[id].status = "pending"
  <2>1. CASE CommitApprove(s)
    <3>1. drafts'[id] = IF id = sess[s].draft
                        THEN [drafts[id] EXCEPT !.status = "approved",
                                                !.created_rule = Len(rules) + 1]
                        ELSE drafts[id]
      BY <2>1, CommitApproveEffect
    <3>2. QED
      BY <1>1, <3>1 DEF PolicyDraft
  <2>2. CASE CommitReject(s)
    <3>1. drafts'[id] = IF id = sess[s].draft
                        THEN [drafts[id] EXCEPT !.status = "rejected"] ELSE drafts[id]
      BY <2>2, CommitRejectEffect
    <3>2. QED
      BY <1>1, <3>1 DEF PolicyDraft
  <2>3. CASE UNCHANGED drafts
    BY <2>3
  <2>4. QED
    BY <2>1, <2>2, <2>3 DEF Review, ApproveBegin, RejectBegin, ReadLive, Flush, Abort, deskVars
<1>4. QED
  BY <1>2, <1>3 DEF DraftsStay

\* The commit of a check puts its drafts behind the ones that are there.
LEMMA CommitAppends ==
  ASSUME PipeInv, NEW c \in Checkers, CommitCheck(c)
  PROVE  LET batch == check[c].created IN
         /\ Len(drafts) \in Nat /\ Len(batch) \in Nat
         /\ DOMAIN drafts = 1 .. Len(drafts) /\ DOMAIN batch = 1 .. Len(batch)
         /\ DOMAIN drafts' = 1 .. Len(drafts) + Len(batch)
         /\ \A id \in DOMAIN drafts : drafts'[id] = drafts[id]
         /\ \A id \in DOMAIN drafts' : id \notin DOMAIN drafts =>
              id - Len(drafts) \in DOMAIN batch /\ drafts'[id] = batch[id - Len(drafts)]
         /\ DraftsStay
<1> DEFINE batch == check[c].created
<1>1. /\ batch \in Seq(NewDraft) /\ drafts' = drafts \o batch
  BY CommitFits
<1>2. drafts \in Seq(PolicyDraft) /\ batch \in Seq(PolicyDraft)
  BY <1>1, SeqMonotonic DEF NewDraft, PipeInv, RowsInv, TypeOK
<1> HIDE DEF batch
<1>3. /\ drafts' \in Seq(PolicyDraft) /\ Len(drafts') = Len(drafts) + Len(batch)
      /\ \A i \in 1 .. Len(drafts) + Len(batch) :
           drafts'[i] = IF i <= Len(drafts) THEN drafts[i] ELSE batch[i - Len(drafts)]
  BY <1>1, <1>2, ConcatProperties
<1>4. /\ Len(drafts) \in Nat /\ Len(batch) \in Nat
      /\ DOMAIN drafts = 1 .. Len(drafts) /\ DOMAIN batch = 1 .. Len(batch)
      /\ DOMAIN drafts' = 1 .. Len(drafts) + Len(batch)
  BY <1>2, <1>3, LenProperties
<1>5. /\ \A id \in DOMAIN drafts : drafts'[id] = drafts[id]
      /\ \A id \in DOMAIN drafts' : id \notin DOMAIN drafts =>
           id - Len(drafts) \in DOMAIN batch /\ drafts'[id] = batch[id - Len(drafts)]
  BY <1>3, <1>4
<1>6. DraftsStay
  BY <1>4, <1>5 DEF DraftsStay
<1>7. QED
  BY <1>4, <1>5, <1>6 DEF batch

\* Every step of the pipeline keeps the drafts.
LEMMA PipelineKeepsDrafts ==
  ASSUME PipeInv, [PipelineNext]_pipelineVars
  PROVE  DraftsStay
<1>1. CASE drafts' = drafts
  BY <1>1 DEF DraftsStay
<1>2. CASE \E s \in Reviewers : Review(s) /\ UNCHANGED check
  BY <1>2, ReviewsKeepDrafts DEF PipeInv
<1>3. ASSUME NEW c \in Checkers, Check(c)
      PROVE  DraftsStay
  <2>1. CASE CommitCheck(c)
    BY <2>1, CommitAppends
  <2>2. QED
    BY <1>1, <1>3, <2>1 DEF Check, LoadLive, Scrape, PersistNext, FailCheck, vars
<1>4. QED
  BY <1>1, <1>2, <1>3 DEF PipelineNext, Midnight, pipelineVars

\* What a check has dealt with is recorded, in the queue or among its drafts.
Recorded(r, k) ==
  \/ \E id \in DOMAIN drafts : SameChange(drafts[id], r.diffs[k])
  \/ \E i \in DOMAIN r.created : SameChange(r.created[i], r.diffs[k])
AllRecorded(r) == \A k \in 1 .. r.next - 1 : Recorded(r, k)

\* A turn of the scraper leaves the changes before it where they are.
LEMMA ScrapeKeepsDiffs ==
  ASSUME PipeInv, NEW c \in Checkers, Scrape(c), NEW k \in 1 .. check[c].next - 1
  PROVE  check'[c].diffs[k] = check[c].diffs[k]
<1> DEFINE r == check[c]
<1>1. /\ check \in [Checkers -> CheckRecord] /\ r.diffs \in Seq(NewDraft) /\ Len(r.diffs) \in Nat
      /\ r.next \in 1 .. Len(r.diffs) + 1 /\ LiveOk(r) /\ RowsInv
  <2>1. check \in [Checkers -> CheckRecord] /\ CheckOk(r) /\ LiveOk(r) /\ RowsInv
    BY DEF PipeInv, ChecksOk
  <2>2. QED
    BY <2>1, LenProperties DEF CheckOk, CheckRecord
<1>2. PICK ds \in Seq(NewDraft) :
        /\ r.source \in DOMAIN Sources
        /\ ds = r.diffs
           \/ \E page \in Contents :
                ds = Append(r.diffs, Draft(Sources[r.source], page,
                                           LiveRule(Sources[r.source], r.live)))
        /\ check'[c].diffs = ds
  BY <1>1, ScrapeOk
<1>3. k \in 1 .. Len(r.diffs)
  BY <1>1
<1>4. CASE ds = r.diffs
  BY <1>2, <1>4
<1>5. ASSUME NEW page \in Contents,
             ds = Append(r.diffs, Draft(Sources[r.source], page,
                                        LiveRule(Sources[r.source], r.live)))
      PROVE  ds[k] = r.diffs[k]
  <2> DEFINE d == Draft(Sources[r.source], page, LiveRule(Sources[r.source], r.live))
  <2>1. d \in NewDraft
    BY <1>1, <1>2, DiffNextType DEF LiveOk
  <2> HIDE DEF d
  <2>2. Append(r.diffs, d)[k] = r.diffs[k]
    BY <1>1, <1>3, <2>1, AppendProperties
  <2>3. QED
    BY <1>5, <2>2 DEF d
<1>6. QED
  BY <1>2, <1>4, <1>5

\* Every step keeps the changes that were dealt with recorded.
LEMMA RecordedStep ==
  ASSUME PipeInv, \A c \in Checkers : AllRecorded(check[c]), [PipelineNext]_pipelineVars
  PROVE  \A c \in Checkers : AllRecorded(check[c])'
<1>1. DraftsStay /\ check \in [Checkers -> CheckRecord]
  BY PipelineKeepsDrafts DEF PipeInv, ChecksOk
<1>2. ASSUME NEW c \in Checkers, check'[c] = check[c]
      PROVE  AllRecorded(check[c])'
  <2> SUFFICES ASSUME NEW k \in 1 .. check[c].next - 1
               PROVE  Recorded(check[c], k)'
    BY <1>2 DEF AllRecorded
  <2>1. Recorded(check[c], k)
    BY DEF AllRecorded
  <2>2. QED
    BY <1>1, <1>2, <2>1 DEF Recorded, DraftsStay, SameChange
<1>3. ASSUME NEW c \in Checkers, check'[c].next = 1
      PROVE  AllRecorded(check[c])'
  BY <1>3 DEF AllRecorded
<1>4. ASSUME NEW c \in Checkers, Scrape(c)
      PROVE  AllRecorded(check[c])'
  <2>1. /\ check'[c].next = check[c].next /\ check'[c].created = check[c].created
        /\ drafts' = drafts
    BY <1>1, <1>4, ScrapeOk DEF vars, deskVars
  <2> SUFFICES ASSUME NEW k \in 1 .. check[c].next - 1
               PROVE  Recorded(check[c], k)'
    BY <2>1 DEF AllRecorded
  <2>2. Recorded(check[c], k)
    BY DEF AllRecorded
  <2>3. check'[c].diffs[k] = check[c].diffs[k]
    BY <1>4, ScrapeKeepsDiffs
  <2>4. QED
    BY <2>1, <2>2, <2>3 DEF Recorded
<1>5. ASSUME NEW c \in Checkers, PersistNext(c)
      PROVE  AllRecorded(check[c])'
  <2> DEFINE r == check[c]
             d == r.diffs[r.next]
             made == IF AlreadyPending(d) THEN r.created ELSE Append(r.created, d)
  <2>1. /\ r.next \in 1 .. Len(r.diffs) /\ d \in NewDraft /\ drafts' = drafts
        /\ check'[c].diffs = r.diffs /\ check'[c].created = made /\ check'[c].next = r.next + 1
    BY <1>1, <1>5, PersistOk DEF vars
  <2>2. r.created \in Seq(NewDraft) /\ r.next \in Nat
    BY <1>1 DEF CheckRecord
  <2> SUFFICES ASSUME NEW k \in 1 .. r.next
               PROVE  Recorded(check[c], k)'
    BY <2>1, <2>2 DEF AllRecorded
  <2> HIDE DEF d, r
  <2>3. CASE k = r.next
    <3>1. CASE AlreadyPending(d)
      BY <2>1, <2>3, <3>1 DEF AlreadyPending, Recorded, SameChange, d, IsPending
    <3>2. CASE ~ AlreadyPending(d)
      <4>1. /\ Len(made) \in DOMAIN made /\ made[Len(made)] = d
        <5>1. made = Append(r.created, d)
          BY <3>2
        <5>2. /\ Len(made) = Len(r.created) + 1 /\ made[Len(r.created) + 1] = d
              /\ made \in Seq(NewDraft) /\ Len(r.created) \in Nat
          BY <2>1, <2>2, <5>1, AppendProperties, LenProperties
        <5>3. QED
          BY <5>2, LenProperties
      <4> HIDE DEF made
      <4>2. QED
        BY <2>1, <2>3, <4>1 DEF Recorded, SameChange, d
    <3>3. QED
      BY <3>1, <3>2
  <2>4. CASE k # r.next
    <3>1. Recorded(r, k)
      BY <2>2, <2>4 DEF AllRecorded, r
    <3>2. \A i \in DOMAIN r.created : i \in DOMAIN made /\ made[i] = r.created[i]
      <4>1. \A i \in 1 .. Len(r.created) :
              i \in DOMAIN Append(r.created, d) /\ Append(r.created, d)[i] = r.created[i]
        <5>1. Append(r.created, d) \in Seq(NewDraft) /\ Len(r.created) \in Nat
              /\ Len(Append(r.created, d)) = Len(r.created) + 1
              /\ \A i \in 1 .. Len(r.created) : Append(r.created, d)[i] = r.created[i]
          BY <2>1, <2>2, AppendProperties, LenProperties
        <5>2. QED
          BY <5>1, LenProperties
      <4>2. QED
        BY <2>2, <4>1, LenProperties
    <3> HIDE DEF made
    <3>3. QED
      BY <2>1, <3>1, <3>2 DEF Recorded
  <2>5. QED
    BY <2>3, <2>4
<1>6. ASSUME NEW c \in Checkers, LoadLive(c) \/ CommitCheck(c) \/ FailCheck(c)
      PROVE  check'[c].next = 1
  <2>1. CASE LoadLive(c)
    BY <1>1, <2>1, LoadOk
  <2>2. CASE CommitCheck(c) \/ FailCheck(c)
    <3>1. check' = [check EXCEPT ![c] = NoCheck] /\ NoCheck.next = 1
      BY <2>2 DEF CommitCheck, FailCheck, NoCheck
    <3>2. QED
      BY <1>1, <3>1
  <2>3. QED
    BY <1>6, <2>1, <2>2
<1>7. ASSUME NEW c \in Checkers, Check(c), NEW e \in Checkers
      PROVE  AllRecorded(check[e])'
  <2>1. CASE e # c
    <3>1. check'[e] = check[e]
      BY <1>1, <1>7, <2>1, CheckStep
    <3>2. QED
      BY <1>2, <3>1
  <2>2. CASE e = c
    BY <1>3, <1>4, <1>5, <1>6, <1>7, <2>2 DEF Check
  <2>3. QED
    BY <2>1, <2>2
<1>8. QED
  BY <1>2, <1>7 DEF PipelineNext, pipelineVars

\* No change a check saw is lost on the way to the queue, however many checks
\* run and whatever the reviewers do meanwhile.
THEOREM NoDiffIsLost ==
  ASSUME AnyDraft
  PROVE  PipelineSpec => []EveryDiffIsRecorded
<1> DEFINE All == \A c \in Checkers : AllRecorded(check[c])
<1>1. PipelineInit => PipeInv /\ All
  <2>1. PipelineInit => All
    BY DEF PipelineInit, NoCheck, AllRecorded
  <2>2. QED
    BY <2>1, PipeInvInit
<1>2. PipeInv /\ All /\ [PipelineNext]_pipelineVars => PipeInv' /\ All'
  BY PipeInvStep, RecordedStep
<1>3. All => EveryDiffIsRecorded
  BY DEF AllRecorded, Recorded, EveryDiffIsRecorded
<1>4. QED
  BY <1>1, <1>2, <1>3, PTL DEF PipelineSpec

\* A rule that takes from the page what it shows is near the page.
LEMMA MergedIsNear ==
  ASSUME NEW page \in Scraped, NEW table, NEW live
  PROVE  FieldDiffs(page, MergedDemands(page, table, live)) = {}
<1>1. \A f \in Fields : page[f] # NotFound =>
        /\ MergedDemands(page, table, live)[f] = page[f] /\ page[f] \in Values
  BY DEF MergedDemands, Scraped
<1>2. QED
  BY <1>1, NearAssumption DEF FieldDiffs

\* Every step of PolicyReview keeps the rules near the pages they were made from.
LEMMA SettledStep ==
  ASSUME RowsInv, DraftsStay, RuleTracesToReview, ApprovalSettlesPage, [Next]_vars
  PROVE  ApprovalSettlesPage'
<1>1. CASE rules' = rules
  BY <1>1 DEF ApprovalSettlesPage, RuleTracesToReview, DraftsStay
<1>2. ASSUME NEW s \in Reviewers, CommitApprove(s)
      PROVE  ApprovalSettlesPage'
  <2> DEFINE id == sess[s].draft
             page == drafts[id].scraped
             new == Len(rules) + 1
  <2>1. /\ DOMAIN rules = 1 .. Len(rules) /\ Len(rules) \in Nat /\ DOMAIN rules' = 1 .. new
        /\ \A i \in DOMAIN rules :
             rules'[i].demands = rules[i].demands /\ rules'[i].origin = rules[i].origin
        /\ rules'[new].origin = id
    BY <1>2, CommitApproveColumns
  <2>2. /\ id \in DOMAIN drafts
        /\ rules'[new] = NewRule(drafts, id, rules, sess[s].live, sess[s].effective)
    BY <1>2, CommitApproveEffect
  <2>3. rules'[new].demands = MergedDemands(page, rules, sess[s].live)
    BY <2>2 DEF NewRule
  <2>4. page \in Scraped /\ drafts'[id].scraped = page
    <3>1. drafts[id] \in PolicyDraft
      BY <2>2, LenProperties, ElementOfSeq DEF RowsInv, TypeOK
    <3>2. QED
      BY <2>2, <3>1 DEF PolicyDraft, DraftsStay
  <2>5. FieldDiffs(page, rules'[new].demands) = {}
    BY <2>3, <2>4, MergedIsNear
  <2> HIDE DEF page
  <2> SUFFICES ASSUME NEW i \in DOMAIN rules', rules'[i].origin # 0
               PROVE  FieldDiffs(drafts'[rules'[i].origin].scraped, rules'[i].demands) = {}
    BY DEF ApprovalSettlesPage
  <2>6. CASE i \in DOMAIN rules
    BY <2>1, <2>6 DEF ApprovalSettlesPage, RuleTracesToReview, DraftsStay
  <2>7. CASE i = new
    BY <2>1, <2>4, <2>5, <2>7
  <2>8. QED
    BY <2>1, <2>6, <2>7
<1>3. QED
  BY <1>1, <1>2, WhoWrites DEF SubmitDrafts, CommitReject

\* The same page never comes back to the queue after its approval: the rule it
\* led to shows no difference from it, whatever the differ takes for noise.
THEOREM ApprovalsSettle ==
  ASSUME AnyDraft
  PROVE  PipelineSpec => []ApprovalSettlesPage
<1> DEFINE Inv == PipeInv /\ RuleTracesToReview /\ ApprovalSettlesPage
<1>1. PipelineInit => Inv
  <2>1. PipelineInit => RuleTracesToReview /\ ApprovalSettlesPage
    BY SeedAssumption DEF PipelineInit, Init, DeskInit, RuleTracesToReview, ApprovalSettlesPage
  <2>2. QED
    BY <2>1, PipeInvInit
<1>2. Inv /\ [PipelineNext]_pipelineVars => Inv'
  <2> SUFFICES ASSUME Inv, [PipelineNext]_pipelineVars
               PROVE  Inv'
    OBVIOUS
  <2>1. PipeInv' /\ DraftsStay /\ [Next]_vars
    BY PipeInvStep, PipelineKeepsDrafts, PipelineImplements
  <2>2. RuleTracesToReview'
    BY <2>1, TraceStep DEF PipeInv
  <2>3. ApprovalSettlesPage'
    BY <2>1, SettledStep DEF PipeInv
  <2>4. QED
    BY <2>1, <2>2, <2>3
<1>3. QED
  BY <1>1, <1>2, PTL DEF PipelineSpec

-------------------------------------------------------------------------------
(***************************************************************************)
(* One check at a time never queues a change twice, if no two sources can  *)
(* read the same.                                                          *)
(***************************************************************************)
OneCheck == \A c, d \in Checkers : c = d

DistinctSources ==
  \A i, j \in DOMAIN Sources : (i # j /\ Sources[i].program = Sources[j].program) =>
    Sources[i].program = Null /\ Sources[i].name # Sources[j].name

\* The draft may come from the k-th source.
From(d, k) ==
  /\ d.program = Sources[k].program
  /\ d.program = Null => d.summary = {<<Sources[k].name, Null, Null>>}

Distinct(s) == \A i, j \in DOMAIN s : SameChange(s[i], s[j]) => i = j

\* Each change of a check comes from a source that had its turn, no two are
\* the same, and its drafts are changes it has dealt with.
Ready(r) ==
  /\ \A i \in DOMAIN r.diffs : \E k \in 1 .. r.source - 1 : From(r.diffs[i], k)
  /\ Distinct(r.diffs) /\ Distinct(r.created)
  /\ \A i \in DOMAIN r.created : \E m \in 1 .. r.next - 1 : r.created[i] = r.diffs[m]

NonePending(r) == \A i \in DOMAIN r.created : ~ AlreadyPending(r.created[i])

UniqueInv ==
  PendingUnique /\ \A c \in Checkers : Ready(check[c]) /\ NonePending(check[c])

\* Drafts of two sources are never the same change.
LEMMA SourcesDiffer ==
  ASSUME DistinctSources, NEW k \in DOMAIN Sources, NEW l \in DOMAIN Sources, k # l,
         NEW d, NEW e, From(d, k), From(e, l)
  PROVE  ~ SameChange(d, e)
<1> SUFFICES ASSUME SameChange(d, e)
             PROVE  FALSE
  OBVIOUS
<1>1. Sources[k].program = Sources[l].program /\ d.program = e.program /\ d.summary = e.summary
  BY DEF SameChange, From
<1>2. d.program = Null /\ Sources[k].name # Sources[l].name
  BY <1>1 DEF DistinctSources, From
<1>3. {<<Sources[k].name, Null, Null>>} = {<<Sources[l].name, Null, Null>>}
  BY <1>1, <1>2 DEF From
<1>4. \A a, b : {<<a, Null, Null>>} = {<<b, Null, Null>>} => a = b
  <2> TAKE a, b
  <2> HAVE {<<a, Null, Null>>} = {<<b, Null, Null>>}
  <2>1. <<a, Null, Null>> = <<b, Null, Null>>
    BY Zenon
  <2>2. <<a, Null, Null>>[1] = <<b, Null, Null>>[1]
    BY <2>1, Zenon
  <2>3. QED
    BY <2>2
<1>5. QED
  BY <1>2, <1>3, <1>4, Zenon

\* One more element that differs from the others.
LEMMA DistinctAppend ==
  ASSUME NEW s \in Seq(NewDraft), NEW d \in NewDraft, Distinct(s),
         \A i \in DOMAIN s : ~ SameChange(s[i], d)
  PROVE  Distinct(Append(s, d))
<1>1. /\ Len(s) \in Nat /\ DOMAIN s = 1 .. Len(s)
      /\ DOMAIN Append(s, d) = 1 .. Len(s) + 1
      /\ \A i \in 1 .. Len(s) : Append(s, d)[i] = s[i]
      /\ Append(s, d)[Len(s) + 1] = d
  BY LenProperties, AppendProperties
<1> SUFFICES ASSUME NEW i \in 1 .. Len(s) + 1, NEW j \in 1 .. Len(s) + 1,
                    SameChange(Append(s, d)[i], Append(s, d)[j])
             PROVE  i = j
  BY <1>1 DEF Distinct
<1>2. CASE i \in 1 .. Len(s) /\ j \in 1 .. Len(s)
  BY <1>1, <1>2 DEF Distinct
<1>3. CASE i = Len(s) + 1 /\ j \in 1 .. Len(s)
  BY <1>1, <1>3 DEF SameChange
<1>4. CASE i \in 1 .. Len(s) /\ j = Len(s) + 1
  BY <1>1, <1>4
<1>5. CASE i = Len(s) + 1 /\ j = Len(s) + 1
  BY <1>5
<1>6. QED
  BY <1>1, <1>2, <1>3, <1>4, <1>5

\* No draft becomes pending where none is added.
LEMMA NothingNewPending ==
  ASSUME DraftsStay, DOMAIN drafts' = DOMAIN drafts
  PROVE  /\ PendingUnique => PendingUnique'
         /\ \A d : AlreadyPending(d)' => AlreadyPending(d)
<1>1. PendingUnique => PendingUnique'
  BY DEF PendingUnique, IsPending, SameChange, DraftsStay
<1>2. QED
  BY <1>1 DEF AlreadyPending, IsPending, SameChange, DraftsStay

\* A turn of the scraper keeps the check ready.
LEMMA ScrapeReady ==
  ASSUME DistinctSources, PipeInv, NEW c \in Checkers, Scrape(c), Ready(check[c])
  PROVE  Ready(check'[c]) /\ check'[c].created = check[c].created
<1> DEFINE r == check[c]
           src == Sources[r.source]
<1>1. /\ check \in [Checkers -> CheckRecord] /\ r \in CheckRecord /\ CheckOk(r)
      /\ LiveOk(r) /\ RowsInv
  BY DEF PipeInv, ChecksOk
<1>2. PICK ds \in Seq(NewDraft) :
        /\ r.source \in DOMAIN Sources
        /\ ds = r.diffs
           \/ \E page \in Contents : ds = Append(r.diffs, Draft(src, page, LiveRule(src, r.live)))
        /\ check'[c].diffs = ds /\ check'[c].next = r.next /\ check'[c].created = r.created
        /\ check'[c].source = r.source + 1
  BY <1>1, ScrapeOk
<1>3. /\ r.diffs \in Seq(NewDraft) /\ Len(r.diffs) \in Nat /\ DOMAIN r.diffs = 1 .. Len(r.diffs)
      /\ r.source \in Nat /\ r.next \in 1 .. Len(r.diffs) + 1
  BY <1>1, LenProperties DEF CheckRecord, CheckOk
<1>4. \A m \in 1 .. r.next - 1 : check'[c].diffs[m] = r.diffs[m]
  BY ScrapeKeepsDiffs
<1>5. \A i \in DOMAIN r.created : \E m \in 1 .. check'[c].next - 1 :
        check'[c].created[i] = check'[c].diffs[m]
  BY <1>2, <1>4 DEF Ready
<1>6. /\ \A i \in DOMAIN ds : \E k \in 1 .. r.source : From(ds[i], k)
      /\ Distinct(ds)
  <2>1. CASE ds = r.diffs
    <3>1. \A i \in DOMAIN ds : \E k \in 1 .. r.source - 1 : From(ds[i], k)
      BY <2>1 DEF Ready
    <3>2. 1 .. r.source - 1 \subseteq 1 .. r.source
      BY <1>3
    <3>3. Distinct(ds)
      BY <2>1 DEF Ready
    <3>4. QED
      BY <3>1, <3>2, <3>3, Zenon
  <2>2. ASSUME NEW page \in Contents, ds = Append(r.diffs, Draft(src, page, LiveRule(src, r.live)))
        PROVE  /\ \A i \in DOMAIN ds : \E k \in 1 .. r.source : From(ds[i], k)
               /\ Distinct(ds)
    <3> DEFINE l == LiveRule(src, r.live)
               d == Draft(src, page, l)
    <3>1. l \in {0} \cup DOMAIN rules /\ d \in NewDraft
      BY <1>1, <1>2, <1>3, DiffNextType DEF LiveOk
    <3>2. d.program = src.program /\ d.summary = Summary(src, page, l)
      BY DEF Draft
    <3>3. From(d, r.source)
      BY <3>2 DEF From, Summary, LiveRule
    <3> HIDE DEF d, l
    <3>4. /\ DOMAIN ds = 1 .. Len(r.diffs) + 1 /\ ds[Len(r.diffs) + 1] = d
          /\ \A i \in 1 .. Len(r.diffs) : ds[i] = r.diffs[i]
      <4>1. ds = Append(r.diffs, d)
        BY <2>2 DEF d, l
      <4>2. QED
        BY <1>3, <3>1, <4>1, AppendProperties, LenProperties
    <3>5. \A i \in DOMAIN ds : \E k \in 1 .. r.source : From(ds[i], k)
      <4>1. \A i \in 1 .. Len(r.diffs) : \E k \in 1 .. r.source - 1 : From(ds[i], k)
        BY <1>3, <3>4 DEF Ready
      <4>2. r.source \in 1 .. r.source
        BY <1>2, <1>3, SourceTypes
      <4>3. QED
        BY <1>3, <3>3, <3>4, <4>1, <4>2
    <3>6. \A i \in DOMAIN r.diffs : ~ SameChange(r.diffs[i], d)
      <4> TAKE i \in DOMAIN r.diffs
      <4>1. PICK k \in 1 .. r.source - 1 : From(r.diffs[i], k)
        BY DEF Ready
      <4>2. k \in DOMAIN Sources /\ k # r.source
        BY <1>2, <1>3, SourceTypes
      <4>3. QED
        BY <1>2, <3>3, <4>1, <4>2, SourcesDiffer
    <3>7. Distinct(ds)
      <4>1. ds = Append(r.diffs, d)
        BY <2>2 DEF d, l
      <4>2. QED
        BY <1>3, <3>1, <3>6, <4>1, DistinctAppend DEF Ready
    <3>8. QED
      BY <3>5, <3>7
  <2>3. QED
    BY <1>2, <2>1, <2>2
<1>7. check'[c].source - 1 = r.source
  BY <1>2, <1>3
<1>8. QED
  BY <1>2, <1>5, <1>6, <1>7 DEF Ready

\* A turn of persist_drafts() keeps the check ready.
LEMMA PersistReady ==
  ASSUME PipeInv, NEW c \in Checkers, PersistNext(c), Ready(check[c]), NonePending(check[c])
  PROVE  /\ Ready(check'[c])
         /\ \A i \in DOMAIN check'[c].created : ~ AlreadyPending(check'[c].created[i])
<1> DEFINE r == check[c]
           d == r.diffs[r.next]
           made == IF AlreadyPending(d) THEN r.created ELSE Append(r.created, d)
<1>1. check \in [Checkers -> CheckRecord] /\ r \in CheckRecord
  BY DEF PipeInv, ChecksOk
<1>2. /\ r.next \in 1 .. Len(r.diffs) /\ d \in NewDraft
      /\ check'[c].diffs = r.diffs /\ check'[c].created = made /\ check'[c].next = r.next + 1
      /\ check'[c].source = r.source
  BY <1>1, PersistOk
<1>3. /\ r.created \in Seq(NewDraft) /\ Len(r.created) \in Nat /\ DOMAIN r.created = 1 .. Len(r.created)
      /\ r.next \in Nat /\ DOMAIN r.diffs = 1 .. Len(r.diffs) /\ Len(r.diffs) \in Nat
  BY <1>1, LenProperties DEF CheckRecord
<1>4. /\ Distinct(made)
      /\ \A i \in DOMAIN made : \E m \in 1 .. r.next : made[i] = r.diffs[m]
      /\ \A i \in DOMAIN made : ~ AlreadyPending(made[i])
  <2>1. CASE AlreadyPending(d)
    <3>1. made = r.created
      BY <2>1
    <3>2. Distinct(r.created) /\ \A i \in DOMAIN r.created : ~ AlreadyPending(r.created[i])
      BY DEF Ready, NonePending
    <3>3. \A i \in DOMAIN r.created : \E m \in 1 .. r.next - 1 : r.created[i] = r.diffs[m]
      BY DEF Ready
    <3>4. 1 .. r.next - 1 \subseteq 1 .. r.next
      BY <1>3
    <3> HIDE DEF made, r
    <3>5. QED
      BY <3>1, <3>2, <3>3, <3>4, Zenon
  <2>2. CASE ~ AlreadyPending(d)
    <3>1. made = Append(r.created, d)
      BY <2>2
    <3> HIDE DEF made
    <3>2. \A i \in DOMAIN r.created : ~ SameChange(r.created[i], d)
      <4> SUFFICES ASSUME NEW i \in DOMAIN r.created, SameChange(r.created[i], d)
                   PROVE  FALSE
        OBVIOUS
      <4>1. PICK m \in 1 .. r.next - 1 : r.created[i] = r.diffs[m]
        BY DEF Ready
      <4>2. m \in DOMAIN r.diffs /\ r.next \in DOMAIN r.diffs /\ m # r.next
        BY <1>2, <1>3
      <4>3. SameChange(r.diffs[m], r.diffs[r.next])
        BY <4>1
      <4>4. QED
        BY <4>2, <4>3, Zenon DEF Ready, Distinct
    <3>3. Distinct(made)
      BY <1>2, <1>3, <3>1, <3>2, DistinctAppend DEF Ready
    <3>4. /\ DOMAIN made = 1 .. Len(r.created) + 1 /\ made[Len(r.created) + 1] = d
          /\ \A i \in 1 .. Len(r.created) : made[i] = r.created[i]
      <4> HIDE DEF d
      <4>1. QED
        BY <1>2, <1>3, <3>1, AppendProperties, LenProperties
    <3>5. \A i \in DOMAIN made : \E m \in 1 .. r.next : made[i] = r.diffs[m]
      <4>1. \A i \in 1 .. Len(r.created) : \E m \in 1 .. r.next - 1 : made[i] = r.diffs[m]
        BY <1>3, <3>4 DEF Ready
      <4>2. 1 .. r.next - 1 \subseteq 1 .. r.next /\ r.next \in 1 .. r.next
        BY <1>2, <1>3
      <4>3. \A i \in 1 .. Len(r.created) : \E m \in 1 .. r.next : made[i] = r.diffs[m]
        BY <4>1, <4>2, Zenon
      <4>4. \A i \in DOMAIN made : i \in 1 .. Len(r.created) \/ i = Len(r.created) + 1
        BY <1>3, <3>4
      <4>5. QED
        BY <3>4, <4>2, <4>3, <4>4, Zenon
    <3>6. \A i \in DOMAIN made : ~ AlreadyPending(made[i])
      <4>1. \A i \in 1 .. Len(r.created) : ~ AlreadyPending(made[i])
        BY <1>3, <3>4 DEF NonePending
      <4>2. ~ AlreadyPending(made[Len(r.created) + 1])
        BY <2>2, <3>4
      <4>3. QED
        BY <1>3, <3>4, <4>1, <4>2
    <3>7. QED
      BY <3>3, <3>5, <3>6
  <2>3. QED
    BY <2>1, <2>2
<1> HIDE DEF made
<1>5. check'[c].next - 1 = r.next
  BY <1>2, <1>3
<1>6. QED
  BY <1>2, <1>4, <1>5 DEF Ready

\* What a check commits is not pending yet, nor twice in its batch.
LEMMA CommitUnique ==
  ASSUME PipeInv, PendingUnique, NEW c \in Checkers, CommitCheck(c),
         Ready(check[c]), NonePending(check[c])
  PROVE  PendingUnique'
<1> DEFINE batch == check[c].created
           n == Len(drafts)
<1>1. /\ n \in Nat /\ Len(batch) \in Nat
      /\ DOMAIN drafts = 1 .. n /\ DOMAIN batch = 1 .. Len(batch)
      /\ DOMAIN drafts' = 1 .. n + Len(batch)
      /\ \A id \in DOMAIN drafts : drafts'[id] = drafts[id]
      /\ \A id \in DOMAIN drafts' : id \notin DOMAIN drafts =>
           id - n \in DOMAIN batch /\ drafts'[id] = batch[id - n]
  BY CommitAppends
<1>2. Distinct(batch) /\ \A i \in DOMAIN batch : ~ AlreadyPending(batch[i])
  BY DEF Ready, NonePending
<1> HIDE DEF batch, n
<1>3. \A i \in DOMAIN drafts, j \in DOMAIN batch :
        IsPending(i) => ~ SameChange(drafts[i], batch[j])
  BY <1>2 DEF AlreadyPending
<1> SUFFICES ASSUME NEW i \in DOMAIN drafts', NEW j \in DOMAIN drafts',
                    IsPending(i)', IsPending(j)', SameChange(drafts'[i], drafts'[j])
             PROVE  i = j
  BY DEF PendingUnique
<1>4. SameChange(drafts'[j], drafts'[i])
  BY DEF SameChange
<1>5. CASE i \in DOMAIN drafts /\ j \in DOMAIN drafts
  BY <1>1, <1>5 DEF PendingUnique, IsPending
<1>6. CASE i \in DOMAIN drafts /\ j \notin DOMAIN drafts
  BY <1>1, <1>3, <1>6 DEF IsPending
<1>7. CASE i \notin DOMAIN drafts /\ j \in DOMAIN drafts
  BY <1>1, <1>3, <1>4, <1>7 DEF IsPending
<1>8. CASE i \notin DOMAIN drafts /\ j \notin DOMAIN drafts
  <2>1. i - n = j - n
    BY <1>1, <1>2, <1>8 DEF Distinct
  <2>2. QED
    BY <1>1, <2>1
<1>9. QED
  BY <1>5, <1>6, <1>7, <1>8

\* Every step of the pipeline keeps the queue free of duplicates.
LEMMA UniqueStep ==
  ASSUME OneCheck, DistinctSources, PipeInv, UniqueInv, [PipelineNext]_pipelineVars
  PROVE  UniqueInv'
<1>1. check \in [Checkers -> CheckRecord]
  BY DEF PipeInv, ChecksOk
<1>2. CASE DraftsStay /\ DOMAIN drafts' = DOMAIN drafts /\ check' = check
  <2>1. PendingUnique'
    BY <1>2, NothingNewPending DEF UniqueInv
  <2>2. ASSUME NEW e \in Checkers
        PROVE  (Ready(check[e]) /\ NonePending(check[e]))'
    <3>1. Ready(check[e]) /\ NonePending(check[e])
      BY DEF UniqueInv
    <3>2. \A d : AlreadyPending(d)' => AlreadyPending(d)
      BY <1>2, NothingNewPending
    <3>3. NonePending(check[e])'
      BY <1>2, <3>1 DEF NonePending, AlreadyPending, IsPending, SameChange, DraftsStay
    <3>4. QED
      BY <1>2, <3>1, <3>3 DEF Ready
  <2>3. QED
    BY <2>1, <2>2 DEF UniqueInv
<1>3. ASSUME NEW c \in Checkers, Check(c)
      PROVE  UniqueInv'
  <2>1. Ready(check[c]) /\ NonePending(check[c]) /\ PendingUnique
    BY DEF UniqueInv
  <2>2. \A e \in Checkers : e = c
    BY DEF OneCheck
  <2>3. ASSUME UNCHANGED drafts, Ready(check'[c]),
               \A i \in DOMAIN check'[c].created : ~ AlreadyPending(check'[c].created[i])
        PROVE  UniqueInv'
    <3>1. PendingUnique'
      BY <2>1, <2>3 DEF PendingUnique, IsPending
    <3>2. NonePending(check[c])'
      BY <2>3 DEF NonePending, AlreadyPending, IsPending
    <3>3. Ready(check[c])'
      BY <2>3 DEF Ready
    <3>4. QED
      BY <2>2, <3>1, <3>2, <3>3 DEF UniqueInv
  <2>4. CASE LoadLive(c)
    <3>1. PICK live \in [Programs -> Nat] :
            LET new == WithLive(NoCheck, live) IN
            /\ check' = [check EXCEPT ![c] = new] /\ UNCHANGED vars
            /\ CheckOk(new) /\ new.diffs = << >> /\ new.created = << >>
      BY <2>4, LoadOk
    <3>2. /\ check'[c] \in CheckRecord /\ check'[c].diffs = << >> /\ check'[c].created = << >>
          /\ UNCHANGED drafts
      BY <1>1, <3>1 DEF CheckOk, vars
    <3>3. DOMAIN << >> = {}
      OBVIOUS
    <3>4. Ready(check'[c])
      BY <3>2, <3>3 DEF Ready, Distinct
    <3>5. QED
      BY <2>3, <3>2, <3>3, <3>4
  <2>5. CASE Scrape(c)
    <3>1. Ready(check'[c]) /\ check'[c].created = check[c].created /\ UNCHANGED drafts
      BY <2>1, <2>5, ScrapeReady DEF Scrape, vars
    <3>2. \A i \in DOMAIN check'[c].created : ~ AlreadyPending(check'[c].created[i])
      BY <2>1, <3>1 DEF NonePending
    <3>3. QED
      BY <2>3, <3>1, <3>2
  <2>6. CASE PersistNext(c)
    <3>1. UNCHANGED drafts
      BY <2>6 DEF PersistNext, vars
    <3>2. QED
      BY <2>1, <2>3, <2>6, <3>1, PersistReady
  <2>7. CASE CommitCheck(c) \/ FailCheck(c)
    <3>1. check'[c] = NoCheck
      BY <1>1, <2>7 DEF CommitCheck, FailCheck
    <3>2. PendingUnique'
      <4>1. CASE CommitCheck(c)
        BY <2>1, <4>1, CommitUnique
      <4>2. CASE FailCheck(c)
        BY <2>1, <4>2 DEF FailCheck, vars, PendingUnique, IsPending
      <4>3. QED
        BY <2>7, <4>1, <4>2
    <3>3. NoCheck.diffs = << >> /\ NoCheck.created = << >> /\ DOMAIN << >> = {}
      BY DEF NoCheck
    <3>4. Ready(check[c])' /\ NonePending(check[c])'
      BY <3>1, <3>3 DEF Ready, Distinct, NonePending
    <3>5. QED
      BY <2>2, <3>2, <3>4 DEF UniqueInv
  <2>8. QED
    BY <1>3, <2>4, <2>5, <2>6, <2>7 DEF Check
<1>4. CASE \E s \in Reviewers : Review(s) /\ UNCHANGED check
  BY <1>2, <1>4, ReviewsKeepDrafts DEF PipeInv
<1>5. CASE UNCHANGED <<drafts, check>>
  BY <1>2, <1>5 DEF DraftsStay
<1>6. QED
  BY <1>3, <1>4, <1>5 DEF PipelineNext, Midnight, pipelineVars

\* "Idempotent per (program_id, diff_summary, status=pending)": as long as one
\* check runs at a time and no two sources can read the same, the queue never
\* holds the same change of a program twice.
THEOREM OneCheckQueuesOnce ==
  ASSUME AnyDraft, OneCheck, DistinctSources
  PROVE  PipelineSpec => []PendingUnique
<1>1. PipelineInit => PipeInv /\ UniqueInv
  <2> SUFFICES ASSUME PipelineInit
               PROVE  PipeInv /\ UniqueInv
    OBVIOUS
  <2>1. PipeInv /\ drafts = << >> /\ DOMAIN << >> = {}
    BY PipeInvInit DEF PipelineInit, Init, DeskInit
  <2>2. ASSUME NEW c \in Checkers
        PROVE  Ready(check[c]) /\ NonePending(check[c])
    <3>1. check[c] = NoCheck /\ NoCheck \in CheckRecord
      BY NoCheckOk DEF PipelineInit, CheckOk
    <3>2. NoCheck.diffs = << >> /\ NoCheck.created = << >>
      BY DEF NoCheck
    <3>3. QED
      BY <2>1, <3>1, <3>2 DEF Ready, Distinct, NonePending
  <2>3. QED
    BY <2>1, <2>2 DEF UniqueInv, PendingUnique
<1>2. PipeInv /\ UniqueInv /\ [PipelineNext]_pipelineVars => PipeInv' /\ UniqueInv'
  BY PipeInvStep, UniqueStep
<1>3. UniqueInv => PendingUnique
  BY DEF UniqueInv
<1>4. QED
  BY <1>1, <1>2, <1>3, PTL DEF PipelineSpec
===============================================================================

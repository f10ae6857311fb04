---------------------------- MODULE RecommendProofs ----------------------------
(***************************************************************************)
(* What holds of Recommend for every set of requests, students, programs,  *)
(* rules and replies of the model: the best programs are recommended, with *)
(* texts that fit; a program has one verdict; the log can be replayed; and *)
(* the tables can be audited while students are served.                    *)
(***************************************************************************)
EXTENDS Recommend, PolicyInForceProofs, RulesEngineProofs

USE DEF Days

-------------------------------------------------------------------------------
(***************************************************************************)
(* The local variables of a request.                                       *)
(***************************************************************************)
Locals == {"pc", "student", "day", "rows", "verdicts", "chosen", "ranked", "texts"}

LocalsKept ==
  /\ DOMAIN req = Requests
  /\ \A r \in Requests : DOMAIN req[r] = Locals

\* Every assignment of the handler changes the variables it names and no other.
LEMMA SetPc ==
  ASSUME NEW x, DOMAIN x = Locals, NEW a
  PROVE  LET new == [x EXCEPT !.pc = a] IN
         /\ DOMAIN new = Locals
         /\ new.pc = a /\ new.student = x.student /\ new.day = x.day /\ new.rows = x.rows
         /\ new.verdicts = x.verdicts /\ new.chosen = x.chosen
         /\ new.ranked = x.ranked /\ new.texts = x.texts
BY Zenon DEF Locals

\* What a request keeps when its texts change.
LEMMA SetTexts ==
  ASSUME NEW x, DOMAIN x = Locals, NEW a, NEW t
  PROVE  LET new == [x EXCEPT !.pc = a, !.texts = t] IN
         /\ DOMAIN new = Locals
         /\ new.pc = a /\ new.student = x.student /\ new.day = x.day /\ new.rows = x.rows
         /\ new.verdicts = x.verdicts /\ new.chosen = x.chosen
         /\ new.ranked = x.ranked /\ new.texts = t
BY ZenonT(30) DEF Locals

\* What a request keeps when it has read the rules.
LEMMA SetRows ==
  ASSUME NEW x, DOMAIN x = Locals, NEW a, NEW t
  PROVE  LET new == [x EXCEPT !.pc = a, !.day = 0, !.rows = t] IN
         /\ DOMAIN new = Locals
         /\ new.pc = a /\ new.student = x.student /\ new.day = 0 /\ new.rows = t
         /\ new.verdicts = x.verdicts /\ new.chosen = x.chosen
         /\ new.ranked = x.ranked /\ new.texts = x.texts
BY ZenonT(30) DEF Locals

\* What a request keeps when it has judged.
LEMMA SetVerdicts ==
  ASSUME NEW x, DOMAIN x = Locals, NEW a, NEW t
  PROVE  LET new == [x EXCEPT !.pc = a, !.rows = <<>>, !.verdicts = t] IN
         /\ DOMAIN new = Locals
         /\ new.pc = a /\ new.student = x.student /\ new.day = x.day /\ new.rows = <<>>
         /\ new.verdicts = t /\ new.chosen = x.chosen
         /\ new.ranked = x.ranked /\ new.texts = x.texts
BY ZenonT(30) DEF Locals

\* What a request keeps when it has ranked.
LEMMA SetRanked ==
  ASSUME NEW x, DOMAIN x = Locals, NEW a, NEW c, NEW t
  PROVE  LET new == [x EXCEPT !.pc = a, !.verdicts = <<>>, !.chosen = c, !.ranked = t] IN
         /\ DOMAIN new = Locals
         /\ new.pc = a /\ new.student = x.student /\ new.day = x.day /\ new.rows = x.rows
         /\ new.verdicts = <<>> /\ new.chosen = c
         /\ new.ranked = t /\ new.texts = x.texts
BY ZenonT(30) DEF Locals

\* What a request holds when it begins.
LEMMA BegunLocals ==
  ASSUME NEW student, NEW day
  PROVE  LET new == Begun(student, day) IN
         /\ DOMAIN new = Locals
         /\ new.pc = "reading" /\ new.student = student /\ new.day = day
         /\ new.rows = <<>> /\ new.verdicts = <<>> /\ new.chosen = {}
         /\ new.ranked = <<>> /\ new.texts = NoTexts
BY DEF Begun, Locals

\* What a request holds when it is at rest.
LEMMA QuietLocals ==
  ASSUME NEW a
  PROVE  LET new == Quiet(a) IN
         /\ DOMAIN new = Locals
         /\ new.pc = a /\ new.student = Null /\ new.day = 0
         /\ new.rows = <<>> /\ new.verdicts = <<>> /\ new.chosen = {}
         /\ new.ranked = <<>> /\ new.texts = NoTexts
<1> DEFINE x == Begun(Null, 0)
<1>1. /\ DOMAIN x = Locals /\ x.student = Null /\ x.day = 0
      /\ x.rows = <<>> /\ x.verdicts = <<>> /\ x.chosen = {}
      /\ x.ranked = <<>> /\ x.texts = NoTexts
  BY BegunLocals
<1>2. Quiet(a) = [x EXCEPT !.pc = a]
  BY DEF Quiet
<1> HIDE DEF x
<1>3. LET new == [x EXCEPT !.pc = a] IN
      /\ DOMAIN new = Locals
      /\ new.pc = a /\ new.student = x.student /\ new.day = x.day
      /\ new.rows = x.rows /\ new.verdicts = x.verdicts /\ new.chosen = x.chosen
      /\ new.ranked = x.ranked /\ new.texts = x.texts
  BY <1>1, SetPc
<1>4. QED
  BY <1>1, <1>2, <1>3, Zenon

\* A request that moves leaves the others where they are.
LEMMA GoesAlone ==
  ASSUME LocalsKept, NEW r \in Requests, NEW new, DOMAIN new = Locals, Goes(r, new)
  PROVE  /\ LocalsKept'
         /\ req'[r] = new
         /\ \A q \in Requests : q # r => req'[q] = req[q]
BY DEF LocalsKept, Goes

-------------------------------------------------------------------------------
(***************************************************************************)
(* The review requests beside them.                                        *)
(***************************************************************************)
\* A step is a step of the review service, or leaves its tables and requests.
LEMMA ReviewBeside ==
  ASSUME [RecommendNext]_recommendVars
  PROVE  [Next]_vars
BY DEF RecommendNext, recommendVars, vars, Begin, Serve, ReadRules, Judge, Rank,
       DatabaseFails, LookUp, Ask, Store, WriteLog, Forget

\* So the tables can be audited also while students are served.
THEOREM RecommendationsAreAudited == RecommendSpec => []Audited
<1>1. RecommendInit => Init
  BY DEF RecommendInit
<1>2. [RecommendNext]_recommendVars => [Next]_vars
  BY ReviewBeside
<1>3. QED
  BY <1>1, <1>2, TablesAreAudited, PTL DEF RecommendSpec

\* One table is a later state of the other.
Later(old, new) ==
  /\ DOMAIN old \subseteq DOMAIN new
  /\ \A i \in DOMAIN old :
       new[i].program = old[i].program /\ new[i].demands = old[i].demands

\* Whatever the reviewers do, a version keeps its program and its demands.
LEMMA TableGrows ==
  ASSUME RowsInv, [Next]_vars
  PROVE  RowsInv' /\ Later(rules, rules')
<1>1. RowsInv' /\ VersionsKept
  BY RowsInvStep, VersionsStep
<1>2. rules \in Seq(AdmissionRule) /\ rules' \in Seq(AdmissionRule)
  BY <1>1 DEF RowsInv, TypeOK
<1>3. DOMAIN rules \subseteq DOMAIN rules'
  <2>1. /\ DOMAIN rules = 1 .. Len(rules) /\ DOMAIN rules' = 1 .. Len(rules')
        /\ Len(rules) \in Nat /\ Len(rules') \in Nat
    BY <1>2, LenProperties
  <2>2. QED
    BY <1>1, <2>1 DEF VersionsKept
<1>4. ASSUME NEW i \in DOMAIN rules
      PROVE  rules'[i].program = rules[i].program /\ rules'[i].demands = rules[i].demands
  <2>1. rules[i] \in AdmissionRule
    BY <1>2, LenProperties, ElementOfSeq
  <2>2. rules'[i] = [rules[i] EXCEPT !.effective_to = rules'[i].effective_to]
    BY <1>1 DEF VersionsKept
  <2>3. QED
    BY <2>1, <2>2 DEF AdmissionRule
<1>5. QED
  BY <1>1, <1>3, <1>4 DEF Later

\* And the date does not go back.
LEMMA DaysPass ==
  ASSUME RowsInv, [Next]_vars
  PROVE  today \in Nat /\ today' \in Nat /\ today <= today'
<1>1. today \in Nat
  BY LastDayAssumption DEF RowsInv, TypeOK
<1>2. today' = today \/ today' = today + 1
  BY DEF Next, Environment, SubmitDrafts, Midnight, Review, ApproveBegin, RejectBegin, ReadLive,
         Flush, CommitApprove, CommitReject, Abort, vars, deskVars
<1>3. QED
  BY <1>1, <1>2

-------------------------------------------------------------------------------
(***************************************************************************)
(* The key.  The joined text of a list of words tells the words cut at     *)
(* their commas, though no more of how they were grouped.                  *)
(***************************************************************************)
\* The cells of a table of parts, in reading order, are finitely many.
Cells(parts) == UNION { {k} \X DOMAIN parts[k] : k \in DOMAIN parts }
ReadBefore(parts) ==
  { e \in Cells(parts) \X Cells(parts) :
      e[1][1] < e[2][1] \/ (e[1][1] = e[2][1] /\ e[1][2] < e[2][2]) }

\* Parts of parts are cells and the other way round.
LEMMA CellsOrdered ==
  ASSUME NEW n \in Nat, NEW parts, DOMAIN parts = 1 .. n,
         \A k \in 1 .. n : parts[k] \in Seq(Words)
  PROVE  /\ IsFiniteSet(Cells(parts))
         /\ \A c \in Cells(parts) : c[1] \in 1 .. n /\ c[2] \in DOMAIN parts[c[1]]
         /\ \A k \in 1 .. n : \A i \in DOMAIN parts[k] : << k, i >> \in Cells(parts)
         /\ TotalOrder(ReadBefore(parts), Cells(parts))
<1> DEFINE C == Cells(parts)
           row == [k \in 1 .. n |-> {k} \X DOMAIN parts[k]]
           Rows == { row[k] : k \in 1 .. n }
<1>1. \A k \in 1 .. n : DOMAIN parts[k] = 1 .. Len(parts[k]) /\ Len(parts[k]) \in Nat
  BY LenProperties
<1>2. C = UNION Rows
  BY DEF Cells
<1>3. IsFiniteSet(C)
  <2>1. \A k \in 1 .. n : IsFiniteSet(row[k])
    <3> SUFFICES ASSUME NEW k \in 1 .. n
                 PROVE  IsFiniteSet({k} \X DOMAIN parts[k])
      OBVIOUS
    <3>1. IsFiniteSet({k})
      BY FS_Singleton
    <3>2. IsFiniteSet(1 .. Len(parts[k])) /\ DOMAIN parts[k] = 1 .. Len(parts[k])
      BY <1>1, FS_Interval
    <3>3. QED
      BY <3>1, <3>2, FS_Product
  <2>2. /\ DOMAIN row = 1 .. n /\ row \in [1 .. n -> Rows]
        /\ \A T \in Rows : \E k \in 1 .. n : row[k] = T
    OBVIOUS
  <2> HIDE DEF row
  <2>3. \A T \in Rows : IsFiniteSet(T)
    BY <2>1
  <2> HIDE DEF Rows
  <2>4. row \in Surjection(1 .. n, Rows)
    BY <2>2 DEF Surjection
  <2>5. IsFiniteSet(1 .. n)
    BY FS_Interval
  <2>6. IsFiniteSet(Rows)
    BY <2>4, <2>5, FS_Surjection
  <2>7. QED
    BY <1>2, <2>3, <2>6, FS_UNION
<1>4. ASSUME NEW c \in C
      PROVE  /\ c[1] \in 1 .. n /\ c[2] \in DOMAIN parts[c[1]]
             /\ c = << c[1], c[2] >> /\ c[1] \in Int /\ c[2] \in Int
  <2>1. PICK k \in 1 .. n : c \in {k} \X DOMAIN parts[k]
    BY DEF Cells
  <2>2. QED
    BY <1>1, <2>1
<1>5. \A k \in 1 .. n : \A i \in DOMAIN parts[k] : << k, i >> \in C
  BY DEF Cells
<1>6. \A c, d \in C :
        << c, d >> \in ReadBefore(parts) <=> c[1] < d[1] \/ (c[1] = d[1] /\ c[2] < d[2])
  BY DEF ReadBefore
<1> HIDE DEF C
<1>7. TotalOrder(ReadBefore(parts), C)
  <2>1. \A c \in C : << c, c >> \notin ReadBefore(parts)
    BY <1>4, <1>6
  <2>2. ASSUME NEW c \in C, NEW d \in C, NEW e \in C,
               << c, d >> \in ReadBefore(parts), << d, e >> \in ReadBefore(parts)
        PROVE  << c, e >> \in ReadBefore(parts)
    <3>1. /\ c[1] < d[1] \/ (c[1] = d[1] /\ c[2] < d[2])
          /\ d[1] < e[1] \/ (d[1] = e[1] /\ d[2] < e[2])
      BY <1>6, <2>2
    <3>2. /\ c[1] \in Int /\ c[2] \in Int /\ d[1] \in Int /\ d[2] \in Int
          /\ e[1] \in Int /\ e[2] \in Int
      BY <1>4
    <3>3. c[1] < e[1] \/ (c[1] = e[1] /\ c[2] < e[2])
      BY <3>1, <3>2
    <3>4. QED
      BY <1>6, <3>3
  <2>3. ASSUME NEW c \in C, NEW d \in C, c # d
        PROVE  << c, d >> \in ReadBefore(parts) \/ << d, c >> \in ReadBefore(parts)
    <3>1. c[1] # d[1] \/ c[2] # d[2]
      BY <1>4, <2>3
    <3>2. c[1] \in Int /\ c[2] \in Int /\ d[1] \in Int /\ d[2] \in Int
      BY <1>4
    <3>3. QED
      BY <1>6, <3>1, <3>2
  <2>4. QED
    BY <2>1, <2>2, <2>3 DEF TotalOrder
<1>8. QED
  BY <1>3, <1>4, <1>5, <1>7 DEF C

\* Nothing is lost or added where parts are put one after another.
LEMMA ConcatenatedKeeps ==
  ASSUME NEW n \in Nat, NEW parts, DOMAIN parts = 1 .. n,
         \A k \in 1 .. n : parts[k] \in Seq(Words)
  PROVE  ToSet(Concatenated(parts)) = UNION { ToSet(parts[k]) : k \in 1 .. n }
<1> DEFINE C == Cells(parts)
           m == Cardinality(C)
           places == InOrder(C, ReadBefore(parts))
           t == Concatenated(parts)
<1>1. t = [ i \in DOMAIN places |-> parts[places[i][1]][places[i][2]] ]
  BY DEF Concatenated, Cells, ReadBefore
<1>2. /\ IsFiniteSet(C) /\ TotalOrder(ReadBefore(parts), C)
      /\ \A c \in C : c[1] \in 1 .. n /\ c[2] \in DOMAIN parts[c[1]]
      /\ \A k \in 1 .. n : \A i \in DOMAIN parts[k] : << k, i >> \in C
  BY CellsOrdered
<1> HIDE DEF C
<1>3. Lists(places, m, C, ReadBefore(parts))
  BY <1>2, InOrderLists
<1> HIDE DEF places, m
<1>4. /\ DOMAIN places = 1 .. m /\ \A i \in 1 .. m : places[i] \in C
      /\ \A c \in C : \E i \in 1 .. m : places[i] = c
  BY <1>3 DEF Lists
<1>5. DOMAIN t = 1 .. m /\ \A i \in 1 .. m : t[i] = parts[places[i][1]][places[i][2]]
  BY <1>1, <1>4
<1> HIDE DEF t
<1>6. ASSUME NEW w \in ToSet(t)
      PROVE  \E k \in 1 .. n : w \in ToSet(parts[k])
  <2>1. PICK i \in 1 .. m : w = t[i]
    BY <1>5 DEF ToSet
  <2>2. places[i][1] \in 1 .. n /\ places[i][2] \in DOMAIN parts[places[i][1]]
    BY <1>2, <1>4
  <2>3. QED
    BY <1>5, <2>1, <2>2 DEF ToSet
<1>7. ASSUME NEW k \in 1 .. n, NEW w \in ToSet(parts[k])
      PROVE  w \in ToSet(t)
  <2>1. PICK j \in DOMAIN parts[k] : w = parts[k][j]
    BY DEF ToSet
  <2>2. PICK i \in 1 .. m : places[i] = << k, j >>
    BY <1>2, <1>4
  <2>3. t[i] = w
    BY <1>5, <2>1, <2>2
  <2>4. QED
    BY <1>5, <2>3 DEF ToSet
<1>8. ToSet(t) = UNION { ToSet(parts[k]) : k \in 1 .. n }
  BY <1>6, <1>7
<1>9. QED
  BY <1>8 DEF t

\* What the joined text tells of the words.
LEMMA NormTellsHeard ==
  ASSUME NEW tags \in Seq(Words)
  PROVE  Heard(tags) = ToSet(Norm(tags)) \ {NoWord}
<1>1. CASE tags = <<>>
  <2>1. ToSet(tags) = {} /\ ToSet(<<NoWord>>) = {NoWord}
    BY <1>1 DEF ToSet
  <2>2. Norm(tags) = <<NoWord>>
    BY <1>1 DEF Norm
  <2>3. QED
    BY <2>1, <2>2 DEF Heard
<1>2. CASE tags # <<>>
  <2> DEFINE n == Len(tags)
             folded == [i \in DOMAIN tags |-> Fold[tags[i]]]
             S == { Fold[w] : w \in ToSet(tags) }
             sorted == StableSort(folded, Alphabet)
             parts == [k \in DOMAIN sorted |-> Cut[sorted[k]]]
  <2>1. /\ n \in Nat /\ DOMAIN tags = 1 .. n
        /\ \A i \in 1 .. n : tags[i] \in Words
    BY LenProperties, ElementOfSeq
  <2>2. S \subseteq Words
    BY <2>1, EngineAssumption DEF ToSet
  <2>3. ListOf(folded, n, S)
    BY <2>1 DEF ListOf, ToSet
  <2>4. TotalOrder(Alphabet, S)
    BY <2>2, WordsAssumption DEF TotalOrder
  <2> HIDE DEF S, folded
  <2>5. ListOf(sorted, n, S)
    BY <2>1, <2>3, <2>4, StableSortKeeps
  <2> HIDE DEF sorted
  <2>6. /\ DOMAIN parts = 1 .. n
        /\ \A k \in 1 .. n : parts[k] = Cut[sorted[k]] /\ sorted[k] \in S
        /\ \A v \in S : \E k \in 1 .. n : sorted[k] = v
    BY <2>5 DEF ListOf
  <2>7. \A k \in 1 .. n : parts[k] \in Seq(Words)
    BY <2>2, <2>6, WordsAssumption
  <2>8. Norm(tags) = Concatenated(parts)
    BY <1>2 DEF Norm, sorted, folded
  <2> HIDE DEF parts, n
  <2>9. ToSet(Norm(tags)) = UNION { ToSet(parts[k]) : k \in 1 .. n }
    BY <2>1, <2>6, <2>7, <2>8, ConcatenatedKeeps
  <2>10. UNION { ToSet(parts[k]) : k \in 1 .. n } = UNION { ToSet(Cut[v]) : v \in S }
    BY <2>6
  <2>11. UNION { ToSet(Cut[v]) : v \in S } = UNION { ToSet(Cut[Fold[w]]) : w \in ToSet(tags) }
    BY DEF S
  <2>12. QED
    BY <2>9, <2>10, <2>11 DEF Heard
<1>3. QED
  BY <1>1, <1>2

\* Students of one key named the same interests and goals.
LEMMA OneKeyOneHearing ==
  ASSUME NEW s \in Students, NEW t \in Students, TagsOf[s] = TagsOf[t]
  PROVE  Heard(s.interests) = Heard(t.interests) /\ Heard(s.goals) = Heard(t.goals)
<1>1. \A u \in Students : u.interests \in Seq(Words) /\ u.goals \in Seq(Words)
  BY StudentsAssumption DEF Student
<1>2. \A u \in Students : TagsOf[u] = << Norm(u.interests), Norm(u.goals) >>
  BY DEF TagsOf
<1>3. Norm(s.interests) = Norm(t.interests) /\ Norm(s.goals) = Norm(t.goals)
  BY <1>2
<1>4. QED
  BY <1>1, <1>3, NormTellsHeard

-------------------------------------------------------------------------------
(***************************************************************************)
(* TextsFit.  It is not inductive alone: a request that finds its texts in *)
(* the cache relies on what others stored there, under a key that tells    *)
(* less of a student than the texts were written from.                     *)
(***************************************************************************)
AtRest == {"idle", "answered", "failed"}

\* The texts are for the ranking, and for a student of the same key.
Fit(x) ==
  /\ x.texts.ids = x.ranked
  /\ x.texts.student \in Students /\ TagsOf[x.texts.student] = TagsOf[x.student]

TextsOk(x) ==
  /\ x.pc \notin AtRest => x.student \in Students
  /\ x.pc = "storing" => Fit(x)
  /\ x.pc = "logging" => (x.ranked = <<>> \/ Fit(x))

EntryFits(e) ==
  /\ e.texts.ids = e.key[1]
  /\ e.texts.student \in Students /\ TagsOf[e.texts.student] = e.key[2]
EntriesFit == \A e \in cache : EntryFits(e)

TextsInv == LocalsKept /\ EntriesFit /\ \A r \in Requests : TextsOk(req[r])

\* A request whose own texts fit keeps the invariant.
LEMMA TextsAlone ==
  ASSUME TextsInv, NEW r \in Requests, NEW new, DOMAIN new = Locals, TextsOk(new),
         Goes(r, new), EntriesFit'
  PROVE  TextsInv'
<1>1. LocalsKept' /\ req'[r] = new /\ \A q \in Requests : q # r => req'[q] = req[q]
  BY GoesAlone DEF TextsInv
<1>2. \A q \in Requests : TextsOk(req'[q])
  BY <1>1, Zenon DEF TextsInv
<1>3. QED
  BY <1>1, <1>2 DEF TextsInv

\* A pc at which a request shows no texts yet, or no longer.
LEMMA NoTextsShown ==
  ASSUME NEW x, x.pc \notin {"storing", "logging"}, x.pc \notin AtRest => x.student \in Students
  PROVE  TextsOk(x)
BY DEF TextsOk

\* A look into the cache finds an entry that fits its key.
LEMMA LookUpTexts ==
  ASSUME TextsInv, NEW r \in Requests, LookUp(r)
  PROVE  TextsInv'
<1> DEFINE x == req[r]
<1>1. DOMAIN x = Locals /\ EntriesFit' /\ x.student \in Students
  BY DEF TextsInv, LocalsKept, EntriesFit, LookUp, TextsOk, AtRest
<1>2. ASSUME NEW e \in Cached(r), Goes(r, [x EXCEPT !.pc = "logging", !.texts = e.texts])
      PROVE  TextsInv'
  <2> DEFINE new == [x EXCEPT !.pc = "logging", !.texts = e.texts]
  <2>1. /\ DOMAIN new = Locals /\ new.pc = "logging" /\ new.texts = e.texts
        /\ new.ranked = x.ranked /\ new.student = x.student
    BY <1>1, SetTexts
  <2>2. e.key = << x.ranked, TagsOf[x.student] >> /\ e \in cache
    BY DEF Cached, BucketKey
  <2>3. /\ e.texts.ids = x.ranked
        /\ e.texts.student \in Students /\ TagsOf[e.texts.student] = TagsOf[x.student]
    BY <2>2 DEF TextsInv, EntriesFit, EntryFits
  <2>4. Goes(r, new)
    BY <1>2
  <2> HIDE DEF new
  <2>5. TextsOk(new)
    BY <1>1, <2>1, <2>3 DEF TextsOk, Fit
  <2>6. QED
    BY <1>1, <2>1, <2>4, <2>5, TextsAlone
<1>3. ASSUME Goes(r, [x EXCEPT !.pc = "asking"])
      PROVE  TextsInv'
  <2> DEFINE new == [x EXCEPT !.pc = "asking"]
  <2>1. DOMAIN new = Locals /\ new.pc = "asking" /\ new.student = x.student
    BY <1>1, SetPc
  <2>2. Goes(r, new)
    BY <1>3
  <2> HIDE DEF new
  <2>3. QED
    BY <1>1, <2>1, <2>2, NoTextsShown, TextsAlone
<1>4. QED
  BY <1>2, <1>3 DEF LookUp

\* The template is written from the ranked programs; what the model wrote has
\* passed a gate that compares its programs with them, in order.
LEMMA AskTexts ==
  ASSUME TextsInv, NEW r \in Requests, Ask(r)
  PROVE  TextsInv'
<1> DEFINE x == req[r]
<1>1. DOMAIN x = Locals /\ EntriesFit' /\ x.student \in Students
  BY DEF TextsInv, LocalsKept, EntriesFit, Ask, TextsOk, AtRest
<1>2. ASSUME NEW t, t.ids = x.ranked, t.student = x.student,
             Goes(r, [x EXCEPT !.pc = "storing", !.texts = t])
      PROVE  TextsInv'
  <2> DEFINE new == [x EXCEPT !.pc = "storing", !.texts = t]
  <2>1. /\ DOMAIN new = Locals /\ new.pc = "storing" /\ new.texts = t
        /\ new.ranked = x.ranked /\ new.student = x.student
    BY <1>1, SetTexts
  <2>2. Goes(r, new)
    BY <1>2
  <2> HIDE DEF new
  <2>3. TextsOk(new)
    BY <1>1, <1>2, <2>1 DEF TextsOk, Fit
  <2>4. QED
    BY <1>1, <2>1, <2>2, <2>3, TextsAlone
<1>3. ASSUME AskRefused(r)
      PROVE  TextsInv'
  <2>1. Texts(r, "template").ids = x.ranked /\ Texts(r, "template").student = x.student
    BY DEF Texts
  <2>2. QED
    BY <1>2, <1>3, <2>1 DEF AskRefused
<1>4. ASSUME NEW reply \in Replies,
             Goes(r, [x EXCEPT !.pc = "storing", !.texts = Explained(r, reply)])
      PROVE  TextsInv'
  <2>1. /\ Explained(r, reply).ids = x.ranked
        /\ Explained(r, reply).student = x.student
    BY DEF Explained, Passes
  <2>2. QED
    BY <1>2, <1>4, <2>1
<1>5. ASSUME Goes(r, Quiet("failed"))
      PROVE  TextsInv'
  <2>1. DOMAIN Quiet("failed") = Locals /\ Quiet("failed").pc = "failed"
    BY QuietLocals
  <2>2. QED
    BY <1>1, <1>5, <2>1, NoTextsShown, TextsAlone DEF AtRest
<1>6. QED
  BY <1>3, <1>4, <1>5 DEF Ask

\* What is stored is the text made for the key.
LEMMA StoreTexts ==
  ASSUME TextsInv, NEW r \in Requests, Store(r)
  PROVE  TextsInv'
<1> DEFINE x == req[r]
           new == [x EXCEPT !.pc = "logging"]
<1>1. /\ DOMAIN x = Locals /\ x.pc = "storing" /\ Goes(r, new)
      /\ x.student \in Students /\ Fit(x)
  BY DEF TextsInv, LocalsKept, TextsOk, AtRest, Store
<1>2. /\ DOMAIN new = Locals /\ new.pc = "logging" /\ new.texts = x.texts
      /\ new.ranked = x.ranked /\ new.student = x.student
  BY <1>1, SetPc
<1>3. EntriesFit'
  <2>1. ASSUME NEW e \in cache'
        PROVE  e \in cache \/ e = [ key |-> BucketKey(x.student, x.ranked), texts |-> x.texts ]
    BY DEF Store
  <2>2. ASSUME NEW e, e = [ key |-> BucketKey(x.student, x.ranked), texts |-> x.texts ]
        PROVE  EntryFits(e)
    BY <1>1, <2>2 DEF BucketKey, Fit, EntryFits
  <2>3. QED
    BY <2>1, <2>2 DEF EntriesFit, TextsInv
<1> HIDE DEF new
<1>4. TextsOk(new)
  BY <1>1, <1>2 DEF TextsOk, Fit
<1>5. QED
  BY <1>1, <1>2, <1>3, <1>4, TextsAlone

\* A request that explains nothing ranked nothing.
LEMMA RankTexts ==
  ASSUME TextsInv, NEW r \in Requests, Rank(r)
  PROVE  TextsInv'
<1> DEFINE x == req[r]
<1>1. DOMAIN x = Locals /\ EntriesFit' /\ x.student \in Students
  BY DEF TextsInv, LocalsKept, EntriesFit, Rank, TextsOk, AtRest
<1>2. PICK ranked :
        Goes(r, [x EXCEPT !.pc = IF ranked = <<>> THEN "logging" ELSE "looking",
                          !.verdicts = <<>>, !.chosen = Chosen(x.verdicts), !.ranked = ranked])
  BY DEF Rank
<1> DEFINE pc == IF ranked = <<>> THEN "logging" ELSE "looking"
           chosen == Chosen(x.verdicts)
           new == [x EXCEPT !.pc = pc, !.verdicts = <<>>, !.chosen = chosen, !.ranked = ranked]
<1>3. Goes(r, new)
  BY <1>2
<1>4. pc \in {"looking", "logging"} /\ (pc = "logging" => ranked = <<>>)
  OBVIOUS
<1> HIDE DEF pc, chosen
<1>5. DOMAIN new = Locals /\ new.pc = pc /\ new.ranked = ranked /\ new.student = x.student
  BY <1>1, SetRanked
<1> HIDE DEF new
<1>6. TextsOk(new)
  BY <1>1, <1>4, <1>5 DEF TextsOk
<1>7. QED
  BY <1>1, <1>3, <1>5, <1>6, TextsAlone

\* The steps that touch neither a text nor the cache.
LEMMA QuietTexts ==
  ASSUME TextsInv, NEW r \in Requests,
         Begin(r) \/ ReadRules(r) \/ Judge(r) \/ DatabaseFails(r) \/ WriteLog(r)
  PROVE  TextsInv'
<1> DEFINE x == req[r]
<1>1. DOMAIN x = Locals /\ EntriesFit'
  BY DEF TextsInv, LocalsKept, EntriesFit, Begin, ReadRules, Judge, DatabaseFails, WriteLog
<1>2. ASSUME NEW new, DOMAIN new = Locals, new.pc \notin {"storing", "logging"},
             new.pc \notin AtRest => new.student \in Students, Goes(r, new)
      PROVE  TextsInv'
  BY <1>1, <1>2, NoTextsShown, TextsAlone
<1>3. CASE Begin(r)
  <2>1. PICK student \in Students : Goes(r, Begun(student, today))
    BY <1>3 DEF Begin
  <2>2. QED
    BY <1>2, <2>1, BegunLocals
<1>4. CASE ReadRules(r)
  <2>1. PICK rows : Goes(r, [x EXCEPT !.pc = "judging", !.day = 0, !.rows = rows])
    BY <1>4 DEF ReadRules
  <2> DEFINE new == [x EXCEPT !.pc = "judging", !.day = 0, !.rows = rows]
  <2>2. /\ DOMAIN new = Locals /\ new.pc = "judging" /\ Goes(r, new)
        /\ new.student = x.student
    BY <1>1, <2>1, SetRows
  <2>3. x.student \in Students
    BY <1>4 DEF ReadRules, TextsInv, TextsOk, AtRest
  <2> HIDE DEF new
  <2>4. QED
    BY <1>2, <2>2, <2>3
<1>5. CASE Judge(r)
  <2> DEFINE verdicts == FilterEligible(x.student, x.rows, today)
             new == [x EXCEPT !.pc = "ranking", !.rows = <<>>, !.verdicts = verdicts]
  <2>1. Goes(r, new)
    BY <1>5 DEF Judge
  <2> HIDE DEF verdicts
  <2>2. DOMAIN new = Locals /\ new.pc = "ranking" /\ new.student = x.student
    BY <1>1, SetVerdicts
  <2>3. x.student \in Students
    BY <1>5 DEF Judge, TextsInv, TextsOk, AtRest
  <2> HIDE DEF new
  <2>4. QED
    BY <1>2, <2>1, <2>2, <2>3
<1>6. CASE DatabaseFails(r) \/ WriteLog(r)
  <2>1. Goes(r, Quiet("failed")) \/ Goes(r, Quiet("answered"))
    BY <1>6 DEF DatabaseFails, WriteLog
  <2>2. QED
    BY <1>2, <2>1, QuietLocals DEF AtRest
<1>7. QED
  BY <1>3, <1>4, <1>5, <1>6

\* Every step keeps the texts and the entries fit.
LEMMA TextsStep ==
  ASSUME TextsInv, [RecommendNext]_recommendVars
  PROVE  TextsInv'
<1>1. ASSUME NEW r \in Requests, Begin(r) \/ Serve(r)
      PROVE  TextsInv'
  BY <1>1, LookUpTexts, AskTexts, StoreTexts, RankTexts, QuietTexts DEF Serve
<1>2. CASE Forget
  BY <1>2 DEF Forget, TextsInv, LocalsKept, EntriesFit
<1>3. CASE UNCHANGED <<req, cache>>
  BY <1>3 DEF TextsInv, LocalsKept, EntriesFit
<1>4. QED
  BY <1>1, <1>2, <1>3 DEF RecommendNext, recommendVars

\* The explanations shown are for the programs recommended, in their order, and
\* for a student who named the same interests and goals, whoever wrote them and
\* for whom, although students who grouped their words otherwise share a key.
THEOREM TextsAlwaysFit == RecommendSpec => []TextsFit
<1>1. RecommendInit => TextsInv
  <2>1. ASSUME RecommendInit
        PROVE  LocalsKept /\ EntriesFit /\ \A r \in Requests : req[r].pc = "idle"
    BY <2>1, QuietLocals DEF RecommendInit, LocalsKept, EntriesFit
  <2>2. QED
    BY <2>1, NoTextsShown DEF TextsInv, AtRest
<1>2. ASSUME TextsInv
      PROVE  TextsFit
  <2> SUFFICES ASSUME NEW r \in Requests, req[r].pc \in {"storing", "logging"},
                      req[r].ranked # <<>>
               PROVE  /\ req[r].texts.ids = req[r].ranked
                      /\ Heard(req[r].texts.student.interests) = Heard(req[r].student.interests)
                      /\ Heard(req[r].texts.student.goals) = Heard(req[r].student.goals)
    BY DEF TextsFit
  <2>1. Fit(req[r]) /\ req[r].student \in Students
    BY <1>2 DEF TextsInv, TextsOk, AtRest
  <2>2. QED
    BY <2>1, OneKeyOneHearing DEF Fit
<1>3. QED
  BY <1>1, <1>2, TextsStep, PTL DEF RecommendSpec

-------------------------------------------------------------------------------
(***************************************************************************)
(* LogCanBeReplayed.  What a request has read of the rules stays true of   *)
(* the table, from the SELECT through the verdicts to the log, because a   *)
(* version keeps its program and its demands whatever the desk does.       *)
(***************************************************************************)
\* Rule id of a table is a rule of the program and admits the student.
Admits(table, student, program, id) ==
  /\ id \in DOMAIN table
  /\ table[id].program = program
  /\ Fails(student, table[id]) = {}

\* What the local variables of a request say of the table.
ReadOk(table, x) ==
  \A k \in DOMAIN x.rows :
    /\ x.rows[k].id \in DOMAIN table
    /\ table[x.rows[k].id].program = x.rows[k].rule.program
    /\ table[x.rows[k].id].demands = x.rows[k].rule.demands

JudgedOk(table, x) ==
  \A k \in DOMAIN x.verdicts :
    x.verdicts[k].eligible =>
      Admits(table, x.student, x.verdicts[k].program, x.verdicts[k].id)

ChosenOk(table, x) == \A c \in x.chosen : Admits(table, x.student, c[1], c[2])

TrueOf(table, x) == ReadOk(table, x) /\ JudgedOk(table, x) /\ ChosenOk(table, x)

LogOk(table, rows) == \A row \in rows : ChosenOk(table, row)

LogInv ==
  /\ LocalsKept /\ RowsInv
  /\ \A r \in Requests : TrueOf(rules, req[r])
  /\ LogOk(rules, log)

\* What an applicant fails depends on the demands of a rule alone.
LEMMA FailsByDemands ==
  ASSUME NEW student, NEW a, NEW b, a.demands = b.demands
  PROVE  Fails(student, a) = Fails(student, b)
BY DEF Fails

\* A rule that admits a student does so when the table has grown.
LEMMA AdmitsStays ==
  ASSUME NEW old, NEW new, Later(old, new), NEW student, NEW program, NEW id,
         Admits(old, student, program, id)
  PROVE  Admits(new, student, program, id)
<1>1. id \in DOMAIN old /\ id \in DOMAIN new
  BY DEF Admits, Later
<1>2. Fails(student, new[id]) = Fails(student, old[id])
  BY <1>1, FailsByDemands DEF Later
<1>3. QED
  BY <1>1, <1>2 DEF Admits, Later

\* What a request has read stays true when the table has grown.
LEMMA TrueStays ==
  ASSUME NEW old, NEW new, Later(old, new), NEW x, TrueOf(old, x)
  PROVE  TrueOf(new, x)
<1>1. ReadOk(new, x)
  BY DEF TrueOf, ReadOk, Later
<1>2. JudgedOk(new, x)
  BY AdmitsStays DEF TrueOf, JudgedOk
<1>3. ChosenOk(new, x)
  BY AdmitsStays DEF TrueOf, ChosenOk
<1>4. QED
  BY <1>1, <1>2, <1>3 DEF TrueOf

\* What the log says stays true when the table has grown.
LEMMA LogStays ==
  ASSUME NEW old, NEW new, Later(old, new), NEW rows, LogOk(old, rows)
  PROVE  LogOk(new, rows)
BY AdmitsStays DEF LogOk, ChosenOk

\* A step of one request that leaves the tables and the log alone.
LEMMA LogAlone ==
  ASSUME LogInv, NEW r \in Requests, NEW new, DOMAIN new = Locals, TrueOf(rules, new),
         Goes(r, new), UNCHANGED <<vars, log>>
  PROVE  LogInv'
<1>1. LocalsKept' /\ req'[r] = new /\ \A q \in Requests : q # r => req'[q] = req[q]
  BY GoesAlone DEF LogInv
<1>2. RowsInv' /\ rules' = rules /\ log' = log
  BY RowsInvStep DEF LogInv, vars
<1>3. \A q \in Requests : TrueOf(rules, req'[q])
  BY <1>1, Zenon DEF LogInv
<1>4. QED
  BY <1>1, <1>2, <1>3 DEF LogInv

\* A request that begins, or ends, says nothing of the rules.
LEMMA NothingSaid ==
  ASSUME NEW x, x.rows = <<>>, x.verdicts = <<>>, x.chosen = {}
  PROVE  TrueOf(rules, x)
BY DEF TrueOf, ReadOk, JudgedOk, ChosenOk

\* One whose pc or texts change says what it said.
LEMMA SaysTheSame ==
  ASSUME NEW x, NEW new, TrueOf(rules, x), new.student = x.student, new.rows = x.rows,
         new.verdicts = x.verdicts, new.chosen = x.chosen
  PROVE  TrueOf(rules, new)
BY DEF TrueOf, ReadOk, JudgedOk, ChosenOk

\* The rows are those the SELECT found, in whatever order.
LEMMA ReadRulesLog ==
  ASSUME LogInv, NEW r \in Requests, ReadRules(r)
  PROVE  LogInv'
<1> DEFINE x == req[r]
           active == { i \in DOMAIN rules : IsActive(rules[i], x.day) }
<1>1. DOMAIN x = Locals /\ TrueOf(rules, x) /\ UNCHANGED <<vars, log>>
  BY DEF LogInv, LocalsKept, ReadRules
<1>2. PICK order \in SetToSeqs(active) :
        Goes(r, [x EXCEPT !.pc = "judging", !.day = 0,
                 !.rows = [k \in DOMAIN order |-> [id |-> order[k], rule |-> rules[order[k]]]]])
  BY DEF ReadRules
<1> DEFINE rows == [k \in DOMAIN order |-> [id |-> order[k], rule |-> rules[order[k]]]]
           new == [x EXCEPT !.pc = "judging", !.day = 0, !.rows = rows]
<1>3. \A k \in DOMAIN rows : rows[k].id \in DOMAIN rules /\ rows[k].rule = rules[rows[k].id]
  <2>1. \A k \in DOMAIN order : order[k] \in active
    BY <1>2 DEF SetToSeqs
  <2>2. QED
    BY <2>1
<1>4. Goes(r, new)
  BY <1>2
<1> HIDE DEF rows
<1>5. /\ DOMAIN new = Locals /\ new.student = x.student /\ new.rows = rows
      /\ new.verdicts = x.verdicts /\ new.chosen = x.chosen
  BY <1>1, SetRows
<1> HIDE DEF new
<1>6. TrueOf(rules, new)
  BY <1>1, <1>3, <1>5 DEF TrueOf, ReadOk, JudgedOk, ChosenOk
<1>7. QED
  BY <1>1, <1>4, <1>5, <1>6, LogAlone

\* A verdict is about the version that was read, not about what has become of it.
LEMMA JudgeLog ==
  ASSUME LogInv, NEW r \in Requests, Judge(r)
  PROVE  LogInv'
<1> DEFINE x == req[r]
           verdicts == FilterEligible(x.student, x.rows, today)
           new == [x EXCEPT !.pc = "ranking", !.rows = <<>>, !.verdicts = verdicts]
<1>1. /\ DOMAIN x = Locals /\ TrueOf(rules, x) /\ UNCHANGED <<vars, log>>
      /\ Goes(r, new)
  BY DEF LogInv, LocalsKept, Judge
<1>2. \A k \in DOMAIN verdicts :
        verdicts[k].eligible =>
          Admits(rules, x.student, verdicts[k].program, verdicts[k].id)
  <2>1. SUFFICES ASSUME NEW k \in DOMAIN verdicts, verdicts[k].eligible
                 PROVE  Admits(rules, x.student, verdicts[k].program, verdicts[k].id)
    OBVIOUS
  <2>2. /\ k \in DOMAIN x.rows
        /\ verdicts[k].program = x.rows[k].rule.program /\ verdicts[k].id = x.rows[k].id
        /\ Fails(x.student, x.rows[k].rule) = {}
    BY <2>1 DEF FilterEligible
  <2>3. /\ x.rows[k].id \in DOMAIN rules
        /\ rules[x.rows[k].id].program = x.rows[k].rule.program
        /\ rules[x.rows[k].id].demands = x.rows[k].rule.demands
    BY <1>1, <2>2 DEF TrueOf, ReadOk
  <2>4. Fails(x.student, rules[x.rows[k].id]) = {}
    BY <2>2, <2>3, FailsByDemands
  <2>5. QED
    BY <2>2, <2>3, <2>4 DEF Admits
<1> HIDE DEF verdicts
<1>3. /\ DOMAIN new = Locals /\ new.student = x.student /\ new.rows = <<>>
      /\ new.verdicts = verdicts /\ new.chosen = x.chosen
  BY <1>1, SetVerdicts
<1> HIDE DEF new
<1>4. TrueOf(rules, new)
  BY <1>1, <1>2, <1>3 DEF TrueOf, ReadOk, JudgedOk, ChosenOk
<1>5. QED
  BY <1>1, <1>3, <1>4, LogAlone

\* A ranking chooses among what was judged.
LEMMA RankLog ==
  ASSUME LogInv, NEW r \in Requests, Rank(r)
  PROVE  LogInv'
<1> DEFINE x == req[r]
           chosen == Chosen(x.verdicts)
<1>1. DOMAIN x = Locals /\ TrueOf(rules, x) /\ UNCHANGED <<vars, log>>
  BY DEF LogInv, LocalsKept, Rank
<1>2. PICK ranked :
        Goes(r, [x EXCEPT !.pc = IF ranked = <<>> THEN "logging" ELSE "looking",
                          !.verdicts = <<>>, !.chosen = chosen, !.ranked = ranked])
  BY DEF Rank
<1>3. \A c \in chosen : Admits(rules, x.student, c[1], c[2])
  <2>1. SUFFICES ASSUME NEW k \in DOMAIN x.verdicts, x.verdicts[k].eligible
                 PROVE  Admits(rules, x.student, x.verdicts[k].program, x.verdicts[k].id)
    BY DEF Chosen
  <2>2. QED
    BY <1>1, <2>1 DEF TrueOf, JudgedOk
<1> DEFINE pc == IF ranked = <<>> THEN "logging" ELSE "looking"
           new == [x EXCEPT !.pc = pc, !.verdicts = <<>>, !.chosen = chosen, !.ranked = ranked]
<1>4. Goes(r, new)
  BY <1>2
<1> HIDE DEF pc, chosen
<1>5. /\ DOMAIN new = Locals /\ new.student = x.student /\ new.rows = x.rows
      /\ new.verdicts = <<>> /\ new.chosen = chosen
  BY <1>1, SetRanked
<1> HIDE DEF new
<1>6. TrueOf(rules, new)
  BY <1>1, <1>3, <1>5 DEF TrueOf, ReadOk, JudgedOk, ChosenOk
<1>7. QED
  BY <1>1, <1>4, <1>5, <1>6, LogAlone

\* The steps that explain, and those that begin or break off a request.
LEMMA OtherLog ==
  ASSUME LogInv, NEW r \in Requests,
         Begin(r) \/ DatabaseFails(r) \/ LookUp(r) \/ Ask(r) \/ Store(r)
  PROVE  LogInv'
<1> DEFINE x == req[r]
<1>1. DOMAIN x = Locals /\ TrueOf(rules, x) /\ UNCHANGED <<vars, log>>
  BY DEF LogInv, LocalsKept, Begin, DatabaseFails, LookUp, Ask, Store
<1>2. ASSUME NEW student, Goes(r, Begun(student, today))
      PROVE  LogInv'
  <2> DEFINE new == Begun(student, today)
  <2>1. /\ DOMAIN new = Locals /\ new.rows = <<>> /\ new.verdicts = <<>> /\ new.chosen = {}
        /\ Goes(r, new)
    BY <1>2, BegunLocals
  <2> HIDE DEF new
  <2>2. QED
    BY <1>1, <2>1, NothingSaid, LogAlone
<1>3. ASSUME Goes(r, Quiet("failed"))
      PROVE  LogInv'
  BY <1>1, <1>3, QuietLocals, NothingSaid, LogAlone
<1>4. ASSUME NEW pc, NEW t, Goes(r, [x EXCEPT !.pc = pc, !.texts = t])
      PROVE  LogInv'
  <2> DEFINE new == [x EXCEPT !.pc = pc, !.texts = t]
  <2>1. /\ DOMAIN new = Locals /\ new.student = x.student /\ new.rows = x.rows
        /\ new.verdicts = x.verdicts /\ new.chosen = x.chosen
    BY <1>1, SetTexts
  <2>2. Goes(r, new)
    BY <1>4
  <2> HIDE DEF new
  <2>3. QED
    BY <1>1, <2>1, <2>2, SaysTheSame, LogAlone
<1>5. ASSUME NEW pc, Goes(r, [x EXCEPT !.pc = pc])
      PROVE  LogInv'
  <2> DEFINE new == [x EXCEPT !.pc = pc]
  <2>1. /\ DOMAIN new = Locals /\ new.student = x.student /\ new.rows = x.rows
        /\ new.verdicts = x.verdicts /\ new.chosen = x.chosen
    BY <1>1, SetPc
  <2>2. Goes(r, new)
    BY <1>5
  <2> HIDE DEF new
  <2>3. QED
    BY <1>1, <2>1, <2>2, SaysTheSame, LogAlone
<1>6. CASE Begin(r) \/ DatabaseFails(r)
  BY <1>2, <1>3, <1>6 DEF Begin, DatabaseFails
<1>7. CASE LookUp(r)
  BY <1>4, <1>5, <1>7 DEF LookUp
<1>8. CASE Ask(r)
  BY <1>3, <1>4, <1>8 DEF Ask, AskRefused
<1>9. CASE Store(r)
  BY <1>5, <1>9 DEF Store
<1>10. QED
  BY <1>6, <1>7, <1>8, <1>9

\* The row written says what the request has chosen.
LEMMA WriteLogLog ==
  ASSUME LogInv, NEW r \in Requests, WriteLog(r)
  PROVE  LogInv'
<1> DEFINE new == Quiet("answered")
<1>1. /\ RowsInv' /\ rules' = rules /\ Goes(r, new)
      /\ log' = log \cup {LogEntry(r)} \/ log' = log
  BY RowsInvStep DEF LogInv, WriteLog, vars
<1>2. DOMAIN new = Locals /\ new.rows = <<>> /\ new.verdicts = <<>> /\ new.chosen = {}
  BY QuietLocals
<1> HIDE DEF new
<1>3. LocalsKept' /\ req'[r] = new /\ \A q \in Requests : q # r => req'[q] = req[q]
  BY <1>1, <1>2, GoesAlone DEF LogInv
<1>4. TrueOf(rules, new)
  BY <1>2, NothingSaid
<1>5. \A q \in Requests : TrueOf(rules, req'[q])
  BY <1>3, <1>4, Zenon DEF LogInv
<1>6. ChosenOk(rules, LogEntry(r))
  BY DEF LogInv, TrueOf, ChosenOk, LogEntry
<1>7. LogOk(rules, log')
  BY <1>1, <1>6 DEF LogInv, LogOk
<1>8. QED
  BY <1>1, <1>3, <1>5, <1>7 DEF LogInv

\* The reviews go on, and the log stays true.
LEMMA ReviewLog ==
  ASSUME LogInv, [Next]_vars, UNCHANGED <<req, log>>
  PROVE  LogInv'
<1>1. RowsInv' /\ Later(rules, rules')
  BY TableGrows DEF LogInv
<1>2. \A r \in Requests : TrueOf(rules', req[r])
  BY <1>1, TrueStays DEF LogInv
<1>3. LogOk(rules', log)
  BY <1>1, LogStays DEF LogInv
<1>4. QED
  BY <1>1, <1>2, <1>3 DEF LogInv, LocalsKept

\* Every step keeps the log and what the requests hold true.
LEMMA LogStep ==
  ASSUME LogInv, [RecommendNext]_recommendVars
  PROVE  LogInv'
<1>1. ASSUME NEW r \in Requests, Begin(r) \/ Serve(r)
      PROVE  LogInv'
  BY <1>1, ReadRulesLog, JudgeLog, RankLog, OtherLog, WriteLogLog DEF Serve
<1>2. CASE Forget \/ (Next /\ UNCHANGED <<req, cache, log>>) \/ UNCHANGED recommendVars
  <2>1. UNCHANGED <<req, log>>
    BY <1>2 DEF Forget, recommendVars
  <2>2. QED
    BY <2>1, ReviewBeside, ReviewLog
<1>3. QED
  BY <1>1, <1>2 DEF RecommendNext

\* What the log says of a recommendation is found in the rules table at any
\* later time, whatever was approved since.
THEOREM LogStaysTrue == RecommendSpec => []LogCanBeReplayed
<1>1. RecommendInit => LogInv
  <2>1. ASSUME RecommendInit
        PROVE  /\ LocalsKept /\ RowsInv /\ log = {}
               /\ \A r \in Requests : TrueOf(rules, req[r])
    <3>1. DOMAIN Quiet("idle") = Locals /\ TrueOf(rules, Quiet("idle"))
      BY QuietLocals, NothingSaid
    <3>2. req = [r \in Requests |-> Quiet("idle")] /\ Init /\ log = {}
      BY <2>1 DEF RecommendInit
    <3>3. QED
      BY <3>1, <3>2, RowsInvInit DEF LocalsKept
  <2>2. QED
    BY <2>1 DEF LogInv, LogOk
<1>2. LogInv => LogCanBeReplayed
  BY DEF LogInv, LogOk, ChosenOk, Admits, LogCanBeReplayed
<1>3. QED
  BY <1>1, <1>2, LogStep, PTL DEF RecommendSpec

-------------------------------------------------------------------------------
(***************************************************************************)
(* RecommendTypeOK and RankedIsBest, by what each request holds: rows and  *)
(* verdicts name rules that exist, and a ranking, once it is made, is the  *)
(* best of what was chosen.  What is chosen and ranked is not touched from *)
(* then on, so that only Rank has to say why.                              *)
(***************************************************************************)
Places == {"idle", "reading", "judging", "ranking", "looking", "asking", "storing",
           "logging", "answered", "failed"}
Ranked == {"looking", "asking", "storing", "logging"}
Authors == {"template", "llm"}

RowsTyped(table, x) ==
  /\ Gapped(x.rows)
  /\ \A k \in DOMAIN x.rows : x.rows[k].id \in DOMAIN table /\ x.rows[k].rule \in AdmissionRule

VerdictsTyped(table, x) ==
  /\ Gapped(x.verdicts)
  /\ \A k \in DOMAIN x.verdicts :
       x.verdicts[k].id \in DOMAIN table /\ x.verdicts[k].program \in Programs

RankingTyped(table, x) ==
  /\ x.chosen \subseteq Programs \X DOMAIN table
  /\ x.ranked \in Seq(Programs) /\ Len(x.ranked) <= TopN

TextsTyped(x) ==
  /\ x.texts.by \in Authors \cup {"nobody"}
  /\ x.pc = "storing" => x.texts.by \in Authors

\* The programs chosen that are offered.
Recommendable(chosen) == { c[1] : c \in { d \in chosen : Catalogue[d[1]].offered } }

BestTyped(x) ==
  x.pc \in Ranked => IsBestRounded(x.student, Recommendable(x.chosen), x.ranked)

RequestOk(table, day, x) ==
  /\ x.pc \in Places /\ x.day \in 0 .. day
  /\ x.student \in Students \cup {Null} /\ (x.pc \notin AtRest => x.student \in Students)
  /\ RowsTyped(table, x) /\ VerdictsTyped(table, x) /\ RankingTyped(table, x)
  /\ TextsTyped(x) /\ BestTyped(x)

CacheTyped == \A e \in cache : e.texts.by \in Authors

RequestInv ==
  /\ LocalsKept /\ RowsInv /\ CacheTyped
  /\ \A r \in Requests : RequestOk(rules, today, req[r])

\* What a request holds is so when the table has grown and days have passed.
LEMMA RequestOkStays ==
  ASSUME NEW old, NEW new, Later(old, new), NEW day \in Nat, NEW now \in Nat, day <= now,
         NEW x, RequestOk(old, day, x)
  PROVE  RequestOk(new, now, x)
<1>1. RowsTyped(new, x) /\ VerdictsTyped(new, x) /\ RankingTyped(new, x)
  BY DEF RequestOk, RowsTyped, VerdictsTyped, RankingTyped, Later
<1>2. x.day \in 0 .. now
  BY DEF RequestOk
<1>3. QED
  BY <1>1, <1>2 DEF RequestOk

\* A request that has read nothing holds nothing wrong.
LEMMA NothingHeld ==
  ASSUME NEW table, NEW day \in Nat, NEW x, x.pc \in AtRest \cup {"reading"},
         x.student \in Students \cup {Null}, x.pc = "reading" => x.student \in Students,
         x.day \in 0 .. day, x.rows = <<>>, x.verdicts = <<>>, x.chosen = {},
         x.ranked = <<>>, x.texts = NoTexts
  PROVE  RequestOk(table, day, x)
<1>1. Gapped(<<>>)
  <2>1. DOMAIN << >> = {}
    OBVIOUS
  <2>2. QED
    BY <2>1, FS_EmptySet DEF Gapped
<1>2. RowsTyped(table, x) /\ VerdictsTyped(table, x)
  BY <1>1 DEF RowsTyped, VerdictsTyped
<1>3. RankingTyped(table, x)
  BY EngineAssumption DEF RankingTyped
<1>4. TextsTyped(x) /\ BestTyped(x)
  BY DEF TextsTyped, BestTyped, Ranked, AtRest, NoTexts
<1>5. QED
  BY <1>2, <1>3, <1>4 DEF RequestOk, Places, AtRest

\* A step of one request beside which the tables stay as they are.
LEMMA RequestAlone ==
  ASSUME RequestInv, NEW r \in Requests, NEW new, DOMAIN new = Locals,
         RequestOk(rules, today, new), Goes(r, new), CacheTyped', UNCHANGED vars
  PROVE  RequestInv'
<1>1. LocalsKept' /\ req'[r] = new /\ \A q \in Requests : q # r => req'[q] = req[q]
  BY GoesAlone DEF RequestInv
<1>2. RowsInv' /\ rules' = rules /\ today' = today
  BY RowsInvStep DEF RequestInv, vars
<1>3. \A q \in Requests : RequestOk(rules, today, req'[q])
  BY <1>1, Zenon DEF RequestInv
<1>4. QED
  BY <1>1, <1>2, <1>3 DEF RequestInv

\* What a request holds where it stands.
LEMMA Held ==
  ASSUME RequestInv, NEW r \in Requests
  PROVE  /\ DOMAIN req[r] = Locals /\ RequestOk(rules, today, req[r])
         /\ today \in Nat /\ rules \in Seq(AdmissionRule)
BY LastDayAssumption DEF RequestInv, LocalsKept, RowsInv, TypeOK

\* The steps that begin or end a request.
LEMMA EndsOk ==
  ASSUME RequestInv, NEW r \in Requests,
         \/ \E student \in Students : Goes(r, Begun(student, today))
         \/ Goes(r, Quiet("failed")) \/ Goes(r, Quiet("answered")),
         UNCHANGED <<vars, cache>>
  PROVE  RequestInv'
<1>1. CacheTyped' /\ UNCHANGED vars /\ today \in Nat
  BY Held DEF RequestInv, CacheTyped
<1>2. ASSUME NEW student \in Students, Goes(r, Begun(student, today))
      PROVE  RequestInv'
  <2> DEFINE new == Begun(student, today)
  <2>1. /\ DOMAIN new = Locals
        /\ new.pc = "reading" /\ new.student = student /\ new.day = today
        /\ new.rows = <<>> /\ new.verdicts = <<>> /\ new.chosen = {}
        /\ new.ranked = <<>> /\ new.texts = NoTexts
    BY BegunLocals
  <2>2. Goes(r, new)
    BY <1>2
  <2> HIDE DEF new
  <2>3. RequestOk(rules, today, new)
    BY <1>1, <2>1, NothingHeld
  <2>4. QED
    BY <1>1, <2>1, <2>2, <2>3, RequestAlone
<1>3. ASSUME NEW pc \in AtRest, Goes(r, Quiet(pc))
      PROVE  RequestInv'
  <2> DEFINE new == Quiet(pc)
  <2>1. /\ DOMAIN new = Locals
        /\ new.pc = pc /\ new.student = Null /\ new.day = 0
        /\ new.rows = <<>> /\ new.verdicts = <<>> /\ new.chosen = {}
        /\ new.ranked = <<>> /\ new.texts = NoTexts
    BY QuietLocals
  <2>2. Goes(r, new)
    BY <1>3
  <2> HIDE DEF new
  <2>3. RequestOk(rules, today, new)
    BY <1>1, <1>3, <2>1, NothingHeld DEF AtRest
  <2>4. QED
    BY <1>1, <2>1, <2>2, <2>3, RequestAlone
<1>4. QED
  BY <1>2, <1>3 DEF AtRest

\* The rows are rules of the table.
LEMMA ReadRulesOk ==
  ASSUME RequestInv, NEW r \in Requests, ReadRules(r)
  PROVE  RequestInv'
<1> DEFINE x == req[r]
           active == { i \in DOMAIN rules : IsActive(rules[i], x.day) }
<1>1. /\ DOMAIN x = Locals /\ RequestOk(rules, today, x) /\ today \in Nat
      /\ rules \in Seq(AdmissionRule)
  BY Held
<1>2. x.pc = "reading" /\ CacheTyped' /\ UNCHANGED vars
  BY DEF ReadRules, RequestInv, CacheTyped
<1>3. PICK order \in SetToSeqs(active) :
        Goes(r, [x EXCEPT !.pc = "judging", !.day = 0,
                 !.rows = [k \in DOMAIN order |-> [id |-> order[k], rule |-> rules[order[k]]]]])
  BY DEF ReadRules
<1> DEFINE rows == [k \in DOMAIN order |-> [id |-> order[k], rule |-> rules[order[k]]]]
           new == [x EXCEPT !.pc = "judging", !.day = 0, !.rows = rows]
<1>4. Goes(r, new)
  BY <1>3
<1>5. Gapped(rows)
  <2>1. DOMAIN rules = 1 .. Len(rules) /\ Len(rules) \in Nat
    BY <1>1, LenProperties
  <2>2. IsFiniteSet(active)
    <3>1. IsFiniteSet(DOMAIN rules)
      BY <2>1, FS_Interval
    <3>2. active \subseteq DOMAIN rules
      OBVIOUS
    <3> HIDE DEF active
    <3>3. QED
      BY <3>1, <3>2, FS_Subset
  <2>3. DOMAIN order = 1 .. Cardinality(active) /\ Cardinality(active) \in Nat
    BY <2>2, FS_CardinalityType DEF SetToSeqs
  <2>4. DOMAIN rows = 1 .. Cardinality(active)
    BY <2>3
  <2> HIDE DEF rows
  <2>5. QED
    BY <2>3, <2>4, FS_Interval DEF Gapped
<1>6. \A k \in DOMAIN rows : rows[k].id \in DOMAIN rules /\ rows[k].rule \in AdmissionRule
  <2>1. \A k \in DOMAIN order : order[k] \in active
    BY <1>3 DEF SetToSeqs
  <2>2. \A i \in DOMAIN rules : rules[i] \in AdmissionRule
    BY <1>1, LenProperties, ElementOfSeq
  <2>3. QED
    BY <2>1, <2>2
<1> HIDE DEF rows
<1>7. /\ DOMAIN new = Locals
      /\ new.pc = "judging" /\ new.student = x.student /\ new.day = 0 /\ new.rows = rows
      /\ new.verdicts = x.verdicts /\ new.chosen = x.chosen
      /\ new.ranked = x.ranked /\ new.texts = x.texts
  BY <1>1, SetRows
<1> HIDE DEF new
<1>8. RowsTyped(rules, new)
  BY <1>5, <1>6, <1>7 DEF RowsTyped
<1>9. VerdictsTyped(rules, new) /\ RankingTyped(rules, new) /\ TextsTyped(new) /\ BestTyped(new)
  BY <1>1, <1>7 DEF RequestOk, VerdictsTyped, RankingTyped, TextsTyped, BestTyped, Ranked
<1>10. RequestOk(rules, today, new)
  BY <1>1, <1>2, <1>7, <1>8, <1>9 DEF RequestOk, Places, AtRest
<1>11. QED
  BY <1>2, <1>4, <1>7, <1>10, RequestAlone

\* A verdict names the program and the id of the row it was given on.
LEMMA JudgeOk ==
  ASSUME RequestInv, NEW r \in Requests, Judge(r)
  PROVE  RequestInv'
<1> DEFINE x == req[r]
           verdicts == FilterEligible(x.student, x.rows, today)
           new == [x EXCEPT !.pc = "ranking", !.rows = <<>>, !.verdicts = verdicts]
<1>1. DOMAIN x = Locals /\ RequestOk(rules, today, x) /\ today \in Nat
  BY Held
<1>2. x.pc = "judging" /\ CacheTyped' /\ UNCHANGED vars /\ Goes(r, new)
  BY DEF Judge, RequestInv, CacheTyped
<1>3. RowsTyped(rules, x)
  BY <1>1 DEF RequestOk
<1>4. DOMAIN verdicts \subseteq DOMAIN x.rows
  BY DEF FilterEligible
<1>5. \A k \in DOMAIN verdicts :
        verdicts[k].id = x.rows[k].id /\ verdicts[k].program = x.rows[k].rule.program
  BY DEF FilterEligible
<1> HIDE DEF verdicts
<1>6. Gapped(verdicts)
  BY <1>3, <1>4, FS_Subset DEF RowsTyped, Gapped
<1>7. \A k \in DOMAIN verdicts : verdicts[k].id \in DOMAIN rules /\ verdicts[k].program \in Programs
  BY <1>3, <1>4, <1>5 DEF RowsTyped, AdmissionRule
<1>8. /\ DOMAIN new = Locals
      /\ new.pc = "ranking" /\ new.student = x.student /\ new.day = x.day /\ new.rows = <<>>
      /\ new.verdicts = verdicts /\ new.chosen = x.chosen
      /\ new.ranked = x.ranked /\ new.texts = x.texts
  BY <1>1, SetVerdicts
<1> HIDE DEF new
<1>9. RowsTyped(rules, new)
  <2>1. DOMAIN << >> = {}
    OBVIOUS
  <2>2. QED
    BY <1>8, <2>1, FS_EmptySet DEF RowsTyped, Gapped
<1>10. VerdictsTyped(rules, new)
  BY <1>6, <1>7, <1>8 DEF VerdictsTyped
<1>11. RankingTyped(rules, new) /\ TextsTyped(new) /\ BestTyped(new)
  BY <1>1, <1>8 DEF RequestOk, RankingTyped, TextsTyped, BestTyped, Ranked
<1>12. RequestOk(rules, today, new)
  BY <1>1, <1>2, <1>8, <1>9, <1>10, <1>11 DEF RequestOk, Places, AtRest
<1>13. QED
  BY <1>2, <1>8, <1>12, RequestAlone

\* The programs that are ranked are those the log will list, if they are offered.
LEMMA ChosenAreRanked ==
  ASSUME NEW verdicts
  PROVE  Recommendable(Chosen(verdicts)) = OfferedIn(EligibleIds(verdicts))
<1> DEFINE E == { k \in DOMAIN verdicts : verdicts[k].eligible }
           ids == EligibleIds(verdicts)
<1>1. DOMAIN ids = E /\ \A k \in E : ids[k] = verdicts[k].program
  BY DEF EligibleIds
<1>2. ToSet(ids) = { verdicts[k].program : k \in E }
  BY <1>1 DEF ToSet
<1>3. Chosen(verdicts) = { << verdicts[k].program, verdicts[k].id >> : k \in E }
  BY DEF Chosen
<1> DEFINE S == { verdicts[k].program : k \in { i \in E : Catalogue[verdicts[i].program].offered } }
<1> HIDE DEF ids, E
<1>4. Recommendable(Chosen(verdicts)) = S
  <2>1. ASSUME NEW p \in S
        PROVE  p \in Recommendable(Chosen(verdicts))
    <3>1. PICK k \in E : p = verdicts[k].program /\ Catalogue[p].offered
      OBVIOUS
    <3> DEFINE d == << p, verdicts[k].id >>
    <3>2. d \in Chosen(verdicts) /\ d[1] = p
      BY <1>3, <3>1
    <3> HIDE DEF d
    <3>3. QED
      BY <3>1, <3>2 DEF Recommendable
  <2>2. ASSUME NEW p \in Recommendable(Chosen(verdicts))
        PROVE  p \in S
    <3>1. PICK d \in Chosen(verdicts) : Catalogue[d[1]].offered /\ p = d[1]
      BY DEF Recommendable
    <3>2. PICK k \in E : d = << verdicts[k].program, verdicts[k].id >>
      BY <1>3
    <3>3. d[1] = verdicts[k].program
      BY <3>2
    <3>4. QED
      BY <3>1, <3>3
  <2> HIDE DEF S
  <2>3. QED
    BY <2>1, <2>2 DEF Recommendable
<1>5. OfferedIn(ids) = S
  BY <1>2 DEF OfferedIn
<1>6. QED
  BY <1>4, <1>5 DEF ids

\* The ranking is the best of the programs chosen.
LEMMA RankOk ==
  ASSUME RequestInv, NEW r \in Requests, Rank(r)
  PROVE  RequestInv'
<1> DEFINE x == req[r]
           chosen == Chosen(x.verdicts)
           ids == EligibleIds(x.verdicts)
           ranked == RankPrograms(x.student, FetchDetails(ids))
           pc == IF ranked = <<>> THEN "logging" ELSE "looking"
           new == [x EXCEPT !.pc = pc, !.verdicts = <<>>, !.chosen = chosen, !.ranked = ranked]
<1>1. DOMAIN x = Locals /\ RequestOk(rules, today, x) /\ today \in Nat
  BY Held
<1>2. x.pc = "ranking" /\ CacheTyped' /\ UNCHANGED vars /\ Goes(r, new)
  BY DEF Rank, RequestInv, CacheTyped
<1>3. x.student \in Students /\ VerdictsTyped(rules, x)
  BY <1>1, <1>2 DEF RequestOk, AtRest
<1>4. Gapped(ids) /\ \A i \in DOMAIN ids : ids[i] \in Programs
  <2>1. /\ DOMAIN ids \subseteq DOMAIN x.verdicts
        /\ \A i \in DOMAIN ids : ids[i] = x.verdicts[i].program
    BY DEF EligibleIds
  <2> HIDE DEF ids
  <2>2. QED
    BY <1>3, <2>1, FS_Subset DEF VerdictsTyped, Gapped
<1>5. ranked \in Seq(Programs) /\ IsBestRounded(x.student, Recommendable(chosen), ranked)
  BY <1>3, <1>4, RankingIsBest, ChosenAreRanked
<1>6. chosen \subseteq Programs \X DOMAIN rules
  BY <1>3 DEF Chosen, VerdictsTyped
<1>7. Len(ranked) <= TopN
  <2> HIDE DEF ranked
  <2>1. /\ Recommendable(chosen) \subseteq Programs /\ TopN \in Nat /\ IsFiniteSet(Programs)
    BY <1>6, EngineAssumption DEF Recommendable
  <2>2. Cardinality(Recommendable(chosen)) \in Nat
    BY <2>1, FS_Subset, FS_CardinalityType
  <2>3. QED
    BY <1>5, <2>1, <2>2 DEF IsBestRounded
<1>8. pc \in {"looking", "logging"}
  OBVIOUS
<1> HIDE DEF pc, chosen, ids, ranked
<1>9. /\ DOMAIN new = Locals
      /\ new.pc = pc /\ new.student = x.student /\ new.day = x.day /\ new.rows = x.rows
      /\ new.verdicts = <<>> /\ new.chosen = chosen
      /\ new.ranked = ranked /\ new.texts = x.texts
  BY <1>1, SetRanked
<1> HIDE DEF new
<1>10. VerdictsTyped(rules, new)
  <2>1. DOMAIN << >> = {}
    OBVIOUS
  <2>2. QED
    BY <1>9, <2>1, FS_EmptySet DEF VerdictsTyped, Gapped
<1>11. RowsTyped(rules, new)
  BY <1>1, <1>9 DEF RequestOk, RowsTyped
<1>12. RankingTyped(rules, new) /\ BestTyped(new)
  BY <1>5, <1>6, <1>7, <1>9 DEF RankingTyped, BestTyped
<1>13. TextsTyped(new)
  BY <1>1, <1>8, <1>9 DEF RequestOk, TextsTyped
<1>14. RequestOk(rules, today, new)
  BY <1>1, <1>3, <1>8, <1>9, <1>10, <1>11, <1>12, <1>13 DEF RequestOk, Places
<1>15. QED
  BY <1>2, <1>9, <1>14, RequestAlone

\* The steps that explain a ranking.
LEMMA ExplainOk ==
  ASSUME RequestInv, NEW r \in Requests, LookUp(r) \/ Ask(r) \/ Store(r)
  PROVE  RequestInv'
<1> DEFINE x == req[r]
<1>1. DOMAIN x = Locals /\ RequestOk(rules, today, x) /\ CacheTyped
  BY Held DEF RequestInv
<1>2. UNCHANGED vars /\ x.pc \in {"looking", "asking", "storing"}
  BY DEF LookUp, Ask, Store
<1>3. ASSUME NEW pc \in {"storing", "logging"}, NEW t, t.by \in Authors,
             Goes(r, [x EXCEPT !.pc = pc, !.texts = t]), CacheTyped'
      PROVE  RequestInv'
  <2> DEFINE new == [x EXCEPT !.pc = pc, !.texts = t]
  <2>1. /\ DOMAIN new = Locals
        /\ new.pc = pc /\ new.student = x.student /\ new.day = x.day /\ new.rows = x.rows
        /\ new.verdicts = x.verdicts /\ new.chosen = x.chosen
        /\ new.ranked = x.ranked /\ new.texts = t
    BY <1>1, SetTexts
  <2>2. Goes(r, new)
    BY <1>3
  <2> HIDE DEF new
  <2>3. RowsTyped(rules, new) /\ VerdictsTyped(rules, new) /\ RankingTyped(rules, new)
    BY <1>1, <2>1 DEF RequestOk, RowsTyped, VerdictsTyped, RankingTyped
  <2>4. TextsTyped(new) /\ BestTyped(new)
    BY <1>1, <1>2, <1>3, <2>1 DEF RequestOk, TextsTyped, BestTyped, Ranked
  <2>5. RequestOk(rules, today, new)
    BY <1>1, <1>2, <1>3, <2>1, <2>3, <2>4 DEF RequestOk, Places, AtRest
  <2>6. QED
    BY <1>2, <1>3, <2>1, <2>2, <2>5, RequestAlone
<1>4. ASSUME NEW pc \in {"asking", "logging"}, Goes(r, [x EXCEPT !.pc = pc]), CacheTyped'
      PROVE  RequestInv'
  <2> DEFINE new == [x EXCEPT !.pc = pc]
  <2>1. /\ DOMAIN new = Locals
        /\ new.pc = pc /\ new.student = x.student /\ new.day = x.day /\ new.rows = x.rows
        /\ new.verdicts = x.verdicts /\ new.chosen = x.chosen
        /\ new.ranked = x.ranked /\ new.texts = x.texts
    BY <1>1, SetPc
  <2>2. Goes(r, new)
    BY <1>4
  <2> HIDE DEF new
  <2>3. RowsTyped(rules, new) /\ VerdictsTyped(rules, new) /\ RankingTyped(rules, new)
    BY <1>1, <2>1 DEF RequestOk, RowsTyped, VerdictsTyped, RankingTyped
  <2>4. TextsTyped(new) /\ BestTyped(new)
    BY <1>1, <1>2, <1>4, <2>1 DEF RequestOk, TextsTyped, BestTyped, Ranked
  <2>5. RequestOk(rules, today, new)
    BY <1>1, <1>2, <1>4, <2>1, <2>3, <2>4 DEF RequestOk, Places, AtRest
  <2>6. QED
    BY <1>2, <1>4, <2>1, <2>2, <2>5, RequestAlone
<1>5. CASE LookUp(r)
  <2>1. CacheTyped' /\ \A e \in Cached(r) : e.texts.by \in Authors
    BY <1>1, <1>5 DEF LookUp, CacheTyped, Cached
  <2>2. QED
    BY <1>3, <1>4, <1>5, <2>1 DEF LookUp
<1>6. CASE Ask(r)
  <2>1. CacheTyped' /\ UNCHANGED <<vars, cache>>
    BY <1>1, <1>6 DEF Ask, CacheTyped
  <2>2. Texts(r, "template").by \in Authors /\ \A reply \in Replies : Explained(r, reply).by \in Authors
    BY DEF Texts, Explained, Authors
  <2>3. CASE AskRefused(r)
    BY <1>3, <2>1, <2>2, <2>3 DEF AskRefused
  <2>4. QED
    BY <1>3, <1>6, <2>1, <2>2, <2>3, EndsOk DEF Ask
<1>7. CASE Store(r)
  <2>1. x.texts.by \in Authors
    BY <1>1, <1>7 DEF Store, RequestOk, TextsTyped
  <2>2. CacheTyped'
    BY <1>1, <1>7, <2>1 DEF Store, CacheTyped
  <2>3. QED
    BY <1>4, <1>7, <2>2 DEF Store
<1>8. QED
  BY <1>5, <1>6, <1>7

\* Every step keeps what the requests hold.
LEMMA RequestStep ==
  ASSUME RequestInv, [RecommendNext]_recommendVars
  PROVE  RequestInv'
<1>1. ASSUME NEW r \in Requests, Begin(r) \/ Serve(r)
      PROVE  RequestInv'
  <2>1. CASE Begin(r) \/ DatabaseFails(r) \/ WriteLog(r)
    BY <2>1, EndsOk DEF Begin, DatabaseFails, WriteLog
  <2>2. QED
    BY <1>1, <2>1, ReadRulesOk, JudgeOk, RankOk, ExplainOk DEF Serve
<1>2. CASE Forget \/ (Next /\ UNCHANGED <<req, cache, log>>) \/ UNCHANGED recommendVars
  <2>1. req' = req /\ CacheTyped'
    BY <1>2 DEF Forget, recommendVars, RequestInv, CacheTyped
  <2>2. [Next]_vars
    BY ReviewBeside
  <2>3. RowsInv' /\ Later(rules, rules')
    BY <2>2, TableGrows DEF RequestInv
  <2>4. today \in Nat /\ today' \in Nat /\ today <= today'
    BY <2>2, DaysPass DEF RequestInv
  <2>5. \A r \in Requests : RequestOk(rules', today', req[r])
    BY <2>3, <2>4, RequestOkStays DEF RequestInv
  <2>6. QED
    BY <2>1, <2>3, <2>5 DEF RequestInv, LocalsKept
<1>3. QED
  BY <1>1, <1>2 DEF RecommendNext

\* At first no request has begun.
LEMMA RequestInit ==
  ASSUME RecommendInit
  PROVE  RequestInv
<1>1. req = [r \in Requests |-> Quiet("idle")] /\ cache = {} /\ RowsInv
  BY RowsInvInit DEF RecommendInit
<1>2. today \in Nat
  BY <1>1, LastDayAssumption DEF RowsInv, TypeOK
<1>3. DOMAIN Quiet("idle") = Locals /\ RequestOk(rules, today, Quiet("idle"))
  <2> DEFINE new == Quiet("idle")
  <2>1. /\ DOMAIN new = Locals
        /\ new.pc = "idle" /\ new.student = Null /\ new.day = 0
        /\ new.rows = <<>> /\ new.verdicts = <<>> /\ new.chosen = {}
        /\ new.ranked = <<>> /\ new.texts = NoTexts
    BY QuietLocals
  <2> HIDE DEF new
  <2>2. RequestOk(rules, today, new)
    BY <1>2, <2>1, NothingHeld DEF AtRest
  <2>3. QED
    BY <2>1, <2>2 DEF new
<1>4. QED
  BY <1>1, <1>3 DEF RequestInv, LocalsKept, CacheTyped

\* The variables have their types, rows and verdicts name rules that exist, and
\* TopN programs are recommended at most, whatever is approved meanwhile.
THEOREM RecommendTypeCorrect == RecommendSpec => []RecommendTypeOK
<1>1. RequestInv => RecommendTypeOK
  <2>1. ASSUME RequestInv, NEW r \in Requests
        PROVE  /\ req[r].pc \in Places
               /\ req[r].student \in Students \cup {Null} /\ req[r].day \in 0 .. today
               /\ \A k \in DOMAIN req[r].rows : req[r].rows[k].id \in DOMAIN rules
               /\ \A k \in DOMAIN req[r].verdicts : req[r].verdicts[k].id \in DOMAIN rules
               /\ req[r].chosen \subseteq Programs \X DOMAIN rules
               /\ req[r].ranked \in Seq(Programs) /\ Len(req[r].ranked) <= TopN
               /\ req[r].texts.by \in {"nobody", "template", "llm"}
    BY <2>1 DEF RequestInv, RequestOk, RowsTyped, VerdictsTyped, RankingTyped, TextsTyped, Authors
  <2>2. QED
    BY <2>1 DEF RecommendTypeOK, Places, RequestInv, CacheTyped, Authors
<1>2. QED
  BY <1>1, RequestInit, RequestStep, PTL DEF RecommendSpec

\* What is recommended are the best of the eligible programs that are offered,
\* by exact scores and then by id, provided that the four decimals a score is
\* rounded to tell the programs apart.  Without that it is RankingIsBest that
\* holds: the best by the rounded scores.
THEOREM BestIsRecommended ==
  ASSUME ScoresTellApart
  PROVE  RecommendSpec => []RankedIsBest
<1>1. ASSUME RequestInv
      PROVE  RankedIsBest
  <2> SUFFICES ASSUME NEW r \in Requests, req[r].pc \in Ranked
               PROVE  IsBest(req[r].student, Recommendable(req[r].chosen), req[r].ranked)
    BY DEF RankedIsBest, Ranked, Recommendable
  <2> DEFINE x == req[r]
  <2>1. RequestOk(rules, today, x)
    BY <1>1, Held
  <2>2. /\ x.student \in Students /\ RankingTyped(rules, x)
        /\ IsBestRounded(x.student, Recommendable(x.chosen), x.ranked)
    BY <2>1 DEF RequestOk, BestTyped, Ranked, AtRest
  <2>3. x.ranked \in Seq(Programs) /\ Recommendable(x.chosen) \subseteq Programs
    BY <2>2 DEF RankingTyped, Recommendable
  <2>4. QED
    BY <2>2, <2>3, RoundedIsExact
<1>2. QED
  BY <1>1, RequestInit, RequestStep, PTL DEF RecommendSpec

\* They do if no program has more tags times keywords than 22.
COROLLARY BestIsRecommendedOfFewTags ==
  ASSUME \A s \in Students : \A p \in Programs : Exact[s][p][2] <= 22
  PROVE  RecommendSpec => []RankedIsBest
BY FewTagsTellApart, BestIsRecommended

-------------------------------------------------------------------------------
(***************************************************************************)
(* OneVerdictPerProgram.  It rests on the desk: with one review request at *)
(* a time and no approval dated in the future, a rule is open or over, and *)
(* one of a program's is open at most.  The rows of a request keep that    *)
(* while the table goes on and days pass, so that the rules still in force *)
(* when they are judged are the open ones among them.                      *)
(***************************************************************************)
RowOpen(x, k) == x.rows[k].rule.effective_to = Null

RowsTell(x, day) ==
  /\ \A k \in DOMAIN x.rows : RowOpen(x, k) \/ x.rows[k].rule.effective_to < day
  /\ \A j, k \in DOMAIN x.rows :
       (/\ RowOpen(x, j) /\ RowOpen(x, k)
        /\ x.rows[j].rule.program = x.rows[k].rule.program) => j = k

OneEach(verdicts) ==
  \A j, k \in DOMAIN verdicts : verdicts[j].program = verdicts[k].program => j = k

Unambiguous(x, day) == RowsTell(x, day) /\ OneEach(x.verdicts)

VerdictInv ==
  /\ RequestInv /\ ForceInv
  /\ \A r \in Requests : Unambiguous(req[r], today)

\* The end of a row is a day, if it has one.
LEMMA RowEnds ==
  ASSUME NEW table, NEW x, RowsTyped(table, x), NEW k \in DOMAIN x.rows
  PROVE  x.rows[k].rule.effective_to \in Int \cup {Null}
BY LastDayAssumption DEF RowsTyped, AdmissionRule

\* What is over on a day is over on the days after it.
LEMMA UnambiguousStays ==
  ASSUME NEW table, NEW x, RowsTyped(table, x), NEW day \in Nat, NEW now \in Nat, day <= now,
         Unambiguous(x, day)
  PROVE  Unambiguous(x, now)
<1>1. ASSUME NEW k \in DOMAIN x.rows
      PROVE  RowOpen(x, k) \/ x.rows[k].rule.effective_to < now
  <2>1. RowOpen(x, k) \/ x.rows[k].rule.effective_to < day
    BY DEF Unambiguous, RowsTell
  <2>2. QED
    BY <2>1, RowEnds DEF RowOpen
<1>2. QED
  BY <1>1 DEF Unambiguous, RowsTell

\* The rules that are still in force on a day are the open ones.
LEMMA JudgedOnce ==
  ASSUME NEW table, NEW x, RowsTyped(table, x), NEW day \in Nat, RowsTell(x, day)
  PROVE  OneEach(FilterEligible(x.student, x.rows, day))
<1> DEFINE verdicts == FilterEligible(x.student, x.rows, day)
<1>1. ASSUME NEW k \in DOMAIN verdicts
      PROVE  /\ k \in DOMAIN x.rows /\ RowOpen(x, k)
             /\ verdicts[k].program = x.rows[k].rule.program
  <2>1. /\ k \in DOMAIN x.rows /\ IsActive(x.rows[k].rule, day)
        /\ verdicts[k].program = x.rows[k].rule.program
    BY DEF FilterEligible
  <2>2. RowOpen(x, k) \/ x.rows[k].rule.effective_to >= day
    BY <2>1 DEF IsActive, RowOpen
  <2>3. RowOpen(x, k) \/ x.rows[k].rule.effective_to < day
    BY <2>1 DEF RowsTell
  <2>4. RowOpen(x, k)
    BY <2>1, <2>2, <2>3, RowEnds DEF RowOpen
  <2>5. QED
    BY <2>1, <2>4
<1> HIDE DEF verdicts
<1>2. OneEach(verdicts)
  BY <1>1 DEF OneEach, RowsTell
<1>3. QED
  BY <1>2 DEF verdicts

\* The rules that were read tell which of them is open, because the table does.
LEMMA ReadTells ==
  ASSUME RequestInv, OpenOrOver(rules, today), NEW r \in Requests, ReadRules(r)
  PROVE  RowsTell(req'[r], today)
<1> DEFINE x == req[r]
           active == { i \in DOMAIN rules : IsActive(rules[i], x.day) }
<1>1. DOMAIN x = Locals
  BY Held
<1>2. PICK order \in SetToSeqs(active) :
        Goes(r, [x EXCEPT !.pc = "judging", !.day = 0,
                 !.rows = [k \in DOMAIN order |-> [id |-> order[k], rule |-> rules[order[k]]]]])
  BY DEF ReadRules
<1> DEFINE rows == [k \in DOMAIN order |-> [id |-> order[k], rule |-> rules[order[k]]]]
           new == [x EXCEPT !.pc = "judging", !.day = 0, !.rows = rows]
<1>3. /\ DOMAIN rows = DOMAIN order
      /\ \A k \in DOMAIN rows : order[k] \in DOMAIN rules /\ rows[k].rule = rules[order[k]]
      /\ \A j, k \in DOMAIN rows : order[j] = order[k] => j = k
  BY <1>2 DEF SetToSeqs, IsInjective
<1>4. Goes(r, new)
  BY <1>2
<1> HIDE DEF rows
<1>5. DOMAIN new = Locals /\ new.rows = rows
  BY <1>1, SetRows
<1> HIDE DEF new
<1>6. req'[r] = new
  BY <1>4, <1>5, GoesAlone DEF RequestInv
<1>7. RowsTell(new, today)
  BY <1>3, <1>5 DEF RowsTell, RowOpen, OpenOrOver, IsOpen
<1>8. QED
  BY <1>6, <1>7

\* Every step keeps the verdicts and the rows unambiguous.
LEMMA VerdictStep ==
  ASSUME Careful, VerdictInv, [RecommendNext]_recommendVars
  PROVE  VerdictInv'
<1>1. RequestInv' /\ ForceInv' /\ RequestInv /\ ForceInv
  BY RequestStep, ReviewBeside, ForceStep DEF VerdictInv
<1>2. SUFFICES ASSUME NEW q \in Requests
               PROVE  Unambiguous(req'[q], today')
  BY <1>1 DEF VerdictInv
<1>3. today \in Nat /\ today' \in Nat /\ today <= today'
  BY <1>1, ReviewBeside, DaysPass DEF RequestInv
<1>4. /\ DOMAIN req[q] = Locals /\ RowsTyped(rules, req[q]) /\ Unambiguous(req[q], today)
  BY <1>1, Held DEF RequestOk, VerdictInv
<1>5. ASSUME req'[q] = req[q]
      PROVE  Unambiguous(req'[q], today')
  BY <1>3, <1>4, <1>5, UnambiguousStays
<1>6. ASSUME today' = today, req'[q].rows = req[q].rows, req'[q].verdicts = req[q].verdicts
      PROVE  Unambiguous(req'[q], today')
  BY <1>4, <1>6 DEF Unambiguous, RowsTell, RowOpen
<1>7. ASSUME NEW x, req'[q] = x, x.rows = <<>>, OneEach(x.verdicts)
      PROVE  Unambiguous(req'[q], today')
  <2>1. DOMAIN << >> = {}
    OBVIOUS
  <2>2. QED
    BY <1>7, <2>1 DEF Unambiguous, RowsTell
<1>8. ASSUME NEW r \in Requests, Begin(r) \/ Serve(r)
      PROVE  Unambiguous(req'[q], today')
  <2> DEFINE x == req[r]
  <2>1. today' = today /\ DOMAIN x = Locals /\ LocalsKept
    BY <1>1, <1>8, Held
    DEF RequestInv, Begin, Serve, ReadRules, Judge, Rank, DatabaseFails, LookUp, Ask, Store,
        WriteLog, vars
  <2>2. ASSUME NEW new, DOMAIN new = Locals, Goes(r, new)
        PROVE  req'[r] = new /\ (q # r => req'[q] = req[q])
    BY <2>1, <2>2, GoesAlone
  <2>3. ASSUME NEW new, DOMAIN new = Locals, Goes(r, new), new.rows = <<>>, OneEach(new.verdicts)
        PROVE  Unambiguous(req'[q], today')
    BY <1>5, <1>7, <2>2, <2>3
  <2>4. ASSUME NEW new, DOMAIN new = Locals, Goes(r, new), new.rows = x.rows,
               new.verdicts = x.verdicts
        PROVE  Unambiguous(req'[q], today')
    <3>1. CASE q = r
      BY <1>6, <2>1, <2>2, <2>4, <3>1
    <3>2. QED
      BY <1>5, <2>2, <2>4, <3>1
  <2>5. OneEach(<<>>)
    <3>1. DOMAIN << >> = {}
      OBVIOUS
    <3>2. QED
      BY <3>1 DEF OneEach
  <2>6. CASE Begin(r) \/ DatabaseFails(r) \/ WriteLog(r)
    <3>1. PICK student, pc : Goes(r, Begun(student, today)) \/ Goes(r, Quiet(pc))
      BY <2>6 DEF Begin, DatabaseFails, WriteLog
    <3>2. QED
      BY <2>3, <2>5, <3>1, BegunLocals, QuietLocals
  <2>7. CASE ReadRules(r)
    <3>1. PICK t : Goes(r, [x EXCEPT !.pc = "judging", !.day = 0, !.rows = t])
      BY <2>7 DEF ReadRules
    <3> DEFINE new == [x EXCEPT !.pc = "judging", !.day = 0, !.rows = t]
    <3>2. DOMAIN new = Locals /\ new.verdicts = x.verdicts /\ Goes(r, new)
      BY <2>1, <3>1, SetRows
    <3> HIDE DEF new
    <3>3. RowsTell(req'[r], today)
      BY <1>1, <2>7, ReadTells DEF ForceInv
    <3>4. req'[r] = new /\ (q # r => req'[q] = req[q])
      BY <2>2, <3>2
    <3>5. CASE q = r
      BY <1>4, <2>1, <3>2, <3>3, <3>4, <3>5 DEF Unambiguous
    <3>6. QED
      BY <1>5, <3>4, <3>5
  <2>8. CASE Judge(r)
    <3> DEFINE verdicts == FilterEligible(x.student, x.rows, today)
               new == [x EXCEPT !.pc = "ranking", !.rows = <<>>, !.verdicts = verdicts]
    <3>1. Goes(r, new)
      BY <2>8 DEF Judge
    <3>2. OneEach(verdicts)
      BY <1>1, <1>3, Held, JudgedOnce DEF VerdictInv, Unambiguous, RequestOk
    <3> HIDE DEF verdicts
    <3>3. DOMAIN new = Locals /\ new.rows = <<>> /\ new.verdicts = verdicts
      BY <2>1, SetVerdicts
    <3> HIDE DEF new
    <3>4. QED
      BY <2>3, <3>1, <3>2, <3>3
  <2>9. CASE Rank(r)
    <3>1. PICK a, c, t :
            Goes(r, [x EXCEPT !.pc = a, !.verdicts = <<>>, !.chosen = c, !.ranked = t])
      BY <2>9 DEF Rank
    <3> DEFINE new == [x EXCEPT !.pc = a, !.verdicts = <<>>, !.chosen = c, !.ranked = t]
    <3>2. DOMAIN new = Locals /\ new.rows = x.rows /\ new.verdicts = <<>> /\ Goes(r, new)
      BY <2>1, <3>1, SetRanked
    <3> HIDE DEF new
    <3>3. req'[r] = new /\ (q # r => req'[q] = req[q])
      BY <2>2, <3>2
    <3>4. CASE q = r
      BY <1>4, <2>1, <2>5, <3>2, <3>3, <3>4 DEF Unambiguous, RowsTell, RowOpen
    <3>5. QED
      BY <1>5, <3>3, <3>4
  <2>10. ASSUME NEW a, NEW t, Goes(r, [x EXCEPT !.pc = a, !.texts = t])
         PROVE  Unambiguous(req'[q], today')
    <3> DEFINE new == [x EXCEPT !.pc = a, !.texts = t]
    <3>1. DOMAIN new = Locals /\ new.rows = x.rows /\ new.verdicts = x.verdicts /\ Goes(r, new)
      BY <2>1, <2>10, SetTexts
    <3> HIDE DEF new
    <3>2. QED
      BY <2>4, <3>1
  <2>11. ASSUME NEW a, Goes(r, [x EXCEPT !.pc = a])
         PROVE  Unambiguous(req'[q], today')
    <3> DEFINE new == [x EXCEPT !.pc = a]
    <3>1. DOMAIN new = Locals /\ new.rows = x.rows /\ new.verdicts = x.verdicts /\ Goes(r, new)
      BY <2>1, <2>11, SetPc
    <3> HIDE DEF new
    <3>2. QED
      BY <2>4, <3>1
  <2>12. CASE LookUp(r) \/ Ask(r) \/ Store(r)
    <3>1. ASSUME Goes(r, Quiet("failed"))
          PROVE  Unambiguous(req'[q], today')
      BY <2>3, <2>5, <3>1, QuietLocals
    <3>2. QED
      BY <2>10, <2>11, <2>12, <3>1 DEF LookUp, Ask, AskRefused, Store
  <2>13. QED
    BY <1>8, <2>6, <2>7, <2>8, <2>9, <2>12 DEF Serve
<1>9. CASE Forget \/ (Next /\ UNCHANGED <<req, cache, log>>) \/ UNCHANGED recommendVars
  BY <1>5, <1>9 DEF Forget, recommendVars
<1>10. QED
  BY <1>8, <1>9 DEF RecommendNext

\* With one review request at a time, no approval dated in the future and rules
\* seeded likewise, a student hears one verdict about a program, also when its
\* rule is replaced or midnight passes between the reading and the judging.
THEOREM OneVerdictHeard ==
  ASSUME Careful, SeedsInForce
  PROVE  RecommendSpec => []OneVerdictPerProgram
<1>1. RecommendInit => VerdictInv
  <2> SUFFICES ASSUME RecommendInit
               PROVE  VerdictInv
    OBVIOUS
  <2>1. RequestInv /\ ForceInv
    BY RequestInit, ForceInit DEF RecommendInit
  <2>2. ASSUME NEW r \in Requests
        PROVE  Unambiguous(req[r], today)
    <3>1. req[r] = Quiet("idle") /\ DOMAIN << >> = {}
      BY DEF RecommendInit
    <3>2. req[r].rows = <<>> /\ req[r].verdicts = <<>>
      BY <3>1, QuietLocals
    <3>3. QED
      BY <3>1, <3>2 DEF Unambiguous, RowsTell, OneEach
  <2>3. QED
    BY <2>1, <2>2 DEF VerdictInv
<1>2. VerdictInv => OneVerdictPerProgram
  BY DEF VerdictInv, Unambiguous, OneEach, OneVerdictPerProgram
<1>3. VerdictInv /\ [RecommendNext]_recommendVars => VerdictInv'
  BY VerdictStep
<1>4. QED
  BY <1>1, <1>2, <1>3, PTL DEF RecommendSpec
===============================================================================

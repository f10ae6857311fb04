----------------------------- MODULE RulesEngine -----------------------------
(***************************************************************************)
(* The pure part of a recommendation: who is eligible                      *)
(* (app/rules/engine.py), which programs are read (app/rules/fetch.py) and *)
(* in which order they are recommended (app/rules/ranking.py).             *)
(*                                                                         *)
(* Marks are whole percents.  A score is counted in ten-thousandths, the   *)
(* four decimals it is rounded to; the exact score it is rounded from is a *)
(* fraction <<numerator, denominator>>.                                    *)
(***************************************************************************)
EXTENDS PolicyData, FiniteSets, SequencesExt

CONSTANTS
  Words,      \* streams, subjects, tags and keywords
  Fold,       \* word -> the word stripped and in lower case
  Minimum,    \* what a value of a min_..._pct column asks for
  Listed,     \* the words of a value of a list column
  Catalogue,  \* program -> its rows in programs and program_content
  Students,   \* who may ask
  TopN        \* how many programs are recommended

ASSUME EngineAssumption ==
  /\ Programs \subseteq Nat /\ IsFiniteSet(Programs) /\ TopN \in Nat
  /\ Fields \subseteq {"allowed_streams", "min_matric_pct", "min_inter_pct", "required_subjects"}
  /\ Fold \in [Words -> Words]
  /\ Minimum \in [Values -> Nat] /\ Listed \in [Values -> SUBSET Words]
  /\ Minimum[Blank] = 0 /\ Listed[Blank] = {}

\* offered: is_active, with a row in program_content.
ASSUME CatalogueAssumption ==
  /\ Catalogue \in [Programs -> [ offered : BOOLEAN, preferred : Words \cup {Null},
                                  tags : SUBSET Words, keywords : SUBSET Words ]]
  /\ \A p \in Programs : IsFiniteSet(Catalogue[p].tags) /\ IsFiniteSet(Catalogue[p].keywords)

\* The order of a student's own tags and goals reaches the cache and the prompt.
Student == [ matric : 0 .. 100, inter : 0 .. 100, stream : Words, subjects : SUBSET Words,
             interests : Seq(Words), goals : Seq(Words) ]

ASSUME StudentsAssumption == Students \subseteq Student

-------------------------------------------------------------------------------
(***************************************************************************)
(* Eligibility.                                                            *)
(***************************************************************************)
\* One test of check_eligibility().  Streams and subjects are compared as they
\* are written; an empty list of streams admits every stream.
Meets(student, column, value) ==
  CASE column = "allowed_streams" -> Listed[value] = {} \/ student.stream \in Listed[value]
    [] column = "min_matric_pct" -> student.matric >= Minimum[value]
    [] column = "min_inter_pct" -> student.inter >= Minimum[value]
    [] column = "required_subjects" -> Listed[value] \subseteq student.subjects

\* reasons_failed
Fails(student, rule) == { f \in Fields : ~ Meets(student, f, rule.demands[f]) }

\* rows: a sequence of [id, rule].  A verdict for each rule still in force, at its
\* place in rows: the lists of the program are these without the gaps.
FilterEligible(student, rows, day) ==
  [ k \in { i \in DOMAIN rows : IsActive(rows[i].rule, day) } |->
      [ program |-> rows[k].rule.program, id |-> rows[k].id,
        eligible |-> Fails(student, rows[k].rule) = {} ] ]

\* eligible_program_ids()
EligibleIds(verdicts) ==
  [ k \in { i \in DOMAIN verdicts : verdicts[i].eligible } |-> verdicts[k].program ]

-------------------------------------------------------------------------------
(***************************************************************************)
(* Fetch and rank.                                                         *)
(***************************************************************************)
\* The elements of S in the order before, a set of pairs: each has as many before
\* it as its place says.
InOrder(S, before) ==
  [ k \in 1 .. Cardinality(S) |->
      CHOOSE x \in S : Cardinality({ y \in S : << y, x >> \in before }) = k - 1 ]

\* Each program once, in the order of their last places in ids.
FetchDetails(ids) ==
  LET named == ToSet(ids) IN
  InOrder({ p \in named : Catalogue[p].offered },
          { e \in named \X named :
              \E j \in DOMAIN ids : ids[j] = e[2] /\ \A i \in DOMAIN ids : ids[i] = e[1] => i < j })

Folded(tags) == { Fold[t] : t \in tags }

\* The share of the program's tags that the student named.
OverlapRatio(named, tags) ==
  IF named = {} \/ tags = {} THEN <<0, 1>>
  ELSE <<Cardinality(Folded(named) \cap Folded(tags)), Cardinality(Folded(tags))>>

StreamMatch(student, p) ==
  Catalogue[p].preferred # Null /\ Fold[Catalogue[p].preferred] = Fold[student.stream]

\* 0.35 stream + 0.40 interests + 0.25 career, in hundredths of the product of
\* the two denominators.
ExactScore(student, p) ==
  LET i == OverlapRatio(ToSet(student.interests), Catalogue[p].tags)
      c == OverlapRatio(ToSet(student.goals), Catalogue[p].keywords)
      s == IF StreamMatch(student, p) THEN 1 ELSE 0 IN
  << 35 * s * i[2] * c[2] + 40 * i[1] * c[2] + 25 * c[1] * i[2], i[2] * c[2] >>

Exact == [ s \in Students |-> [ p \in Programs |-> ExactScore(s, p) ] ]

\* round(total, 4)
Rounded(e) == (200 * e[1] + e[2]) \div (2 * e[2])
Score == [ s \in Students |-> [ p \in Programs |-> Rounded(Exact[s][p]) ] ]

\* list.sort(): elements that neither comes before the other keep their order.
StableSort(s, before) ==
  LET places == InOrder(DOMAIN s,
        { e \in (DOMAIN s) \X (DOMAIN s) :
            \/ << s[e[1]], s[e[2]] >> \in before
            \/ e[1] < e[2] /\ << s[e[2]], s[e[1]] >> \notin before }) IN
  [ k \in DOMAIN s |-> s[places[k]] ]

\* A slip the runs must notice: programs of one score are left as they come.
ByScoreAlone(student) ==
  { e \in Programs \X Programs : Score[student][e[1]] > Score[student][e[2]] }

\* The key (-score, program_id).
RanksBefore(student) ==
  { e \in Programs \X Programs :
      \/ Score[student][e[1]] > Score[student][e[2]]
      \/ Score[student][e[1]] = Score[student][e[2]] /\ e[1] < e[2] }

\* A slip: one too many.
FirstAndNext(s) == SubSeq(s, 1, IF TopN < Len(s) THEN TopN + 1 ELSE Len(s))

\* scored[:top_n]
FirstOnes(s) == SubSeq(s, 1, IF TopN < Len(s) THEN TopN ELSE Len(s))

RankPrograms(student, ids) ==
  FirstOnes(StableSort(ids, RanksBefore(student)))

-------------------------------------------------------------------------------
(***************************************************************************)
(* What a ranking is to be, of a set of programs and with exact scores.    *)
(***************************************************************************)
Better(student, p, q) ==
  LET a == Exact[student][p] b == Exact[student][q] IN
  a[1] * b[2] > b[1] * a[2] \/ (a[1] * b[2] = b[1] * a[2] /\ p < q)

\* The four decimals tell the programs' scores apart for every student.
ScoresTellApart ==
  \A s \in Students : \A p, q \in Programs :
    Score[s][p] = Score[s][q] =>
      Exact[s][p][1] * Exact[s][q][2] = Exact[s][q][1] * Exact[s][p][2]

IsBest(student, programs, ranked) ==
  /\ ToSet(ranked) \subseteq programs /\ IsInjective(ranked)
  /\ Len(ranked) = IF Cardinality(programs) < TopN THEN Cardinality(programs) ELSE TopN
  /\ \A i \in DOMAIN ranked : \A q \in programs :
       q \in ToSet(SubSeq(ranked, 1, i)) \/ Better(student, ranked[i], q)
===============================================================================

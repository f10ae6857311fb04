----------------------------- MODULE MCRecommend -----------------------------
(***************************************************************************)
(* Three programs and two requests.  Two students name the same interests  *)
(* in other words, another order and another grouping ("AI,art"), and      *)
(* their streams reverse the ranking of the first two programs; for each   *)
(* of them two programs tie.  The third student is eligible for none.  A   *)
(* draft in the queue raises the bar of the first program: from then on    *)
(* both get the same list, under one key.  No two scores that differ are   *)
(* rounded alike.                                                          *)
(***************************************************************************)
EXTENDS Recommend

CONSTANTS pct60, pct80, tech, maths

Columns == {"allowed_streams", "min_matric_pct", "min_inter_pct", "required_subjects"}
Ordered ==
  << "", "AI", "AI,art", "Arts", "ICS", "Maths", "Pre-Engineering", "ai", "ai,art", "art",
     "arts", "ics", "maths", "pre-engineering", "web" >>
Vocabulary == ToSet(Ordered)
InAlphabet == { << Ordered[e[1]], Ordered[e[2]] >> :
                  e \in { d \in (DOMAIN Ordered) \X (DOMAIN Ordered) : d[1] < d[2] } }
LowerCase ==
  [ w \in Vocabulary |->
      CASE w = "ICS" -> "ics" [] w = "Pre-Engineering" -> "pre-engineering"
        [] w = "Arts" -> "arts" [] w = "Maths" -> "maths" [] w = "AI" -> "ai"
        [] w = "AI,art" -> "ai,art" [] OTHER -> w ]
AtCommas ==
  [ w \in Vocabulary |->
      CASE w = "AI,art" -> <<"AI", "art">> [] w = "ai,art" -> <<"ai", "art">> [] OTHER -> <<w>> ]

Marks == [ v \in Values |-> CASE v = pct60 -> 60 [] v = pct80 -> 80 [] OTHER -> 0 ]
Lists == [ v \in Values |-> CASE v = tech -> {"ICS", "Pre-Engineering"}
                              [] v = maths -> {"Maths"} [] OTHER -> {} ]

Content(preferred, tags) ==
  [ offered |-> TRUE, preferred |-> preferred, tags |-> tags, keywords |-> {"web"} ]
Shelf ==
  << Content("ICS", {"AI", "web", "art"}), Content("Pre-Engineering", {"ai", "art"}),
     Content(Null, {"ai", "web", "art"}) >>

Asks(column, value) == [ f \in Columns |-> IF f = column THEN value ELSE Blank ]
Seeded(p, demands) ==
  [ program |-> p, demands |-> demands, effective_from |-> 0, effective_to |-> Null,
    origin |-> 0 ]
Seed ==
  << Seeded(1, Asks("min_inter_pct", pct60)), Seeded(2, Asks("required_subjects", maths)),
     Seeded(3, Asks("allowed_streams", tech)) >>

Found ==
  { [ program |-> 1, summary |-> "changed", status |-> "pending", created_rule |-> 0,
      scraped |-> [f \in Columns |-> IF f = "min_inter_pct" THEN pct80 ELSE NotFound]] }

Applicant(mark, stream, subjects, interests) ==
  [ matric |-> 70, inter |-> mark, stream |-> stream, subjects |-> subjects,
    interests |-> interests, goals |-> <<"web">> ]
Applicants ==
  { Applicant(70, "ICS", {"Maths"}, <<"AI,art">>),
    Applicant(70, "Pre-Engineering", {"Maths"}, <<"art", "ai">>),
    Applicant(50, "Arts", {}, <<>>) }

\* Every list of two programs, one that lacks a text, one with a bare word in
\* it, and no list.
Answer(p, q, shape) ==
  << [program_id |-> p, shape |-> "complete"], [program_id |-> q, shape |-> shape] >>
Said == { Answer(p, q, "complete") : p, q \in Programs } \cup
  { Answer(1, 2, "incomplete"), Answer(1, 2, "no_object"), NoList }

ASSUME InstanceTellsApart == ScoresTellApart
===============================================================================

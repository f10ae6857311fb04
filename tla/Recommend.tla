------------------------------ MODULE Recommend ------------------------------
(***************************************************************************)
(* POST /recommend/eligible of app/main.py, with the explanation layer     *)
(* (app/llm) and its cache (app/cache), while review requests go on        *)
(* changing the rules and midnight passes.  A request reads the rules on   *)
(* one day, judges on what date.today() says by then, and explains and     *)
(* logs a ranking that was right when it was made; another request may     *)
(* fill, find or lose the cache entry in between.                          *)
(*                                                                         *)
(* The programs are those of Catalogue throughout.                         *)
(***************************************************************************)
EXTENDS PolicyReview, RulesEngine

CONSTANTS
  Requests,  \* the requests under way, one student each
  Replies,   \* what may come back from the model, besides errors
  Cut,       \* word -> its parts, as the commas in it divide it
  Alphabet,  \* the pairs of words that sorted() puts in this order
  NoWord     \* the empty word, what is left of a blank one

\* A reply is a list of items, or no such list; an item names a program and has
\* all its texts, or lacks some, or is no object at all.
Items == [ program_id : Programs, shape : {"complete", "incomplete", "no_object"} ]
NoList == << "no list" >>

ASSUME RepliesAssumption == \A r \in Replies : r = NoList \/ r \in Seq(Items)

ASSUME WordsAssumption ==
  /\ Cut \in [Words -> Seq(Words)] /\ NoWord \in Words
  /\ \A w \in Words : << w, w >> \notin Alphabet
  /\ \A v, w \in Words : v = w \/ << v, w >> \in Alphabet \/ << w, v >> \in Alphabet
  /\ \A u, v, w \in Words :
       << u, v >> \in Alphabet /\ << v, w >> \in Alphabet => << u, w >> \in Alphabet

VARIABLES
  req,    \* Request -> its place in the handler and its local variables
  cache,  \* the explain: keys in Redis, as [key, texts] entries
  log     \* the recommendation_log table

recommendVars == <<today, rules, drafts, sess, req, cache, log>>

NoTexts == [ ids |-> <<>>, by |-> "nobody", student |-> Null ]
Begun(student, day) ==
  [ pc |-> "reading", student |-> student, day |-> day, rows |-> <<>>,
    verdicts |-> <<>>, chosen |-> {}, ranked |-> <<>>, texts |-> NoTexts ]
Quiet(pc) == [Begun(Null, 0) EXCEPT !.pc = pc]

RecommendInit ==
  /\ Init
  /\ req = [r \in Requests |-> Quiet("idle")]
  /\ cache = {} /\ log = {}

Goes(r, new) == req' = [req EXCEPT ![r] = new]

-------------------------------------------------------------------------------
(***************************************************************************)
(* The rules, the verdicts and the ranking.                                *)
(***************************************************************************)
Begin(r) ==
  /\ req[r].pc = "idle"
  /\ \E student \in Students : Goes(r, Begun(student, today))
  /\ UNCHANGED <<vars, cache, log>>

\* get_active_rule_rows(): the SELECT has no ORDER BY.
ReadRules(r) ==
  LET active == { i \in DOMAIN rules : IsActive(rules[i], req[r].day) } IN
  /\ req[r].pc = "reading"
  /\ \E order \in SetToSeqs(active) :
       Goes(r, [req[r] EXCEPT !.pc = "judging", !.day = 0,
                !.rows = [k \in DOMAIN order |-> [id |-> order[k], rule |-> rules[order[k]]]]])
  /\ UNCHANGED <<vars, cache, log>>

\* filter_eligible_programs() asks for the date again.
Judge(r) ==
  /\ req[r].pc = "judging"
  /\ Goes(r, [req[r] EXCEPT !.pc = "ranking", !.rows = <<>>,
              !.verdicts = FilterEligible(req[r].student, req[r].rows, today)])
  /\ UNCHANGED <<vars, cache, log>>

\* The eligible programs with the rules that admit the student, as the log will
\* list them: eligible_program_ids and rule_version_ids.
Chosen(verdicts) ==
  { << verdicts[k].program, verdicts[k].id >> : k \in { i \in DOMAIN verdicts : verdicts[i].eligible } }

\* fetch_program_details() and rank_programs(); nothing to recommend needs no
\* explanation.
Rank(r) ==
  /\ req[r].pc = "ranking"
  /\ \E ids \in { EligibleIds(req[r].verdicts) } :
     \E details \in { FetchDetails(ids) } :
     \E ranked \in { RankPrograms(req[r].student, details) } :
       Goes(r, [req[r] EXCEPT !.pc = IF ranked = <<>> THEN "logging" ELSE "looking",
                !.verdicts = <<>>, !.chosen = Chosen(req[r].verdicts), !.ranked = ranked])
  /\ UNCHANGED <<vars, cache, log>>

\* An error of the database here is a 500.
DatabaseFails(r) ==
  /\ req[r].pc \in {"reading", "ranking"}
  /\ Goes(r, Quiet("failed"))
  /\ UNCHANGED <<vars, cache, log>>

-------------------------------------------------------------------------------
(***************************************************************************)
(* The explanations.                                                       *)
(***************************************************************************)
\* All of parts[1], then all of parts[2], and so on: FlattenSeq, by counting.
Concatenated(parts) ==
  LET cells == UNION { {k} \X DOMAIN parts[k] : k \in DOMAIN parts }
      places == InOrder(cells,
        { e \in cells \X cells :
            e[1][1] < e[2][1] \/ (e[1][1] = e[2][1] /\ e[1][2] < e[2][2]) }) IN
  [ n \in DOMAIN places |-> parts[places[n][1]][places[n][2]] ]

\* _normalize_tags(): a joined text, as the sequence of what stands between its
\* commas.  A comma inside a word counts like one that joins two.
Norm(tags) ==
  IF tags = <<>> THEN <<NoWord>>
  ELSE LET sorted == StableSort([i \in DOMAIN tags |-> Fold[tags[i]]], Alphabet) IN
       Concatenated([k \in DOMAIN sorted |-> Cut[sorted[k]]])

TagsOf == [ student \in Students |-> << Norm(student.interests), Norm(student.goals) >> ]

\* A slip the runs must notice: the key forgets the order of the programs.
SetKey(student, ranked) == << ToSet(ranked), TagsOf[student] >>

\* build_bucket_key(), without the hash.  No word has a "|" in it.
BucketKey(student, ranked) == << ranked, TagsOf[student] >>

\* The texts, with the student they are written for.
Texts(r, author) ==
  [ ids |-> req[r].ranked, by |-> author, student |-> req[r].student ]

Cached(r) == { e \in cache : e.key = BucketKey(req[r].student, req[r].ranked) }

\* get_cached(): an error of Redis is a miss.
LookUp(r) ==
  /\ req[r].pc = "looking"
  /\ \/ \E e \in Cached(r) : Goes(r, [req[r] EXCEPT !.pc = "logging", !.texts = e.texts])
     \/ Goes(r, [req[r] EXCEPT !.pc = "asking"])
  /\ UNCHANGED <<vars, cache, log>>

\* A slip: the programs are compared as sets.
PassesAsSet(reply, ranked) ==
  /\ reply # NoList
  /\ { reply[k].program_id : k \in DOMAIN reply } = ToSet(ranked)
  /\ \A k \in DOMAIN reply : reply[k].shape = "complete"

\* parse_and_validate() returns: the programs in order, every text there.
Passes(reply, ranked) ==
  /\ reply # NoList
  /\ [k \in DOMAIN reply |-> reply[k].program_id] = ranked
  /\ \A k \in DOMAIN reply : reply[k].shape = "complete"

\* It asks every item for its program_id before it compares anything, and an
\* item that is no object has no such method: that is not a ValidationError.
Breaks(reply) == reply # NoList /\ \E k \in DOMAIN reply : reply[k].shape = "no_object"

\* What the layer makes of a reply it can read.
Explained(r, reply) ==
  [ ids |-> IF Passes(reply, req[r].ranked)
            THEN [k \in DOMAIN reply |-> reply[k].program_id] ELSE req[r].ranked,
    by |-> IF Passes(reply, req[r].ranked) THEN "llm" ELSE "template",
    student |-> req[r].student ]

\* A slip: after an error of the model the explanations are tried again.
AskAgain(r) == Goes(r, [req[r] EXCEPT !.pc = "looking"])

\* LLMError: the template.
AskRefused(r) ==
  Goes(r, [req[r] EXCEPT !.pc = "storing", !.texts = Texts(r, "template")])

\* generate_explanations().  A time-out while the reply is read, a reply without
\* content and an item that is no object raise what it does not catch.
Ask(r) ==
  /\ req[r].pc = "asking"
  /\ \/ AskRefused(r)
     \/ \E reply \in Replies :
          ~ Breaks(reply)
            /\ Goes(r, [req[r] EXCEPT !.pc = "storing", !.texts = Explained(r, reply)])
     \/ Goes(r, Quiet("failed"))
  /\ UNCHANGED <<vars, cache, log>>

\* set_cached(), whoever wrote the texts; or an error that is swallowed.
Store(r) ==
  /\ req[r].pc = "storing"
  /\ \/ cache' = (cache \ Cached(r)) \cup
          { [ key |-> BucketKey(req[r].student, req[r].ranked), texts |-> req[r].texts ] }
     \/ UNCHANGED cache
  /\ Goes(r, [req[r] EXCEPT !.pc = "logging"])
  /\ UNCHANGED <<vars, log>>

\* The entry's seven days are over, or Redis gives it up.
Forget ==
  /\ \E e \in cache : cache' = cache \ {e}
  /\ UNCHANGED <<vars, req, log>>

-------------------------------------------------------------------------------
LogEntry(r) ==
  [ student |-> req[r].student, chosen |-> req[r].chosen, ranked |-> req[r].ranked ]

\* save_recommendation_log() swallows its errors: the student is answered anyway.
WriteLog(r) ==
  /\ req[r].pc = "logging"
  /\ log' = log \cup {LogEntry(r)} \/ UNCHANGED log
  /\ Goes(r, Quiet("answered"))
  /\ UNCHANGED <<vars, cache>>

Serve(r) ==
  ReadRules(r) \/ Judge(r) \/ Rank(r) \/ DatabaseFails(r)
    \/ LookUp(r) \/ Ask(r) \/ Store(r) \/ WriteLog(r)

RecommendNext ==
  \/ \E r \in Requests : Begin(r) \/ Serve(r)
  \/ Forget
  \/ Next /\ UNCHANGED <<req, cache, log>>

\* A handler's thread keeps running: the calls to Redis and to the model time
\* out, the database answers or fails.
RecommendSpec ==
  RecommendInit /\ [][RecommendNext]_recommendVars
    /\ \A r \in Requests : WF_recommendVars(Serve(r))

-------------------------------------------------------------------------------
(***************************************************************************)
(* Properties.                                                             *)
(***************************************************************************)
\* The variables have their types, and no more than TopN are recommended.
RecommendTypeOK ==
  /\ \A r \in Requests :
       /\ req[r].pc \in {"idle", "reading", "judging", "ranking", "looking", "asking",
                         "storing", "logging", "answered", "failed"}
       /\ req[r].student \in Students \cup {Null} /\ req[r].day \in 0 .. today
       /\ \A k \in DOMAIN req[r].rows : req[r].rows[k].id \in DOMAIN rules
       /\ \A k \in DOMAIN req[r].verdicts : req[r].verdicts[k].id \in DOMAIN rules
       /\ req[r].chosen \subseteq Programs \X DOMAIN rules
       /\ req[r].ranked \in Seq(Programs) /\ Len(req[r].ranked) <= TopN
       /\ req[r].texts.by \in {"nobody", "template", "llm"}
  /\ \A e \in cache : e.texts.by \in {"template", "llm"}

\* A student hears one verdict about a program, also when its rule is replaced
\* or midnight passes between the reading of the rules and the judging.
OneVerdictPerProgram ==
  \A r \in Requests : \A j, k \in DOMAIN req[r].verdicts :
    req[r].verdicts[j].program = req[r].verdicts[k].program => j = k

\* What is recommended are the best of the programs the student is eligible for,
\* by exact scores and then by id, in whatever order the database returned rows.
RankedIsBest ==
  \A r \in Requests : req[r].pc \in {"looking", "asking", "storing", "logging"} =>
    IsBest(req[r].student,
           { c[1] : c \in { d \in req[r].chosen : Catalogue[d[1]].offered } },
           req[r].ranked)

\* "Versioned. Never overwrite": what the log says can be shown from the rules
\* table at any later time.  The rules it names belong to the programs it lists
\* and admit the student it was written for.
LogCanBeReplayed ==
  \A row \in log : \A c \in row.chosen :
    rules[c[2]].program = c[1] /\ Fails(row.student, rules[c[2]]) = {}

\* The words of a student as a reader of the texts takes them: cut at commas, in
\* any order, however often.
Heard(tags) == (UNION { ToSet(Cut[Fold[w]]) : w \in ToSet(tags) }) \ {NoWord}

\* "Reusable by anyone else who lands on the exact same ranked list with similar
\* interests": the explanations shown, fresh, templated or cached for another
\* student, are for the programs recommended, in their order, and for a student
\* who named the same interests and goals.  (How the words were grouped, "ai,art"
\* or "ai" and "art", may differ: the key does not tell.)
TextsFit ==
  \A r \in Requests : req[r].pc \in {"storing", "logging"} /\ req[r].ranked # <<>> =>
    LET texts == req[r].texts student == req[r].student IN
    /\ texts.ids = req[r].ranked
    /\ Heard(texts.student.interests) = Heard(student.interests)
    /\ Heard(texts.student.goals) = Heard(student.goals)

\* Every request is answered, with a recommendation or an error.
RequestsAnswered ==
  \A r \in Requests : req[r].pc = "reading" ~> req[r].pc \in {"answered", "failed"}

\* "Never raises - always returns something usable": asking the model for the
\* texts never costs the student the answer.
ExplanationNeverFails ==
  [][ \A r \in Requests : req[r].pc = "asking" => req'[r].pc # "failed" ]_recommendVars
===============================================================================

---------------------------- MODULE PolicyPipeline ----------------------------
(***************************************************************************)
(* The policy check that feeds the review queue: run_policy_check() of     *)
(* app/policy/scheduler.py with what it calls in service.py, scraper.py    *)
(* and differ.py, composed with the review requests of PolicyReview.  A    *)
(* check reads the rules in force once, scrapes for as long as the web     *)
(* takes, and writes drafts from what it read at the start.  The scheduler *)
(* runs one check at a time; POST /policy/run-check starts another in a    *)
(* thread of its own whatever the scheduler is doing.                      *)
(***************************************************************************)
EXTENDS PolicyReview, FiniteSets

CONSTANTS
  Checkers,  \* the checks that may run at once: the scheduler's, an admin's
  Sources,   \* DEFAULT_SOURCES: a sequence of [name, program] records
  Contents,  \* what a page can show: a set of Scraped
  Near       \* pairs of values the differ takes for the same

ASSUME CheckersAssumption == IsFiniteSet(Checkers)
ASSUME SourcesAssumption ==
  Sources \in Seq([name : STRING, program : Programs \cup {Null}])
ASSUME ContentsAssumption == Contents \subseteq Scraped
ASSUME NearAssumption ==
  Near \subseteq Values \X Values /\ \A v \in Values : <<v, v>> \in Near

VARIABLE check  \* Checker -> the run it is in and its local variables

pipelineVars == <<today, rules, drafts, sess, check>>

\* live: the snapshot, program -> id of its rule, 0 for none; source: the page
\* that comes next; diffs: the drafts the differ asks for; next: the loop of
\* persist_drafts; created: its list.
NoCheck == [pc |-> "idle", live |-> [p \in Programs |-> 0], source |-> 1,
            diffs |-> <<>>, next |-> 1, created |-> <<>>]

PipelineInit == Init /\ check = [c \in Checkers |-> NoCheck]

-------------------------------------------------------------------------------
(***************************************************************************)
(* differ.py.                                                              *)
(***************************************************************************)
\* One triple for each column the page shows and that is not near the rule's.
FieldDiffs(page, demands) ==
  { <<f, demands[f], page[f]>> :
      f \in { g \in Fields : page[g] # NotFound /\ <<page[g], demands[g]>> \notin Near } }

ASSUME SummariesAssumption ==
  /\ \A i \in DOMAIN Sources : {<<Sources[i].name, Null, Null>>} \in Summaries
  /\ \A page \in Contents, demands \in Demands : FieldDiffs(page, demands) \in Summaries

\* diff_summary: the columns with both values, or the name of a new program.
Summary(source, page, live) ==
  IF live = 0 THEN {<<source.name, Null, Null>>} ELSE FieldDiffs(page, rules[live].demands)

Draft(source, page, live) ==
  [ program |-> source.program, scraped |-> page,
    summary |-> Summary(source, page, live), status |-> "pending", created_rule |-> 0 ]

LiveRule(source, live) == IF source.program = Null THEN 0 ELSE live[source.program]

\* One turn of diff_all(): a page that shows no change is left out.
DiffNext(diffs, source, page, live) ==
  LET d == Draft(source, page, LiveRule(source, live)) IN
  IF d.summary = {} THEN diffs ELSE Append(diffs, d)

-------------------------------------------------------------------------------
(***************************************************************************)
(* One run of the check.                                                   *)
(***************************************************************************)
\* Room is left in the bounded table for what the checks under way may add.
RoomForCheck ==
  Len(drafts) + Len(Sources) * (1 + Cardinality({ c \in Checkers : check[c].pc # "idle" }))
    <= MaxDrafts

\* build_live_snapshot_map(): a dict by program, so that of several rules in
\* force the one the database returns last stays.
LoadLive(c) ==
  /\ check[c].pc = "idle" /\ RoomForCheck
  /\ \E live \in [Programs -> {0} \cup DOMAIN rules] :
       /\ \A p \in Programs :
            LET active == ActiveRules(rules, p, today) IN
            live[p] \in IF active = {} THEN {0} ELSE active
       /\ check' = [check EXCEPT ![c] = [NoCheck EXCEPT !.pc = "running", !.live = live]]
  /\ UNCHANGED vars

\* One turn of scrape_sources(): the page shows what it likes, or the fetch or
\* the parser fails and it is skipped.  diff_all() sees the pages in this order
\* when all are there, with nothing but the check's own variables, so its turn
\* is taken along.
Scrape(c) ==
  LET r == check[c] IN
  /\ r.pc = "running" /\ r.source <= Len(Sources)
  /\ \E diffs \in {r.diffs} \cup { DiffNext(r.diffs, Sources[r.source], page, r.live) :
                                     page \in Contents } :
       check' = [check EXCEPT ![c].source = r.source + 1, ![c].diffs = diffs]
  /\ UNCHANGED vars

\* persist_drafts() runs when every source has had its turn.
Persisting(c) == check[c].pc = "running" /\ check[c].source > Len(Sources)

\* What makes two drafts the same change.
SameChange(d, e) == d.program = e.program /\ d.summary = e.summary
\* Two slips: the SELECT forgets the text; it compares the page instead.
AnyPending(d) == \E id \in DOMAIN drafts : IsPending(id) /\ drafts[id].program = d.program
SamePagePending(d) ==
  \E id \in DOMAIN drafts :
    IsPending(id) /\ drafts[id].program = d.program /\ drafts[id].scraped = d.scraped

\* The idempotency SELECT compares program, text and status.
AlreadyPending(d) == \E id \in DOMAIN drafts : IsPending(id) /\ SameChange(drafts[id], d)

\* Two slips: a duplicate is skipped with the one behind it, or over and over.
PersistSkipping(c) ==
  LET r == check[c] d == r.diffs[r.next] IN
  /\ Persisting(c) /\ r.next <= Len(r.diffs)
  /\ check' = IF AlreadyPending(d) THEN [check EXCEPT ![c].next = r.next + 2]
              ELSE [check EXCEPT ![c].next = r.next + 1, ![c].created = Append(@, d)]
  /\ UNCHANGED vars

PersistStuck(c) ==
  LET r == check[c] d == r.diffs[r.next] IN
  /\ Persisting(c) /\ r.next <= Len(r.diffs) /\ ~ AlreadyPending(d)
  /\ check' = [check EXCEPT ![c].next = r.next + 1, ![c].created = Append(@, d)]
  /\ UNCHANGED vars

\* One turn of the loop.  The session does not autoflush, so the SELECT does
\* not see what earlier turns added to the session.
PersistNext(c) ==
  LET r == check[c] d == r.diffs[r.next] IN
  /\ Persisting(c) /\ r.next <= Len(r.diffs)
  /\ check' = [check EXCEPT ![c].next = r.next + 1,
                            ![c].created = IF AlreadyPending(d) THEN @ ELSE Append(@, d)]
  /\ UNCHANGED vars

\* A slip: the new batch replaces what is still pending.
CommitReplacing(c) ==
  /\ Persisting(c) /\ check[c].next > Len(check[c].diffs)
  /\ drafts' = SelectSeq(drafts, LAMBDA d : d.status # "pending") \o check[c].created
  /\ check' = [check EXCEPT ![c] = NoCheck]
  /\ UNCHANGED <<today, rules, sess>>

CommitCheck(c) ==
  /\ Persisting(c) /\ check[c].next > Len(check[c].diffs)
  /\ drafts' = drafts \o check[c].created
  /\ check' = [check EXCEPT ![c] = NoCheck]
  /\ UNCHANGED <<today, rules, sess>>

\* An exception or the death of the server: the session rolls back.
FailCheck(c) ==
  /\ check[c].pc # "idle"
  /\ check' = [check EXCEPT ![c] = NoCheck]
  /\ UNCHANGED vars

-------------------------------------------------------------------------------
Check(c) == LoadLive(c) \/ Scrape(c) \/ PersistNext(c) \/ CommitCheck(c) \/ FailCheck(c)

PipelineNext ==
  \/ \E c \in Checkers : Check(c)
  \/ \E s \in Reviewers : Review(s) /\ UNCHANGED check
  \/ Midnight /\ UNCHANGED <<sess, check>>

\* The thread of a check keeps running; the fetches have a timeout.
PipelineFairness ==
  \A c \in Checkers :
    WF_pipelineVars(Scrape(c)) /\ WF_pipelineVars(PersistNext(c))
      /\ WF_pipelineVars(CommitCheck(c))

PipelineSpec == PipelineInit /\ [][PipelineNext]_pipelineVars /\ PipelineFairness

-------------------------------------------------------------------------------
(***************************************************************************)
(* Properties.                                                             *)
(***************************************************************************)
\* The local variables of every check have their types.
PipelineTypeOK ==
  \A c \in Checkers :
    /\ check[c].pc \in {"idle", "running"} /\ check[c].source \in 1 .. Len(Sources) + 1
    /\ check[c].live \in [Programs -> {0} \cup DOMAIN rules]
    /\ check[c].diffs \in Seq(NewDraft) /\ check[c].created \in Seq(NewDraft)
    /\ check[c].next \in 1 .. Len(check[c].diffs) + 1

\* "Idempotent per (program_id, diff_summary, status=pending)": the queue never
\* holds the same change of a program twice.  The SELECT and the INSERT are
\* statements of one transaction that nothing isolates, so it takes a single
\* check at a time and sources whose changes cannot read the same.
PendingUnique ==
  \A i, j \in DOMAIN drafts :
    (IsPending(i) /\ IsPending(j) /\ SameChange(drafts[i], drafts[j])) => i = j

\* No change a check saw is lost on the way to the queue: each one it has dealt
\* with is a row, or will be with its commit, also when reviewers empty the
\* queue while the check runs.
EveryDiffIsRecorded ==
  \A c \in Checkers : \A k \in 1 .. check[c].next - 1 :
    \/ \E id \in DOMAIN drafts : SameChange(drafts[id], check[c].diffs[k])
    \/ \E i \in DOMAIN check[c].created : SameChange(check[c].created[i], check[c].diffs[k])

\* The differ and the approval agree: the rule an approval inserted shows no
\* difference from the page it was approved from, so that the same page does
\* not come back to the queue.
ApprovalSettlesPage ==
  \A i \in DOMAIN rules : rules[i].origin # 0 =>
    FieldDiffs(drafts[rules[i].origin].scraped, rules[i].demands) = {}

\* What the review requests and the checks do together is what PolicyReview
\* allows: a check is one batch of pending drafts, out of nowhere.
ReviewSafety == Init /\ [][Next]_vars

\* A check that began ends.
ChecksFinish == \A c \in Checkers : check[c].pc # "idle" ~> check[c].pc = "idle"
===============================================================================

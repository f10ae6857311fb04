# Verification of the LGU degree assistant

TLA+ models of the LGU AI Assistant (a FastAPI service over PostgreSQL and
Redis, with a video-driven front end), TLC configurations that check them on
small instances, and TLAPS proofs of the properties that matter most.

## 1. The system

| Part | Code | State | Operations |
|---|---|---|---|
| Policy review | `app/policy/service.py`, `router.py`, `models.py`, `app/models/models.py` | tables `admission_rules` (versioned) and `policy_drafts` | approve, reject, list; each request in a thread with its own database session |
| Policy check | `app/policy/scheduler.py`, `scraper.py`, `differ.py`, `service.py` (snapshot, persist) | one run's local variables; appends to `policy_drafts` | daily job of APScheduler, `POST /policy/run-check` |
| Recommendation endpoint | `app/main.py`, `app/rules/fetch.py` | `recommendation_log` | `POST /recommend/eligible`: rules, details, ranking, explanation, log |
| Rules engine, ranking | `app/rules/engine.py`, `ranking.py` | none | pure functions |
| Explanation layer | `app/llm/*`, `app/cache/*` | Redis, 7-day entries | ask the LLM, validate, template instead, cache |
| Rate limiter | `app/main.py` `rate_limit` | Redis counter per client | INCR + TTL, EXPIRE, 429 above 20 in 60 s |
| Mentor front end | `app/static/app.js` | two video elements, tokens, timers, the step | play clip, cross-fade, collect input, call the API |
| Health, middleware, migrations, container | `app/main.py`, `migrations/`, `entrypoint.sh` | none of their own | |

How they interact: the check reads the rules in force, scrapes pages and
appends drafts; reviewers turn drafts into new versions of rules; the
recommendation endpoint reads the rules in force today, ranks programs, asks
the explanation layer (through the cache) and writes an audit row. Rules,
drafts and log share one PostgreSQL database; counters and explanations share
one Redis. Nothing else is shared between threads.

What is hard: every read-then-write in the review service and in the check
runs under READ COMMITTED with no `FOR UPDATE` and no version column; dates can
lie in the past or the future; the check works for minutes on a snapshot; the
session does not autoflush; Redis, the LLM and the pages fail independently;
the front end races timers against media events.

`app/main.py` holds unresolved merge-conflict markers (lines 15-20, 105-117,
173-185, 549-553). Both sides agree on everything modelled here; they differ
only in where the static files are served.

What makes each part correct:

* review: a draft is decided once; versions are only ever closed, never
  rewritten; no day loses its rule; one rule in force per program; a page that
  says nothing does not lower the bar; an approved change is not undone by the
  next approval; every rule leads back to a reviewed draft; requests end;
* check: no duplicate in the queue, no change lost on the way to it, an
  approved page does not come back, the check ends and writes drafts only;
* recommendation: a program has one verdict, the ranking is the best one
  whatever order the database returns rows in, and the log can be replayed from
  the rules table later;
* explanation layer: whatever the LLM and the cache do the endpoint answers,
  with texts for exactly the ranked programs and the student's words;
* limiter: a bounded number of requests in any stretch of time, and nobody
  locked out for ever;
* front end: whatever order timers and media events arrive in, steps come in
  order, each question takes one answer, and the dialogue goes on.

## 2. The modules

| Module | What it is |
|---|---|
| `PolicyData` | rows of the two tables, the "in force" filter, what an approval or a rejection does to the rows. No variables. |
| `ReviewDesk` | the abstract review service: approve and reject as single steps on the two tables. |
| `PolicyReview` | the service as it runs: requests as sessions with their SELECTs, flush, row lock and commit, any number at once. EXTENDS `ReviewDesk`, whose variables it keeps, so that `DeskSpec` is directly a property of it. |
| `PolicyPipeline` | `PolicyReview` composed with the checks that fill the queue. |
| `RulesEngine` | eligibility, fetch order and ranking as operators, and what a best ranking is. No variables. |
| `Recommend` | `POST /recommend/eligible` with cache and model. EXTENDS `PolicyReview` and `RulesEngine`: review requests run and days pass between the statements of a recommendation. |
| `RateLimiter` | the limiter for one client address. |
| `Dialogue` | the abstract mentor: steps, one answer for each question, one result. |
| `MentorUI` | the mentor as it runs: two video elements, play tokens, timers; implements `Dialogue` (`FollowsScript`). |
| `PolicyReviewProofs` | theorems for any number of requests. |
| `PolicySerialProofs` | theorems for one request at a time, the refinement among them. |
| `PolicyInForceProofs` | theorems for one request at a time and no date in the future. |
| `PolicyPipelineProofs` | theorems about checks and requests together, the refinement among them. |
| `RulesEngineProofs` | theorems about fetching and ranking, for every list. |
| `RecommendProofs` | theorems about recommendations while rules are reviewed; EXTENDS the two above. |
| `RateLimiterProofs`, `MentorUIProofs` | theorems about these two modules. |
| `MCPolicyReview`, `MCPolicyPipeline`, `MCRecommend`, `MCRateLimiter`, `MCMentorUI` | instances for TLC. |

### Correspondence with the code

`rules` and `drafts` are the tables; a row's id is its position. Demand columns
are a function from `Fields` to `Values`; `Blank` is the falsy value (0, `[]`),
`NotFound` what the scraper reports for a column it did not see. Dates are day
numbers `0 .. LastDay`; `today` is `date.today()`. `origin` of a rule is not a
column: it records which draft's approval inserted it.

`sess[s]` is one HTTP request: `pc` says which statement of `approve_draft()` or
`reject_draft()` comes next, the rest is what it has read.

| Action | Code |
|---|---|
| `ApproveBegin` | SELECT of the draft and the three guards (service.py:147-158) |
| `ReadLive` | SELECT of the rule in force, `.first()` of any (161-168) |
| `Flush` | INSERT and UPDATE at `db.flush()` (170-191); waits while another session holds the row |
| `CommitApprove` | step 5 and `db.commit()` (193-200), both tables at once |
| `RejectBegin`, `CommitReject` | `reject_draft()` (214-230) |
| `Abort` | any exception or the death of the server; `get_db()` rolls back |
| `Midnight` | the date changes between two statements |
| `SubmitDrafts` | the commit of `persist_drafts()` |

The draft's UPDATE is sent within `db.commit()`, after the flush; `CommitApprove`
does both, so the lock it holds on the draft's row in between is not a state of
its own. Every request takes the rule's row before the draft's, so waiting for
the draft cannot close a cycle; `RequestsFinish` speaks of the rule's row. A new
rule gets its id at the commit here, at the flush in PostgreSQL: ids tell rows
apart and no property depends on their order.

The ORM sends an UPDATE only for attributes that differ from what it read
(`Writes`): an approval that computes the `effective_to` the row already had
neither writes nor locks it.

`check[c]` is one run of `run_policy_check()`: `LoadLive` (snapshot), `Scrape`
(one turn of the loop over the sources, with the turn of `diff_all` that the page
gets: that loop runs later but reads the check's own variables and the demands
of versions, which never change), `PersistNext` (one turn of its loop, with the
duplicate SELECT), `CommitCheck`, `FailCheck`. A page shows any of `Contents` or
fails. `diff_summary` is the set of its parts (column, old, new), or the
source's name for a new program; the separator and the wording are left out.
`Near` holds the pairs of values the differ calls the same (0.5 points for
percentages, equality as sets for lists).

`req[r]` of `Recommend` is one recommendation: `pc` is the next call, the rest
the handler's local variables. `ReadRules` picks any order of the rows (the
SELECT has no ORDER BY) and the day it was asked for; `Judge` asks for the date
again, as `filter_eligible_programs()` does. Marks are whole percents and scores
ten-thousandths, so that `round(total, 4)` is exact; the reference `IsBest`
compares unrounded fractions. `Rounded` takes halves up where Python rounds them
to even; no score of the instances lies on a half.

The cache key is a list of programs and two joined texts (its hash is left out:
no two keys collide). `Norm` folds and sorts the words and joins them: a text is
the sequence of the pieces between its commas, and since a word may itself hold
a comma (main.py:143) or be blank, joining is `Concatenated` pieces, so that
`["ai,art"]` and `["ai", "art"]`, or a blank word and none, give one text, as
keys.py:18-19 does. `Cut[w]` holds the pieces of a word, `Alphabet` their order,
`NoWord` the blank one. The texts in the cache carry the student they were
written for. `Ask` has the three outcomes of `generate_explanations()`: a
template, an explanation that passed the gate, and an exception it does not
catch, which may come at any call. The log is a set of its decisive columns, so two
equal rows count once. Review requests are those of `PolicyReview`, statement by
statement; a recommendation shares with them the committed rows and the date.

`RulesEngine` sorts by counting: `InOrder` puts an element at the place that as
many others come before, and `StableSort` does so with the places of a list, an
earlier place before a later one whose elements the key does not tell apart. That
is what `list.sort()` promises, and it can be reasoned about without induction.

| Action | Code |
|---|---|
| `Begin`, `ReadRules`, `Judge`, `Rank` | main.py:423-485, rules/engine.py, rules/fetch.py, rules/ranking.py |
| `LookUp`, `Store`, `Forget` | main.py:491-501, 518-519, cache/redis_client.py, the entry's expiry |
| `Ask` | main.py:502-516, llm/ |
| `WriteLog` | main.py:521-552; its errors are swallowed |
| `DatabaseFails` | the handler of exceptions, main.py:245-251 |

`count` and `ttl` of `RateLimiter` are one key of Redis. `Count` is the pipeline
of INCR and TTL, a transaction; `SetExpiry` the EXPIRE that may come any time
later; `CountLost` and `ExpiryLost` are errors after which the call may or may
not have had its effect; `Restart` loses the requests under way. `recent` is a
history variable: the requests knowingly let through, each as its age and what
INCR returned to it. One INCR returns a value once in an instant, so that no two
requests are the same pair.

`MentorUI` gives each video element its clip, a state and the ticks it has left.
`owner` is the element of the latest `playClip()`: a handler's `myToken` is
current exactly when its element is the owner, since a new `playClip()` either
replaces the handlers of the element or goes to the other one. Events are
`CanPlay`, `LoadFails`, `PauseFires`, `IdleLoops`, `QuestionLeadsOut`,
`StepEnds`, `EndsSilently`; timers `ControlsShown` and `AckDone`; the student
`Continue`; the server `Reply`. `Tick` lets a tick pass when nothing is due.

Operators whose comment calls them a slip are deliberate mistakes, kept beside
the definition they stand in for; the runs must notice each of them when it
replaces the right one (`PROJECT.json`, "mutants").

## 3. The runs

| Run | Instance | Shows |
|---|---|---|
| `review_race` | 2 requests, 2 programs (one unseeded), 2 drafts of 4 possible, 2 days, dates up to tomorrow | types; a closed version ends where a later one begins; every rule was reviewed; approved drafts point to their rule; the bar is not lowered; no day loses its rule; versions are kept; every request ends |
| `review_serial` | 1 request, 3 drafts, 3 days, dates up to today | one rule in force from today on; no approved change lost; implements `DeskSpec` |
| `review_terminal` | 2 requests | violation: `policy/models.py:8-9` "(terminal)" |
| `review_future` | 1 request, dates up to tomorrow | violation: `models.py:23` "old row gets effective_to set" |
| `pipeline` | 1 check over 2 sources, 1 request, 4 drafts, 2 days | queue without duplicates; no change lost; approved pages settle; implements `PolicyReview`; checks end |
| `pipeline_two_checks` | 2 checks | violation: `service.py:68-69` "Idempotent" |
| `limiter` | 2 workers, limit 2, window of 3 ticks | types; at most two windows' worth in one window's length; refusals end |
| `recommend` | 2 recommendations, 1 review request, 3 kinds of student (one names "AI,art" as one word, one "art" and "ai"), 3 programs of which 2 are recommended, 1 draft, 2 days | types; one verdict per program; the ranking is the best; the log can be replayed; texts fit the list and the words; requests are answered |
| `recommend_llm` | 1 request, no change of rules | violation: `orchestrator.py:4` "Never raises" |
| `mentor` | the 8 steps, clips of 9 ticks, loading takes 4 or 7, idle clips may fail | types; the driving clip is never paused; one voice; implements `Dialogue`; the mentor goes on |
| `mentor_freeze` | the same, loading takes 1 or 4 | violation: `app.js:315` "always fires eventually" |
| `mentor_chips` | the same, with the chips' words | violation: what the page offers the endpoint takes |

Bounds. `LastDay` ends the calendar, `MaxLead` how far ahead an approval may be
dated, `MaxDrafts` the queue (a check starts only when its batch would fit, so
that no check is cut off by the bound), `Reviewers` and `Checkers` the
concurrency. Two requests suffice for every race here because a request
interacts with another through one draft row or one rule row; two or three
drafts allow an approval, one that falls back on its rule, and one made from
what the first one read. Two columns let one page show what another lacks.
Three days in the serial run give a past, a present and a future of an
approval. Deadlock is not checked: the queue and the calendar are bounded and a
system with nothing left to review stops; that requests do not block one
another is `RequestsFinish`.

Two workers are what it takes for an EXPIRE to arrive after another request's;
a limit of 2 separates "first" from "last one let through". The recommendation
needs two requests to share a cache entry, two students whose words are equal up
to order, case and grouping at commas, a tie at the cut (three programs, two places), and one
approval with a midnight on either side. One review request at a time and dates
up to today are the conditions `OneVerdictPerProgram` needs (section 4); the
other invariants of the run are proved without them. That the scores of the
instance are told apart by four decimals is an ASSUME of `MCRecommend`. A tick of the mentor is 160 ms: the
pause timer takes 3, the idle lead 3, the controls 4, the acknowledgment 4
(480, 450, 600 and 550 ms, rounded up). Clips are cut to 9 ticks, long enough
that all these timers can end within one and short enough that the next clip
starts while they run. In the run `mentor` every clip takes longer to load than
the pause timer; that is the condition under which its properties hold, and
`mentor_freeze` shows what happens without it. Deadlock is
not checked in these models either: requests are answered, results shown.

Fairness. `WF` on the statements of a request: a thread of the server's pool
that is runnable runs. `SF` on `Flush`: its lock may be taken and released
repeatedly by others before it runs, but PostgreSQL queues the waiters of a row,
so it gets its turn. `WF` on the steps of a check: its fetches have timeouts.
`WF` on the steps of a recommendation: its calls to Redis and to the model time
out (2 s and 30 s). `WF` on the limiter's second call for the same reason and on
time. `WF` on what is due in the browser, on its clock and on the server's
reply. Nothing makes a reviewer or a student act, an error happen or a day
pass.

### Findings

1. **A decided draft is decided again** (`review_terminal`). Both requests pass
   the `status` guard before either commits; the UPDATE says `WHERE id = ...`
   alone. A rejected draft may have a live rule. What survives is proved: every
   rule still comes from a reviewed draft, coverage is kept.
2. **Two open versions** (`review_future`). The approval after one dated in the
   future closes today's rule again; both new versions stay open and, from the
   later date on, both are in force.
3. **Duplicates in the queue** (`pipeline_two_checks`). Two overlapping checks
   both miss the duplicate.
4. **The model can cost the student the answer** (`recommend_llm`). A time-out
   while the reply is awaited, a reply whose content is null and an item that is
   no object raise what `generate_explanations()` does not catch: 500.
5. **A paused mentor** (`mentor_freeze`). The idle clip loops while an answer is
   acknowledged; the next step's clip goes into the element just faded out,
   loads within 480 ms, and is paused by the timer of that crossfade. It never
   ends, so the question never comes. `DriverNotPaused` and `MentorGoesOn` hold
   when clips load more slowly than that.
6. **Offered words that are refused** (`mentor_chips`). "Business & Finance" and
   "UI/UX Designer" do not match the pattern in `main.py:143`; the request comes
   back as 422.

## 4. The proofs

For all values of the constants that satisfy the named assumptions (all of them
evaluated by TLC in the runs): `Blank` is a value and `NotFound` is not, `Null`
is neither a number nor a program, seeded rows are rows of origin 0, incoming
drafts are pending drafts, the texts the differ can write are texts a draft can
hold, a value is near itself, timers and clips last at least a tick.

*Any number of requests* (`PolicyReviewProofs`). The inductive invariant is
`RowsInv`: types plus "a request under way names rows that exist, of one
program". Types alone are not inductive, since a commit writes what the request
remembers. The effect of each write is a lemma (`CloseLiveEffect`,
`SubmitEffect`, `CommitApproveEffect`, `CommitRejectEffect`); from them follow
the audit trail (`EveryRuleWasReviewed`, `ApprovalNamesItsRule`), that versions
keep their content (`VersionsAreKept`) and that no day loses its rule
(`NoDayLosesItsRule`: the row that is closed gives way to the new one on the
very day, whatever became of the row since it was read). `VersionsMeet` is the
promise of `app/models/models.py:23`: a version that an approval has closed ends
on the day before a later version of its program begins. It holds also where a
request closes a row that another has closed since it was read: the end it
overwrites gives way to the eve of its own insert. `BarIsNeverLowered`
needs the stronger `BarInv`: a protected program is covered on every day, hence
every request that has read holds a rule to fall back on, hence each inserted
rule is complete.

*One request at a time* (`PolicySerialProofs`, hypothesis `Serial`). The
invariant `FreshRequest` says that what a request read still holds when it
writes. Then every commit is an abstract `Approve` or `Reject`
(`OneAtATimeImplementsDesk`). Without `Serial` that is false, which is
finding 1.

*One request at a time, no date in the future* (`PolicyInForceProofs`,
hypothesis `Careful`, and `SeedsInForce`: the seeded rules have the form that the
invariant gives all of them). `ForceInv` adds that each version is open or
already over, that one version of a program is open at most, and that a request
under way holds just that one.
Then the close of a commit leaves exactly the new version in force
(`CarefulDeskHasOneRule`) and open (`CarefulDeskHasOneOpenVersion`), and what it
merged is what the latest approved pages showed (`CarefulDeskLosesNoChange`).
Finding 2 is what a date in the future does, and two requests at once read the
same version and both leave a new one open.

*Checks and requests* (`PolicyPipelineProofs`, hypothesis `AnyDraft`: the queue
takes any new draft). The invariant `PipeInv` says that a check's snapshot names
rules, that it has fewer changes than sources behind it and fewer drafts than
changes behind those, and that the table has room for all that run: this is what
makes a commit a batch that `PolicyReview` allows, and with it every step a step
or a stutter of that module (`PipelineImplementsReview`). `TablesAreAudited` says that
`Audited`, the types, the audit trail both ways, the bar and `EndsMeetBegins`,
needs no more than the steps of
`PolicyReview`, hence no fairness; so it holds of the composition
(`ChecksAreAudited`). `NoDiffIsLost` and `ApprovalsSettle` hold for any
number of checks. `OneCheckQueuesOnce` needs `OneCheck` and `DistinctSources`
(finding 3 is two checks; two sources of one program that read the same would
also do, since the duplicate SELECT does not see what the session has not
flushed): its invariant says that a check's changes come from distinct sources
and that none of its drafts is pending, which reviewers cannot change.

*Ranking* (`RulesEngineProofs`). `RankingIsBest`: whatever list of eligible
programs the fetch is given, with repetitions and in any order, the ranking is
the first `TopN` of those offered, each once, by rounded score and then by id.
The argument is by counting: the sets of what comes before two elements of a
total order are nested, so that each number below the size of the set is the
place of exactly one element (`Lists`); an injection of a finite set into the
places is onto. From rounded scores to exact ones it takes `ScoresTellApart`:
two exact scores that round alike are equal. The code does not guarantee that
for any catalogue (its docstring promises the same ranking each time, not that
rounding is harmless), so it is a hypothesis. `FewTagsTellApart` shows that it
holds whenever a program's tags times its keywords are 22 at most, as in
`tests/test_ranking.py` with 3 times 2: the weights are multiples of 0.05, so
scores that differ do so by more than a rounding hides.

*Recommendation* (`RecommendProofs`). Every step of the composition is a step or
a stutter of `PolicyReview` (`ReviewBeside`), hence `RecommendationsAreAudited`.
Between two statements of a request the table only grows and the days only go
up (`TableGrows`, `DaysPass`); what a request remembers must survive that.
`TextsAlwaysFit`: the texts a request shows are of its programs, and were written
for a student who gave the same words once both are cut at their commas
(`Heard`). More is not true: the key tells no more, so students who grouped
their words differently share an entry, and a statement that the texts were
written for this student is refuted by the run's instance. The proof has two
parts. `NormTellsHeard`: the joined text has the same set of pieces as the words
it was joined from (`ConcatenatedKeeps` counts the cells of the table of pieces,
`StableSortKeeps` says that sorting loses no word), so that students of one key
are heard alike (`OneKeyOneHearing`). `EntriesFit`: every entry of the cache was
written for a student of its key, however requests interleave and whatever the
model says. `LogStaysTrue`: the rows a request read keep their program and
their demands, since a version loses only its end date, so that what it logs can
be justified from the table for ever after. `RequestInv` says what each variable
of a request is at each place of the handler, and that the ranking is that of
the chosen programs; it gives `RecommendTypeCorrect` and, with
`ScoresTellApart`, `BestIsRecommended` (`BestIsRecommendedOfFewTags` without).
`OneVerdictHeard` has the hypotheses `Careful` and `SeedsInForce`, without which
a program has two rules in force (finding 2) and the student two verdicts. Its
invariant `VerdictInv` adds to `RequestInv` and `ForceInv` that of the rows a
request holds each is over or was open when it was read, one of a program at
most: a rule that ended before the day it is judged on cannot come back, and one
that has been closed since was open, so that it is still the only one.

*Mentor* (`MentorUIProofs`). `LayerInv` and `ScreenInv` tie the layers, the clips
they hold, the owner of the handlers, the timers and the step together. From
them: types, `MentorSpeaksWithOneVoice`, and that each event is a step or a
stutter of `Dialogue` (`MentorFollowsScript`), for every script and every length
of clips and timers. `SlowClipsKeepPlaying` has the hypothesis `SlowLoads`, that
each clip loads more slowly than the pause timer; its invariant is that a timer
that runs ends before the element it was set for can play again. Finding 5 shows
that the hypothesis is needed.

*Limiter* (`RateLimiterProofs`): types for every limit and window, also when
calls are lost, and `NeverMoreThanTwoWindows`. `WindowInv` is about the age of the
key, which no variable holds: some age splits `recent` into the requests since
the key was made and those before, in each part no count occurs twice and none
is above the limit, and a key with an expiry is gone no earlier than a window
after it was made. So each part has `Limit` members at most, and a request that
is older than a window has left `recent`. A key that is made while requests of
two earlier keys are still recent would refute it; the expiry is what rules
that out, also when a late EXPIRE prolongs it.

*Only model-checked*: liveness (`RequestsFinish`, `ChecksFinish`,
`RequestsAnswered`, `RefusalsEnd`, `MentorGoesOn`), since TLAPS does not reason
about ENABLED and fairness. Every invariant and action property that a passing
run checks is also proved.

## 5. What is not modelled, and the plan

Left out for good: wording, logging, HTML extraction (a page is a value or none
per column), HTTP encoding, migrations, container, style sheets, health check,
middleware (a header per request, no state), the drawing of overlays and
results, words typed by hand, `invalidate_all()`, which nothing calls. Redis
keeps its data and answered at import; with it disabled the limiter passes every
request and every look-up misses. The pool of database connections is not
bounded in the models.

Not claimed by the repository and therefore no property, though the models show
it: a program whose rule ends at the midnight between reading and judging gets
no verdict; a template given during an outage of the LLM is cached for seven
days; texts are shared by students of different marks and streams, or whose words
differ only in how commas group them or in blank ones; changes approved by two
requests at once may be lost to one another (`NoApprovedChangeLost` is claimed
for one at a time).

What is left: the tables seen from two administrators' browsers, which read
`GET /policy/drafts` while others decide; the reply of `POST /policy/run-check`
when the check fails; an upper bound above 22 for `FewTagsTellApart`, if the
programs of the university need one; and what of `Audited` remains when requests
recommend, review and check in one model.

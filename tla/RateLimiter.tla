----------------------------- MODULE RateLimiter -----------------------------
(***************************************************************************)
(* rate_limit() of app/main.py, for one client address: a counter in Redis *)
(* that INCR makes and raises and whose expiry ends a window.  The counter *)
(* and its expiry are set by two calls, so that requests of other workers  *)
(* come between them, either call may fail with its effect done or not,    *)
(* and a restart may leave a counter that nothing expires.                 *)
(*                                                                         *)
(* Keys do not touch each other, so one is enough.  The limiter is one     *)
(* whose Redis answered the ping at import; Redis keeps its data.          *)
(***************************************************************************)
EXTENDS Integers, FiniteSets

CONSTANTS
  Workers,  \* the threads that serve requests of this client
  Limit,    \* RATE_LIMIT_REQUESTS
  Window    \* RATE_LIMIT_WINDOW_SECONDS, in ticks of the model's clock

ASSUME WorkersAssumption == IsFiniteSet(Workers)
ASSUME LimitAssumption == Limit \in Nat \ {0}
ASSUME WindowAssumption == Window \in Nat \ {0}

VARIABLES
  count,   \* the value of the key, 0 when it does not exist
  ttl,     \* ticks until Redis deletes it, -1 for a key without an expiry
  worker,  \* Worker -> what it does, and the count its INCR returned
  recent   \* history: requests let through, as << age in ticks, what INCR returned >>

limiterVars == <<count, ttl, worker, recent>>

\* The code compares a count with 1 and the limit: from here on all are alike.
Cap == Limit + 2
Idle == [pc |-> "idle", n |-> 0]
Ages == 0 .. Window - 1

LimiterInit ==
  /\ count = 0 /\ ttl = -1
  /\ worker = [w \in Workers |-> Idle]
  /\ recent = {}

-------------------------------------------------------------------------------
(***************************************************************************)
(* One request.                                                            *)
(***************************************************************************)
Incremented == IF count < Cap THEN count + 1 ELSE Cap

\* A slip the runs must notice: only the first request sets the expiry.
NeedsExpiryFirst(n, left) == n = 1

NeedsExpiry(n, left) == n = 1 \/ left = -1

\* Two more: one request too many, or one too few.
RefusesLate(n) == n > Limit + 1
RefusesEarly(n) == n >= Limit

Refuses(n) == n > Limit

\* A refused worker still has its 429 to send; one let through is done here.
Verdict(n) == IF Refuses(n) THEN [pc |-> "refused", n |-> n] ELSE Idle

\* The pipeline is one transaction: nothing comes between INCR and TTL.  Within a
\* tick the key only grows, so that no two requests are alike in recent.
Count(w) ==
  /\ worker[w] = Idle
  /\ count' = Incremented
  /\ worker' = [worker EXCEPT ![w] =
       IF NeedsExpiry(Incremented, ttl) THEN [pc |-> "expire", n |-> Incremented]
       ELSE Verdict(Incremented)]
  /\ recent' = IF Refuses(Incremented) THEN recent ELSE recent \cup {<< 0, Incremented >>}
  /\ UNCHANGED ttl

\* The transaction is done and its reply lost: the request passes unchecked.
CountLost(w) ==
  /\ worker[w] = Idle
  /\ count' = Incremented
  /\ UNCHANGED <<ttl, worker, recent>>

\* EXPIRE on a key that is gone does nothing.
Expire == ttl' = IF count = 0 THEN -1 ELSE Window

SetExpiry(w) ==
  /\ worker[w].pc = "expire"
  /\ Expire
  /\ worker' = [worker EXCEPT ![w] = Verdict(worker[w].n)]
  /\ UNCHANGED <<count, recent>>

\* An error of EXPIRE, done or not, skips the comparison that follows it.
ExpiryLost(w) ==
  /\ worker[w].pc = "expire"
  /\ Expire \/ UNCHANGED ttl
  /\ worker' = [worker EXCEPT ![w] = Idle]
  /\ UNCHANGED <<count, recent>>

Refuse(w) ==
  /\ worker[w].pc = "refused"
  /\ worker' = [worker EXCEPT ![w] = Idle]
  /\ UNCHANGED <<count, ttl, recent>>

-------------------------------------------------------------------------------
(***************************************************************************)
(* The world around it.                                                    *)
(***************************************************************************)
\* The server dies with the requests it was serving; Redis stays.
Restart ==
  /\ worker # [w \in Workers |-> Idle]
  /\ worker' = [w \in Workers |-> Idle]
  /\ UNCHANGED <<count, ttl, recent>>

Tick ==
  /\ recent' = { << e[1] + 1, e[2] >> : e \in { d \in recent : d[1] + 1 \in Ages } }
  /\ ttl' = IF ttl > 1 THEN ttl - 1 ELSE -1
  /\ count' = IF ttl = 1 THEN 0 ELSE count
  /\ UNCHANGED worker

Serve(w) == Count(w) \/ CountLost(w) \/ SetExpiry(w) \/ ExpiryLost(w) \/ Refuse(w)

LimiterNext == Restart \/ Tick \/ \E w \in Workers : Serve(w)

\* Time passes, and a worker that waits for Redis gets an answer or, after the
\* socket's two seconds, an error.
LimiterFairness ==
  /\ WF_limiterVars(Tick)
  /\ \A w \in Workers :
       WF_limiterVars(SetExpiry(w) \/ ExpiryLost(w)) /\ WF_limiterVars(Refuse(w))

LimiterSpec == LimiterInit /\ [][LimiterNext]_limiterVars /\ LimiterFairness

-------------------------------------------------------------------------------
(***************************************************************************)
(* Properties.                                                             *)
(***************************************************************************)
\* The variables have their types.  A request is refused for a count beyond the
\* limit only: the first Limit of a window all pass.
LimiterTypeOK ==
  /\ count \in 0 .. Cap
  /\ ttl \in {-1} \cup 1 .. Window
  /\ \A w \in Workers :
       \/ worker[w] = Idle
       \/ worker[w].pc = "expire" /\ worker[w].n \in 1 .. Cap
       \/ worker[w].pc = "refused" /\ worker[w].n \in Limit + 1 .. Cap
  /\ recent \subseteq Ages \X (1 .. Limit)

\* The limit, as far as a fixed window keeps it: in any stretch of one window's
\* length the limiter knowingly lets through at most two windows' worth,
\* whatever the order in which the EXPIREs of different requests arrive.
TwoWindowsAtMost == Cardinality(recent) <= 2 * Limit

\* No refusal for ever: a client that comes back and is refused again and again
\* also finds its counter gone again and again, even when the request that made
\* the counter died before its EXPIRE and whatever the other worker is doing.
RefusalsEnd ==
  ([]<>(\E w \in Workers : worker[w].pc = "refused")) => []<>(count = 0)
===============================================================================

--------------------------- MODULE RateLimiterProofs ---------------------------
(***************************************************************************)
(* The limiter for every number of workers, every limit and every window.  *)
(***************************************************************************)
EXTENDS RateLimiter, FiniteSetTheorems, TLAPS

\* What a worker may hold; one that refuses holds a count beyond the limit.
States ==
  [pc : {"idle"}, n : {0}] \cup [pc : {"expire"}, n : 1 .. Cap]
    \cup [pc : {"refused"}, n : Limit + 1 .. Cap]

Types ==
  /\ count \in 0 .. Cap
  /\ ttl \in {-1} \cup 1 .. Window
  /\ worker \in [Workers -> States]
  /\ recent \subseteq Ages \X (1 .. Limit)
  /\ count = 0 => ttl = -1

\* The cap of the counter is three at least.
LEMMA CapType == Cap \in Nat /\ Cap >= 3
BY LimitAssumption DEF Cap

\* A worker whose INCR is done refuses with the count it was told, or is idle.
LEMMA VerdictType ==
  ASSUME NEW n \in 1 .. Cap
  PROVE  Verdict(n) \in States
BY LimitAssumption DEF Verdict, Idle, Refuses, States

\* What INCR returns stays under the cap.
LEMMA IncrementedType ==
  ASSUME count \in 0 .. Cap
  PROVE  Incremented \in 1 .. Cap
BY CapType DEF Incremented

\* Each call a worker makes keeps the types.
LEMMA ServeTypes ==
  ASSUME Types, NEW w \in Workers, Serve(w)
  PROVE  Types'
<1>1. Idle \in States /\ Incremented \in 1 .. Cap /\ 0 \in Ages /\ Window \in Nat \ {0}
  BY IncrementedType, WindowAssumption DEF Idle, Types, Ages, States
<1>2. ASSUME NEW new \in States, worker' = [worker EXCEPT ![w] = new]
      PROVE  worker' \in [Workers -> States]
  BY <1>2 DEF Types
<1>3. CASE Count(w)
  <2>1. [pc |-> "expire", n |-> Incremented] \in States /\ Verdict(Incremented) \in States
    BY <1>1, VerdictType DEF States
  <2>2. worker' \in [Workers -> States]
    <3>1. PICK new \in States : worker' = [worker EXCEPT ![w] = new]
      BY <1>3, <2>1 DEF Count
    <3>2. QED
      BY <3>1, <1>2
  <2>3. recent' \subseteq Ages \X (1 .. Limit)
    <3>1. ~ Refuses(Incremented) => Incremented \in 1 .. Limit
      BY <1>1, LimitAssumption DEF Refuses
    <3>2. QED
      BY <1>1, <1>3, <3>1 DEF Count, Types
  <2>4. QED
    BY <1>1, <1>3, <2>2, <2>3 DEF Count, Types
<1>4. CASE CountLost(w)
  BY <1>1, <1>4 DEF CountLost, Types
<1>5. CASE SetExpiry(w)
  <2>1. worker[w].n \in 1 .. Cap
    BY <1>5 DEF SetExpiry, Types, States
  <2>2. Verdict(worker[w].n) \in States
    BY <2>1, VerdictType
  <2>3. worker' \in [Workers -> States]
    BY <1>2, <1>5, <2>2 DEF SetExpiry
  <2>4. QED
    BY <1>1, <1>5, <2>3 DEF SetExpiry, Expire, Types
<1>6. CASE ExpiryLost(w)
  <2>1. worker' \in [Workers -> States]
    BY <1>1, <1>2, <1>6 DEF ExpiryLost
  <2>2. QED
    BY <1>1, <1>6, <2>1 DEF ExpiryLost, Expire, Types
<1>7. CASE Refuse(w)
  <2>1. worker' \in [Workers -> States]
    BY <1>1, <1>2, <1>7 DEF Refuse
  <2>2. QED
    BY <1>7, <2>1 DEF Refuse, Types
<1>8. QED
  BY <1>3, <1>4, <1>5, <1>6, <1>7 DEF Serve

\* Every step keeps the types.
LEMMA TypesStep ==
  ASSUME Types, [LimiterNext]_limiterVars
  PROVE  Types'
<1>1. CASE Restart
  <2>1. Idle \in States
    BY DEF Idle, States
  <2>2. QED
    BY <1>1, <2>1 DEF Restart, Types
<1>2. CASE Tick
  <2>1. recent' \subseteq Ages \X (1 .. Limit)
    BY <1>2 DEF Tick, Types
  <2>2. QED
    BY <1>2, <2>1, WindowAssumption, CapType DEF Tick, Types
<1>3. ASSUME NEW w \in Workers, Serve(w)
      PROVE  Types'
  BY <1>3, ServeTypes
<1>4. CASE UNCHANGED limiterVars
  BY <1>4 DEF limiterVars, Types
<1>5. QED
  BY <1>1, <1>2, <1>3, <1>4 DEF LimiterNext

\* The counter and its expiry keep their types, and no expiry is left of a key
\* that is gone, however many workers set it late.
THEOREM LimiterTypeCorrect == LimiterSpec => []LimiterTypeOK
<1>1. LimiterInit => Types
  BY CapType, WindowAssumption DEF LimiterInit, Types, Idle, Ages, States
<1>2. Types => LimiterTypeOK
  BY DEF Types, LimiterTypeOK, Idle, States
<1>3. QED
  BY <1>1, <1>2, TypesStep, PTL DEF LimiterSpec

-------------------------------------------------------------------------------
(***************************************************************************)
(* TwoWindowsAtMost.  The requests let through since the key was made were *)
(* told different counts, and so were those from before that are not yet a *)
(* window old: these all come from one key, since a key with an expiry is  *)
(* a window old when it goes, and one without it never goes.               *)
(***************************************************************************)
OneKey(S) == \A d, e \in S : d[2] = e[2] => d = e

SinceBirth(b) == { e \in recent : e[1] <= b }
BeforeBirth(b) == { e \in recent : e[1] > b }

\* b: the age of the key.
KeyOfAge(b) ==
  /\ OneKey(SinceBirth(b)) /\ OneKey(BeforeBirth(b))
  /\ \A e \in SinceBirth(b) : e[2] <= count
  /\ ttl # -1 => b + ttl >= Window

WindowInv ==
  /\ Types
  /\ count = 0 => OneKey(recent) /\ \A e \in recent : e[1] # 0
  /\ count # 0 => \E b \in Nat : KeyOfAge(b)

\* Requests that were told different counts are no more than the limit.
LEMMA OneKeyIsSmall ==
  ASSUME NEW S, S \subseteq Ages \X (1 .. Limit), OneKey(S)
  PROVE  IsFiniteSet(S) /\ Cardinality(S) \in Nat /\ Cardinality(S) <= Limit
<1> DEFINE f == [e \in S |-> e[2]]
<1>1. f \in Injection(S, 1 .. Limit)
  BY DEF OneKey, Injection, IsInjective
<1>2. IsFiniteSet(1 .. Limit) /\ Cardinality(1 .. Limit) = Limit
  BY FS_Interval, LimitAssumption
<1>3. QED
  BY <1>1, <1>2, FS_Injection, FS_CardinalityType

\* The history of one key, or of two, is within the bound.
LEMMA WindowIsBounded ==
  ASSUME WindowInv
  PROVE  TwoWindowsAtMost
<1>1. recent \subseteq Ages \X (1 .. Limit) /\ Limit \in Nat
  BY LimitAssumption DEF WindowInv, Types
<1>2. CASE count = 0
  <2>1. Cardinality(recent) \in Nat /\ Cardinality(recent) <= Limit
    BY <1>1, <1>2, OneKeyIsSmall DEF WindowInv
  <2>2. QED
    BY <1>1, <2>1 DEF TwoWindowsAtMost
<1>3. ASSUME NEW b \in Nat, KeyOfAge(b)
      PROVE  TwoWindowsAtMost
  <2>1. /\ IsFiniteSet(SinceBirth(b)) /\ Cardinality(SinceBirth(b)) \in Nat
        /\ Cardinality(SinceBirth(b)) <= Limit
    BY <1>1, <1>3, OneKeyIsSmall DEF SinceBirth, KeyOfAge
  <2>2. /\ IsFiniteSet(BeforeBirth(b)) /\ Cardinality(BeforeBirth(b)) \in Nat
        /\ Cardinality(BeforeBirth(b)) <= Limit
    BY <1>1, <1>3, OneKeyIsSmall DEF BeforeBirth, KeyOfAge
  <2>3. recent = SinceBirth(b) \cup BeforeBirth(b)
    BY <1>1, <1>3, WindowAssumption DEF SinceBirth, BeforeBirth, Ages
  <2>4. SinceBirth(b) \cap BeforeBirth(b) = {}
    BY <1>1, <1>3, WindowAssumption DEF SinceBirth, BeforeBirth, Ages
  <2>5. Cardinality(recent) = Cardinality(SinceBirth(b)) + Cardinality(BeforeBirth(b))
    <3> DEFINE S == SinceBirth(b)
               T == BeforeBirth(b)
    <3> HIDE DEF S, T
    <3>1. Cardinality(S \cup T) = Cardinality(S) + Cardinality(T) - Cardinality(S \cap T)
      BY <2>1, <2>2, FS_Union DEF S, T
    <3>2. Cardinality(S \cap T) = 0
      BY <2>4, FS_EmptySet DEF S, T
    <3>3. QED
      BY <2>1, <2>2, <2>3, <3>1, <3>2 DEF S, T
  <2>6. QED
    BY <1>1, <2>1, <2>2, <2>5 DEF TwoWindowsAtMost
<1>4. QED
  BY <1>2, <1>3 DEF WindowInv

\* INCR makes the key, or raises it to a count nobody was told before.
LEMMA CountWindow ==
  ASSUME WindowInv, count' = Incremented, UNCHANGED ttl,
         recent' = recent \/ (~ Refuses(Incremented) /\ recent' = recent \cup {<< 0, Incremented >>})
  PROVE  count' # 0 /\ \E b \in Nat : KeyOfAge(b)'
<1>1. /\ count \in 0 .. Cap /\ Incremented \in 1 .. Cap
      /\ recent \subseteq Ages \X (1 .. Limit) /\ Window \in Nat /\ Limit \in Nat
  BY IncrementedType, WindowAssumption, LimitAssumption DEF WindowInv, Types
<1>2. \A e \in recent : e = << e[1], e[2] >> /\ e[1] \in Nat /\ e[2] \in Nat
  BY <1>1 DEF Ages
<1>3. CASE count = 0
  <2>1. Incremented = 1 /\ ttl = -1
    BY <1>3, CapType DEF Incremented, WindowInv, Types
  <2>2. \A e \in recent' : e[1] <= 0 => e = << 0, 1 >>
    BY <1>2, <1>3, <2>1 DEF WindowInv
  <2>3. \A e \in recent' : e[1] > 0 => e \in recent
    BY <2>1
  <2>4. KeyOfAge(0)'
    BY <1>3, <2>1, <2>2, <2>3 DEF KeyOfAge, OneKey, SinceBirth, BeforeBirth, WindowInv
  <2>5. QED
    BY <1>1, <2>4
<1>4. CASE count # 0
  <2>1. PICK b \in Nat : KeyOfAge(b)
    BY <1>4 DEF WindowInv
  <2>2. count <= Incremented
    BY <1>1, CapType DEF Incremented
  <2>3. ~ Refuses(Incremented) => count < Incremented
    BY <1>1, LimitAssumption DEF Incremented, Refuses, Cap
  <2>4. ASSUME NEW e \in SinceBirth(b)'
        PROVE  e \in SinceBirth(b) \/ (~ Refuses(Incremented) /\ e = << 0, Incremented >>)
    BY DEF SinceBirth
  <2>5. BeforeBirth(b)' = BeforeBirth(b)
    BY DEF BeforeBirth
  <2>6. \A e \in SinceBirth(b) : e[2] <= count /\ e[2] \in Nat
    BY <1>2, <2>1 DEF KeyOfAge, SinceBirth
  <2>7. \A e \in SinceBirth(b)' : e[2] <= Incremented
    BY <1>1, <2>2, <2>4, <2>6
  <2>8. OneKey(SinceBirth(b)')
    BY <1>1, <2>1, <2>3, <2>4, <2>6 DEF KeyOfAge, OneKey
  <2>9. KeyOfAge(b)'
    BY <2>1, <2>5, <2>7, <2>8 DEF KeyOfAge
  <2>10. QED
    BY <1>1, <2>9
<1>5. QED
  BY <1>3, <1>4

\* With time all requests age and the key with them; it goes a window old.
LEMMA TickWindow ==
  ASSUME WindowInv, Types', Tick
  PROVE  WindowInv'
<1>1. /\ count \in 0 .. Cap /\ ttl \in {-1} \cup 1 .. Window
      /\ recent \subseteq Ages \X (1 .. Limit) /\ Window \in Nat \ {0}
  BY WindowAssumption DEF WindowInv, Types
<1>2. ASSUME NEW e \in recent'
      PROVE  /\ << e[1] - 1, e[2] >> \in recent
             /\ e = << (e[1] - 1) + 1, e[2] >>
             /\ e[1] # 0 /\ e[1] \in Nat /\ e[1] < Window
  <2>1. PICK d \in recent : e = << d[1] + 1, d[2] >> /\ d[1] + 1 \in Ages
    BY DEF Tick
  <2>2. d = << d[1], d[2] >> /\ d[1] \in Nat /\ e[1] - 1 = d[1]
    BY <1>1, <2>1 DEF Ages
  <2>3. QED
    BY <1>1, <2>1, <2>2 DEF Ages
<1>3. \A e \in recent' : e[1] # 0 /\ e[1] \in Nat /\ e[1] < Window
  BY <1>2
<1>4. ASSUME NEW S, OneKey(S), NEW T, \A e \in T : e \in recent' /\ << e[1] - 1, e[2] >> \in S
      PROVE  OneKey(T)
  <2>1. SUFFICES ASSUME NEW d \in T, NEW e \in T, d[2] = e[2]
                 PROVE  d = e
    BY DEF OneKey
  <2>2. << d[1] - 1, d[2] >> = << e[1] - 1, e[2] >>
    BY <1>4, <2>1 DEF OneKey
  <2>3. d[1] - 1 = e[1] - 1
    BY <2>2
  <2>4. QED
    BY <1>2, <1>4, <2>1, <2>3
<1>5. CASE count = 0
  <2>1. count' = 0
    BY <1>5 DEF Tick
  <2>2. OneKey(recent')
    BY <1>2, <1>4, <1>5 DEF WindowInv
  <2>3. QED
    BY <1>3, <2>1, <2>2 DEF WindowInv
<1>6. CASE count # 0
  <2>1. PICK b \in Nat : KeyOfAge(b)
    BY <1>6 DEF WindowInv
  <2>2. ASSUME NEW e \in SinceBirth(b + 1)'
        PROVE  e \in recent' /\ << e[1] - 1, e[2] >> \in SinceBirth(b)
    BY <1>2 DEF SinceBirth
  <2>3. ASSUME NEW e \in BeforeBirth(b + 1)'
        PROVE  e \in recent' /\ << e[1] - 1, e[2] >> \in BeforeBirth(b)
    BY <1>2 DEF BeforeBirth
  <2>4. OneKey(SinceBirth(b + 1)') /\ OneKey(BeforeBirth(b + 1)')
    BY <1>4, <2>1, <2>2, <2>3 DEF KeyOfAge
  <2>5. \A e \in SinceBirth(b + 1)' : e[2] <= count
    BY <2>1, <2>2 DEF KeyOfAge
  <2>6. CASE ttl = 1
    <3>1. count' = 0 /\ b + 1 >= Window
      BY <1>1, <2>1, <2>6 DEF Tick, KeyOfAge
    <3>2. \A e \in recent' : e \in SinceBirth(b + 1)'
      BY <1>1, <1>3, <3>1 DEF SinceBirth
    <3>3. OneKey(recent')
      BY <2>4, <3>2 DEF OneKey
    <3>4. QED
      BY <1>3, <3>1, <3>3 DEF WindowInv
  <2>7. CASE ttl # 1
    <3>1. count' = count /\ (ttl' # -1 => ttl' = ttl - 1 /\ ttl # -1)
      BY <1>1, <2>7 DEF Tick
    <3>2. ttl' # -1 => (b + 1) + ttl' >= Window
      BY <1>1, <2>1, <3>1 DEF KeyOfAge
    <3>3. KeyOfAge(b + 1)'
      BY <2>4, <2>5, <3>1, <3>2 DEF KeyOfAge
    <3>4. b + 1 \in Nat
      OBVIOUS
    <3>5. QED
      BY <1>6, <3>1, <3>3, <3>4 DEF WindowInv
  <2>8. QED
    BY <2>6, <2>7
<1>7. QED
  BY <1>5, <1>6

\* EXPIRE gives the key a whole window from now on, or finds none.
LEMMA ExpireWindow ==
  ASSUME WindowInv, Types', UNCHANGED <<count, recent>>, Expire \/ UNCHANGED ttl
  PROVE  WindowInv'
<1>1. CASE count = 0
  BY <1>1 DEF WindowInv
<1>2. ASSUME count # 0, NEW b \in Nat, KeyOfAge(b)
      PROVE  KeyOfAge(b)'
  <2>1. ttl' # -1 => b + ttl' >= Window
    BY <1>2, WindowAssumption DEF Expire, KeyOfAge
  <2>2. QED
    BY <1>2, <2>1 DEF KeyOfAge, SinceBirth, BeforeBirth
<1>3. QED
  BY <1>1, <1>2 DEF WindowInv

\* Every step keeps the invariant.
LEMMA WindowStep ==
  ASSUME WindowInv, [LimiterNext]_limiterVars
  PROVE  WindowInv'
<1>1. Types'
  BY TypesStep DEF WindowInv
<1>2. CASE Tick
  BY <1>1, <1>2, TickWindow
<1>3. ASSUME NEW w \in Workers, Count(w) \/ CountLost(w)
      PROVE  WindowInv'
  <2>1. count' # 0 /\ \E b \in Nat : KeyOfAge(b)'
    BY <1>3, CountWindow DEF Count, CountLost
  <2>2. QED
    BY <1>1, <2>1 DEF WindowInv
<1>4. ASSUME NEW w \in Workers, SetExpiry(w) \/ ExpiryLost(w) \/ Refuse(w)
      PROVE  WindowInv'
  BY <1>1, <1>4, ExpireWindow DEF SetExpiry, ExpiryLost, Refuse
<1>5. CASE Restart \/ UNCHANGED limiterVars
  BY <1>1, <1>5, ExpireWindow DEF Restart, limiterVars
<1>6. QED
  BY <1>2, <1>3, <1>4, <1>5 DEF LimiterNext, Serve

\* In any stretch of one window's length no more than two windows' worth of
\* requests is knowingly let through, however many workers share the counter,
\* in whatever order their EXPIREs arrive and whichever of their calls are lost.
THEOREM NeverMoreThanTwoWindows == LimiterSpec => []TwoWindowsAtMost
<1>1. LimiterInit => WindowInv
  <2>1. LimiterInit => Types
    BY CapType, WindowAssumption DEF LimiterInit, Types, Idle, Ages, States
  <2>2. QED
    BY <2>1 DEF LimiterInit, WindowInv, OneKey
<1>2. QED
  BY <1>1, WindowIsBounded, WindowStep, PTL DEF LimiterSpec
===============================================================================

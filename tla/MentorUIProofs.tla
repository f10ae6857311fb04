---------------------------- MODULE MentorUIProofs ----------------------------
(***************************************************************************)
(* The mentor for every script, every length of clips, leads and delays.   *)
(***************************************************************************)
EXTENDS MentorUI, SequenceTheorems, TLAPS

-------------------------------------------------------------------------------
(***************************************************************************)
(* The two layers, whatever the dialogue does with them.                   *)
(***************************************************************************)
Video ==
  [ clip : {"none", "step", "idle"}, left : Nat, led : BOOLEAN,
    st : {"empty", "loading", "playing", "paused", "ended", "failed"} ]

LayerTypes ==
  /\ front \in Elements /\ owner \in Elements
  /\ video \in [Elements -> Video]
  /\ pausing \in [Elements -> SUBSET (0 .. PauseDelay)]
  /\ video[owner].st \in {"loading", "failed"} <=> owner # front

LayerInv == LayerTypes /\ OneVoice

\* There are two elements, and each is the other of the other.
LEMMA OtherElement ==
  ASSUME NEW e \in Elements
  PROVE  /\ Other(e) \in Elements /\ Other(e) # e
         /\ \A d \in Elements : d = e \/ d = Other(e)
BY DEF Elements, Other

\* A clip that is set to load is a video, and takes the time it was given.
LEMMA LoadingVideo ==
  ASSUME NEW clip \in {"step", "idle"}, NEW t \in LoadTimes
  PROVE  /\ Loading(clip, t) \in Video /\ Loading(clip, t).st = "loading"
         /\ Loading(clip, t).left = t /\ Loading(clip, t).clip = clip
BY TimesAssumption DEF Loading, Video

\* What a change of its state leaves of a video.
LEMMA SetState ==
  ASSUME NEW x \in Video,
         NEW s \in {"empty", "loading", "playing", "paused", "ended", "failed"}
  PROVE  LET new == [x EXCEPT !.st = s] IN
         new \in Video /\ new.st = s /\ new.clip = x.clip /\ new.left = x.left
BY DEF Video

\* What play() leaves of a video.
LEMMA SetPlaying ==
  ASSUME NEW x \in Video
  PROVE  LET new == [x EXCEPT !.st = "playing", !.left = ClipTicks] IN
         new \in Video /\ new.st = "playing" /\ new.clip = x.clip
<1>1. ClipTicks \in Nat
  BY TimesAssumption
<1> DEFINE y == [x EXCEPT !.st = "playing"]
<1>2. y \in Video /\ y.st = "playing" /\ y.clip = x.clip
  BY SetState
<1>3. [x EXCEPT !.st = "playing", !.left = ClipTicks] = [y EXCEPT !.left = ClipTicks]
  BY Zenon DEF Video
<1> HIDE DEF y
<1>4. LET new == [y EXCEPT !.left = ClipTicks] IN
      new \in Video /\ new.st = y.st /\ new.clip = y.clip
  BY <1>1, <1>2 DEF Video
<1>5. QED
  BY <1>2, <1>3, <1>4

\* To note that a clip has led out leaves the videos videos.
LEMMA LedVideo ==
  ASSUME LayerTypes, NEW e \in Elements
  PROVE  Led(e) \in [Elements -> Video]
<1>1. [video[e] EXCEPT !.led = TRUE] \in Video
  BY DEF LayerTypes, Video
<1>2. Led(e) = [video EXCEPT ![e] = [video[e] EXCEPT !.led = TRUE]]
  BY DEF Led
<1>3. QED
  BY <1>1, <1>2 DEF LayerTypes

\* A clip that is over changes the state of its element only.
LEMMA OverVideo ==
  ASSUME LayerTypes, NEW e \in Elements
  PROVE  /\ Over(e) \in [Elements -> Video]
         /\ Over(e)[e].st = "ended" /\ Over(e)[e].clip = video[e].clip
         /\ \A d \in Elements : d # e => Over(e)[d] = video[d]
<1> DEFINE new == [video[e] EXCEPT !.st = "ended"]
<1>1. new \in Video /\ new.st = "ended" /\ new.clip = video[e].clip
  BY SetState DEF LayerTypes
<1>2. Over(e) = [video EXCEPT ![e] = new]
  BY DEF Over
<1> HIDE DEF new
<1>3. QED
  BY <1>1, <1>2 DEF LayerTypes

\* A clip that is started is loading in the element behind; the other element
\* is as the caller leaves it.
LEMMA PlayClipLayers ==
  ASSUME LayerTypes, NEW clip \in {"step", "idle"}, NEW v \in [Elements -> Video],
         PlayClip(clip, v)
  PROVE  /\ LayerInv'
         /\ owner' = Back /\ front' = front /\ pausing' = pausing
         /\ video'[owner'].st = "loading" /\ video'[owner'].clip = clip
         /\ video'[owner'].left \in LoadTimes
<1>1. PICK t \in LoadTimes : video' = [v EXCEPT ![Back] = Loading(clip, t)]
  BY DEF PlayClip
<1>2. owner' = Back /\ front' = front /\ pausing' = pausing
  BY DEF PlayClip
<1>3. Back \in Elements /\ Back # front /\ \A d \in Elements : d = front \/ d = Back
  BY OtherElement DEF Back, LayerTypes
<1> DEFINE new == Loading(clip, t)
<1>4. new \in Video /\ new.st = "loading" /\ new.left = t /\ new.clip = clip
  BY LoadingVideo
<1>5. video' = [v EXCEPT ![Back] = new]
  BY <1>1
<1> HIDE DEF new
<1>6. video' \in [Elements -> Video] /\ video'[Back] = new
  BY <1>3, <1>4, <1>5
<1>7. LayerTypes'
  BY <1>2, <1>3, <1>4, <1>6 DEF LayerTypes
<1>8. OneVoice'
  BY <1>2, <1>3, <1>4, <1>6 DEF OneVoice
<1>9. QED
  BY <1>2, <1>4, <1>6, <1>7, <1>8 DEF LayerInv

\* A clip that can play comes to the front, and the one that was there is on its
\* way out.
LEMMA CanPlayLayers ==
  ASSUME LayerInv, NEW e \in Elements, CanPlay(e)
  PROVE  /\ LayerInv'
         /\ e = owner /\ e # front /\ owner' = owner /\ front' = e
         /\ pausing'[e] = pausing[e]
         /\ video'[e].st = "playing" /\ video'[e].clip = video[e].clip
<1> DEFINE new == [video[e] EXCEPT !.st = "playing", !.left = ClipTicks]
<1>1. e = owner /\ owner' = owner /\ front' = e /\ video[e].st = "loading"
  BY DEF CanPlay, IsCurrent, Crossfade, Due
<1>2. e # front /\ front \in Elements /\ \A d \in Elements : d = e \/ d = front
  BY <1>1, OtherElement DEF LayerInv, LayerTypes
<1>3. new \in Video /\ new.st = "playing" /\ new.clip = video[e].clip
  BY SetPlaying DEF LayerInv, LayerTypes
<1>4. video' = [video EXCEPT ![e] = new]
  BY DEF CanPlay, LayerInv, LayerTypes
<1>5. pausing' = [pausing EXCEPT ![front] = pausing[front] \cup {PauseDelay}]
  BY DEF CanPlay, Crossfade
<1> HIDE DEF new
<1>6. video' \in [Elements -> Video] /\ video'[e] = new
  BY <1>3, <1>4 DEF LayerInv, LayerTypes
<1>7. /\ pausing' \in [Elements -> SUBSET (0 .. PauseDelay)]
      /\ pausing'[e] = pausing[e] /\ pausing'[front] # {}
  <2>1. PauseDelay \in 0 .. PauseDelay
    BY TimesAssumption
  <2>2. QED
    BY <1>2, <1>5, <2>1 DEF LayerInv, LayerTypes
<1>8. LayerTypes'
  BY <1>1, <1>3, <1>6, <1>7 DEF LayerTypes
<1>9. OneVoice'
  BY <1>1, <1>2, <1>7 DEF OneVoice
<1>10. QED
  BY <1>1, <1>2, <1>3, <1>6, <1>7, <1>8, <1>9 DEF LayerInv

\* An element changes its state, to one in which it does not play.
LEMMA StopsLayers ==
  ASSUME LayerInv, NEW e \in Elements, NEW s \in {"paused", "ended", "failed"},
         s = "failed" <=> video[e].st \in {"loading", "failed"},
         video' = [video EXCEPT ![e] = [video[e] EXCEPT !.st = s]],
         UNCHANGED <<front, owner, pausing>>
  PROVE  LayerInv'
<1> DEFINE new == [video[e] EXCEPT !.st = s]
<1>1. new \in Video /\ new.st = s
  <2>1. video[e] \in Video
    BY DEF LayerInv, LayerTypes
  <2>2. s \in {"empty", "loading", "playing", "paused", "ended", "failed"}
    OBVIOUS
  <2>3. QED
    BY <2>1, <2>2, SetState, Zenon
<1>2. video' = [video EXCEPT ![e] = new]
  OBVIOUS
<1> HIDE DEF new
<1>3. /\ video' \in [Elements -> Video] /\ video'[e].st = s
      /\ \A d \in Elements : d # e => video'[d] = video[d]
  BY <1>1, <1>2 DEF LayerInv, LayerTypes
<1>4. LayerTypes'
  BY <1>3 DEF LayerInv, LayerTypes
<1>5. OneVoice'
  BY <1>3 DEF LayerInv, OneVoice
<1>6. QED
  BY <1>4, <1>5 DEF LayerInv

\* The clip an element plays is over.
LEMMA OverLayers ==
  ASSUME LayerInv, NEW e \in Elements, Due(e, "playing"), video' = Over(e),
         UNCHANGED <<front, owner, pausing>>
  PROVE  LayerInv'
<1>1. video' = [video EXCEPT ![e] = [video[e] EXCEPT !.st = "ended"]]
  BY DEF Over
<1>2. video[e].st = "playing"
  BY DEF Due
<1>3. QED
  BY <1>1, <1>2, StopsLayers

\* A clip that cannot be loaded leaves the layers in order.
LEMMA LoadFailsLayers ==
  ASSUME LayerInv, NEW e \in Elements, LoadFails(e)
  PROVE  LayerInv'
<1>1. video' = [video EXCEPT ![e] = [video[e] EXCEPT !.st = "failed"]]
  BY DEF LoadFails
<1>2. video[e].st = "loading" /\ UNCHANGED <<front, owner, pausing>>
  BY DEF LoadFails, Due
<1>3. QED
  BY <1>1, <1>2, StopsLayers

\* Whatever element the timer was set for, one that plays behind the front does
\* so because another timer is still to come, or stops now.
LEMMA PauseLayers ==
  ASSUME LayerInv, NEW e \in Elements, PauseFires(e)
  PROVE  /\ LayerInv'
         /\ UNCHANGED <<front, owner>> /\ pausing[e] # {}
         /\ pausing'[e] \subseteq pausing[e]
         /\ video'[e].st = (IF video[e].st = "playing" THEN "paused" ELSE video[e].st)
         /\ video'[e].clip = video[e].clip /\ video'[e].left = video[e].left
         /\ \A d \in Elements : d # e => video'[d] = video[d] /\ pausing'[d] = pausing[d]
<1> DEFINE s == IF video[e].st = "playing" THEN "paused" ELSE video[e].st
           new == [video[e] EXCEPT !.st = s]
<1>1. s \in {"empty", "loading", "playing", "paused", "ended", "failed"} /\ s # "playing"
  BY DEF LayerInv, LayerTypes, Video
<1>2. /\ UNCHANGED <<front, owner>> /\ pausing[e] # {}
      /\ pausing' = [pausing EXCEPT ![e] = pausing[e] \ {0}]
  BY DEF PauseFires
<1>3. video' = [video EXCEPT ![e] = new]
  BY DEF PauseFires, Paused, LayerInv, LayerTypes
<1>4. s \in {"loading", "failed"} <=> video[e].st \in {"loading", "failed"}
  OBVIOUS
<1>5. s = (IF video[e].st = "playing" THEN "paused" ELSE video[e].st)
  OBVIOUS
<1> HIDE DEF s
<1>6. new \in Video /\ new.st = s /\ new.clip = video[e].clip /\ new.left = video[e].left
  BY <1>1, SetState DEF LayerInv, LayerTypes
<1> HIDE DEF new
<1>7. /\ video' \in [Elements -> Video] /\ video'[e] = new
      /\ \A d \in Elements : d # e => video'[d] = video[d]
  BY <1>3, <1>6 DEF LayerInv, LayerTypes
<1>8. /\ pausing' \in [Elements -> SUBSET (0 .. PauseDelay)]
      /\ pausing'[e] \subseteq pausing[e]
      /\ \A d \in Elements : d # e => pausing'[d] = pausing[d]
  BY <1>2 DEF LayerInv, LayerTypes
<1>9. LayerTypes'
  BY <1>2, <1>4, <1>6, <1>7, <1>8 DEF LayerInv, LayerTypes
<1>10. OneVoice'
  BY <1>1, <1>2, <1>6, <1>7, <1>8 DEF LayerInv, OneVoice
<1>11. QED
  BY <1>2, <1>5, <1>6, <1>7, <1>8, <1>9, <1>10 DEF LayerInv

\* Time passes when nothing is due, so that nothing is counted below zero.
LEMMA TickLayers ==
  ASSUME LayerInv, Tick
  PROVE  /\ LayerInv' /\ UNCHANGED <<front, owner>>
         /\ pausing' = [e \in Elements |-> { t - 1 : t \in pausing[e] }]
         /\ \A e \in Elements :
              /\ video'[e].st = video[e].st /\ video'[e].clip = video[e].clip
              /\ video[e].st = "loading" => video'[e].left = video[e].left - 1
<1>1. /\ UNCHANGED <<front, owner>> /\ ~ SomethingDue
      /\ pausing' = [e \in Elements |-> { t - 1 : t \in pausing[e] }]
      /\ video' = [e \in Elements |->
           IF video[e].st \in {"loading", "playing"} THEN [video[e] EXCEPT !.left = video[e].left - 1]
           ELSE video[e]]
  BY DEF Tick
<1>2. \A e \in Elements :
        /\ 0 \notin pausing[e]
        /\ video[e].st \in {"loading", "playing"} => video[e].left # 0
  BY <1>1 DEF SomethingDue, Due
<1>3. ASSUME NEW e \in Elements
      PROVE  /\ video'[e] \in Video
             /\ video'[e].st = video[e].st /\ video'[e].clip = video[e].clip
             /\ video[e].st = "loading" => video'[e].left = video[e].left - 1
  <2>1. video[e] \in Video
    BY DEF LayerInv, LayerTypes
  <2>2. CASE video[e].st \in {"loading", "playing"}
    <3> DEFINE n == video[e].left - 1
               new == [video[e] EXCEPT !.left = n]
    <3>1. n \in Nat
      BY <1>2, <2>1, <2>2 DEF Video
    <3>2. video'[e] = new
      BY <1>1, <2>2
    <3>3. n = video[e].left - 1
      OBVIOUS
    <3> HIDE DEF n
    <3>4. /\ new \in Video /\ new.st = video[e].st /\ new.clip = video[e].clip
          /\ new.left = n
      BY <2>1, <3>1 DEF Video
    <3> HIDE DEF new
    <3>5. QED
      BY <3>2, <3>3, <3>4
  <2>3. CASE video[e].st \notin {"loading", "playing"}
    BY <1>1, <2>1, <2>3
  <2>4. QED
    BY <2>2, <2>3
<1>4. video' \in [Elements -> Video]
  <2>1. video' = [e \in Elements |-> video'[e]]
    BY <1>1
  <2>2. QED
    BY <1>3, <2>1
<1>5. pausing' \in [Elements -> SUBSET (0 .. PauseDelay)]
  <2>1. PauseDelay \in Nat
    BY TimesAssumption
  <2>2. \A e \in Elements : \A t \in pausing[e] : t \in 0 .. PauseDelay /\ t # 0
    BY <1>2 DEF LayerInv, LayerTypes
  <2>3. \A e \in Elements : { t - 1 : t \in pausing[e] } \subseteq 0 .. PauseDelay
    BY <2>1, <2>2
  <2>4. QED
    BY <1>1, <2>3
<1>6. LayerTypes'
  BY <1>1, <1>3, <1>4, <1>5 DEF LayerInv, LayerTypes
<1>7. OneVoice'
  <2>1. \A e \in Elements : pausing[e] # {} => pausing'[e] # {}
    BY <1>1
  <2>2. QED
    BY <1>1, <1>3, <2>1 DEF LayerInv, OneVoice
<1>8. QED
  BY <1>1, <1>3, <1>6, <1>7 DEF LayerInv

-------------------------------------------------------------------------------
(***************************************************************************)
(* The dialogue.  A step's own clip, as long as it can still end, belongs  *)
(* to a step that speaks: what else is on the screen came with an idle     *)
(* clip, or is a question, whose clip may end without effect.              *)
(***************************************************************************)
TimerMax == IF RevealDelay > AckDelay THEN RevealDelay ELSE AckDelay

SpeaksWhileItPlays ==
  (video[owner].clip = "step" /\ video[owner].st \in {"loading", "playing"})
    => (ui = "speaking" \/ Steps[step].type = "input")

ScreenInv ==
  /\ step \in DOMAIN Steps /\ words \subseteq STRING
  /\ ui \in {"speaking", "revealed", "open", "acked", "waiting", "results"}
  /\ answer \in {"none", "pending"} \cup Settled
  /\ timer \in -1 .. TimerMax
  /\ ui \in {"revealed", "open", "acked"} => Steps[step].type = "input"
  /\ SpeaksWhileItPlays

MentorInv == LayerInv /\ ScreenInv

\* What the script says of a step: another one follows unless it analyses.
LEMMA StepType ==
  ASSUME NEW i \in DOMAIN Steps
  PROVE  /\ Steps[i].type \in {"auto", "input", "analyze"}
         /\ Steps[i].lead \in Nat /\ Steps[i].chips \subseteq STRING
         /\ Steps[i].type # "analyze" => i + 1 \in DOMAIN Steps
<1> DEFINE S == [type : {"auto", "input", "analyze"}, lead : Nat, chips : SUBSET STRING]
<1>0. Steps \in Seq(S)
  BY StepsAssumption
<1>1. Steps[i] \in S /\ DOMAIN Steps = 1 .. Len(Steps) /\ Len(Steps) \in Nat
  <2> HIDE DEF S
  <2>1. DOMAIN Steps = 1 .. Len(Steps) /\ Len(Steps) \in Nat
    BY <1>0, LenProperties
  <2>2. Steps[i] \in S
    BY <1>0, <2>1, ElementOfSeq
  <2>3. QED
    BY <2>1, <2>2
<1>2. Steps[i].type # "analyze" => i # Len(Steps)
  BY StepsAssumption
<1>3. QED
  BY <1>1, <1>2

\* There is a first step.
LEMMA StepsNotEmpty == 1 \in DOMAIN Steps
<1> DEFINE S == [type : {"auto", "input", "analyze"}, lead : Nat, chips : SUBSET STRING]
<1>1. Steps \in Seq(S) /\ Steps # << >>
  BY StepsAssumption
<1> HIDE DEF S
<1>2. QED
  BY <1>1, EmptySeq, LenProperties

\* The values the overlay's timer is set to, and counts down to.
LEMMA TimerBound ==
  /\ -1 \in -1 .. TimerMax /\ RevealDelay \in -1 .. TimerMax /\ AckDelay \in -1 .. TimerMax
  /\ \A t \in -1 .. TimerMax : t > 0 => t - 1 \in -1 .. TimerMax
BY TimesAssumption DEF TimerMax

\* playStep() keeps the invariant.
LEMMA PlayStepInv ==
  ASSUME MentorInv, NEW i \in DOMAIN Steps, NEW v \in [Elements -> Video], PlayStep(i, v)
  PROVE  MentorInv'
<1>1. LayerInv'
  BY PlayClipLayers DEF MentorInv, LayerInv, PlayStep
<1>2. /\ step' = i /\ ui' = "speaking" /\ timer' = -1 /\ words' = words
      /\ answer' \in {"pending", answer}
  BY DEF PlayStep
<1>3. QED
  BY <1>1, <1>2, TimerBound DEF MentorInv, ScreenInv, SpeaksWhileItPlays

\* reveal() keeps the invariant.
LEMMA RevealInv ==
  ASSUME MentorInv, NEW v \in [Elements -> Video], Reveal(v), Steps[step].type = "input"
  PROVE  MentorInv'
<1>1. LayerInv'
  BY PlayClipLayers DEF MentorInv, LayerInv, Reveal
<1>2. ui' = "revealed" /\ timer' = RevealDelay /\ UNCHANGED <<step, words, answer>>
  BY DEF Reveal
<1>3. QED
  BY <1>1, <1>2, TimerBound DEF MentorInv, ScreenInv, SpeaksWhileItPlays

\* The canplay handler keeps the invariant.
LEMMA CanPlayInv ==
  ASSUME MentorInv, NEW e \in Elements, CanPlay(e)
  PROVE  MentorInv'
<1>1. LayerInv' /\ owner' = owner /\ e = owner /\ video'[e].clip = video[e].clip
  BY CanPlayLayers DEF MentorInv
<1>2. UNCHANGED <<step, ui, words, answer, timer>> /\ video[owner].st = "loading"
  BY <1>1 DEF CanPlay, screen, Due
<1>3. QED
  BY <1>1, <1>2 DEF MentorInv, ScreenInv, SpeaksWhileItPlays

\* A clip that cannot be loaded keeps the invariant.
LEMMA LoadFailsInv ==
  ASSUME MentorInv, NEW e \in Elements, LoadFails(e)
  PROVE  MentorInv'
<1>1. LayerInv' /\ owner' = owner
  BY LoadFailsLayers DEF MentorInv, LoadFails
<1>2. UNCHANGED <<step, ui, words, answer, timer>>
  BY DEF LoadFails, screen
<1>3. video' = [video EXCEPT ![e] = [video[e] EXCEPT !.st = "failed"]]
  BY DEF LoadFails
<1>4. video[e] \in Video /\ video \in [Elements -> Video]
  BY DEF MentorInv, LayerInv, LayerTypes
<1>5. video'[e].st = "failed" /\ \A d \in Elements : d # e => video'[d] = video[d]
  BY <1>3, <1>4 DEF Video
<1>6. owner \in Elements
  BY DEF MentorInv, LayerInv, LayerTypes
<1>7. QED
  BY <1>1, <1>2, <1>5, <1>6 DEF MentorInv, ScreenInv, SpeaksWhileItPlays

\* The timer of a crossfade keeps the invariant.
LEMMA PauseFiresInv ==
  ASSUME MentorInv, NEW e \in Elements, PauseFires(e)
  PROVE  MentorInv'
<1>1. /\ LayerInv' /\ owner' = owner /\ owner \in Elements
      /\ video'[e].st = (IF video[e].st = "playing" THEN "paused" ELSE video[e].st)
      /\ video'[e].clip = video[e].clip
      /\ \A d \in Elements : d # e => video'[d] = video[d]
  BY PauseLayers DEF MentorInv, LayerInv, LayerTypes
<1>2. UNCHANGED <<step, ui, words, answer, timer>>
  BY DEF PauseFires, screen
<1>3. QED
  BY <1>1, <1>2 DEF MentorInv, ScreenInv, SpeaksWhileItPlays

\* The idle loop keeps the invariant: its clip drives no step.
LEMMA IdleLoopsInv ==
  ASSUME MentorInv, NEW e \in Elements, IdleLoops(e)
  PROVE  MentorInv'
<1>1. Led(e) \in [Elements -> Video]
  BY LedVideo DEF MentorInv, LayerInv
<1>2. LayerInv' /\ video'[owner'].clip = "idle"
  BY <1>1, PlayClipLayers DEF MentorInv, LayerInv, IdleLoops
<1>3. UNCHANGED <<step, ui, words, answer, timer>>
  BY DEF IdleLoops, screen
<1>4. QED
  BY <1>2, <1>3 DEF MentorInv, ScreenInv, SpeaksWhileItPlays

\* Only a question has a lead.
LEMMA LeadIsAQuestions ==
  ASSUME MentorInv, NEW e \in Elements, QuestionLeadsOut(e)
  PROVE  ui = "speaking" /\ Steps[step].type = "input" /\ Reveal(Led(e))
<1>1. step \in DOMAIN Steps
  BY DEF MentorInv, ScreenInv
<1>2. Steps[step].lead > 0
  BY DEF QuestionLeadsOut, LeadsOut
<1>3. QED
  BY <1>1, <1>2, StepsAssumption DEF QuestionLeadsOut

\* A question revealed ahead of its end keeps the invariant.
LEMMA QuestionLeadsOutInv ==
  ASSUME MentorInv, NEW e \in Elements, QuestionLeadsOut(e)
  PROVE  MentorInv'
<1>1. Led(e) \in [Elements -> Video]
  BY LedVideo DEF MentorInv, LayerInv
<1>2. QED
  BY <1>1, LeadIsAQuestions, RevealInv

\* The end of a step's clip keeps the invariant, for each type of step.
LEMMA StepEndsInv ==
  ASSUME MentorInv, NEW e \in Elements, StepEnds(e)
  PROVE  MentorInv'
<1>1. LayerTypes /\ step \in DOMAIN Steps /\ Due(e, "playing") /\ e = owner
  BY DEF MentorInv, LayerInv, ScreenInv, StepEnds, EndMatters, IsCurrent
<1>2. /\ Over(e) \in [Elements -> Video] /\ Over(e)[e].st = "ended"
  BY <1>1, OverVideo
<1>3. CASE Steps[step].type = "auto" /\ PlayStep(step + 1, Over(e))
  <2>1. step + 1 \in DOMAIN Steps
    BY <1>1, <1>3, StepType
  <2>2. QED
    BY <1>2, <1>3, <2>1, PlayStepInv
<1>4. CASE Steps[step].type = "input" /\ Reveal(Over(e))
  BY <1>2, <1>4, RevealInv
<1>5. CASE Steps[step].type = "analyze"
  <2>1. /\ ui' = IF IsSettled THEN "results" ELSE "waiting"
        /\ IF IsSettled THEN video' = Over(e) /\ UNCHANGED <<front, owner, pausing>>
                        ELSE PlayClip("idle", Over(e))
        /\ UNCHANGED <<step, words, answer, timer>>
    BY <1>5 DEF StepEnds
  <2>2. CASE IsSettled
    <3>1. LayerInv' /\ owner' = owner /\ video'[owner].st = "ended"
      BY <1>1, <1>2, <2>1, <2>2, OverLayers DEF MentorInv
    <3>2. QED
      BY <2>1, <3>1 DEF MentorInv, ScreenInv, SpeaksWhileItPlays
  <2>3. CASE ~ IsSettled
    <3>1. LayerInv' /\ video'[owner'].clip = "idle"
      BY <1>1, <1>2, <2>1, <2>3, PlayClipLayers
    <3>2. QED
      BY <2>1, <3>1 DEF MentorInv, ScreenInv, SpeaksWhileItPlays
  <2>4. QED
    BY <2>2, <2>3
<1>6. QED
  BY <1>3, <1>4, <1>5 DEF StepEnds

\* A clip that ends without a handler keeps the invariant.
LEMMA EndsSilentlyInv ==
  ASSUME MentorInv, NEW e \in Elements, EndsSilently(e)
  PROVE  MentorInv'
<1>1. /\ UNCHANGED <<step, ui, words, answer, timer>> /\ UNCHANGED <<front, owner, pausing>>
      /\ video' = Over(e) /\ Due(e, "playing")
  BY DEF EndsSilently, screen
<1>2. LayerInv'
  BY <1>1, OverLayers DEF MentorInv
<1>3. /\ video'[e].st = "ended" /\ \A d \in Elements : d # e => video'[d] = video[d]
      /\ owner \in Elements
  BY <1>1, OverVideo DEF MentorInv, LayerInv, LayerTypes
<1>4. QED
  BY <1>1, <1>2, <1>3 DEF MentorInv, ScreenInv, SpeaksWhileItPlays

\* The layers stay in order while nothing happens to them.
LEMMA LayersRest ==
  ASSUME LayerInv, UNCHANGED layers
  PROVE  LayerInv'
BY DEF layers, LayerInv, LayerTypes, OneVoice

\* Controls that come up keep the invariant.
LEMMA ControlsShownInv ==
  ASSUME MentorInv, ControlsShown
  PROVE  MentorInv'
<1>1. LayerInv' /\ UNCHANGED <<owner, video>> /\ UNCHANGED <<step, words, answer>>
  BY LayersRest DEF MentorInv, ControlsShown, layers
<1>2. ui = "revealed" /\ ui' = "open" /\ timer' = -1
  BY DEF ControlsShown
<1>3. QED
  BY <1>1, <1>2, TimerBound DEF MentorInv, ScreenInv, SpeaksWhileItPlays

\* An answer of the student keeps the invariant.
LEMMA ContinueInv ==
  ASSUME MentorInv, Continue
  PROVE  MentorInv'
<1>1. LayerInv' /\ UNCHANGED <<owner, video>> /\ UNCHANGED <<step, answer>>
  BY LayersRest DEF MentorInv, Continue, layers
<1>2. ui = "open" /\ ui' = "acked" /\ timer' = AckDelay
  BY DEF Continue
<1>3. words' \subseteq STRING
  <2>1. Steps[step].chips \subseteq STRING /\ words \subseteq STRING
    BY StepType DEF MentorInv, ScreenInv
  <2>2. words' = words \/ \E picked \in SUBSET Steps[step].chips : words' = words \cup picked
    BY DEF Continue
  <2>3. QED
    BY <2>1, <2>2
<1>4. QED
  BY <1>1, <1>2, <1>3, TimerBound DEF MentorInv, ScreenInv, SpeaksWhileItPlays

\* An answer is followed by another step: a question is never the last one.
LEMMA AnswerIsFollowed ==
  ASSUME MentorInv, AckDone
  PROVE  /\ Steps[step].type = "input" /\ step + 1 \in DOMAIN Steps
         /\ PlayStep(step + 1, video)
<1>1. step \in DOMAIN Steps /\ Steps[step].type = "input"
  BY DEF MentorInv, ScreenInv, AckDone
<1>2. QED
  BY <1>1, StepType DEF AckDone

\* The step after an answer keeps the invariant.
LEMMA AckDoneInv ==
  ASSUME MentorInv, AckDone
  PROVE  MentorInv'
<1>1. video \in [Elements -> Video]
  BY DEF MentorInv, LayerInv, LayerTypes
<1>2. QED
  BY <1>1, AnswerIsFollowed, PlayStepInv

\* The reply of the server keeps the invariant.
LEMMA ReplyInv ==
  ASSUME MentorInv, Reply
  PROVE  MentorInv'
<1>1. LayerInv' /\ UNCHANGED <<owner, video>> /\ UNCHANGED <<step, words, timer>>
  BY LayersRest DEF MentorInv, Reply, layers
<1>2. /\ answer' \in Settled
      /\ ui' = ui \/ (ui = "waiting" /\ ui' = "results")
  BY DEF Reply, Settled
<1>3. QED
  BY <1>1, <1>2 DEF MentorInv, ScreenInv, SpeaksWhileItPlays

\* The passing of time keeps the invariant.
LEMMA TickInv ==
  ASSUME MentorInv, Tick
  PROVE  MentorInv'
<1>1. /\ LayerInv' /\ owner' = owner /\ owner \in Elements
      /\ \A e \in Elements :
           video'[e].st = video[e].st /\ video'[e].clip = video[e].clip
  BY TickLayers DEF MentorInv, LayerInv, LayerTypes
<1>2. /\ UNCHANGED <<step, ui, words, answer>>
      /\ timer' = IF timer > 0 THEN timer - 1 ELSE timer
  BY DEF Tick
<1>3. timer' \in -1 .. TimerMax
  BY <1>2, TimerBound DEF MentorInv, ScreenInv
<1>4. QED
  BY <1>1, <1>2, <1>3 DEF MentorInv, ScreenInv, SpeaksWhileItPlays

\* The page as it opens.
LEMMA MentorInitInv ==
  ASSUME MentorInit
  PROVE  MentorInv
<1>1. PICK t \in LoadTimes :
        video = [a |-> [Loading("none", 0) EXCEPT !.st = "empty"], b |-> Loading("step", t)]
  BY DEF MentorInit
<1>2. /\ step = 1 /\ ui = "speaking" /\ words = {} /\ answer = "none" /\ timer = -1
      /\ front = "a" /\ owner = "b"
      /\ pausing = [e \in Elements |-> {}]
  BY DEF MentorInit
<1> DEFINE x == [Loading("none", 0) EXCEPT !.st = "empty"]
           y == Loading("step", t)
<1>3. x \in Video /\ x.st = "empty"
  BY DEF Loading, Video
<1>4. y \in Video /\ y.st = "loading"
  BY LoadingVideo
<1>5. video = [a |-> x, b |-> y]
  BY <1>1
<1> HIDE DEF x, y
<1>6. video \in [Elements -> Video] /\ video["a"] = x /\ video["b"] = y
  BY <1>3, <1>4, <1>5 DEF Elements
<1>7. LayerTypes
  BY <1>2, <1>3, <1>4, <1>6 DEF LayerTypes, Elements
<1>8. OneVoice
  BY <1>2, <1>3, <1>4, <1>6 DEF OneVoice, Elements
<1>9. step \in DOMAIN Steps
  BY <1>2, StepsNotEmpty
<1>10. QED
  BY <1>2, <1>7, <1>8, <1>9, TimerBound
  DEF MentorInv, LayerInv, ScreenInv, SpeaksWhileItPlays

\* One step of the page, whatever it is.
LEMMA MentorStep ==
  ASSUME MentorInv, [MentorNext]_mentorVars
  PROVE  MentorInv'
<1>1. ASSUME NEW e \in Elements, Event(e)
      PROVE  MentorInv'
  BY <1>1, CanPlayInv, LoadFailsInv, PauseFiresInv, IdleLoopsInv, QuestionLeadsOutInv,
     StepEndsInv, EndsSilentlyInv DEF Event
<1>2. CASE UNCHANGED mentorVars
  BY <1>2 DEF mentorVars, MentorInv, LayerInv, LayerTypes, OneVoice, ScreenInv,
     SpeaksWhileItPlays
<1>3. QED
  BY <1>1, <1>2, ControlsShownInv, ContinueInv, AckDoneInv, ReplyInv, TickInv
  DEF MentorNext

\* The invariant holds in every state.
LEMMA MentorInvariant == MentorSpec => []MentorInv
<1>1. MentorInit => MentorInv
  BY MentorInitInv
<1>2. MentorInv /\ [MentorNext]_mentorVars => MentorInv'
  BY MentorStep
<1>3. QED
  BY <1>1, <1>2, PTL DEF MentorSpec

\* Every variable keeps its type, and the element that was started last is in
\* front or about to be, for every script and every length of time.
THEOREM MentorTypeCorrect == MentorSpec => []MentorTypeOK
<1>1. MentorInv => MentorTypeOK
  <2> SUFFICES ASSUME MentorInv PROVE MentorTypeOK
    OBVIOUS
  <2>1. ASSUME NEW e \in Elements
        PROVE  /\ video[e].clip \in {"none", "step", "idle"} /\ video[e].led \in BOOLEAN
               /\ video[e].left \in Nat
               /\ video[e].st \in {"empty", "loading", "playing", "paused", "ended", "failed"}
               /\ pausing[e] \subseteq 0 .. PauseDelay
    BY DEF MentorInv, LayerInv, LayerTypes, Video
  <2>2. QED
    BY <2>1 DEF MentorTypeOK, MentorInv, LayerInv, LayerTypes, ScreenInv, TimerMax
<1>2. QED
  BY <1>1, MentorInvariant, PTL

\* The mentor never talks over itself, however long its clips take to load and
\* to fade, whichever of them fail, and whatever the student and the server do.
THEOREM MentorSpeaksWithOneVoice == MentorSpec => []OneVoice
<1>1. MentorInv => OneVoice
  BY DEF MentorInv, LayerInv
<1>2. QED
  BY <1>1, MentorInvariant, PTL

-------------------------------------------------------------------------------
(***************************************************************************)
(* What the student is promised.  A step of the page is one of the         *)
(* dialogue's, or one that only the layers and timers take.                *)
(***************************************************************************)
Stays == UNCHANGED <<step, ui, answer>>

\* What is no change of the dialogue.
LEMMA NothingSaid ==
  ASSUME Stays
  PROVE  UNCHANGED D!dialogueVars
BY DEF Stays, D!dialogueVars

\* A step that begins is the dialogue's Proceed or its Answer.
LEMMA NextStepBegins ==
  ASSUME step \in DOMAIN Steps, step + 1 \in DOMAIN Steps, NEW v, PlayStep(step + 1, v),
         \/ ui = "speaking" /\ Steps[step].type = "auto"
         \/ ui = "acked"
  PROVE  D!DialogueNext
<1>1. /\ step' = step + 1 /\ ui' = "speaking"
      /\ answer' = IF Steps[step + 1].type = "analyze" THEN "pending" ELSE answer
  BY DEF PlayStep
<1>2. D!GoOn
  BY <1>1 DEF D!GoOn
<1>3. CASE ui = "speaking" /\ Steps[step].type = "auto"
  BY <1>2, <1>3 DEF D!DialogueNext, D!Proceed
<1>4. CASE ui = "acked"
  BY <1>2, <1>4 DEF D!DialogueNext, D!Answer
<1>5. QED
  BY <1>3, <1>4

\* A question revealed is the dialogue's Ask.
LEMMA QuestionAsks ==
  ASSUME step \in DOMAIN Steps, Steps[step].type = "input", ui = "speaking",
         NEW v, Reveal(v)
  PROVE  D!DialogueNext
<1>1. ui' = "revealed" /\ UNCHANGED <<step, answer>>
  BY DEF Reveal
<1>2. QED
  BY <1>1 DEF D!DialogueNext, D!Ask

\* The end of a step's clip is a step of the dialogue, or one behind the scenes.
LEMMA StepEndsInScript ==
  ASSUME MentorInv, NEW e \in Elements, StepEnds(e)
  PROVE  [D!DialogueNext]_D!dialogueVars
<1>1. /\ step \in DOMAIN Steps /\ e = owner /\ video[e].clip = "step"
      /\ video[e].st = "playing"
      /\ Steps[step].type = "input" => ui = "speaking"
  BY DEF MentorInv, ScreenInv, StepEnds, EndMatters, IsCurrent, Due
<1>2. ui = "speaking"
  BY <1>1 DEF MentorInv, ScreenInv, SpeaksWhileItPlays
<1>3. CASE Steps[step].type = "auto" /\ PlayStep(step + 1, Over(e))
  BY <1>1, <1>2, <1>3, StepType, NextStepBegins
<1>4. CASE Steps[step].type = "input" /\ Reveal(Over(e))
  BY <1>1, <1>2, <1>4, QuestionAsks
<1>5. CASE /\ Steps[step].type = "analyze"
           /\ ui' = IF IsSettled THEN "results" ELSE "waiting"
           /\ UNCHANGED <<step, words, answer, timer>>
  <2>1. CASE IsSettled
    BY <1>1, <1>2, <1>5, <2>1
    DEF D!DialogueNext, D!Show, IsSettled, Settled, D!Settled
  <2>2. CASE ~ IsSettled
    BY <1>2, <1>5, <2>2 DEF D!dialogueVars
  <2>3. QED
    BY <2>1, <2>2
<1>6. QED
  BY <1>3, <1>4, <1>5 DEF StepEnds

\* The reply of the server is the dialogue's Settle.
LEMMA ReplyInScript ==
  ASSUME MentorInv, Reply
  PROVE  D!DialogueNext
<1>1. /\ answer = "pending" /\ answer' \in Settled /\ step' = step
      /\ ui' = IF ui = "waiting" THEN "results" ELSE ui
  BY DEF Reply, Settled
<1>2. D!Settle
  BY <1>1 DEF D!Settle, D!Settled, Settled
<1>3. QED
  BY <1>2 DEF D!DialogueNext

\* Every step of the page is one of the dialogue, or none of it.
LEMMA StepInScript ==
  ASSUME MentorInv, [MentorNext]_mentorVars
  PROVE  [D!DialogueNext]_D!dialogueVars
<1>1. step \in DOMAIN Steps
  BY DEF MentorInv, ScreenInv
<1>2. ASSUME NEW e \in Elements, Event(e)
      PROVE  [D!DialogueNext]_D!dialogueVars
  <2>1. CASE CanPlay(e) \/ LoadFails(e) \/ PauseFires(e) \/ IdleLoops(e) \/ EndsSilently(e)
    <3>1. Stays
      BY <2>1 DEF Stays, CanPlay, LoadFails, PauseFires, IdleLoops, EndsSilently, screen
    <3>2. QED
      BY <3>1, NothingSaid
  <2>2. CASE QuestionLeadsOut(e)
    BY <1>1, <2>2, LeadIsAQuestions, QuestionAsks
  <2>3. CASE StepEnds(e)
    BY <2>3, StepEndsInScript
  <2>4. QED
    BY <1>2, <2>1, <2>2, <2>3 DEF Event
<1>3. CASE ControlsShown \/ Continue
  BY <1>3 DEF ControlsShown, Continue, D!dialogueVars
<1>4. CASE AckDone
  <2>1. ui = "acked"
    BY <1>4 DEF AckDone
  <2>2. QED
    BY <1>1, <1>4, <2>1, AnswerIsFollowed, NextStepBegins
<1>5. CASE Reply
  BY <1>5, ReplyInScript
<1>6. CASE Tick
  BY <1>6, NothingSaid DEF Tick, Stays
<1>7. CASE UNCHANGED mentorVars
  BY <1>7, NothingSaid DEF mentorVars, Stays
<1>8. QED
  BY <1>2, <1>3, <1>4, <1>5, <1>6, <1>7 DEF MentorNext

\* The page keeps the dialogue's promises for every script that ends with its
\* only analysis: the steps in order, one answer for each question, a result
\* only when the server has replied.
THEOREM MentorFollowsScript == MentorSpec => FollowsScript
<1>1. MentorInit => D!DialogueInit
  BY DEF MentorInit, D!DialogueInit
<1>2. MentorInv /\ [MentorNext]_mentorVars => [D!DialogueNext]_D!dialogueVars
  BY StepInScript
<1>3. QED
  BY <1>1, <1>2, MentorInvariant, PTL DEF MentorSpec, FollowsScript, D!DialogueSpec

-------------------------------------------------------------------------------
(***************************************************************************)
(* The timer that pauses.  Every timer set for an element comes before its *)
(* next clip can play, if clips load more slowly than a crossfade.         *)
(***************************************************************************)
SlowLoads == \A t \in LoadTimes : t > PauseDelay

FadeInv ==
  /\ owner = front => pausing[owner] = {}
  /\ video[owner].st = "loading" => \A t \in pausing[owner] : t < video[owner].left
  /\ DriverNotPaused

\* A clip that starts to load finds the timers of its element set before it.
LEMMA PlayClipFades ==
  ASSUME SlowLoads, LayerTypes, NEW clip \in {"step", "idle"},
         NEW v \in [Elements -> Video], PlayClip(clip, v)
  PROVE  FadeInv'
<1>1. /\ owner' = Back /\ front' = front /\ pausing' = pausing
      /\ video'[owner'].st = "loading" /\ video'[owner'].left \in LoadTimes
  BY PlayClipLayers
<1>2. Back \in Elements /\ Back # front
  BY OtherElement DEF Back, LayerTypes
<1>3. \A t \in pausing'[owner'] : t < video'[owner'].left
  <2>1. pausing'[owner'] \subseteq 0 .. PauseDelay
    BY <1>1, <1>2 DEF LayerTypes
  <2>2. video'[owner'].left \in Nat /\ video'[owner'].left > PauseDelay /\ PauseDelay \in Nat
    BY <1>1, TimesAssumption DEF SlowLoads
  <2>3. QED
    BY <2>1, <2>2
<1>4. QED
  BY <1>1, <1>2, <1>3 DEF FadeInv, DriverNotPaused

\* A clip that can play has outlived every timer of its element.
LEMMA CanPlayFades ==
  ASSUME LayerInv, FadeInv, NEW e \in Elements, CanPlay(e)
  PROVE  FadeInv'
<1>1. /\ e = owner /\ owner' = owner /\ front' = e /\ pausing'[e] = pausing[e]
      /\ video'[e].st = "playing"
  BY CanPlayLayers
<1>2. video[owner].st = "loading" /\ video[owner].left = 0
  BY <1>1 DEF CanPlay, Due
<1>3. pausing[owner] = {}
  <2>1. \A t \in pausing[owner] : t \in Nat /\ t < 0
    BY <1>1, <1>2, TimesAssumption DEF FadeInv, LayerInv, LayerTypes
  <2>2. QED
    BY <2>1
<1>4. QED
  BY <1>1, <1>3 DEF FadeInv, DriverNotPaused

\* A timer that fires is not one of the element that drives.
LEMMA PauseFades ==
  ASSUME LayerInv, FadeInv, NEW e \in Elements, PauseFires(e)
  PROVE  FadeInv'
<1>1. /\ UNCHANGED <<front, owner>> /\ pausing[e] # {} /\ owner \in Elements
      /\ pausing'[e] \subseteq pausing[e]
      /\ video'[e].st = (IF video[e].st = "playing" THEN "paused" ELSE video[e].st)
      /\ video'[e].left = video[e].left
      /\ \A d \in Elements : d # e => video'[d] = video[d] /\ pausing'[d] = pausing[d]
  BY PauseLayers DEF LayerInv, LayerTypes
<1>2. CASE owner = e
  <2>1. video[e].st \in {"loading", "failed"}
    BY <1>1, <1>2 DEF FadeInv, LayerInv, LayerTypes
  <2>2. QED
    BY <1>1, <1>2, <2>1 DEF FadeInv, DriverNotPaused
<1>3. CASE owner # e
  BY <1>1, <1>3 DEF FadeInv, DriverNotPaused
<1>4. QED
  BY <1>2, <1>3

\* The time a clip still needs and the time of its element's timers pass alike.
LEMMA TickFades ==
  ASSUME LayerInv, FadeInv, Tick
  PROVE  FadeInv'
<1>1. /\ UNCHANGED <<front, owner>> /\ owner \in Elements
      /\ pausing'[owner] = { t - 1 : t \in pausing[owner] }
      /\ video'[owner].st = video[owner].st
      /\ video[owner].st = "loading" => video'[owner].left = video[owner].left - 1
  BY TickLayers DEF LayerInv, LayerTypes
<1>2. video[owner].left \in Int /\ \A t \in pausing[owner] : t \in Int
  BY TimesAssumption DEF LayerInv, LayerTypes, Video
<1>3. ASSUME video'[owner].st = "loading", NEW t \in pausing'[owner]
      PROVE  t < video'[owner].left
  <2>1. PICK u \in pausing[owner] : t = u - 1
    BY <1>1, <1>3
  <2>2. u < video[owner].left
    BY <1>1, <1>3 DEF FadeInv
  <2>3. QED
    BY <1>1, <1>2, <1>3, <2>1, <2>2
<1>4. owner = front => pausing'[owner] = {}
  BY <1>1 DEF FadeInv
<1>5. QED
  BY <1>1, <1>3, <1>4 DEF FadeInv, DriverNotPaused

\* An element stops that is neither the driver on its way nor to be paused.
LEMMA OverFades ==
  ASSUME LayerInv, FadeInv, NEW e \in Elements, Due(e, "playing"), video' = Over(e),
         UNCHANGED <<front, owner, pausing>>
  PROVE  FadeInv'
<1>1. /\ video'[e].st = "ended" /\ \A d \in Elements : d # e => video'[d] = video[d]
      /\ owner \in Elements
  BY OverVideo DEF LayerInv, LayerTypes
<1>2. QED
  BY <1>1 DEF FadeInv, DriverNotPaused

\* A clip that cannot be loaded is not a paused one.
LEMMA LoadFailsFades ==
  ASSUME LayerInv, FadeInv, NEW e \in Elements, LoadFails(e)
  PROVE  FadeInv'
<1>1. /\ video' = [video EXCEPT ![e] = [video[e] EXCEPT !.st = "failed"]]
      /\ UNCHANGED <<front, owner, pausing>>
  BY DEF LoadFails
<1>2. video[e] \in Video /\ video \in [Elements -> Video] /\ owner \in Elements
  BY DEF LayerInv, LayerTypes
<1>3. video'[e].st = "failed" /\ \A d \in Elements : d # e => video'[d] = video[d]
  BY <1>1, <1>2 DEF Video
<1>4. QED
  BY <1>1, <1>2, <1>3 DEF FadeInv, DriverNotPaused

\* The end of a step's clip stops it or loads the next.
LEMMA StepEndsFades ==
  ASSUME SlowLoads, LayerInv, FadeInv, NEW e \in Elements, StepEnds(e)
  PROVE  FadeInv'
<1>1. LayerTypes /\ Due(e, "playing") /\ Over(e) \in [Elements -> Video]
  BY OverVideo DEF LayerInv, StepEnds
<1>2. \/ PlayClip("step", Over(e)) \/ PlayClip("idle", Over(e))
      \/ video' = Over(e) /\ UNCHANGED <<front, owner, pausing>>
  BY DEF StepEnds, PlayStep, Reveal
<1>3. QED
  BY <1>1, <1>2, PlayClipFades, OverFades

\* Every step of the page keeps the timers away from the clip that drives.
LEMMA FadeStep ==
  ASSUME SlowLoads, MentorInv, FadeInv, [MentorNext]_mentorVars
  PROVE  FadeInv'
<1>1. LayerInv /\ LayerTypes /\ video \in [Elements -> Video]
  BY DEF MentorInv, LayerInv, LayerTypes
<1>2. ASSUME NEW e \in Elements, Event(e)
      PROVE  FadeInv'
  <2>1. Led(e) \in [Elements -> Video]
    BY <1>1, LedVideo
  <2>2. CASE IdleLoops(e) \/ QuestionLeadsOut(e)
    BY <1>1, <2>1, <2>2, PlayClipFades DEF IdleLoops, QuestionLeadsOut, Reveal
  <2>3. CASE EndsSilently(e)
    BY <1>1, <2>3, OverFades DEF EndsSilently
  <2>4. QED
    BY <1>1, <1>2, <2>2, <2>3, CanPlayFades, LoadFailsFades, PauseFades, StepEndsFades
    DEF Event
<1>3. CASE AckDone
  BY <1>1, <1>3, PlayClipFades DEF AckDone, PlayStep
<1>4. CASE Tick
  BY <1>1, <1>4, TickFades
<1>5. CASE ControlsShown \/ Continue \/ Reply \/ UNCHANGED mentorVars
  <2>1. UNCHANGED layers
    BY <1>5 DEF ControlsShown, Continue, Reply, layers, mentorVars
  <2>2. QED
    BY <2>1 DEF layers, FadeInv, DriverNotPaused
<1>6. QED
  BY <1>2, <1>3, <1>4, <1>5 DEF MentorNext

\* If no clip loads faster than the old one fades out, the pause timer of a
\* crossfade never stops the clip that drives the dialogue.
THEOREM SlowClipsKeepPlaying ==
  ASSUME SlowLoads
  PROVE  MentorSpec => []DriverNotPaused
<1>1. MentorInit => FadeInv
  <2> SUFFICES ASSUME MentorInit PROVE FadeInv
    OBVIOUS
  <2>1. owner = "b" /\ front = "a" /\ pausing[owner] = {}
    BY DEF MentorInit, Elements
  <2>2. PICK t \in LoadTimes : video["b"] = Loading("step", t)
    BY DEF MentorInit
  <2>3. video[owner].st = "loading"
    BY <2>1, <2>2 DEF Loading
  <2>4. QED
    BY <2>1, <2>3 DEF FadeInv, DriverNotPaused
<1>2. MentorInv /\ FadeInv /\ [MentorNext]_mentorVars => FadeInv'
  BY FadeStep
<1>3. FadeInv => DriverNotPaused
  BY DEF FadeInv
<1>4. QED
  BY <1>1, <1>2, <1>3, MentorInvariant, PTL DEF MentorSpec

===============================================================================

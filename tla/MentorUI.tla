------------------------------- MODULE MentorUI -------------------------------
(***************************************************************************)
(* The mentor of app/static/app.js.  Two video elements take turns: a clip *)
(* is loaded into the one behind, and crossfaded to the front when it can  *)
(* play.  The events of a clip drive the dialogue only if no later clip    *)
(* was started (playToken); the timer that pauses the element which was    *)
(* faded out has no such check.                                            *)
(*                                                                         *)
(* Time is counted in ticks.  A tick passes when no event is due; events   *)
(* due at the same time come in any order.  The student takes any time.    *)
(***************************************************************************)
EXTENDS Integers, Sequences, FiniteSets

CONSTANTS
  Steps,        \* STEPS: a sequence of [type, lead, chips] records
  ClipTicks,    \* the length of a clip
  PauseDelay,   \* CROSSFADE_MS + 80
  IdleLead,     \* IDLE_LOOP_LEAD
  RevealDelay,  \* OPTIONS_REVEAL_DELAY_MS
  AckDelay,     \* ACK_DISPLAY_MS
  LoadTimes,    \* how long a clip may take from src to canplay
  MayFail,      \* the kinds of clip, "step" or "idle", that may not load
  Accepted      \* the words validate_free_text() lets pass

\* lead is revealLeadOut, 0 for none; chips the words a question offers.
ASSUME StepsAssumption ==
  /\ Steps \in Seq([type : {"auto", "input", "analyze"}, lead : Nat, chips : SUBSET STRING]) /\ Steps # << >>
  /\ \A i \in DOMAIN Steps : (Steps[i].type = "analyze") <=> (i = Len(Steps))
  /\ \A i \in DOMAIN Steps : Steps[i].lead > 0 => Steps[i].type = "input"
ASSUME TimesAssumption ==
  /\ {ClipTicks, PauseDelay, IdleLead, RevealDelay, AckDelay} \subseteq Nat \ {0}
  /\ LoadTimes \subseteq Nat \ {0} /\ LoadTimes # {}
ASSUME KindsAssumption == MayFail \subseteq {"step", "idle"} /\ Accepted \subseteq STRING

VARIABLES
  step,     \* stepIndex + 1
  ui,       \* what the overlay shows, and what the dialogue waits for
  words,    \* the chips picked: profile.interests and profile.career_goals
  answer,   \* of the request: "none", "pending", or how it settled
  front,    \* the element in front
  owner,    \* the element of the latest playClip(): its playToken is current
  video,    \* element -> the clip it was given, its state, ticks left, led out
  pausing,  \* element -> the pause timers set for it, as ticks left
  timer     \* ticks left of the overlay's own timer, -1 for none

screen == <<step, ui, words, answer, timer>>
layers == <<front, owner, video, pausing>>
mentorVars == <<step, ui, words, answer, timer, front, owner, video, pausing>>

Elements == {"a", "b"}
Other(e) == IF e = "a" THEN "b" ELSE "a"
\* A slip: the clip goes into the element that is seen.
Shown == front

\* getBack()
Back == Other(front)
Settled == {"ok", "failed", "rejected"}

-------------------------------------------------------------------------------
(***************************************************************************)
(* The two layers.                                                         *)
(***************************************************************************)
Loading(clip, t) == [clip |-> clip, st |-> "loading", left |-> t, led |-> FALSE]

\* playClip(): src is set on the element behind, which drops what it held, and
\* the playClip() before it is superseded.  v is video as the caller leaves it.
PlayClip(clip, v) ==
  /\ owner' = Back
  /\ \E t \in LoadTimes :
       video' = [v EXCEPT ![Back] = Loading(clip, t)]
  /\ UNCHANGED <<front, pausing>>

\* A slip: the events of a clip that was superseded still count.
AnyToken(e) == TRUE

\* myToken = playToken, for the handlers of the clip the element holds.
IsCurrent(e) == e = owner

Due(e, state) == video[e].st = state /\ video[e].left = 0

\* A slip: the element that was faded out is left running.
CrossfadeOnly(e) ==
  /\ front' = e
  /\ UNCHANGED pausing

\* crossfadeToBack(): the old front is to be paused when it has faded out.
Crossfade(e) ==
  /\ front' = e
  /\ pausing' = [pausing EXCEPT ![front] = @ \cup {PauseDelay}]

\* The canplay handler: play() and crossfade.
CanPlay(e) ==
  /\ Due(e, "loading") /\ IsCurrent(e)
  /\ video' = [video EXCEPT ![e].st = "playing", ![e].left = ClipTicks]
  /\ Crossfade(e)
  /\ UNCHANGED <<screen, owner>>

\* The error handler only writes to the console.
LoadFails(e) ==
  /\ Due(e, "loading") /\ video[e].clip \in MayFail
  /\ video' = [video EXCEPT ![e].st = "failed"]
  /\ UNCHANGED <<screen, front, owner, pausing>>

\* A slip: the timer pauses whatever is in front when it fires.
PauseFront(e) == front

\* crossfadeToBack() captured the element it faded out.
Paused(e) == e

\* The timer of crossfadeToBack().  It pauses the element whatever it plays by
\* now; the moment between play() and its promise is not told apart.
PauseFires(e) ==
  /\ 0 \in pausing[e]
  /\ pausing' = [pausing EXCEPT ![e] = @ \ {0}]
  /\ video' = [video EXCEPT ![Paused(e)].st = IF @ = "playing" THEN "paused" ELSE @]
  /\ UNCHANGED <<screen, front, owner>>

-------------------------------------------------------------------------------
(***************************************************************************)
(* The dialogue.                                                           *)
(***************************************************************************)
\* playStep(): the overlay goes, the step's clip is loaded, and the step that
\* analyses sends the profile.
PlayStep(i, v) ==
  /\ step' = i /\ ui' = "speaking" /\ timer' = -1
  /\ answer' = IF Steps[i].type = "analyze" THEN "pending" ELSE answer
  /\ PlayClip("step", v)
  /\ UNCHANGED words

\* reveal(): the idle clip is called for and the question's card comes up; its
\* controls follow after a pause.
Reveal(v) ==
  /\ ui' = "revealed" /\ timer' = RevealDelay
  /\ PlayClip("idle", v)
  /\ UNCHANGED <<step, words, answer>>

\* onLeadOut of the clip an element holds is due; led is leadOutFired.
LeadsOut(e) ==
  LET lead == IF video[e].clip = "idle" THEN IdleLead ELSE Steps[step].lead IN
  /\ IsCurrent(e) /\ video[e].st = "playing" /\ ~ video[e].led
  /\ lead > 0 /\ video[e].left <= lead

Led(e) == [video EXCEPT ![e].led = TRUE]
Over(e) == [video EXCEPT ![e].st = "ended"]

\* goIdle() again, so that the loop has no cut.
IdleLoops(e) ==
  /\ LeadsOut(e) /\ video[e].clip = "idle"
  /\ PlayClip("idle", Led(e))
  /\ UNCHANGED screen

QuestionLeadsOut(e) ==
  LeadsOut(e) /\ video[e].clip = "step" /\ ui = "speaking" /\ Reveal(Led(e))

\* onended is set and its token is current; reveal() works once for a question.
EndMatters(e) ==
  /\ IsCurrent(e) /\ video[e].clip = "step"
  /\ Steps[step].type = "input" => ui = "speaking"

\* A slip: the analysis shows its results without asking whether there are any.
HasAnswer == TRUE

\* recommendationSettled
IsSettled == answer \in Settled

\* onended of the step's own clip.
StepEnds(e) ==
  /\ Due(e, "playing") /\ ~ LeadsOut(e) /\ EndMatters(e)
  /\ \/ Steps[step].type = "auto" /\ PlayStep(step + 1, Over(e))
     \/ Steps[step].type = "input" /\ Reveal(Over(e))
     \/ /\ Steps[step].type = "analyze"
        /\ ui' = IF IsSettled THEN "results" ELSE "waiting"
        /\ IF IsSettled THEN video' = Over(e) /\ UNCHANGED <<front, owner, pausing>>
                        ELSE PlayClip("idle", Over(e))
        /\ UNCHANGED <<step, words, answer, timer>>

\* A clip that is over and has no handler, or one whose token is old.
EndsSilently(e) ==
  /\ Due(e, "playing") /\ ~ LeadsOut(e) /\ ~ EndMatters(e)
  /\ video' = Over(e)
  /\ UNCHANGED <<screen, front, owner, pausing>>

ControlsShown ==
  /\ ui = "revealed" /\ timer = 0
  /\ ui' = "open" /\ timer' = -1
  /\ UNCHANGED <<step, words, answer, layers>>

\* The student answers: a slider or a stream is always in order, words are
\* picked from the chips of the question, at least one.
Continue ==
  /\ ui = "open"
  /\ ui' = "acked" /\ timer' = AckDelay
  /\ IF Steps[step].chips = {} THEN UNCHANGED words
     ELSE \E picked \in (SUBSET Steps[step].chips) \ {{}} : words' = words \cup picked
  /\ UNCHANGED <<step, answer, layers>>

\* acknowledgeThen() has shown its message: on to the next clip.
AckDone == ui = "acked" /\ timer = 0 /\ PlayStep(step + 1, video)

\* The reply, or the failure, of POST /recommend/eligible.  A profile with a
\* word the validator does not know comes back as a 422.
Reply ==
  /\ answer = "pending"
  /\ answer' \in {"failed"} \cup (IF words \subseteq Accepted THEN {"ok"} ELSE {"rejected"})
  /\ ui' = IF ui = "waiting" THEN "results" ELSE ui
  /\ UNCHANGED <<step, words, timer, layers>>

-------------------------------------------------------------------------------
MentorInit ==
  /\ step = 1 /\ ui = "speaking" /\ words = {} /\ answer = "none" /\ timer = -1
  /\ front = "a" /\ owner = "b"
  /\ pausing = [e \in Elements |-> {}]
  /\ \E t \in LoadTimes :
       video = [a |-> [Loading("none", 0) EXCEPT !.st = "empty"], b |-> Loading("step", t)]

\* What an element has to do now.
Event(e) ==
  CanPlay(e) \/ LoadFails(e) \/ PauseFires(e) \/ IdleLoops(e)
    \/ QuestionLeadsOut(e) \/ StepEnds(e) \/ EndsSilently(e)

SomethingDue ==
  \/ timer = 0
  \/ \E e \in Elements :
       0 \in pausing[e] \/ Due(e, "loading") \/ Due(e, "playing") \/ LeadsOut(e)

Tick ==
  /\ ~ SomethingDue
  /\ timer' = IF timer > 0 THEN timer - 1 ELSE timer
  /\ pausing' = [e \in Elements |-> { t - 1 : t \in pausing[e] }]
  /\ video' = [e \in Elements |->
       IF video[e].st \in {"loading", "playing"} THEN [video[e] EXCEPT !.left = @ - 1]
       ELSE video[e]]
  /\ UNCHANGED <<step, ui, words, answer, front, owner>>

MentorNext ==
  \/ \E e \in Elements : Event(e)
  \/ ControlsShown \/ Continue \/ AckDone \/ Reply \/ Tick

\* The browser serves its events and lets time pass, and the server replies;
\* the student need not.
MentorFairness ==
  /\ \A e \in Elements : WF_mentorVars(Event(e))
  /\ WF_mentorVars(ControlsShown) /\ WF_mentorVars(AckDone)
  /\ WF_mentorVars(Reply) /\ WF_mentorVars(Tick)

MentorSpec == MentorInit /\ [][MentorNext]_mentorVars /\ MentorFairness

-------------------------------------------------------------------------------
(***************************************************************************)
(* Properties.                                                             *)
(***************************************************************************)
\* The variables have their types, and the element that was started last is in
\* front or about to be.
MentorTypeOK ==
  /\ step \in DOMAIN Steps /\ words \subseteq STRING
  /\ ui \in {"speaking", "revealed", "open", "acked", "waiting", "results"}
  /\ answer \in {"none", "pending"} \cup Settled
  /\ timer \in -1 .. IF RevealDelay > AckDelay THEN RevealDelay ELSE AckDelay
  /\ {front, owner} \subseteq Elements
  /\ \A e \in Elements :
       /\ video[e].clip \in {"none", "step", "idle"} /\ video[e].led \in BOOLEAN
       /\ video[e].left \in Nat
       /\ video[e].st \in {"empty", "loading", "playing", "paused", "ended", "failed"}
       /\ pausing[e] \subseteq 0 .. PauseDelay
  /\ video[owner].st \in {"loading", "failed"} <=> owner # front

\* A clip that drives the dialogue is never the one a pause timer of an earlier
\* crossfade stops.  It takes clips that load more slowly than a crossfade.
DriverNotPaused == video[owner].st # "paused"

\* The mentor never talks over itself: of two clips that play, the one behind is
\* on its way out.
OneVoice ==
  \A e \in Elements : (e # front /\ video[e].st = "playing") => pausing[e] # {}

\* The clips, layers and timers keep what the dialogue promises: steps in order,
\* one answer for each question, a result only when the server has replied.
D == INSTANCE Dialogue WITH
       Script <- [i \in DOMAIN Steps |-> Steps[i].type],
       at <- step,
       phase <- CASE ui \in {"speaking", "waiting"} -> "speaks"
                  [] ui \in {"revealed", "open", "acked"} -> "listens"
                  [] OTHER -> "shows",
       outcome <- answer
FollowsScript == D!DialogueSpec

\* Unless the student leaves, the mentor goes on: whatever it says is followed
\* by the controls of a question or by the results.
MentorGoesOn ==
  \A i \in DOMAIN Steps :
    (step = i /\ ui = "speaking") ~> (ui \in {"open", "results"})

\* The comment on the reveal of a question: "onEnded (safety net - always fires
\* eventually regardless)".
SafetyNetFires ==
  \A i \in DOMAIN Steps :
    (step = i /\ Steps[i].type = "input" /\ ui = "speaking") ~> (ui # "speaking")

\* What the front end offers to pick is what the endpoint it is written for takes.
OffersAreAccepted == answer # "rejected"
===============================================================================

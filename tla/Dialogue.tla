------------------------------- MODULE Dialogue -------------------------------
(***************************************************************************)
(* What the mentor of app/static/app.js promises its student, without the  *)
(* clips, the two video layers and the timers that make it so: it goes     *)
(* through its steps one after the other, listens to an answer where a     *)
(* step asks for one and to one answer only, sends the profile when the    *)
(* last question is answered, and shows a result when there is one.        *)
(***************************************************************************)
EXTENDS Integers

\* The types of STEPS: "auto", "input" or "analyze", which is the last one only.
CONSTANT Script

VARIABLES
  at,      \* the step it is in
  phase,   \* "speaks", "listens" or "shows"
  outcome  \* of POST /recommend/eligible: "none", "pending", or how it ended

dialogueVars == <<at, phase, outcome>>

Settled == {"ok", "failed", "rejected"}

DialogueInit == at = 1 /\ phase = "speaks" /\ outcome = "none"

\* The next step begins; the one that analyses sends what was collected.
GoOn ==
  /\ at' = at + 1
  /\ phase' = "speaks"
  /\ outcome' = IF Script[at + 1] = "analyze" THEN "pending" ELSE outcome

Proceed == phase = "speaks" /\ Script[at] = "auto" /\ GoOn

Ask ==
  /\ phase = "speaks" /\ Script[at] = "input"
  /\ phase' = "listens"
  /\ UNCHANGED <<at, outcome>>

Answer == phase = "listens" /\ GoOn

Settle ==
  /\ outcome = "pending" /\ outcome' \in Settled
  /\ UNCHANGED at
  \* a result that comes while the student waits for it is shown at once
  /\ phase' \in {phase} \cup (IF phase = "speaks" THEN {"shows"} ELSE {})

Show ==
  /\ phase = "speaks" /\ Script[at] = "analyze" /\ outcome \in Settled
  /\ phase' = "shows"
  /\ UNCHANGED <<at, outcome>>

DialogueNext == Proceed \/ Ask \/ Answer \/ Settle \/ Show

DialogueSpec == DialogueInit /\ [][DialogueNext]_dialogueVars
===============================================================================

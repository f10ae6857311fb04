------------------------------ MODULE MCMentorUI ------------------------------
(***************************************************************************)
(* The eight steps of app.js, one of the chips of a question that the      *)
(* validator takes and the one it does not.  A tick is 160 ms; clips are   *)
(* cut to a length in which every timer can still be running when the next *)
(* event comes.                                                            *)
(***************************************************************************)
EXTENDS MentorUI

Plain(type) == [type |-> type, lead |-> 0, chips |-> {}]
\* revealLeadOut is longer than every timer, as it is in the program.
Asks(lead, chips) == [type |-> "input", lead |-> lead, chips |-> chips]

AllSteps ==
  << Plain("auto"), Plain("auto"), Asks(6, {}), Asks(6, {}), Asks(6, {}),
     Asks(0, {"Robotics", "Business & Finance"}), Asks(0, {"Doctor", "UI/UX Designer"}),
     Plain("analyze") >>

TakenWords == {"Robotics", "Doctor"}
===============================================================================

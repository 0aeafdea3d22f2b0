-------------------------- MODULE MCEventAnalyzer --------------------------
(* Finite instances of EventAnalyzer for TLC: videos of a few frames, each   *)
(* the kind of frame one of the classifier's branches is about.              *)
EXTENDS EventAnalyzer

Quiet == [motion_score |-> 1, ball |-> NoBall, players |-> <<>>]

(* Motion alone. *)
Spike == [motion_score |-> 24, ball |-> NoBall, players |-> <<40>>]

GoalMouth ==
  [motion_score |-> 25, ball |-> [x |-> 5, y |-> 50, confidence |-> 90],
   players |-> <<3, 7, 10, 60, 5>>]

Corner ==
  [motion_score |-> 12, ball |-> [x |-> 5, y |-> 5, confidence |-> 70],
   players |-> <<3, 7>>]

Counter ==
  [motion_score |-> 20, ball |-> [x |-> 60, y |-> 50, confidence |-> 40],
   players |-> <<55>>]

MCFrame == {Quiet, Spike, GoalMouth, Corner, Counter}
=============================================================================

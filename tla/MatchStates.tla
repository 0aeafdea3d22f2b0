---------------------------- MODULE MatchStates ----------------------------
(* The state machine of matches.status.  Two programs write the column and  *)
(* each carries its own table: the backend (TypeScript) and the             *)
(* status_updater Lambda (Python).  Tables are functions from a state to    *)
(* the set of states it may be followed by.                                 *)
EXTENDS Naturals

MatchStatus == {"pending", "uploaded", "processing", "completed", "failed"}

(* "INIT" is the state of a match that has no row yet. *)
TransitionState == MatchStatus \cup {"INIT"}

CallbackStatus == {"processing", "completed", "failed"}

TerminalStatus == {"completed", "failed"}

(* backend/src/matches/status-transition.ts *)
ALLOWED_TRANSITIONS ==
  [INIT       |-> {"pending"},
   pending    |-> {"uploaded"},
   uploaded   |-> {"processing"},
   processing |-> {"completed", "failed"},
   completed  |-> {},
   failed     |-> {}]

(* TRUE where the TypeScript function returns, FALSE where it throws a 409. *)
assertValidTransition(from, to) == to \in ALLOWED_TRANSITIONS[from]

(* Mutant: the Lambda's table lags behind the backend's. *)
LambdaTableWithoutFailed ==
  [uploaded   |-> {"processing"},
   processing |-> {"completed"}]

(* lambdas/status_updater/transitions.py *)
LAMBDA_TRANSITIONS ==
  [uploaded   |-> {"processing"},
   processing |-> {"completed", "failed"}]

is_valid_transition(current, next) ==
  /\ current \in DOMAIN LAMBDA_TRANSITIONS
  /\ next \in LAMBDA_TRANSITIONS[current]
=============================================================================

---------------------------- MODULE BackendReads ----------------------------
(* The backend's tables that are read through the replica, on one primary   *)
(* and one replica: rosters and the statuses that clients poll.             *)
EXTENDS Rosters, StatusReads

readsVars == <<versions, requests, confirming, overlapped, polling, shown>>

Database ==
  [teams : SUBSET Team, players : [Player -> PlayerRow], matches : [Match -> MatchRow]]

EmptyDatabase ==
  [teams |-> {}, players |-> [p \in Player |-> NoPlayerRow],
   matches |-> [m \in Match |-> [status |-> "INIT", deleted |-> FALSE]]]

ReadsTypeOK ==
  /\ versions \in Seq(Database)
  /\ Len(versions) \in 1..MaxLag + 1
  /\ requests \in [Request -> Active \cup {Idle}]
  /\ confirming \in [Match -> 0..MaxConfirms]
  /\ overlapped \in SUBSET Match
  /\ polling \in SUBSET Match
  /\ shown \in [Match -> TransitionState]

ReadsInit ==
  /\ versions = <<EmptyDatabase>>
  /\ requests = [r \in Request |-> Idle]
  /\ confirming = [m \in Match |-> 0]
  /\ overlapped = {}
  /\ polling = {}
  /\ shown = [m \in Match |-> "INIT"]

Replicate == Replay /\ UNCHANGED <<requests, statusVars>>

Players == RosterStep /\ UNCHANGED statusVars

Statuses == MatchStep /\ UNCHANGED requests

ReadsNext == Replicate \/ Players \/ Statuses

ReadsSafetySpec == ReadsInit /\ [][ReadsNext]_readsVars
=============================================================================

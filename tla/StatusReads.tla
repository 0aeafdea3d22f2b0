---------------------------- MODULE StatusReads ----------------------------
(* What a client that polls GET /matches/{id}/status is shown: the guard    *)
(* reads the primary, getStatus the replica.  Of the writers of the row,    *)
(* confirmUpload is a check and then an update by id; create is one insert, *)
(* update_status one transaction, and the update of remove may come again   *)
(* without a difference.                                                    *)
EXTENDS Replica, MatchStates

CONSTANTS
  Match,
  MaxConfirms   \* bound: confirms of a match between check and update

ASSUME StatusReadsAssumption == MaxConfirms \in Nat

VARIABLES
  confirming,   \* how many confirms of a match are past their check
  overlapped,   \* history: matches with two of them at some time
  polling,      \* matches whose status request is past its guard
  shown         \* the status a match's client was shown last; INIT before that

statusVars == <<confirming, overlapped, polling, shown>>

MatchRow == [status : TransitionState, deleted : BOOLEAN]

Exists(row) == row.status # "INIT"
Visible(row) == Exists(row) /\ ~row.deleted

PutMatch(m, row) == Commit([write EXCEPT !.matches[m] = row])

CreateMatch(m) ==
  /\ ~Exists(write.matches[m])
  /\ PutMatch(m, [write.matches[m] EXCEPT !.status = "pending"])
  /\ UNCHANGED statusVars

(* update_status of the Lambda, whose row lock makes it one step. *)
UpdateStatus(m) ==
  /\ \E next \in CallbackStatus :
       /\ is_valid_transition(write.matches[m].status, next)
       /\ PutMatch(m, [write.matches[m] EXCEPT !.status = next])
  /\ UNCHANGED statusVars

(* confirmUpload: findFirst, the 404, and the transition check. *)
ConfirmRead(m) ==
  /\ Visible(write.matches[m])
  /\ assertValidTransition(write.matches[m].status, "uploaded")
  /\ confirming[m] < MaxConfirms
  /\ confirming' = [confirming EXCEPT ![m] = @ + 1]
  /\ overlapped' = IF confirming[m] = 0 THEN overlapped ELSE overlapped \cup {m}
  /\ UNCHANGED <<versions, polling, shown>>

(* confirmUpload: the update by id alone, whatever the status is by now. *)
ConfirmWrite(m) ==
  /\ confirming[m] > 0
  /\ confirming' = [confirming EXCEPT ![m] = @ - 1]
  /\ PutMatch(m, [write.matches[m] EXCEPT !.status = "uploaded"])
  /\ UNCHANGED <<overlapped, polling, shown>>

(* The process stops, or the update fails, after the check. *)
ConfirmAborts(m) ==
  /\ confirming[m] > 0
  /\ confirming' = [confirming EXCEPT ![m] = @ - 1]
  /\ UNCHANGED <<versions, overlapped, polling, shown>>

RemoveMatch(m) ==
  /\ Visible(write.matches[m])
  /\ PutMatch(m, [write.matches[m] EXCEPT !.deleted = TRUE])
  /\ UNCHANGED statusVars

(* MatchOwnershipGuard lets the client's request through. *)
GuardStatus(m) ==
  /\ m \notin polling
  /\ Visible(write.matches[m])
  /\ polling' = polling \cup {m}
  /\ UNCHANGED <<versions, confirming, overlapped, shown>>

(* Mutant: the status is read through whichever client is at hand. *)
GetStatusEither(m) ==
  /\ m \in polling
  /\ polling' = polling \ {m}
  /\ \E db \in {read, write} :
       shown' = IF Visible(db.matches[m])
                THEN [shown EXCEPT ![m] = db.matches[m].status] ELSE shown
  /\ UNCHANGED <<versions, confirming, overlapped>>

(* getStatus: the row on the replica, or a 404 if it is not there (yet).    *)
GetStatus(m) ==
  /\ m \in polling
  /\ polling' = polling \ {m}
  /\ shown' = IF Visible(read.matches[m])
              THEN [shown EXCEPT ![m] = read.matches[m].status] ELSE shown
  /\ UNCHANGED <<versions, confirming, overlapped>>

MatchStep ==
  \E m \in Match :
    \/ CreateMatch(m) \/ UpdateStatus(m) \/ RemoveMatch(m)
    \/ ConfirmRead(m) \/ ConfirmWrite(m) \/ ConfirmAborts(m)
    \/ GuardStatus(m) \/ GetStatus(m)
-----------------------------------------------------------------------------
(* Properties.                                                               *)

Progress ==
  [INIT |-> 0, pending |-> 1, uploaded |-> 2, processing |-> 3,
   completed |-> 4, failed |-> 4]

(* However far the replica is behind, the answers a client is given never go *)
(* back, unless confirms of the match overlapped: the second one's update    *)
(* takes back any status reached since the first one's.                      *)
PollsMoveForward ==
  [][\A m \in Match \ overlapped :
       shown'[m] # shown[m] => Progress[shown[m]] < Progress[shown'[m]]]_shown
=============================================================================

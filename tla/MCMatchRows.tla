---------------------------- MODULE MCMatchRows ----------------------------
(* Finite instances of MatchRows for TLC. *)
EXTENDS MatchRows, TLC

(* Requests and invocations are interchangeable. *)
RowsSymmetry == Permutations(Request) \cup Permutations(Invocation)

(* Bound: callbacks sent in a behaviour, any three of the four that a job   *)
(* with one receive can have.                                               *)
MaxSent == 3

(* Nothing in MatchRows reads uploadUrls, so requests for one are left out: *)
(* they are in the run Pipeline, where clients use the URLs.                *)
MCRowsNext ==
  \/ \E m \in Match : Create(m)
  \/ \E r \in Request, m \in Match, handler \in Endpoints : Guard(r, m, handler)
  \/ \E r \in Request :
       \/ ConfirmRead(r) \/ ConfirmWrite(r) \/ RemoveRead(r) \/ RemoveWrite(r)
       \/ RequestAborts(r)
  \/ UpdaterStep
  \/ \E c \in Callback : Cardinality(callbacks) < MaxSent /\ CallbackArrives(c)

MCRowsSpec == RowsInit /\ [][MCRowsNext]_rowsVars /\ RowsFairness
=============================================================================

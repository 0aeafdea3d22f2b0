-------------------------- MODULE HighlightResults --------------------------
(* What the analysis side promises the readers of its tables: no event item *)
(* is written before its clip; a match is finished once, when a complete    *)
(* result has been written; and its completion is announced at most once,   *)
(* afterwards.  No queue, attempt or fault here; and what becomes of items  *)
(* once they were written (raw clips expire) is not said.                   *)
CONSTANTS Match, Item, Complete, Notice

VARIABLES written, done, notices

vars == <<written, done, notices>>

Init ==
  /\ written = [m \in Match |-> {}]
  /\ done = {}
  /\ notices = {}

Store(m, i) ==
  /\ i[1] = "event" => <<"clip", i[2]>> \in written[m]
  /\ written' = [written EXCEPT ![m] = @ \cup {i}]
  /\ UNCHANGED <<done, notices>>

Finish(m) ==
  /\ m \notin done
  /\ \E r \in Complete : r \subseteq written[m]
  /\ done' = done \cup {m}
  /\ UNCHANGED <<written, notices>>

(* A notice is the match together with the message that announces it. *)
Announce(m, n) ==
  /\ m \in done
  /\ \A k \in notices : k[1] # m
  /\ notices' = notices \cup {<<m, n>>}
  /\ UNCHANGED <<written, done>>

Next ==
  \E m \in Match :
    \/ \E i \in Item : Store(m, i)
    \/ Finish(m)
    \/ \E n \in Notice : Announce(m, n)

Spec == Init /\ [][Next]_vars
=============================================================================

---- MODULE MCPersistenceQueue ----
(***************************************************************************)
(* Instances of PersistenceQueue for TLC.                                  *)
(***************************************************************************)
EXTENDS PersistenceQueue

CONSTANTS
  k1, k2, w1, w2, w3, w4,
  Scopes    \* bound: what may take part in a behaviour

VARIABLE scope    \* what takes part in this one, chosen at its start

OneCall == [w \in Writes |-> k1]
\* Three tasks of one call and one of another.
TwoCalls == [w \in Writes |-> IF w = w3 THEN k2 ELSE k1]

(* Crashes, restarts and shutdowns around the tasks of one call; teardown of *)
(* a call whose durable and plain tasks share the queue with another call.   *)
CallScopes == {[writes |-> {w1, w2, w4}, faults |-> 1, crashes |-> 1],
               [writes |-> {w1, w3, w4}, faults |-> 0, crashes |-> 0]}

Faultless == {[writes |-> Writes, faults |-> 0, crashes |-> 0]}

InScope ==
  /\ Accepted' \cup refused' \subseteq scope.writes
  /\ faults' =< scope.faults /\ crashes' =< scope.crashes
  /\ \A k \in Keys \ {KeyOf[w] : w \in scope.writes} :
       session'[k] \in {session[k], "over"} /\ status'[k] = status[k]
  /\ UNCHANGED scope

ScopedInit == scope \in Scopes /\ Init

ScopedSpec == ScopedInit /\ [][Next /\ InScope]_<<vars, scope>> /\ Fairness
====

---- MODULE CallLifecycle ----
(***************************************************************************)
(* What the rest of the system may rely on about a call (README, "Voice    *)
(* 2.0 call lifecycle"): it moves forward only, and once terminal neither  *)
(* its status nor its end reason ever changes again.                       *)
(***************************************************************************)

CONSTANT Reasons  \* why a call may end

VARIABLES status, reason

vars == <<status, reason>>

Terminal == {"completed", "failed", "cancelled", "abandoned"}

Init == status = "initializing" /\ reason = "none"

Activate ==
  /\ status = "initializing"
  /\ status' = "active" /\ UNCHANGED reason

Close ==
  /\ status \in {"initializing", "active"}
  /\ status' = "ending" /\ UNCHANGED reason

Terminate ==
  /\ status \notin Terminal
  /\ status' \in Terminal /\ reason' \in Reasons

Next == Activate \/ Close \/ Terminate

Spec == Init /\ [][Next]_vars
====

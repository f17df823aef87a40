---- MODULE VoicePriority ----
(***************************************************************************)
(* What the realtime gate promises, without turns, keys or tasks: some     *)
(* voice sessions are busy with a reply, and the one background job may    *)
(* start only when none is and never runs beside a busy one.               *)
(***************************************************************************)
CONSTANT Sessions

VARIABLES
  busy,     \* the sessions whose current reply holds the gate
  working   \* whether a background job is running undisturbed

vars == <<busy, working>>

Init == busy = {} /\ working = FALSE

\* A reply starts: whatever runs in the background gives way in the same step.
Claim(s) ==
  /\ s \notin busy
  /\ busy' = busy \cup {s}
  /\ working' = FALSE

Release(s) ==
  /\ s \in busy
  /\ busy' = busy \ {s}
  /\ UNCHANGED working

StartWork ==
  /\ busy = {} /\ ~working
  /\ working' = TRUE
  /\ UNCHANGED busy

StopWork ==
  /\ working
  /\ working' = FALSE
  /\ UNCHANGED busy

Next ==
  \/ \E s \in Sessions : Claim(s) \/ Release(s)
  \/ StartWork
  \/ StopWork

Spec == Init /\ [][Next]_vars
====

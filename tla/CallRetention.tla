---- MODULE CallRetention ----
(***************************************************************************)
(* What deletion promises of a finished call: it can be taken back until   *)
(* it is due, a call that was taken back still has the recording it had,   *)
(* and a recording is erased only once nobody can take the call back.      *)
(***************************************************************************)
CONSTANT Voidable   \* whether two finishers of one recording can overlap

VARIABLES
  phase,      \* "kept", "trashed" (can be restored), "due", "gone"
  recorded,   \* the call has a recording that can be played once it is kept
  void        \* two finishers overlapped: the recording may be lost

retentionVars == <<phase, recorded, void>>

Phases == {"kept", "trashed", "due", "gone"}

Init == phase = "kept" /\ recorded = FALSE /\ void = FALSE

Record ==
  /\ phase = "kept" /\ ~recorded
  /\ recorded' = TRUE
  /\ UNCHANGED <<phase, void>>

Trash == phase = "kept" /\ phase' = "trashed" /\ UNCHANGED <<recorded, void>>
Restore == phase = "trashed" /\ phase' = "kept" /\ UNCHANGED <<recorded, void>>
Expire == phase = "trashed" /\ phase' = "due" /\ UNCHANGED <<recorded, void>>

Erase ==
  /\ phase = "due"
  /\ recorded' = FALSE
  /\ UNCHANGED <<phase, void>>

Purge ==
  /\ phase = "due" /\ phase' = "gone"
  /\ recorded' = FALSE
  /\ UNCHANGED void

Overlap == Voidable /\ void' = TRUE /\ UNCHANGED <<phase, recorded>>

Lose ==
  /\ void
  /\ recorded' = ~recorded
  /\ UNCHANGED <<phase, void>>

Next == Record \/ Trash \/ Restore \/ Expire \/ Erase \/ Purge \/ Overlap \/ Lose

Spec == Init /\ [][Next]_retentionVars
====

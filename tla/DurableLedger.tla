---- MODULE DurableLedger ----
(***************************************************************************)
(* What call persistence promises, without queues, workers, journals or    *)
(* crashes: an accepted call record is written at most once, and only      *)
(* while its call may still be written; it can be given up only after its  *)
(* call has ended.  A record that overwrites may be written again.         *)
(***************************************************************************)
EXTENDS Sequences, Functions

CONSTANTS Writes, Overwrites, Keys, KeyOf

VARIABLES
  accepted,  \* the writes the queue has answered for
  ledger,    \* what was written for each call, in order
  dropped,   \* the writes that were given up
  ended      \* the calls that are terminal

vars == <<accepted, ledger, dropped, ended>>

Written(w) == w \in Range(ledger[KeyOf[w]])

Init ==
  /\ accepted = {} /\ dropped = {} /\ ended = {}
  /\ ledger = [k \in Keys |-> <<>>]

Accept(w) ==
  /\ w \notin accepted
  /\ accepted' = accepted \cup {w}
  /\ UNCHANGED <<ledger, dropped, ended>>

Write(w) ==
  /\ w \in accepted \ dropped
  /\ Written(w) => w \in Overwrites
  /\ KeyOf[w] \notin ended
  /\ ledger' = [ledger EXCEPT ![KeyOf[w]] = Append(@, w)]
  /\ UNCHANGED <<accepted, dropped, ended>>

Drop(w) ==
  /\ w \in accepted \ dropped
  /\ ~Written(w)
  /\ KeyOf[w] \in ended
  /\ dropped' = dropped \cup {w}
  /\ UNCHANGED <<accepted, ledger, ended>>

End(k) ==
  /\ k \notin ended
  /\ ended' = ended \cup {k}
  /\ UNCHANGED <<accepted, ledger, dropped>>

Next ==
  \/ \E w \in Writes : Accept(w) \/ Write(w) \/ Drop(w)
  \/ \E k \in Keys : End(k)

Spec == Init /\ [][Next]_vars
====

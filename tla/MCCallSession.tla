---- MODULE MCCallSession ----
(***************************************************************************)
(* One call with a small number of ready messages, writes and faults.      *)
(***************************************************************************)
EXTENDS CallSession
====

---- MODULE MCCallRecordings ----
(***************************************************************************)
(* Instances of CallRecordings for TLC.                                    *)
(***************************************************************************)
EXTENDS CallRecordings
====

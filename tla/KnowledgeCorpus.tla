---- MODULE KnowledgeCorpus ----
(***************************************************************************)
(* What publication promises the calls that retrieve: once a release was   *)
(* published there is always exactly one that is live, a release becomes   *)
(* live for the first time once, and the others that may become live are   *)
(* those that already were.                                                *)
(***************************************************************************)
CONSTANTS Releases, NoRelease

VARIABLES
  live,    \* the release calls retrieve from
  served   \* the releases that were ever live

corpusVars == <<live, served>>

Init == live = NoRelease /\ served = {}

Publish(r) ==
  /\ r \in Releases \ served
  /\ live' = r
  /\ served' = served \cup {r}

Rollback(r) ==
  /\ r \in served \ {live}
  /\ live' = r
  /\ UNCHANGED served

Next == \E r \in Releases : Publish(r) \/ Rollback(r)

Spec == Init /\ [][Next]_corpusVars
====

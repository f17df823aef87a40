---- MODULE MCKnowledgeControl ----
(* The control plane on a small instance. *)
EXTENDS KnowledgeControl

MCKindOf ==
  [j \in Jobs |-> CASE j = "crawl" -> "crawl_source"
                    [] j = "embed" -> "embed_units"
                    [] j = "detect" -> "detect_conflicts"]

Quiescent ==
  [workers |-> {}, jobs |-> {}, faults |-> 0, retries |-> 0, edits |-> 0,
   reviews |-> 0, releases |-> {}, admins |-> {}]

(* Two workers and a job with crashes or outages and a retry; *)
(* a crawl and an embedding among a review and a publication; *)
(* a crawl and a detection among two reviews; *)
(* two administrators and three releases of a reviewed corpus. *)
MCScopes ==
  {[Quiescent EXCEPT !.workers = {"w1", "w2"}, !.jobs = {"crawl"}, !.faults = 2,
                     !.retries = 1],
   [Quiescent EXCEPT !.workers = {"w1"}, !.jobs = {"crawl", "embed"},
                     !.edits = 1, !.reviews = 1, !.releases = {"r1"}, !.admins = {"a1"}],
   [Quiescent EXCEPT !.workers = {"w1"}, !.jobs = {"crawl", "detect"},
                     !.edits = 1, !.reviews = 2],
   [Quiescent EXCEPT !.reviews = 1, !.releases = {"r1", "r2", "r3"}, !.admins = {"a1", "a2"}]}
====

---- MODULE MCConversations ----
(* The conversations of one user on a small instance. *)
EXTENDS Conversations

Fact(type, key, value) == [type |-> type, key |-> key, value |-> value]
Asha == Fact("profile", "real_name", "asha")
Ravi == Fact("profile", "real_name", "ravi")
MCFacts == {Asha, Ravi}

(* A name is said, or corrected. *)
Event(action, fact) == [action |-> action, fact |-> fact]
MCClassifications ==
  {<<Event("upsert", Asha)>>, <<Event("deactivate", Asha), Event("upsert", Ravi)>>}

MCFirst == [words |-> 1, length |-> 1]
MCLater == [words |-> 1, length |-> 2]

OfCallers(own, other) == [c \in Callers |-> IF c = Speaker THEN own ELSE other]

Nothing ==
  [replies |-> 0, said |-> 0, messages |-> 0, logins |-> 0, attempts |-> 0, teardowns |-> 0,
   others |-> 0, voiced |-> OfCallers(0, 0), told |-> OfCallers(0, 0), calls |-> {},
   entries |-> 0, delays |-> 0, deletes |-> {}, forgets |-> {}]

(* Two responses cut into frames; a context that outgrows its window; a       *)
(* response that is said and kept, and interrupted; two calls of the page     *)
(* around logouts, beside another's call, and one around two teardowns;       *)
(* phrases of two callers; two remembered calls, and two one of which is      *)
(* deleted; a call of three transcripts, and one of two, of which one may be  *)
(* delayed, that is deleted and whose facts the user deletes; a call of the   *)
(* page that is remembered.                                                   *)
MCScopes ==
  {[Nothing EXCEPT !.replies = 2, !.said = 4],
   [Nothing EXCEPT !.messages = 8],
   [Nothing EXCEPT !.replies = 2, !.said = 1, !.messages = 5],
   [Nothing EXCEPT !.logins = 2, !.attempts = 2, !.teardowns = 1],
   [Nothing EXCEPT !.logins = 1, !.attempts = 1, !.teardowns = 1, !.others = 1],
   [Nothing EXCEPT !.logins = 2, !.attempts = 1, !.teardowns = 2],
   [Nothing EXCEPT !.voiced = OfCallers(2, 1), !.told = OfCallers(3, 1)],
   [Nothing EXCEPT !.calls = {3, 4}, !.entries = 2],
   [Nothing EXCEPT !.calls = {3, 4}, !.entries = 1, !.deletes = {3}],
   [Nothing EXCEPT !.calls = {3}, !.entries = 3],
   [Nothing EXCEPT !.calls = {3}, !.entries = 2, !.delays = 1, !.deletes = {3},
                   !.forgets = {Asha}],
   [Nothing EXCEPT !.logins = 1, !.attempts = 1, !.calls = {1}, !.entries = 1, !.deletes = {1}]}
====

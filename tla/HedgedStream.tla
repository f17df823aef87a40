---- MODULE HedgedStream ----
(***************************************************************************)
(* One request of a call to Google's model: at most two attempts race for  *)
(* its first output, the loser is closed, the winner is read, and a        *)
(* deadline is answered with a spoken recovery                             *)
(* (LatencyBoundGoogleLLMService in providers/llm/google_llm.py).          *)
(***************************************************************************)
EXTENDS Naturals, Sequences, FiniteSets

CONSTANT MaxHedged   \* bound: requests

ASSUME HedgedAssumption == MaxHedged \in Nat

VARIABLES
  hedged,   \* the request: its number, where it is, the attempt that won,
            \* whether it gave the caller anything, and how the last one ended
  race,     \* the attempts of all requests, in the order they were started
  strays    \* history: the requests that were cancelled during the hedge delay

hedgedVars == <<hedged, race, strays>>

HedgedInit ==
  /\ hedged = [number |-> 0, pc |-> "idle", winner |-> 0, output |-> FALSE, ended |-> "none"]
  /\ race = <<>> /\ strays = {}

Mine == {i \in DOMAIN race : race[i].of = hedged.number}
Of(states) == {i \in Mine : race[i].state \in states}
Started(label) == Append(race, [of |-> hedged'.number, label |-> label, state |-> "asking"])
Becomes(next) ==
  [i \in DOMAIN race |-> [race[i] EXCEPT !.state = IF i \in Mine THEN next[@] ELSE @]]

Goes(pc) == hedged' = [hedged EXCEPT !.pc = pc]
Over(how) == hedged' = [hedged EXCEPT !.pc = "idle", !.winner = 0, !.ended = how,
                                      !.output = @ \/ how = "answered"]

States == {"asking", "ready", "failed", "over", "read", "closing", "closed", "dropped"}
Same == [s \in States |-> s]

\* _close_attempt: an attempt still asking is cancelled and closes its stream;
\* of one that is ready the replay, which was never started, is closed, and
\* the stream behind it is left to the garbage collector.
Closed == [Same EXCEPT !["asking"] = "closing", !["ready"] = "dropped", !["failed"] = "over"]

start_hedged ==
  /\ hedged.pc = "idle" /\ hedged.number < MaxHedged
  /\ hedged' = [number |-> hedged.number + 1, pc |-> "delay", winner |-> 0,
                output |-> FALSE, ended |-> "none"]
  /\ race' = Started(1) /\ UNCHANGED strays

\* Its first output comes; or it fails, ends before any, or is past its deadline.
attempt_ends ==
  /\ \E i \in DOMAIN race, s \in {"ready", "failed"} :
       race[i].state = "asking" /\ race' = [race EXCEPT ![i].state = s]
  /\ UNCHANGED <<hedged, strays>>

attempt_closed ==
  /\ \E i \in DOMAIN race : race[i].state = "closing" /\ race' = [race EXCEPT ![i].state = "closed"]
  /\ UNCHANGED <<hedged, strays>>

\* The first wait ends with the first attempt or with the hedge delay.
hedge_delay ==
  /\ hedged.pc = "delay" /\ Goes("race")
  /\ race' = IF Of({"asking"}) = {} THEN race ELSE Started(2)
  /\ UNCHANGED strays

---------------------------------------------------------------------------
\* Those that are done are taken in any order until one of them has output.
\* The first attempt, failed and alone, is followed by another.
race_step ==
  /\ hedged.pc = "race" /\ Of({"ready", "failed"}) # {}
  /\ \/ \E w \in Of({"ready"}) :
          /\ hedged' = [hedged EXCEPT !.pc = "closing", !.winner = w]
          /\ race' = [Becomes(Closed) EXCEPT ![w].state = "read"]
     \/ /\ Of({"ready"}) = {}
        /\ LET popped == Becomes([Same EXCEPT !["failed"] = "over"])
               alone == Of({"asking"}) = {}
               again == alone /\ \E i \in Of({"failed"}) : race[i].label = 1
               another == Append(popped, [of |-> hedged.number, label |-> 2, state |-> "asking"])
           IN \/ ~again /\ race' = popped /\ Goes(IF alone THEN "recovery" ELSE "race")
              \/ again /\ race' = another /\ UNCHANGED hedged
              \/ /\ again /\ Cardinality(Of({"failed"})) = 2   \* the first was not the last
                 /\ race' = popped /\ Goes("recovery")
  /\ UNCHANGED strays

\* The deadline of the first output, whatever has happened meanwhile.
first_deadline ==
  /\ hedged.pc = "race" /\ Goes("closing") /\ race' = Becomes(Closed) /\ UNCHANGED strays

all_closed ==
  /\ hedged.pc = "closing" /\ Of({"closing"}) = {}
  /\ Goes(IF hedged.winner = 0 THEN "recovery" ELSE "read") /\ UNCHANGED <<race, strays>>

---------------------------------------------------------------------------
WinnerClosed == race' = Becomes([Same EXCEPT !["read"] = "closed"])

hedged_output ==
  /\ hedged.pc = "read" /\ hedged' = [hedged EXCEPT !.output = TRUE] /\ UNCHANGED <<race, strays>>

\* What is left of the first deadline, or the total one, passes.
read_deadline == hedged.pc = "read" /\ Goes("recovery") /\ WinnerClosed /\ UNCHANGED strays

\* The total deadline cancels the task that reads the generator, and when that
\* is elsewhere the generator never hears of it.
deadline_astray ==
  /\ hedged.pc = "read" /\ hedged.output /\ Over("cut")
  /\ race' = Becomes([Same EXCEPT !["read"] = "dropped"]) /\ UNCHANGED strays

hedged_raises == hedged.pc = "read" /\ Over("raised") /\ WinnerClosed /\ UNCHANGED strays

recovery_answers == hedged.pc = "recovery" /\ Over("answered") /\ UNCHANGED <<race, strays>>

hedged_ends ==
  /\ hedged.pc = "read" /\ hedged.output /\ Over("answered") /\ WinnerClosed /\ UNCHANGED strays

HedgedStep ==
  \/ attempt_ends \/ attempt_closed \/ hedge_delay \/ race_step \/ first_deadline \/ all_closed
  \/ hedged_output \/ read_deadline \/ deadline_astray \/ hedged_raises \/ recovery_answers

---------------------------------------------------------------------------
\* Fault: the attempts that still race are not closed.
cancel_hedgedLeaves ==
  IF hedged.pc = "idle" THEN UNCHANGED hedgedVars
  ELSE /\ Over("cancelled")
       /\ race' = IF hedged.pc = "read" THEN Becomes([Same EXCEPT !["read"] = "closed"]) ELSE race
       /\ strays' = IF hedged.pc = "delay" THEN strays \union {hedged.number} ELSE strays

\* An interruption.  During the hedge delay nothing closes the first attempt,
\* and while a loser is closed nothing closes the winner.
cancel_hedged ==
  IF hedged.pc = "idle" THEN UNCHANGED hedgedVars
  ELSE /\ Over("cancelled")
       /\ race' = CASE hedged.pc = "delay" -> race
                    [] hedged.pc = "read" -> Becomes([Same EXCEPT !["read"] = "closed"])
                    [] OTHER -> Becomes([Closed EXCEPT !["read"] = "dropped"])
       /\ strays' = IF hedged.pc = "delay" THEN strays \union {hedged.number} ELSE strays

HedgedTypeOK ==
  /\ hedged \in [number : 0..MaxHedged,
                 pc : {"idle", "delay", "race", "closing", "read", "recovery"},
                 winner : 0..Len(race), output : BOOLEAN,
                 ended : {"none", "answered", "raised", "cancelled", "cut"}]
  /\ race \in Seq([of : 1..MaxHedged, label : {1, 2}, state : States])
  /\ strays \subseteq 1..MaxHedged

\* At most two attempts race at a time, and none goes on asking, or waits with
\* an open stream to be read, once its request has left the race, unless the
\* request was cancelled during the hedge delay.
NoAttemptLeft ==
  LET Live == {i \in DOMAIN race : race[i].state \in {"asking", "ready"}} IN
  /\ Cardinality(Of({"asking", "ready", "failed"})) =< 2
  /\ \A i \in Live : race[i].of \in strays \/ (i \in Mine /\ hedged.pc \in {"delay", "race"})

\* A request ends, and one that was neither interrupted nor failed with
\* something for the caller; what it asked for is answered or cancelled.
HedgedEnds ==
  hedged.pc # "idle" ~>
    /\ hedged.pc = "idle" /\ Of({"asking", "closing"}) = {}
    /\ hedged.ended = "answered" => hedged.output
====

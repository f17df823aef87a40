---- MODULE Conversations ----
(***************************************************************************)
(* The conversations of one user: the page that starts and ends their      *)
(* calls, what a call says and keeps in its context, and what is           *)
(* remembered over the calls.  A call of the page is call number a of the  *)
(* user when it is the page's attempt a; the others are made elsewhere.    *)
(* A response of the model is one in the stream of what is said and in the *)
(* context, and so is an interruption.                                     *)
(***************************************************************************)
EXTENDS ReplyStream, ContextWindow, SpeechSynthesis, CallerMemory, VoicePage

CONSTANTS
  Speaker,   \* this call among the callers of the voice
  Scopes     \* bound: what may take part in a behaviour

ScopeType ==
  [replies : 0..MaxReplies, said : 0..MaxSaid, messages : 0..MaxMessages,
   logins : 0..MaxLogins, attempts : 0..MaxCalls, teardowns : 0..MaxTeardowns,
   voiced : [Callers -> 0..MaxVoiced], told : [Callers -> 0..MaxWordsTold],
   others : 0..SlotLimit, calls : SUBSET MemoryCalls, entries : 0..MaxEntries,
   delays : 0..MaxDelays, deletes : SUBSET MemoryCalls, forgets : SUBSET Facts]

ASSUME ConversationAssumption ==
  Scopes \subseteq ScopeType /\ Speaker \in Callers /\ MemoryCalls \subseteq Nat

VARIABLE scope    \* what takes part in this one, chosen at its start

conversationVars == <<replyVars, contextVars, synthesisVars>>
vars == <<conversationVars, memoryVars, pageVars, scope>>

Init ==
  /\ ReplyInit /\ ContextInit /\ SynthesisInit /\ MemoryInit /\ PageInit
  /\ scope \in Scopes

\* What is not in the scope stays as it is.
Says(A) == IF scope.replies > 0 THEN A ELSE UNCHANGED replyVars
Keeps(A) == IF scope.messages > 0 THEN A ELSE UNCHANGED contextVars
Voices(A) == IF scope.voiced[Speaker] > 0 THEN A ELSE UNCHANGED synthesisVars
Remembers(a, A) == IF a \in scope.calls THEN A ELSE UNCHANGED memoryVars
Elsewhere == {c \in scope.calls : c > scope.attempts}

---------------------------------------------------------------------------
(* A call's conversation. *)

ResponseStarts ==
  Says(response_starts) /\ Keeps(response_begins)

\* The model's run ends with its text or with a call of a tool.
ResponseEnds ==
  Says(response_ends) /\ Keeps(response_done \/ tool_called)

\* The caller speaks into it; the response's end frame may be on its way.
Interruption ==
  /\ Says(interrupted) /\ Voices(speech_interrupted(Speaker))
  /\ \E cleared \in BOOLEAN : Keeps(context_interrupted(cleared))

\* Another call of the process that shares the voice.
OthersInterrupted == \E c \in Callers \ {Speaker} : scope.voiced[c] > 0 /\ speech_interrupted(c)

ConversationStep ==
  /\ \/ (ResponseStarts \/ ResponseEnds) /\ UNCHANGED synthesisVars
     \/ Interruption
     \/ (ReplyFlows /\ UNCHANGED <<contextVars, synthesisVars>>)
     \/ (ContextFlows /\ UNCHANGED <<replyVars, synthesisVars>>)
     \/ ((VoiceStep \/ OthersInterrupted) /\ UNCHANGED <<replyVars, contextVars>>)
  /\ UNCHANGED <<memoryVars, pageVars>>

---------------------------------------------------------------------------
(* The calls. *)

\* A call's session starts with the row of the call, and ends with its status.
PageCallStep ==
  /\ \E a \in Attempts :
       \/ bot(a) /\ Remembers(a, IF HasCapacity THEN call_starts(a) ELSE UNCHANGED memoryVars)
       \/ session_ends(a) /\ Remembers(a, call_ends(a))
  /\ pollEffect
  /\ UNCHANGED conversationVars

PageAlone ==
  /\ PageStep
  /\ \A a \in Attempts : attempts'[a].session = attempts[a].session
  /\ UNCHANGED <<conversationVars, memoryVars>>

MemoryStep ==
  /\ \/ RememberStep \/ UserForgets(scope.forgets) \/ \E c \in scope.calls : CallRemembers(c)
     \/ \E c \in Elsewhere : call_starts(c) \/ call_ends(c)
  /\ UNCHANGED <<conversationVars, pageVars>>

InScope ==
  /\ reply' =< scope.replies /\ SaidSoFar' =< scope.said /\ written' =< scope.messages
  /\ logins' =< scope.logins /\ Len(attempts') =< scope.attempts
  /\ Len(teardowns') =< scope.teardowns /\ others' =< scope.others
  /\ accepted' =< scope.entries
  /\ Cardinality({r \in unsaved' : r.late})
       + Cardinality({e \in DOMAIN entries' : entries'[e].late}) =< scope.delays
  /\ \A c \in Callers : voice'[c].reply =< scope.voiced[c] /\ voice'[c].told =< scope.told[c]
  /\ executor'.closed => \E c \in Callers : scope.voiced[c] > 0
  /\ \A c \in MemoryCalls \ scope.deletes : called'[c] # "deleted"
  /\ UNCHANGED scope

Next == (ConversationStep \/ PageCallStep \/ PageAlone \/ MemoryStep) /\ InScope

\* Nothing else is bound to happen: a caller may stop, and so may the model.
Spec == Init /\ [][Next]_vars /\ PageFairness

TypeOK ==
  /\ ReplyTypeOK /\ ContextTypeOK /\ SynthesisTypeOK /\ MemoryTypeOK /\ PageTypeOK
  /\ scope \in Scopes
====

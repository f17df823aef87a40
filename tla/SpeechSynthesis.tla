---- MODULE SpeechSynthesis ----
(***************************************************************************)
(* How a reply's text becomes audio with the local Kokoro voice: it is cut *)
(* into phrases, the calls share the workers that synthesize them, and the *)
(* silence before the first word is trimmed                                *)
(* (providers/tts/kokoro_text_aggregator.py, kokoro_runtime.py and         *)
(* kokoro_tts.py, and LeadingSilenceTrimmerProcessor).                     *)
(***************************************************************************)
EXTENDS Integers, Sequences, FiniteSets, SequencesExt

CONSTANTS
  Callers,     \* the calls
  Workers,     \* max_workers of the shared executor
  First,       \* words that a reply's first phrase has at least, and the words
  Later,       \* after which it ends without punctuation; of the later ones
  Preroll,     \* samples of silence that stay before the first word
  MaxWordsTold, MaxSilence, MaxVoiced    \* bounds: of a reply, of a phrase, and replies

PhraseLimits == [words : Nat \ {0}, length : Nat \ {0}]

ASSUME SynthesisAssumption ==
  /\ Workers \in Nat \ {0} /\ {First, Later} \subseteq PhraseLimits /\ Preroll \in Nat
  /\ {MaxWordsTold, MaxSilence, MaxVoiced} \subseteq Nat

VARIABLES
  voice,      \* of each caller: the number of the reply and whether its text is
              \* still coming, its words so far, how many of them are in the
              \* buffer, whether it had a phrase, and the one being synthesized
  executor,   \* the jobs that wait and that run, and whether it was shut down
  trimmer,    \* of each caller: the samples buffered, and whether a word came
  audio       \* history of each caller: the samples of the context, before and
              \* after the trimmer, and the words heard, and lost, of the reply

synthesisVars == <<voice, executor, trimmer, audio>>

NoPhrase == [reply |-> 0]
Untrimmed == [buffered |-> 0, audible |-> FALSE]
Unheard == [made |-> <<>>, pushed |-> <<>>, heard |-> <<>>, lost |-> {}]

SynthesisInit ==
  /\ voice = [c \in Callers |-> [reply |-> 0, open |-> FALSE, told |-> 0, buffer |-> 0,
                                 emitted |-> FALSE, job |-> NoPhrase]]
  /\ executor = [queue |-> <<>>, running |-> {}, closed |-> FALSE]
  /\ trimmer = [c \in Callers |-> Untrimmed]
  /\ audio = [c \in Callers |-> Unheard]

---------------------------------------------------------------------------
(* KokoroTextAggregator.  Text waits while a phrase is synthesized. *)

reply_begins(c) ==
  /\ ~voice[c].open /\ voice[c].job = NoPhrase /\ voice[c].reply < MaxVoiced
  /\ voice' = [voice EXCEPT ![c].reply = @ + 1, ![c].open = TRUE, ![c].told = 0]
  /\ trimmer' = [trimmer EXCEPT ![c] = Untrimmed]
  /\ audio' = [audio EXCEPT ![c] = Unheard]
  /\ UNCHANGED executor

\* A phrase ends with the sentence, with a clause that is long enough, and
\* after enough words.
should_emit(c, end) ==
  LET limits == IF voice[c].emitted THEN Later ELSE First
      words == voice[c].buffer + 1
  IN \/ end = "sentence"
     \/ words >= limits.words /\ (end = "clause" \/ words >= limits.length)

\* run_tts of the words from..to: a job of the executor, or its error.
run_tts(c, from, to, next) ==
  LET job == [reply |-> next.reply, caller |-> c, from |-> from, to |-> to] IN
  IF executor.closed
  THEN /\ voice' = [voice EXCEPT ![c] = next]
       /\ audio' = [audio EXCEPT ![c].lost = @ \union from..to]
       /\ UNCHANGED executor
  ELSE /\ voice' = [voice EXCEPT ![c] = [next EXCEPT !.job = job]]
       /\ executor' = [executor EXCEPT !.queue = Append(@, job)]
       /\ UNCHANGED audio

aggregate(c, end) ==
  /\ voice[c].open /\ voice[c].job = NoPhrase /\ voice[c].told < MaxWordsTold
  /\ LET heard == [voice[c] EXCEPT !.told = @ + 1, !.buffer = @ + 1] IN
     IF should_emit(c, end)
     THEN run_tts(c, heard.told - heard.buffer + 1, heard.told,
                  [heard EXCEPT !.buffer = 0, !.emitted = TRUE])
     ELSE voice' = [voice EXCEPT ![c] = heard] /\ UNCHANGED <<executor, audio>>
  /\ UNCHANGED trimmer

\* The reply's text ends.
flush(c) ==
  /\ voice[c].open /\ voice[c].job = NoPhrase
  /\ LET ended == [voice[c] EXCEPT !.open = FALSE, !.buffer = 0, !.emitted = FALSE] IN
     IF voice[c].buffer > 0
     THEN run_tts(c, voice[c].told - voice[c].buffer + 1, voice[c].told, ended)
     ELSE voice' = [voice EXCEPT ![c] = ended] /\ UNCHANGED <<executor, audio>>
  /\ UNCHANGED trimmer

---------------------------------------------------------------------------
(* KokoroRuntime and the trimmer behind it. *)

Waiting(c) == {i \in DOMAIN executor.queue : executor.queue[i] = voice[c].job}

\* Cancelling a future that no worker has taken yet; one that runs goes on.
Dequeued(c) ==
  IF Waiting(c) = {} THEN executor
  ELSE [executor EXCEPT !.queue = RemoveAt(@, CHOOSE i \in Waiting(c) : TRUE)]

worker_takes ==
  /\ executor.queue # <<>> /\ Cardinality(executor.running) < Workers
  /\ executor' = [executor EXCEPT !.queue = Tail(@), !.running = @ \union {Head(executor.queue)}]
  /\ UNCHANGED <<voice, trimmer, audio>>

\* _trim_frame of silence before the words: what it holds then and lets through.
trim_frame(c, silence, words) ==
  LET before == trimmer[c].buffered + silence
      kept == IF before > Preroll THEN Preroll ELSE before
  IN IF trimmer[c].audible
     THEN [trimmer |-> trimmer[c], silence |-> silence, words |-> words]
     ELSE IF words = <<>>
     THEN [trimmer |-> [buffered |-> kept, audible |-> FALSE], silence |-> 0, words |-> words]
     ELSE [trimmer |-> [buffered |-> 0, audible |-> TRUE], silence |-> kept, words |-> words]

\* The samples of a frame: 0 is silence, and each word is one sample.
AudioFrame(silence, words) == [i \in 1..silence |-> 0] \o words

synthesized(c, job, silence, audible) ==
  LET words == IF audible THEN [i \in 1..(job.to - job.from + 1) |-> job.from + i - 1] ELSE <<>>
      trimmed == trim_frame(c, silence, words)
  IN /\ trimmer' = [trimmer EXCEPT ![c] = trimmed.trimmer]
     /\ audio' = [audio EXCEPT ![c].made = @ \o AudioFrame(silence, words),
                               ![c].pushed = @ \o AudioFrame(trimmed.silence, trimmed.words),
                               ![c].heard = @ \o trimmed.words,
                               ![c].lost = IF audible THEN @ ELSE @ \union job.from..job.to]

synthesis_failed(c, job) ==
  /\ audio' = [audio EXCEPT ![c].lost = @ \union job.from..job.to]
  /\ UNCHANGED trimmer

\* A worker is done: its caller goes on, unless it was interrupted meanwhile.
worker_done(job) ==
  /\ executor' = [executor EXCEPT !.running = @ \ {job}]
  /\ IF voice[job.caller].job = job
     THEN /\ voice' = [voice EXCEPT ![job.caller].job = NoPhrase]
          /\ \/ \E silence \in 0..MaxSilence, audible \in BOOLEAN :
                  synthesized(job.caller, job, silence, audible)
             \/ synthesis_failed(job.caller, job)
     ELSE UNCHANGED <<voice, trimmer, audio>>

\* No audio for the time of stop_frame_timeout_s, in the middle of a reply too.
stopped_frame(c) ==
  /\ audio[c].made # <<>>
  /\ trimmer' = [trimmer EXCEPT ![c] = Untrimmed]
  /\ audio' = [audio EXCEPT ![c].made = <<>>, ![c].pushed = <<>>]
  /\ UNCHANGED <<voice, executor>>

Silenced(c) ==
  [voice EXCEPT ![c] = [@ EXCEPT !.open = FALSE, !.told = 0, !.buffer = 0, !.emitted = FALSE,
                                 !.job = NoPhrase]]

\* Fault: the words of the interrupted reply stay in the aggregator.
speech_interruptedKeeps(c) ==
  /\ voice' = [Silenced(c) EXCEPT ![c].buffer = voice[c].buffer]
  /\ executor' = Dequeued(c)
  /\ trimmer' = [trimmer EXCEPT ![c] = Untrimmed]
  /\ audio' = [audio EXCEPT ![c] = Unheard]

\* An interruption: handle_interruption, and the cancellation of run_tts.
speech_interrupted(c) ==
  /\ voice' = Silenced(c)
  /\ executor' = Dequeued(c)
  /\ trimmer' = [trimmer EXCEPT ![c] = Untrimmed]
  /\ audio' = [audio EXCEPT ![c] = Unheard]

\* shutdown_kokoro_runtime: those who wait for a worker are cancelled.
runtime_closed ==
  /\ ~executor.closed
  /\ executor' = [executor EXCEPT !.closed = TRUE, !.queue = <<>>]
  /\ voice' = [c \in Callers |-> IF Waiting(c) = {} THEN voice[c] ELSE Silenced(c)[c]]
  /\ audio' = [c \in Callers |-> IF Waiting(c) = {} THEN audio[c] ELSE Unheard]
  /\ UNCHANGED trimmer

VoiceStep ==
  \/ worker_takes \/ (\E job \in executor.running : worker_done(job)) \/ runtime_closed
  \/ \E c \in Callers :
       \/ reply_begins(c) \/ flush(c) \/ stopped_frame(c)
       \/ \E end \in {"word", "clause", "sentence"} : aggregate(c, end)

---------------------------------------------------------------------------
SynthesisTypeOK ==
  /\ voice \in [Callers -> [reply : 0..MaxVoiced, open : BOOLEAN, told : 0..MaxWordsTold,
                            buffer : 0..MaxWordsTold, emitted : BOOLEAN,
                            job : {NoPhrase} \union [reply : 1..MaxVoiced, caller : Callers,
                                                  from : 1..MaxWordsTold, to : 1..MaxWordsTold]]]
  /\ Cardinality(executor.running) =< Workers /\ executor.closed \in BOOLEAN
  /\ trimmer \in [Callers -> [buffered : 0..Preroll, audible : BOOLEAN]]

SaidOf(c) ==   \* the words of the reply that a phrase was made of
  1..(IF voice[c].job # NoPhrase THEN voice[c].job.from - 1 ELSE voice[c].told - voice[c].buffer)

\* What is heard of a reply is each of its words once and in order, but those
\* whose synthesis failed or was silent; and of the samples of a context, only
\* silence beyond the preroll is missing, before the first word.
HeardAsTold ==
  \A c \in Callers :
    LET a == audio[c]
        spoken == {a.heard[i] : i \in DOMAIN a.heard}
        words == {i \in DOMAIN a.made : a.made[i] # 0}
        start == CHOOSE i \in words : \A j \in words : i =< j
    IN /\ \A i, j \in DOMAIN a.heard : i < j => a.heard[i] < a.heard[j]
       /\ spoken \intersect a.lost = {} /\ spoken \union a.lost = SaidOf(c)
       /\ a.pushed = IF words = {} THEN <<>>
                     ELSE SubSeq(a.made, IF start > Preroll THEN start - Preroll ELSE 1,
                                 Len(a.made))
====

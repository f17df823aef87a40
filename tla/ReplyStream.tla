---- MODULE ReplyStream ----
(***************************************************************************)
(* The text of the model's responses on its way to the speech, the page    *)
(* and the call's transcript (core/processors.py): the guard that holds    *)
(* simulated tool markup back (AssistantOutputGuardProcessor), the         *)
(* sentences that are spoken (SpeechNormalizationProcessor) and the record *)
(* of the reply (CallTimelineProcessor).  A text is a sequence of words;   *)
(* "open" followed by "tool" is a reserved marker, "mark" is formatting    *)
(* that is not spoken, "stop" ends a sentence.  The guard and the speech   *)
(* take a frame in one step: what an interruption drops between them is    *)
(* as if the model had not said it.                                        *)
(***************************************************************************)
EXTENDS Naturals, Sequences, SequencesExt

CONSTANTS
  Tokens,        \* what a text consists of
  MaxSpoken,    \* speech_max_characters, in words
  MaxBuffer,    \* speech_stream_buffer_characters, in words
  MaxReplies,   \* bound: responses of the model
  MaxSaid       \* bound: words of all responses

ASSUME ReplyAssumption ==
  /\ Tokens \subseteq {"word", "open", "tool", "mark", "stop"}
  /\ MaxSpoken \in Nat \ {0} /\ MaxBuffer \in Nat \ {0}
  /\ MaxReplies \in Nat /\ MaxSaid \in Nat

VARIABLES
  reply,      \* number of the newest response
  streaming,  \* whether the model is still saying it
  uttered,    \* what each response has said
  guard,      \* what the guard holds back, and whether it blocks the rest
  speech,     \* what waits for the end of a sentence, what was spoken, and
              \* whether the reply is a recovery
  toRecord,   \* frames between the speech and the record
  chunks,     \* _assistant_chunks, each with its reply
  source,     \* _assistant_source
  records     \* the transcript's entries

replyVars ==
  <<reply, streaming, uttered, guard, speech, toRecord, chunks, source, records>>

Replies == 1..MaxReplies
Recovery == <<"recovery">>

Listening == [pending |-> <<>>, blocked |-> FALSE]
Silent == [buffer |-> <<>>, spoken |-> <<>>, recovery |-> FALSE]

ReplyInit ==
  /\ reply = 0 /\ streaming = FALSE
  /\ uttered = [r \in Replies |-> <<>>]
  /\ guard = Listening /\ speech = Silent
  /\ toRecord = <<>> /\ chunks = <<>> /\ source = "llm" /\ records = <<>>

---------------------------------------------------------------------------
(* AssistantOutputGuardProcessor. *)

MarkerAt(text, i) == text[i] = "open" /\ text[i + 1] = "tool"
Markers(text) == {i \in 1..(Len(text) - 1) : MarkerAt(text, i)}
HasMarker(text) == Markers(text) # {}
BeforeMarker(text) == SubSeq(text, 1, Min(Markers(text)) - 1)

\* The longest suffix that could become a marker.
Held(text) == IF text # <<>> /\ Last(text) = "open" THEN <<"open">> ELSE <<>>

\* _safe_prefix: what passes of a text, and what is held back.
safe_prefix(text) ==
  IF HasMarker(text)
  THEN [safe |-> BeforeMarker(text), guard |-> [pending |-> <<>>, blocked |-> TRUE]]
  ELSE [safe |-> SubSeq(text, 1, Len(text) - Len(Held(text))),
        guard |-> [pending |-> Held(text), blocked |-> FALSE]]

---------------------------------------------------------------------------
(* SpeechNormalizationProcessor. *)

\* normalize_speech_text.
normalize(text) == SelectSeq(text, LAMBDA w : w # "mark")

SentenceEnds(text) == {i \in DOMAIN text : text[i] = "stop"}

\* _take_ready_text without force, as often as there is some: whole sentences,
\* or a full buffer.  The texts that are ready, and what stays.
Ready(text) ==
  LET end == IF SentenceEnds(text) = {} THEN 0 ELSE Max(SentenceEnds(text))
      rest == Len(text) - end
      full == rest \div MaxBuffer
  IN [texts |-> (IF end = 0 THEN <<>> ELSE <<SubSeq(text, 1, end)>>)
                \o [k \in 1..full |->
                      SubSeq(text, end + (k - 1) * MaxBuffer + 1, end + k * MaxBuffer)],
      buffer |-> SubSeq(text, end + full * MaxBuffer + 1, Len(text))]

\* _emit of one text after what was spoken: nothing of it, all of it, or, at the
\* limit, what fits, back to a space that is not too far away.
emit(spoken, text) ==
  LET room == MaxSpoken - Len(spoken)
      new == normalize(text)
  IN IF Len(new) =< room THEN {new}
     ELSE {SubSeq(new, 1, k) : k \in ((room + 1) \div 2)..room}

SpokenFrame(kind, r, text, recovery) ==
  [kind |-> kind, of |-> r, text |-> text, recovery |-> recovery]

\* The ways to speak some texts, each with the frames that go on.
speak(state, texts) ==
  FoldLeft(LAMBDA ways, text :
             UNION {{[spoken |-> way.spoken \o new,
                      frames |-> IF new = <<>> THEN way.frames
                                 ELSE Append(way.frames,
                                             SpokenFrame("text", reply, new, state.recovery))] :
                       new \in emit(way.spoken, text)} : way \in ways},
           {[spoken |-> state.spoken, frames |-> <<>>]}, texts)

---------------------------------------------------------------------------
\* LLMFullResponseStartFrame.
response_starts ==
  /\ ~streaming /\ reply < MaxReplies
  /\ reply' = reply + 1 /\ streaming' = TRUE
  /\ guard' = Listening /\ speech' = Silent
  /\ UNCHANGED <<uttered, toRecord, chunks, source, records>>

\* LLMTextFrame.
response_text(text) ==
  /\ streaming
  /\ uttered' = [uttered EXCEPT ![reply] = @ \o text]
  /\ IF guard.blocked THEN UNCHANGED <<guard, speech, toRecord>>
     ELSE LET prefix == safe_prefix(guard.pending \o text)
              ready == Ready(speech.buffer \o prefix.safe)
          IN /\ guard' = prefix.guard
             /\ \E way \in speak(speech, ready.texts) :
                  /\ speech' = [speech EXCEPT !.buffer = ready.buffer, !.spoken = way.spoken]
                  /\ toRecord' = toRecord \o way.frames
  /\ UNCHANGED <<reply, streaming, chunks, source, records>>

\* Fault: what is held back is forgotten at the end.
response_endsForgets ==
  /\ streaming /\ streaming' = FALSE
  /\ LET last == IF guard.blocked THEN Recovery ELSE <<>>
     IN \E way \in speak([speech EXCEPT !.recovery = guard.blocked], <<speech.buffer \o last>>) :
          toRecord' = toRecord \o Append(way.frames, SpokenFrame("end", reply, <<>>, FALSE))
  /\ guard' = Listening /\ speech' = Silent
  /\ UNCHANGED <<reply, uttered, chunks, source, records>>

\* LLMFullResponseEndFrame: the recovery, or what was held back, and the rest.
\* A response that is cancelled may still send it.
response_ends ==
  /\ streaming /\ streaming' = FALSE
  /\ LET last == IF guard.blocked THEN Recovery ELSE guard.pending
         state == [speech EXCEPT !.recovery = guard.blocked]
         buffered == Ready(speech.buffer \o last)
     IN \E way \in speak(state, Append(buffered.texts, buffered.buffer)) :
          toRecord' = toRecord \o Append(way.frames, SpokenFrame("end", reply, <<>>, FALSE))
  /\ guard' = Listening /\ speech' = Silent
  /\ UNCHANGED <<reply, uttered, chunks, source, records>>

\* CallTimelineProcessor takes the next frame.
record_frame ==
  /\ toRecord # <<>> /\ toRecord' = Tail(toRecord)
  /\ LET frame == Head(toRecord)
     IN IF frame.kind = "text"
        THEN /\ chunks' = Append(chunks, [of |-> frame.of, text |-> frame.text])
             /\ source' = IF frame.recovery THEN "invalid_output_recovery" ELSE source
             /\ UNCHANGED records
        ELSE /\ records' = IF chunks = <<>> THEN records
                           ELSE Append(records, [chunks |-> chunks, source |-> source])
             /\ chunks' = <<>> /\ source' = "llm"
  /\ UNCHANGED <<reply, streaming, uttered, guard, speech>>

\* InterruptionFrame: what is on the way is dropped; the record keeps its chunks.
interrupted ==
  /\ streaming' = FALSE
  /\ guard' = Listening /\ speech' = Silent /\ toRecord' = <<>>
  /\ UNCHANGED <<reply, uttered, chunks, source, records>>

---------------------------------------------------------------------------
Texts == {<<a>> : a \in Tokens} \cup {<<a, b>> : a, b \in Tokens}
SaidSoFar == FoldLeft(LAMBDA n, text : n + Len(text), 0, uttered)

ReplyFlows ==
  \/ record_frame
  \/ \E text \in Texts : SaidSoFar + Len(text) =< MaxSaid /\ response_text(text)

Text == Seq(Tokens \cup {"recovery"})

ReplyTypeOK ==
  /\ reply \in 0..MaxReplies /\ streaming \in BOOLEAN
  /\ uttered \in [Replies -> Text]
  /\ guard \in [pending : Text, blocked : BOOLEAN]
  /\ speech \in [buffer : Text, spoken : Text, recovery : BOOLEAN]
  /\ toRecord \in Seq([kind : {"text", "end"}, of : Replies, text : Text, recovery : BOOLEAN])
  /\ chunks \in Seq([of : Replies, text : Text])
  /\ source \in {"llm", "invalid_output_recovery"}

\* What a whole reply says: the part before a marker and a recovery, or all.
Spoken(r) ==
  normalize(IF HasMarker(uttered[r]) THEN BeforeMarker(uttered[r]) \o Recovery ELSE uttered[r])

\* The entry of a reply has all that was said in it, up to the limit of a spoken
\* text, and is a recovery only if markup was blocked; when the record still had
\* chunks of an interrupted reply whose end was dropped, they come first.
RecordsReplies ==
  [][records' # records =>
       LET entry == Last(records')
           r == Head(toRecord).of
           own == SelectSeq(entry.chunks, LAMBDA c : c.of = r)
           text == FlattenSeq([i \in DOMAIN own |-> own[i].text])
       IN /\ IF Len(Spoken(r)) =< MaxSpoken THEN text = Spoken(r)
             ELSE Len(text) =< MaxSpoken
                  /\ IsPrefix(SubSeq(Spoken(r), 1, (MaxSpoken + 1) \div 2), text)
          /\ own = entry.chunks =>
               (entry.source = "invalid_output_recovery" => HasMarker(uttered[r]))]_replyVars
====

---- MODULE CallerTurnsProofs ----
(***************************************************************************)
(* For any number of tool calls, drafts, issues and turns: a complaint is  *)
(* stored once unless the answer of a stored row was lost, what goes to    *)
(* the language model is the newest turn, once, with its own memory, and   *)
(* its tools come back however the request ends.  For any number of words: *)
(* each is transcribed in its order or known to be waited for by nobody.   *)
(***************************************************************************)
EXTENDS CallerTurns, FiniteSetTheorems, SequenceTheorems, TLAPS

---------------------------------------------------------------------------
\* The complaint.

\* One call submits at a time, of the draft as it was confirmed.
SubmitInv ==
  /\ \A c \in Calls : Submits(c) => call[c].op = "confirm"
  /\ \A c, d \in Calls : Submits(c) /\ Submits(d) => c = d
  /\ \A c \in Calls : Submits(c) => call[c].row \in {0, draft} \/ draft \in overtaken
  /\ \A c \in Calls : At(c, "stored") =>
       call[c].id \in 1..Len(issues) /\ issues[call[c].id] = call[c].row
  /\ status = "submitting" => \E c \in Calls : Submits(c)
  /\ status = "submitted" => \A c \in Calls : ~Submits(c)

\* What is being stored is not stored yet; a draft that is stored is submitted, or
\* its call is about to say so, or nobody knows.
FiledInv ==
  /\ \A c \in Calls : At(c, "creating") =>
       \A i \in 1..Len(issues) : issues[i] = call[c].row => call[c].row \in unsure
  /\ \A i \in 1..Len(issues) : issues[i] = draft =>
       \/ draft \in unsure \/ status = "submitted"
       \/ \E c \in Calls : At(c, "stored") /\ call[c].row = draft
  /\ \A i, j \in 1..Len(issues) : issues[i] = issues[j] => i = j \/ issues[i] \in unsure
  /\ status = "submitted" =>
       issueId \in 1..Len(issues) /\ (issues[issueId] = draft \/ draft \in overtaken)

IssueInv == IssueTypeOK /\ SubmitInv /\ FiledInv

LEMMA InitIssueInv == IssueInit => IssueInv
<1> SUFFICES ASSUME IssueInit PROVE IssueInv
  OBVIOUS
<1>1. /\ status = "idle" /\ complete = FALSE /\ draft = 0 /\ issueId = 0
      /\ call = [c \in Calls |-> NoCall] /\ Len(issues) = 0 /\ issues \in Seq(1..draft)
      /\ unsure = {} /\ overtaken = {}
  BY DEF IssueInit
<1>2. IssueTypeOK
  <2>1. call \in [Calls -> CallRows]
    BY <1>1 DEF CallRows, NoCall, Operations
  <2>2. /\ status \in NoDraft \cup Editable \cup {"submitting"} /\ complete \in BOOLEAN
        /\ unsure \cup overtaken \subseteq 1..draft
    BY <1>1 DEF NoDraft
  <2>3. /\ draft \in 0..MaxDrafts /\ issueId \in 0..Len(issues)
        /\ issues \in Seq(1..draft) /\ Len(issues) =< MaxIssues
    BY <1>1, IssueAssumption
  <2> QED
    BY <2>1, <2>2, <2>3 DEF IssueTypeOK
<1>3. SubmitInv /\ FiledInv
  BY <1>1 DEF SubmitInv, FiledInv, Submits, At, NoCall
<1> QED
  BY <1>2, <1>3 DEF IssueInv

\* A call moves on that neither begins nor ends a submission.
LEMMA OtherCallKeepsIssueInv ==
  ASSUME IssueInv, NEW c \in Calls, ~Submits(c), NEW pc \in {"finish", "none"},
         NEW row \in CallRows, row.pc = pc, call' = [call EXCEPT ![c] = row],
         UNCHANGED <<issues, unsure>>,
         \/ UNCHANGED <<status, complete, draft, issueId, overtaken>>
         \/ /\ status # "submitted" /\ status' \in Editable \cup {"cancelled"}
            /\ complete' \in BOOLEAN /\ UNCHANGED <<draft, issueId, overtaken>>
         \/ /\ status \in NoDraft /\ status' \in Editable /\ complete' \in BOOLEAN
            /\ draft < MaxDrafts /\ draft' = draft + 1 /\ issueId' = 0
            /\ overtaken' = overtaken \cup (IF \E d \in Calls : Submits(d)
                                             THEN {draft + 1} ELSE {})
  PROVE  IssueInv'
<1>1. IssueTypeOK /\ SubmitInv /\ FiledInv
  BY DEF IssueInv
<1>2. /\ draft \in Nat /\ draft' \in Nat /\ draft =< draft' /\ draft' =< MaxDrafts
      /\ draft' # draft => draft' = draft + 1
  BY <1>1, IssueAssumption DEF IssueTypeOK
<1>3. /\ Submits(c)' = FALSE /\ ~At(c, "stored")' /\ ~At(c, "creating")'
      /\ \A d \in Calls \ {c} : call'[d] = call[d]
  BY <1>1 DEF IssueTypeOK, Submits, At
<1>4. \A d \in Calls : /\ Submits(d)' <=> Submits(d)
                       /\ At(d, "stored")' <=> At(d, "stored")
                       /\ At(d, "creating")' <=> At(d, "creating")
                       /\ Submits(d) => call'[d] = call[d]
  BY <1>3 DEF Submits, At
<1>5. IssueTypeOK'
  <2>1. call' \in [Calls -> CallRows']
    BY <1>1, <1>2 DEF IssueTypeOK, CallRows
  <2>2. issues' \in Seq(1..draft') /\ Len(issues') =< MaxIssues
    BY <1>1, <1>2 DEF IssueTypeOK
  <2>3. unsure' \cup overtaken' \subseteq 1..draft'
    BY <1>1, <1>2 DEF IssueTypeOK
  <2>4. /\ status' \in NoDraft \cup Editable \cup {"submitting"} /\ complete' \in BOOLEAN
        /\ draft' \in 0..MaxDrafts /\ issueId' \in 0..Len(issues')
    BY <1>1, <1>2 DEF IssueTypeOK, NoDraft
  <2> QED
    BY <2>1, <2>2, <2>3, <2>4 DEF IssueTypeOK
<1>6. SubmitInv'
  <2>1. \A d \in Calls : Submits(d)' => call'[d].row \in {0, draft'} \/ draft' \in overtaken'
    BY <1>1, <1>2, <1>4 DEF SubmitInv
  <2>2. /\ status' = "submitting" => status = "submitting"
        /\ status' = "submitted" => status = "submitted"
    BY DEF Editable
  <2> QED
    BY <1>1, <1>4, <2>1, <2>2 DEF SubmitInv, Submits, At
<1>7. FiledInv'
  <2>1. \A i \in 1..Len(issues') : issues'[i] = draft' =>
          \/ draft' \in unsure' \/ status' = "submitted"
          \/ \E d \in Calls : At(d, "stored")' /\ call'[d].row = draft'
    <3>1. CASE draft' = draft
      <4>1. status = "submitted" => status' = "submitted"
        BY <1>2, <3>1
      <4> QED
        BY <1>1, <1>4, <3>1, <4>1 DEF FiledInv, Submits, At
    <3>2. CASE draft' = draft + 1
      BY <1>1, <1>2, <3>2 DEF IssueTypeOK
    <3> QED
      BY <1>2, <3>1, <3>2
  <2>2. status' = "submitted" => UNCHANGED <<status, draft, issueId, overtaken>>
    BY DEF Editable
  <2> QED
    BY <1>1, <1>4, <2>1, <2>2 DEF FiledInv, Submits, At
<1> QED
  BY <1>5, <1>6, <1>7 DEF IssueInv

LEMMA OperateKeepsIssueInv ==
  ASSUME IssueInv, NEW c \in Calls,
         \/ At(c, "begun") /\ (refuse(c) \/ cancel_draft(c) \/ start(c) \/ edit(c))
         \/ finish_call(c)
  PROVE  IssueInv'
<1>1. call[c] \in CallRows /\ complete \in BOOLEAN
  BY DEF IssueInv, IssueTypeOK, NoDraft, Editable
<1>2. ~Submits(c)
  BY DEF Submits, At, finish_call
<1>3. CASE finish_call(c)
  <2>1. NoCall \in CallRows /\ NoCall.pc = "none"
    BY DEF NoCall, CallRows, Operations, IssueInv, IssueTypeOK
  <2> QED
    BY <1>2, <1>3, <2>1, OtherCallKeepsIssueInv DEF finish_call
<1>4. CASE refuse(c) \/ cancel_draft(c) \/ start(c) \/ edit(c)
  <2> DEFINE row == [call[c] EXCEPT !.pc = "finish"]
  <2>1. row \in CallRows /\ row.pc = "finish"
    BY <1>1 DEF CallRows
  <2>2. call' = [call EXCEPT ![c] = row] /\ UNCHANGED <<issues, unsure>>
    BY <1>4 DEF refuse, cancel_draft, start, edit, Goto
  <2> HIDE DEF row
  <2>3. CASE refuse(c)
    BY <1>2, <2>1, <2>2, <2>3, OtherCallKeepsIssueInv DEF refuse
  <2>4. CASE cancel_draft(c)
    BY <1>1, <1>2, <2>1, <2>2, <2>4, OtherCallKeepsIssueInv DEF cancel_draft, NoDraft
  <2>5. CASE start(c) \/ edit(c)
    <3>1. complete' \in BOOLEAN /\ status' \in Editable
      BY <1>1, <2>5 DEF start, edit, merged, Editable
    <3>2. \/ status # "submitted" /\ UNCHANGED <<draft, issueId, overtaken>>
          \/ /\ status \in NoDraft
             /\ draft < MaxDrafts /\ draft' = draft + 1 /\ issueId' = 0
             /\ overtaken' = overtaken \cup (IF \E d \in Calls : Submits(d)
                                              THEN {draft + 1} ELSE {})
      BY <2>5 DEF start, edit, NoDraft, Editable
    <3> QED
      BY <1>2, <2>1, <2>2, <3>1, <3>2, OtherCallKeepsIssueInv
  <2> QED
    BY <1>4, <2>3, <2>4, <2>5
<1> QED
  BY <1>3, <1>4

\* A confirmation that holds the lock stores a draft that is not stored.
LEMMA ConfirmKeepsIssueInv ==
  ASSUME IssueInv, NEW c \in Calls, At(c, "begun"), confirm(c)
  PROVE  IssueInv'
<1>1. IssueTypeOK /\ SubmitInv /\ FiledInv /\ call[c] \in CallRows
  BY DEF IssueInv, IssueTypeOK
<1>2. /\ call[c].op = "confirm" /\ ~Locked /\ status = "awaiting_confirmation"
      /\ status' = "submitting"
      /\ UNCHANGED <<complete, draft, issueId, issues, unsure, overtaken>>
  BY DEF confirm
<1>3. PICK row \in CallRows :
        /\ call' = [call EXCEPT ![c] = row] /\ row.pc = "creating" /\ row.op = "confirm"
        /\ row.row \in {0, draft}
  <2>1. RowOf \in {0, draft} /\ RowOf \in 0..draft
    BY <1>1 DEF RowOf, IssueTypeOK
  <2>2. [call[c] EXCEPT !.pc = "creating", !.row = RowOf] \in CallRows
    BY <1>1, <2>1 DEF CallRows
  <2>3. call' = [call EXCEPT ![c] = [call[c] EXCEPT !.pc = "creating", !.row = RowOf]]
    BY DEF confirm
  <2> QED
    BY <1>1, <1>2, <2>1, <2>2, <2>3 DEF CallRows
<1>4. /\ call'[c] = row /\ \A d \in Calls \ {c} : call'[d] = call[d]
      /\ \A d \in Calls : ~Submits(d)
  BY <1>1, <1>2, <1>3 DEF IssueTypeOK, SubmitInv, Locked
<1>5. IssueTypeOK'
  BY <1>1, <1>2, <1>3, <1>4 DEF IssueTypeOK, CallRows
<1>6. SubmitInv'
  BY <1>2, <1>3, <1>4 DEF SubmitInv, Submits, At
<1>7. FiledInv'
  <2>1. \A d \in Calls : ~At(d, "stored")' /\ (At(d, "creating")' => d = c)
    BY <1>3, <1>4 DEF Submits, At
  <2>2. \A d \in Calls : ~At(d, "stored")
    BY <1>4 DEF Submits, At
  <2>3. \A i \in 1..Len(issues) : issues[i] \in 1..draft /\ draft \in Nat
    BY <1>1 DEF IssueTypeOK
  <2>4. \A i \in 1..Len(issues) : issues[i] = row.row => row.row \in unsure
    BY <1>1, <1>2, <1>3, <2>2, <2>3 DEF FiledInv
  <2> QED
    BY <1>1, <1>2, <1>4, <2>1, <2>2, <2>4 DEF FiledInv
<1> QED
  BY <1>5, <1>6, <1>7 DEF IssueInv

LEMMA CommitKeepsIssueInv ==
  ASSUME IssueInv, NEW c \in Calls, commit(c)
  PROVE  IssueInv'
<1> DEFINE n == Len(issues)
           r == call[c].row
           row == [call[c] EXCEPT !.pc = "stored", !.id = n + 1]
<1>1. IssueTypeOK /\ SubmitInv /\ FiledInv /\ call[c] \in CallRows
  BY DEF IssueInv, IssueTypeOK
<1>2. /\ At(c, "creating") /\ r # 0 /\ n < MaxIssues /\ issues' = Append(issues, r)
      /\ call' = [call EXCEPT ![c] = row]
      /\ UNCHANGED <<status, complete, draft, issueId, unsure, overtaken>>
  BY DEF commit
<1>3. /\ draft \in Nat /\ r \in 1..draft /\ n \in Nat /\ issues' \in Seq(1..draft)
      /\ Len(issues') = n + 1 /\ issues'[n + 1] = r
      /\ \A i \in 1..n : issues'[i] = issues[i]
  BY <1>1, <1>2 DEF IssueTypeOK, CallRows
<1>4. /\ row \in CallRows' /\ row.pc = "stored" /\ row.op = call[c].op /\ row.row = r
      /\ row.id = n + 1
  <2>1. CallRows' = [pc : {"none", "begun", "creating", "stored", "finish"}, op : Operations,
                     row : 0..draft, id : 0..(n + 1)]
    BY <1>2, <1>3 DEF CallRows
  <2>2. r \in 0..draft /\ n + 1 \in 0..(n + 1)
    BY <1>3
  <2> HIDE DEF n
  <2> QED
    BY <1>1, <2>1, <2>2 DEF CallRows
<1> HIDE DEF n, r, row
<1>5. /\ call'[c] = row /\ \A d \in Calls \ {c} : call'[d] = call[d] /\ call[d] \in CallRows
      /\ \A d \in Calls \ {c} : ~Submits(d)
  BY <1>1, <1>2 DEF IssueTypeOK, SubmitInv, Submits, At
<1>6. IssueTypeOK'
  <2>1. \A d \in Calls : call'[d] \in CallRows'
    BY <1>2, <1>3, <1>4, <1>5 DEF CallRows, n
  <2>2. call' \in [Calls -> CallRows']
    BY <1>1, <1>2, <2>1 DEF IssueTypeOK
  <2>3. issueId' \in 0..Len(issues')
    BY <1>1, <1>2, <1>3 DEF IssueTypeOK, n
  <2>4. Len(issues') =< MaxIssues
    BY <1>2, <1>3, IssueAssumption
  <2> QED
    BY <1>1, <1>2, <1>3, <2>2, <2>3, <2>4 DEF IssueTypeOK
<1>7. \A d \in Calls : /\ Submits(d)' <=> d = c
                       /\ At(d, "stored")' <=> d = c
                       /\ ~At(d, "creating")'
  BY <1>4, <1>5 DEF Submits, At
<1>8. SubmitInv'
  <2>1. Submits(c)
    BY <1>2 DEF Submits, At
  <2> QED
    BY <1>1, <1>2, <1>3, <1>4, <1>5, <1>7, <2>1 DEF SubmitInv, r
<1>9. FiledInv'
  <2>1. \A i \in 1..n : issues[i] = r => r \in unsure
    BY <1>1, <1>2 DEF FiledInv, n, r
  <2>2. \A i \in 1..Len(issues') : issues'[i] = draft' =>
          \/ draft' \in unsure' \/ status' = "submitted"
          \/ \E d \in Calls : At(d, "stored")' /\ call'[d].row = draft'
    <3> SUFFICES ASSUME NEW i \in 1..(n + 1), issues'[i] = draft, draft \notin unsure,
                        status # "submitted"
                 PROVE  At(c, "stored")' /\ call'[c].row = draft
      BY <1>2, <1>3
    <3>1. i \in 1..n => issues[i] = draft
      BY <1>3
    <3>2. i \notin 1..n
      <4>1. \A d \in Calls : ~At(d, "stored")
        BY <1>2, <1>5 DEF Submits, At
      <4> QED
        BY <1>1, <3>1, <4>1 DEF FiledInv, n
    <3>3. i = n + 1
      BY <1>3, <3>2
    <3> QED
      BY <1>3, <1>4, <1>5, <1>7, <3>3
  <2>3. \A i, j \in 1..(n + 1) : issues'[i] = issues'[j] => i = j \/ issues'[i] \in unsure
    <3> SUFFICES ASSUME NEW i \in 1..(n + 1), NEW j \in 1..(n + 1), issues'[i] = issues'[j],
                        i # j
                 PROVE  issues'[i] \in unsure
      OBVIOUS
    <3>1. CASE i \in 1..n /\ j \in 1..n
      BY <1>1, <1>3, <3>1 DEF FiledInv, n
    <3>2. CASE i \in 1..n /\ j = n + 1
      BY <1>3, <2>1, <3>2
    <3>3. CASE i = n + 1 /\ j \in 1..n
      BY <1>3, <2>1, <3>3
    <3> QED
      BY <1>3, <3>1, <3>2, <3>3
  <2>4. status' = "submitted" =>
          issueId' \in 1..Len(issues') /\ (issues'[issueId'] = draft' \/ draft' \in overtaken')
    BY <1>1, <1>2, <1>3 DEF FiledInv, n
  <2> QED
    BY <1>2, <1>3, <1>7, <2>2, <2>3, <2>4 DEF FiledInv
<1> QED
  BY <1>6, <1>8, <1>9 DEF IssueInv

\* A submission ends with its id, or gives the draft back to the caller.
LEMMA EndKeepsIssueInv ==
  ASSUME IssueInv, NEW c \in Calls, created(c) \/ not_created(c)
  PROVE  IssueInv'
<1> DEFINE row == [call[c] EXCEPT !.pc = "finish"]
<1>1. /\ IssueTypeOK /\ SubmitInv /\ FiledInv /\ call[c] \in CallRows
      /\ Submits(c)
  BY DEF IssueInv, IssueTypeOK, created, Submits, At, not_created
<1>2. /\ row \in CallRows /\ row.pc = "finish" /\ row.row = call[c].row
      /\ call[c].row \in 0..draft /\ draft \in Nat
  <2>1. draft \in Nat
    BY <1>1 DEF IssueTypeOK
  <2> QED
    BY <1>1, <2>1 DEF CallRows
<1>3. call' = [call EXCEPT ![c] = row] /\ UNCHANGED <<complete, draft, issues, overtaken>>
  BY DEF created, not_created, Goto
<1> HIDE DEF row
<1>4. \A d \in Calls : ~Submits(d)' /\ ~At(d, "stored")' /\ ~At(d, "creating")'
  BY <1>1, <1>2, <1>3 DEF IssueTypeOK, SubmitInv, Submits, At
<1>5. call' \in [Calls -> CallRows']
  BY <1>1, <1>2, <1>3 DEF IssueTypeOK, CallRows
<1>6. CASE created(c)
  <2>1. /\ At(c, "stored") /\ issueId' = call[c].id /\ status' = "submitted" /\ unsure' = unsure
    BY <1>6 DEF created
  <2>2. /\ issueId' \in 1..Len(issues) /\ issues[issueId'] = call[c].row
        /\ call[c].row = draft \/ draft \in overtaken
    <3>1. issueId' \in 1..Len(issues) /\ issues[issueId'] = call[c].row
      BY <1>1, <2>1 DEF SubmitInv
    <3>2. issues[issueId'] \in 1..draft
      BY <1>1, <3>1 DEF IssueTypeOK
    <3>3. call[c].row # 0
      BY <1>2, <3>1, <3>2
    <3> QED
      BY <1>1, <3>1, <3>3 DEF SubmitInv
  <2>3. IssueTypeOK'
    BY <1>1, <1>3, <1>5, <2>1, <2>2 DEF IssueTypeOK, NoDraft
  <2>4. SubmitInv'
    BY <1>3, <1>4, <2>1 DEF SubmitInv
  <2>5. FiledInv'
    BY <1>1, <1>3, <1>4, <2>1, <2>2 DEF FiledInv
  <2> QED
    BY <2>3, <2>4, <2>5 DEF IssueInv
<1>7. CASE not_created(c)
  <2>1. /\ status' = "awaiting_confirmation" /\ issueId' = issueId
        /\ unsure' = IF At(c, "stored") THEN unsure \cup {call[c].row} ELSE unsure
    BY <1>7 DEF not_created
  <2>2. At(c, "stored") => call[c].row \in 1..draft
    BY <1>1 DEF SubmitInv, IssueTypeOK
  <2>3. IssueTypeOK'
    BY <1>1, <1>3, <1>5, <2>1, <2>2 DEF IssueTypeOK, Editable
  <2>4. SubmitInv'
    BY <1>3, <1>4, <2>1 DEF SubmitInv
  <2>5. \A i \in 1..Len(issues) : issues[i] = draft => draft \in unsure'
    BY <1>1, <2>1 DEF FiledInv, SubmitInv, Submits, At
  <2>6. FiledInv'
    BY <1>1, <1>3, <1>4, <2>1, <2>5 DEF FiledInv
  <2> QED
    BY <2>3, <2>4, <2>6 DEF IssueInv
<1> QED
  BY <1>6, <1>7

LEMMA CancelKeepsIssueInv ==
  ASSUME IssueInv, cancel_calls
  PROVE  IssueInv'
<1> DEFINE submitting == {c \in Calls : Submits(c)}
           lost == {call[c].row : c \in {d \in submitting : At(d, "stored")}}
<1>1. IssueTypeOK /\ SubmitInv /\ FiledInv /\ draft \in Nat
  BY DEF IssueInv, IssueTypeOK
<1>2. /\ status' = IF submitting = {} THEN status ELSE "awaiting_confirmation"
      /\ unsure' = unsure \cup lost
      /\ call' = [c \in Calls |-> IF c \in submitting THEN [call[c] EXCEPT !.pc = "finish"]
                                  ELSE NoCall]
      /\ UNCHANGED <<complete, draft, issueId, issues, overtaken>>
  BY DEF cancel_calls
<1>3. call' \in [Calls -> CallRows']
  <2>1. NoCall \in CallRows
    BY <1>1 DEF NoCall, CallRows, Operations
  <2>2. \A c \in Calls : [call[c] EXCEPT !.pc = "finish"] \in CallRows
    BY <1>1 DEF IssueTypeOK, CallRows
  <2>3. CallRows' = CallRows
    BY <1>2 DEF CallRows
  <2> QED
    BY <1>2, <2>1, <2>2, <2>3
<1>4. \A d \in Calls : ~Submits(d)' /\ ~At(d, "stored")' /\ ~At(d, "creating")'
  <2> SUFFICES ASSUME NEW d \in Calls PROVE call'[d].pc \in {"finish", "none"}
    BY DEF Submits, At
  <2>1. call[d] \in CallRows
    BY <1>1 DEF IssueTypeOK
  <2> QED
    BY <1>2, <2>1 DEF NoCall, CallRows
<1>5. lost \subseteq 1..draft
  BY <1>1 DEF SubmitInv, IssueTypeOK
<1>6. /\ \A i \in 1..Len(issues) : issues[i] = draft => draft \in unsure' \/ status' = "submitted"
      /\ status' = "submitted" => status = "submitted"
      /\ status' # "submitting"
  <2>1. \A d \in Calls : At(d, "stored") => d \in submitting /\ call[d].row \in lost
    BY DEF Submits, At
  <2>2. status = "submitting" => submitting # {}
    BY <1>1 DEF SubmitInv
  <2>3. status = "submitted" => submitting = {}
    BY <1>1 DEF SubmitInv
  <2> HIDE DEF submitting, lost
  <2> QED
    BY <1>1, <1>2, <2>1, <2>2, <2>3 DEF FiledInv
<1> HIDE DEF submitting, lost
<1>7. IssueTypeOK'
  BY <1>1, <1>2, <1>3, <1>5 DEF IssueTypeOK, Editable
<1>8. SubmitInv'
  BY <1>4, <1>6 DEF SubmitInv
<1>9. FiledInv'
  BY <1>1, <1>2, <1>4, <1>6 DEF FiledInv
<1> QED
  BY <1>7, <1>8, <1>9 DEF IssueInv

LEMMA BeginKeepsIssueInv ==
  ASSUME IssueInv, NEW begun \in SUBSET Calls, NEW op \in [begun -> Operations], begin_calls(op)
  PROVE  IssueInv'
<1>1. IssueTypeOK /\ SubmitInv /\ FiledInv /\ draft \in Nat /\ DOMAIN op = begun
  BY DEF IssueInv, IssueTypeOK
<1>2. /\ \A c \in begun : At(c, "none")
      /\ call' = [c \in Calls |-> IF c \in begun THEN [NoCall EXCEPT !.pc = "begun", !.op = op[c]]
                                  ELSE call[c]]
      /\ UNCHANGED <<status, complete, draft, issueId, issues, unsure, overtaken>>
  BY <1>1 DEF begin_calls
<1>3. \A c \in begun : /\ [NoCall EXCEPT !.pc = "begun", !.op = op[c]] \in CallRows
                       /\ call'[c].pc = "begun"
  <2> SUFFICES ASSUME NEW c \in begun
               PROVE  /\ [NoCall EXCEPT !.pc = "begun", !.op = op[c]] \in CallRows
                      /\ call'[c].pc = "begun"
    OBVIOUS
  <2>1. c \in Calls /\ op[c] \in Operations /\ 0 \in 0..draft /\ 0 \in 0..Len(issues)
    BY <1>1 DEF IssueTypeOK
  <2> QED
    BY <1>2, <2>1 DEF NoCall, CallRows
<1>4. call' \in [Calls -> CallRows']
  BY <1>1, <1>2, <1>3 DEF IssueTypeOK, CallRows
<1>5. \A d \in Calls : /\ Submits(d)' <=> Submits(d)
                       /\ At(d, "stored")' <=> At(d, "stored")
                       /\ At(d, "creating")' <=> At(d, "creating")
                       /\ Submits(d) => call'[d] = call[d]
  BY <1>2, <1>3 DEF Submits, At
<1>6. IssueTypeOK'
  BY <1>1, <1>2, <1>4 DEF IssueTypeOK
<1>7. SubmitInv'
  BY <1>1, <1>2, <1>5 DEF SubmitInv, Submits, At
<1>8. FiledInv'
  <2>1. /\ \A d \in Calls : At(d, "stored") => At(d, "stored")' /\ call'[d].row = call[d].row
        /\ \A d \in Calls : At(d, "creating")' => At(d, "creating") /\ call'[d].row = call[d].row
    BY <1>5 DEF Submits, At
  <2>2. UNCHANGED <<status, draft, issueId, issues, unsure, overtaken>>
    BY <1>2
  <2> QED
    BY <1>1, <2>1, <2>2 DEF FiledInv
<1> QED
  BY <1>6, <1>7, <1>8 DEF IssueInv

LEMMA NextKeepsIssueInv ==
  IssueInv /\ scope \in Scopes /\ [Next]_vars => IssueInv' /\ scope' \in Scopes
<1> SUFFICES ASSUME IssueInv, scope \in Scopes, [Next]_vars
             PROVE  IssueInv' /\ scope' \in Scopes
  OBVIOUS
<1>1. scope' = scope
  BY DEF Next, Turn, Request, Response, Interruption, SpeechStep, EmbeddingStep, IssueStep,
         StreamStep, MemoryStep, turnVars, vars
<1>2. CASE UNCHANGED issueVars
  <2>1. UNCHANGED <<status, complete, draft, issueId, call, issues, unsure, overtaken>>
    BY <1>2 DEF issueVars
  <2> QED
    BY <1>1, <2>1 DEF IssueInv, IssueTypeOK, SubmitInv, FiledInv, Submits, At, CallRows
<1>3. CASE IssueStep
  BY <1>1, <1>3, OperateKeepsIssueInv, ConfirmKeepsIssueInv, CommitKeepsIssueInv, EndKeepsIssueInv
     DEF IssueStep, CallStep, operate
<1>4. CASE Interruption
  BY <1>1, <1>4, CancelKeepsIssueInv DEF Interruption
<1>5. CASE \E begun \in SUBSET Calls : \E op \in [begun -> scope.operations] : begin_calls(op)
  <2>1. scope.operations \subseteq Operations
    BY CallerAssumption DEF ScopeType
  <2>2. PICK begun \in SUBSET Calls : \E op \in [begun -> scope.operations] : begin_calls(op)
    BY <1>5
  <2>3. PICK op \in [begun -> scope.operations] : begin_calls(op)
    BY <2>2
  <2>4. op \in [begun -> Operations]
    BY <2>1
  <2> QED
    BY <1>1, <2>3, <2>4, BeginKeepsIssueInv
<1>6. \/ UNCHANGED issueVars \/ IssueStep \/ Interruption
      \/ \E begun \in SUBSET Calls : \E op \in [begun -> scope.operations] : begin_calls(op)
  BY DEF Next, Turn, Request, Response, SpeechStep, EmbeddingStep, StreamStep, MemoryStep, vars
<1> QED
  BY <1>2, <1>3, <1>4, <1>5, <1>6

\* One submission runs at a time, and what was inserted, is being inserted or is
\* called submitted fit each other in every reachable state.
THEOREM IssueAlwaysSound == Spec => [](IssueInv /\ scope \in Scopes)
<1>1. Init => IssueInv /\ scope \in Scopes
  BY InitIssueInv DEF Init
<1>2. (IssueInv /\ scope \in Scopes) /\ [Next]_vars => (IssueInv /\ scope \in Scopes)'
  BY NextKeepsIssueInv
<1> QED
  BY <1>1, <1>2, PTL DEF Spec

\* A draft is stored once, unless the answer of a stored row was lost, and what is
\* called submitted was stored.
THEOREM DraftFiledOnce == Spec => []FiledOnce
<1>1. ASSUME IssueInv PROVE FiledOnce
  <2>1. IssueTypeOK /\ SubmitInv /\ FiledInv /\ DOMAIN issues = 1..Len(issues)
    BY <1>1 DEF IssueInv, IssueTypeOK
  <2>2. ASSUME NEW d \in 1..draft, d \notin unsure
        PROVE  Cardinality({i \in DOMAIN issues : issues[i] = d}) =< 1
    <3> DEFINE rows == {i \in DOMAIN issues : issues[i] = d}
    <3>1. \A i, j \in rows : i = j
      BY <2>1, <2>2 DEF FiledInv
    <3>2. CASE rows = {}
      BY <3>2, FS_EmptySet
    <3>3. CASE rows # {}
      <4>1. PICK i \in rows : TRUE
        BY <3>3
      <4>2. rows = {i}
        BY <3>1, <4>1
      <4> HIDE DEF rows
      <4>3. Cardinality({i}) = 1
        BY FS_Singleton
      <4> QED
        BY <4>2, <4>3 DEF rows
    <3> QED
      BY <3>2, <3>3
  <2> QED
    BY <2>1, <2>2 DEF FiledOnce, SubmitInv, FiledInv
<1>2. IssueInv => FiledOnce
  BY <1>1
<1> QED
  BY <1>2, IssueAlwaysSound, PTL

---------------------------------------------------------------------------
\* The memory of earlier calls.

\* The retrieval that holds the generation is the newest turn's, and its frame
\* has not gone on while it runs; the context holds that turn's memory or none.
GenerationInv ==
  /\ RetrievalTypeOK
  /\ generation \in {0, turn} /\ memory \in {0, turn}
  /\ \A t \in Turns : retrieval[t] = "running" => t = generation
  /\ \A t \in Turns : retrieval[t] = "cancelled" => t # generation
  /\ \A t \in Turns : retrieval[t] = "running" => \A i \in 1..Len(pushed) : pushed[i] # t

LEMMA InitGenerationInv == RetrievalInit => GenerationInv
<1> SUFFICES ASSUME RetrievalInit PROVE GenerationInv
  OBVIOUS
<1>1. /\ turn = 0 /\ generation = 0 /\ memory = 0 /\ Len(pushed) = 0 /\ pushed \in Seq(1..turn)
      /\ retrieval = [t \in Turns |-> "none"]
  BY DEF RetrievalInit
<1> QED
  BY <1>1, RetrievalAssumption DEF GenerationInv, RetrievalTypeOK

LEMMA SupersededIsCancelled ==
  ASSUME GenerationInv
  PROVE  Superseded \in [Turns -> {"none", "cancelled"}]
<1> QED
  BY DEF GenerationInv, RetrievalTypeOK, Superseded

\* A turn's context: what is pushed at once is the new turn.
LEMMA ContextKeepsGeneration ==
  ASSUME GenerationInv, NEW recalls \in BOOLEAN, process_frame(recalls)
  PROVE  /\ GenerationInv'
         /\ \/ pushed' = pushed
            \/ /\ pushed' = Append(pushed, turn') /\ memory' = 0
               /\ \A i \in 1..Len(pushed) : pushed[i] # turn'
<1>1. /\ turn \in Nat /\ turn' = turn + 1 /\ turn' \in Turns /\ turn' \in 0..MaxTurns
      /\ memory' = 0
  BY RetrievalAssumption DEF GenerationInv, RetrievalTypeOK, process_frame, Turns
<1>2. /\ pushed \in Seq(1..turn) /\ pushed \in Seq(1..turn')
      /\ \A i \in 1..Len(pushed) : pushed[i] # turn'
  BY <1>1 DEF GenerationInv, RetrievalTypeOK
<1>3. CASE recalls
  <2>1. /\ retrieval' = [Superseded EXCEPT ![turn'] = "running"]
        /\ generation' = turn' /\ pushed' = pushed
    BY <1>1, <1>3 DEF process_frame
  <2>2. /\ retrieval' \in [Turns -> {"none", "running", "cancelled"}]
        /\ \A t \in Turns : retrieval'[t] = "running" <=> t = turn'
    BY <1>1, <2>1, SupersededIsCancelled
  <2> QED
    BY <1>1, <1>2, <2>1, <2>2 DEF GenerationInv, RetrievalTypeOK
<1>4. CASE ~recalls
  <2>1. retrieval' = Superseded /\ generation' = 0 /\ pushed' = Append(pushed, turn')
    BY <1>1, <1>4 DEF process_frame
  <2>2. /\ retrieval' \in [Turns -> {"none", "running", "cancelled"}]
        /\ \A t \in Turns : retrieval'[t] # "running"
    BY <2>1, SupersededIsCancelled
  <2>3. pushed' \in Seq(1..turn') /\ \A t \in Turns : t # 0
    BY <1>1, <1>2, <2>1 DEF Turns
  <2> QED
    BY <1>1, <1>2, <2>1, <2>2, <2>3 DEF GenerationInv, RetrievalTypeOK
<1> QED
  BY <1>3, <1>4

LEMMA RetrievalKeepsGeneration ==
  ASSUME GenerationInv, RetrievalStep
  PROVE  /\ GenerationInv' /\ turn' = turn
         /\ \/ pushed' = pushed
            \/ /\ pushed' = Append(pushed, turn) /\ memory' \in {0, turn}
               /\ \A i \in 1..Len(pushed) : pushed[i] # turn
<1>1. PICK t \in Turns : retrieved(t) \/ retrieval_cancelled(t)
  BY DEF RetrievalStep
<1>2. /\ RetrievalTypeOK /\ turn \in Nat /\ t # 0
      /\ UNCHANGED <<turn, generation>> /\ retrieval' = [retrieval EXCEPT ![t] = "none"]
  BY <1>1, RetrievalAssumption
     DEF GenerationInv, RetrievalTypeOK, retrieved, retrieval_cancelled, End, Turns
<1>3. /\ retrieval' \in [Turns -> {"none", "running", "cancelled"}]
      /\ \A u \in Turns : retrieval'[u] # "none" => retrieval'[u] = retrieval[u] /\ u # t
  BY <1>2 DEF RetrievalTypeOK
<1>4. CASE retrieved(t)
  <2>1. t = generation /\ t = turn /\ \A i \in 1..Len(pushed) : pushed[i] # turn
    BY <1>2, <1>4 DEF GenerationInv, retrieved
  <2>2. memory' \in {0, turn} /\ pushed' = Append(pushed, turn)
    BY <1>4, <2>1 DEF retrieved, is_current_generation, GenerationInv
  <2>3. pushed' \in Seq(1..turn)
    BY <1>2, <2>1, <2>2 DEF RetrievalTypeOK, Turns
  <2>4. \A u \in Turns : retrieval'[u] # "running"
    BY <1>3, <2>1 DEF GenerationInv
  <2> QED
    BY <1>2, <1>3, <2>1, <2>2, <2>3, <2>4 DEF GenerationInv, RetrievalTypeOK
<1>5. CASE retrieval_cancelled(t)
  <2>1. UNCHANGED <<memory, pushed>>
    BY <1>5 DEF retrieval_cancelled, is_current_generation, GenerationInv
  <2> QED
    BY <1>2, <1>3, <2>1 DEF GenerationInv, RetrievalTypeOK
<1> QED
  BY <1>1, <1>4, <1>5

\* Frames go on to the model; the caller speaks.
LEMMA OthersKeepGeneration ==
  ASSUME GenerationInv, turn' = turn,
         \/ UNCHANGED <<generation, retrieval, memory>>
         \/ generation' = 0 /\ retrieval' = Superseded /\ memory' = 0,
         \/ pushed' = pushed
         \/ Len(pushed) > 0 /\ pushed' = Tail(pushed)
         \/ Len(pushed') = 0 /\ pushed' \in Seq(1..turn)
  PROVE  /\ GenerationInv'
         /\ \A t : pushed' # Append(pushed, t)
<1>1. RetrievalTypeOK /\ turn \in Nat /\ \A t \in Turns : t # 0
  BY RetrievalAssumption DEF GenerationInv, RetrievalTypeOK, Turns
<1>2. /\ pushed' \in Seq(1..turn') /\ Len(pushed') =< Len(pushed)
      /\ \A x : (\A i \in 1..Len(pushed) : pushed[i] # x)
                => \A i \in 1..Len(pushed') : pushed'[i] # x
  <2>1. pushed \in Seq(1..turn)
    BY <1>1 DEF RetrievalTypeOK
  <2>2. CASE pushed' = pushed
    BY <2>1, <2>2
  <2>3. CASE Len(pushed) > 0 /\ pushed' = Tail(pushed)
    BY <2>1, <2>3
  <2>4. CASE Len(pushed') = 0 /\ pushed' \in Seq(1..turn)
    BY <2>1, <2>4
  <2> QED
    BY <2>2, <2>3, <2>4
<1>3. /\ retrieval' \in [Turns -> {"none", "running", "cancelled"}]
      /\ generation' \in {0, turn} /\ memory' \in {0, turn}
      /\ \A t \in Turns : retrieval'[t] = "running" => retrieval[t] = "running" /\ t = generation'
      /\ \A t \in Turns : retrieval'[t] = "cancelled" => t # generation'
  <2>1. CASE UNCHANGED <<generation, retrieval, memory>>
    BY <1>1, <2>1 DEF GenerationInv, RetrievalTypeOK
  <2>2. CASE generation' = 0 /\ retrieval' = Superseded /\ memory' = 0
    BY <1>1, <2>2, SupersededIsCancelled
  <2> QED
    BY <2>1, <2>2
<1>4. GenerationInv'
  <2>1. \A t \in Turns : retrieval'[t] = "running" => \A i \in 1..Len(pushed') : pushed'[i] # t
    BY <1>2, <1>3 DEF GenerationInv
  <2>2. /\ turn' \in 0..MaxTurns /\ memory' \in 0..turn' /\ generation' \in 0..turn'
        /\ memory' \in {0, turn'} /\ generation' \in {0, turn'}
    BY <1>1, <1>3 DEF RetrievalTypeOK
  <2> QED
    BY <1>2, <1>3, <2>1, <2>2 DEF GenerationInv, RetrievalTypeOK
<1>5. \A t : Len(Append(pushed, t)) = Len(pushed) + 1
  BY <1>1 DEF RetrievalTypeOK
<1>6. Len(pushed) \in Nat
  BY <1>1 DEF RetrievalTypeOK
<1> QED
  BY <1>2, <1>4, <1>5, <1>6

\* What the step of a turn pushes is the newest turn, for the first time.
Pushes ==
  \/ \A t : pushed' # Append(pushed, t)
  \/ /\ pushed' = Append(pushed, turn') /\ memory' \in {0, turn'}
     /\ \A i \in 1..Len(pushed) : pushed[i] # turn'

LEMMA NextKeepsGeneration ==
  ASSUME GenerationInv, scope \in Scopes, [Next]_vars
  PROVE  GenerationInv' /\ Pushes
<1>1. \A t : pushed # Append(pushed, t)
  <2>1. \A t : Len(Append(pushed, t)) = Len(pushed) + 1 /\ Len(pushed) \in Nat
    BY DEF GenerationInv, RetrievalTypeOK
  <2> QED
    BY <2>1
<1>2. CASE Turn
  <2>1. PICK recalls \in BOOLEAN : process_frame(recalls)
    BY <1>2, CallerAssumption DEF Turn, ScopeType
  <2> QED
    BY <1>1, <2>1, ContextKeepsGeneration DEF Pushes
<1>3. CASE MemoryStep
  BY <1>1, <1>3, RetrievalKeepsGeneration DEF MemoryStep, Pushes
<1>4. CASE UNCHANGED retrievalVars
  BY <1>4, OthersKeepGeneration DEF retrievalVars, Pushes
<1>5. CASE Request
  <2>1. turn' = turn /\ UNCHANGED <<generation, retrieval, memory>>
    BY <1>5 DEF Request
  <2>2. Len(pushed) > 0 /\ pushed' = Tail(pushed)
    BY <1>5 DEF Request, GenerationInv, RetrievalTypeOK
  <2> QED
    BY <2>1, <2>2, OthersKeepGeneration DEF Pushes
<1>6. CASE Interruption
  <2>1. /\ turn' = turn
        /\ \/ UNCHANGED <<generation, retrieval, memory>>
           \/ generation' = 0 /\ retrieval' = Superseded /\ memory' = 0
    BY <1>6 DEF Interruption, start_user_turn
  <2>2. Len(pushed') = 0 /\ pushed' \in Seq(1..turn)
    BY <1>6 DEF Interruption
  <2> QED
    BY <2>1, <2>2, OthersKeepGeneration DEF Pushes
<1> QED
  BY <1>2, <1>3, <1>4, <1>5, <1>6
     DEF Next, Response, SpeechStep, EmbeddingStep, IssueStep, StreamStep, vars

\* A running retrieval is the newest turn's and the context has that turn's memory or
\* none, in every reachable state.
THEOREM GenerationAlwaysSound == Spec => []GenerationInv
<1>1. Init => GenerationInv
  BY InitGenerationInv DEF Init
<1>2. (GenerationInv /\ scope \in Scopes) /\ [Next]_vars => GenerationInv'
  BY NextKeepsGeneration
<1> QED
  BY <1>1, <1>2, IssueAlwaysSound, PTL DEF Spec

\* What goes on to the model is the newest turn, once, with its own memory or none.
THEOREM MemoryIsOwn == Spec => OwnContext
<1>1. ASSUME GenerationInv, scope \in Scopes, [Next]_vars, NEW t \in Turns,
             pushed' = Append(pushed, t)
      PROVE  /\ t = turn' /\ memory' \in {0, t}
             /\ \A i \in DOMAIN pushed : pushed[i] # t
  <2>1. pushed \in Seq(1..turn) /\ pushed \in Seq(Nat)
    BY <1>1 DEF GenerationInv, RetrievalTypeOK
  <2>2. /\ pushed' = Append(pushed, turn') /\ memory' \in {0, turn'}
        /\ \A i \in 1..Len(pushed) : pushed[i] # turn'
    BY <1>1, NextKeepsGeneration DEF Pushes
  <2>3. Append(pushed, t)[Len(pushed) + 1] = t
    BY <2>1
  <2>4. Append(pushed, turn')[Len(pushed) + 1] = turn'
    BY <2>1
  <2>5. t = turn' /\ DOMAIN pushed = 1..Len(pushed)
    BY <1>1, <2>1, <2>2, <2>3, <2>4
  <2> QED
    BY <2>2, <2>5
<1>2. GenerationInv /\ scope \in Scopes /\ [Next]_vars =>
        [\A t \in Turns :
           pushed' = Append(pushed, t) =>
             /\ t = turn' /\ memory' \in {0, t}
             /\ \A i \in DOMAIN pushed : pushed[i] # t]_retrievalVars
  BY <1>1
<1> QED
  BY <1>2, GenerationAlwaysSound, IssueAlwaysSound, PTL DEF Spec, OwnContext
---------------------------------------------------------------------------
\* The race of the attempts.

\* The states in which an attempt still races, and the attempts that hold a stream.
Racing == {"asking", "ready", "failed"}
Live == {i \in DOMAIN race : race[i].state \in {"asking", "ready"}}

\* Attempts are of requests made so far.  At most two of the current request race, one
\* during the hedge delay, none once its race is over; and who still holds a stream races
\* or is a stray.
HedgedInv ==
  /\ HedgedTypeOK
  /\ hedged.pc # "idle" => hedged.number > 0
  /\ \A i \in DOMAIN race : race[i].of =< hedged.number
  /\ \A i \in Live : race[i].of \in strays \/ (i \in Mine /\ hedged.pc \in {"delay", "race"})
  /\ Cardinality(Of(Racing)) =< (IF hedged.pc = "delay" THEN 1 ELSE 2)
  /\ hedged.pc \in {"closing", "read", "recovery"} => Of(Racing) = {}

Attempts == [of : 1..MaxHedged, label : {1, 2}, state : States]
Requests ==
  [number : 0..MaxHedged, pc : {"idle", "delay", "race", "closing", "read", "recovery"},
   winner : 0..Len(race), output : BOOLEAN,
   ended : {"none", "answered", "raised", "cancelled", "cut"}]

LEMMA InitHedgedInv == HedgedInit => HedgedInv
<1> SUFFICES ASSUME HedgedInit PROVE HedgedInv
  OBVIOUS
<1>1. race = <<>> /\ Len(race) = 0 /\ DOMAIN race = {}
  BY DEF HedgedInit
<1>2. HedgedTypeOK
  <2>1. race \in Seq(Attempts)
    BY <1>1
  <2> QED
    BY <1>1, <2>1, HedgedAssumption DEF HedgedInit, HedgedTypeOK, Attempts
<1>3. Live = {} /\ Of(Racing) = {}
  BY <1>1 DEF Live, Of, Mine
<1> QED
  BY <1>1, <1>2, <1>3, FS_EmptySet DEF HedgedInit, HedgedInv

\* What becomes of the request.
LEMMA RequestTyped ==
  ASSUME HedgedInv
  PROVE  /\ hedged.number \in 0..MaxHedged
         /\ hedged \in Requests
         /\ \A pc \in {"idle", "delay", "race", "closing", "read", "recovery"} : Goes(pc) =>
              hedged' \in Requests /\ hedged'.number = hedged.number /\ hedged'.pc = pc
         /\ \A how \in {"answered", "raised", "cancelled", "cut"} : Over(how) =>
              hedged' \in Requests /\ hedged'.number = hedged.number /\ hedged'.pc = "idle"
<1>1. hedged \in Requests
  BY DEF HedgedInv, HedgedTypeOK, Requests
<1>2. 0 \in 0..Len(race)
  BY DEF HedgedInv, HedgedTypeOK
<1> QED
  BY <1>1, <1>2 DEF Requests, Goes, Over

\* The own attempts change their states, the others stay.
LEMMA BecomesKeeps ==
  ASSUME HedgedInv, NEW next \in [States -> States]
  PROVE  /\ Becomes(next) \in Seq(Attempts) /\ Len(Becomes(next)) = Len(race)
         /\ \A i \in 1..Len(race) :
              Becomes(next)[i] = [race[i] EXCEPT !.state = IF i \in Mine THEN next[race[i].state]
                                                           ELSE race[i].state]
<1>1. race \in Seq(Attempts) /\ DOMAIN race = 1..Len(race) /\ Len(race) \in Nat
  BY DEF HedgedInv, HedgedTypeOK, Attempts
<1>2. \A i \in 1..Len(race) :
        Becomes(next)[i] = [race[i] EXCEPT !.state = IF i \in Mine THEN next[race[i].state]
                                                     ELSE race[i].state]
  BY <1>1 DEF Becomes
<1>3. \A i \in 1..Len(race) : race[i] \in Attempts
  BY <1>1
<1>4. ASSUME NEW i \in 1..Len(race) PROVE Becomes(next)[i] \in Attempts
  <2> DEFINE state == IF i \in Mine THEN next[race[i].state] ELSE race[i].state
  <2>1. race[i].state \in States
    BY <1>3 DEF Attempts
  <2>2. state \in States
    BY <2>1
  <2>3. Becomes(next)[i] = [race[i] EXCEPT !.state = state]
    BY <1>2
  <2> HIDE DEF state
  <2> QED
    BY <1>3, <2>2, <2>3 DEF Attempts
<1>5. Becomes(next) = [i \in 1..Len(race) |-> Becomes(next)[i]]
  BY <1>1 DEF Becomes
<1> HIDE DEF Becomes
<1>6. Becomes(next) \in Seq(Attempts)
  BY <1>1, <1>4, <1>5
<1>7. Len(Becomes(next)) = Len(race)
  BY <1>1, <1>5, <1>6
<1> QED
  BY <1>2, <1>6, <1>7

\* A function on the first n numbers is a sequence.
LEMMA TypedSequence ==
  ASSUME NEW S, NEW n \in Nat, NEW f \in [1..n -> S]
  PROVE  f \in Seq(S) /\ Len(f) = n
<1>1. f \in Seq(S)
  OBVIOUS
<1> QED
  BY <1>1

\* The own attempts are in known states.
LEMMA StatesTyped ==
  ASSUME HedgedInv
  PROVE  \A i \in Mine : race[i].state \in States
<1>1. race \in Seq(Attempts) /\ Mine \subseteq DOMAIN race
  BY DEF HedgedInv, HedgedTypeOK, Attempts, Mine
<1>2. \A i \in DOMAIN race : race[i] \in Attempts
  BY <1>1
<1> QED
  BY <1>1, <1>2 DEF Attempts

\* The attempts are finitely many.
LEMMA RacingFinite ==
  ASSUME HedgedInv
  PROVE  IsFiniteSet(Of(Racing)) /\ Cardinality(Of(Racing)) \in Nat
<1>1. Of(Racing) \subseteq 1..Len(race) /\ Len(race) \in Nat
  BY DEF HedgedInv, HedgedTypeOK, Of, Mine
<1>2. IsFiniteSet(1..Len(race))
  BY <1>1, FS_Interval
<1> QED
  BY <1>1, <1>2, FS_Subset, FS_CardinalityType

\* A step of the request that adds no attempt: of the others none changes, of its own none
\* begins to race, and unless the request goes on to race none holds a stream.
LEMMA NoneBegins ==
  ASSUME HedgedInv, HedgedTypeOK', hedged'.number = hedged.number,
         hedged.pc # "idle", Len(race') = Len(race), strays \subseteq strays',
         \A i \in 1..Len(race) : race'[i].of = race[i].of,
         \A i \in 1..Len(race) : race'[i].state \in Racing => race[i].state \in Racing,
         \A i \in 1..Len(race) : race'[i].state \in {"asking", "ready"}
            => race[i].state \in {"asking", "ready"},
         \/ hedged'.pc = hedged.pc
         \/ hedged.pc = "delay" /\ hedged'.pc = "race"
         \/ hedged.pc = "delay" /\ hedged'.pc = "idle" /\ hedged.number \in strays'
         \/ hedged.pc = "race" /\ Of(Racing)' = {}
         \/ hedged.pc \in {"closing", "read", "recovery"} /\ hedged'.pc # "delay"
  PROVE  HedgedInv'
<1>1. /\ DOMAIN race = 1..Len(race) /\ DOMAIN race' = 1..Len(race) /\ Mine' = Mine
      /\ Mine \subseteq 1..Len(race)
  BY DEF HedgedInv, HedgedTypeOK, Mine
<1>2. Of(Racing)' \subseteq Of(Racing)
  BY <1>1 DEF Of
<1>3. Cardinality(Of(Racing)') =< Cardinality(Of(Racing)) /\ Cardinality(Of(Racing)') \in Nat
  BY <1>2, RacingFinite, FS_Subset, FS_CardinalityType
<1>4. Live' \subseteq Live
  BY <1>1 DEF Live
<1>5. Cardinality(Of(Racing)') =< (IF hedged'.pc = "delay" THEN 1 ELSE 2)
  <2>1. Of(Racing)' = {} => Cardinality(Of(Racing)') = 0
    BY FS_EmptySet
  <2>2. hedged'.pc = "delay" => hedged.pc = "delay" \/ Of(Racing)' = {}
    OBVIOUS
  <2> QED
    BY <1>3, <2>1, <2>2, RacingFinite DEF HedgedInv
<1>6. hedged'.pc \in {"closing", "read", "recovery"} => Of(Racing)' = {}
  BY <1>2 DEF HedgedInv
<1>7. \A i \in Live' : race'[i].of \in strays' \/ (i \in Mine' /\ hedged'.pc \in {"delay", "race"})
  <2> SUFFICES ASSUME NEW i \in Live', race'[i].of \notin strays'
               PROVE  i \in Mine' /\ hedged'.pc \in {"delay", "race"}
    OBVIOUS
  <2>1. i \in Mine /\ hedged.pc \in {"delay", "race"} /\ i \in 1..Len(race)
    BY <1>1, <1>4 DEF HedgedInv, Live
  <2>2. i \in Of(Racing)'
    BY <1>1, <2>1 DEF Of, Live, Racing
  <2>3. race[i].of = hedged.number
    BY <2>1 DEF Mine
  <2> QED
    BY <1>1, <2>1, <2>2, <2>3
<1> QED
  BY <1>1, <1>5, <1>6, <1>7 DEF HedgedInv

\* The next states of the attempts keep the promise of NoneBegins.
Settles(next) ==
  \A s \in States : /\ next[s] \in Racing => s \in Racing
                    /\ next[s] \in {"asking", "ready"} => s \in {"asking", "ready"}

LEMMA NextStatesSettle ==
  /\ Closed \in [States -> States] /\ Settles(Closed)
  /\ \A s \in States : Closed[s] \notin Racing
  /\ \A f \in {[Same EXCEPT !["failed"] = "over"], [Same EXCEPT !["read"] = "closed"],
               [Same EXCEPT !["read"] = "dropped"], [Closed EXCEPT !["read"] = "dropped"]} :
       f \in [States -> States] /\ Settles(f)
  /\ \A s \in States : [Closed EXCEPT !["read"] = "dropped"][s] \notin Racing
BY DEF Closed, Same, States, Settles, Racing


\* An attempt of the request is started.
LEMMA AttemptStarts ==
  ASSUME HedgedInv, NEW label \in {1, 2}, hedged'.number \in 1..MaxHedged, race' = Started(label)
  PROVE  /\ race' \in Seq(Attempts) /\ Len(race') = Len(race) + 1
         /\ race'[Len(race')] = [of |-> hedged'.number, label |-> label, state |-> "asking"]
         /\ \A i \in 1..Len(race) : race'[i] = race[i]
<1>1. race \in Seq(Attempts)
  BY DEF HedgedInv, HedgedTypeOK, Attempts
<1>2. [of |-> hedged'.number, label |-> label, state |-> "asking"] \in Attempts
  BY DEF Attempts, States
<1> QED
  BY <1>1, <1>2 DEF Started

\* A request begins.
LEMMA StartKeepsHedged ==
  ASSUME HedgedInv, start_hedged
  PROVE  HedgedInv'
<1>1. /\ hedged.pc = "idle" /\ hedged.number \in 0..MaxHedged /\ hedged.number < MaxHedged
      /\ hedged' = [number |-> hedged.number + 1, pc |-> "delay", winner |-> 0,
                    output |-> FALSE, ended |-> "none"]
      /\ race' = Started(1) /\ strays' = strays
  BY RequestTyped DEF start_hedged
<1>2. hedged'.number = hedged.number + 1 /\ hedged'.number \in 1..MaxHedged
  BY <1>1, HedgedAssumption
<1> DEFINE n == Len(race')
<1>3. /\ race' \in Seq(Attempts) /\ n = Len(race) + 1 /\ n \in 1..n /\ n \notin 1..Len(race)
      /\ race'[n] = [of |-> hedged'.number, label |-> 1, state |-> "asking"]
      /\ \A i \in 1..Len(race) : race'[i] = race[i]
      /\ DOMAIN race' = 1..n /\ DOMAIN race = 1..Len(race) /\ 1..n = 1..Len(race) \cup {n}
  BY <1>1, <1>2, AttemptStarts DEF HedgedInv, HedgedTypeOK, Attempts
<1> HIDE DEF n
<1>4. HedgedTypeOK'
  BY <1>1, <1>2, <1>3 DEF HedgedInv, HedgedTypeOK, Attempts
<1>5. ASSUME NEW i \in 1..Len(race) PROVE race[i].of =< hedged.number /\ race[i].of \in Nat
  <2>1. race \in Seq(Attempts)
    BY DEF HedgedInv, HedgedTypeOK, Attempts
  <2>2. race[i] \in Attempts
    BY <2>1
  <2> QED
    BY <1>3, <2>2, HedgedAssumption DEF HedgedInv, Attempts
<1>6. \A i \in DOMAIN race' : race'[i].of =< hedged'.number
  BY <1>1, <1>2, <1>3, <1>5
<1>7. Of(Racing)' = {n}
  BY <1>1, <1>2, <1>3, <1>5 DEF Of, Mine, Racing
<1>8. \A i \in Live' : race'[i].of \in strays' \/ (i \in Mine' /\ hedged'.pc \in {"delay", "race"})
  <2>1. ASSUME NEW i \in Live', i # n PROVE race'[i].of \in strays'
    <3>1. i \in 1..Len(race) /\ i \in Live
      BY <1>3, <2>1 DEF Live
    <3> QED
      BY <1>1, <1>3, <3>1 DEF HedgedInv
  <2>2. n \in Mine' /\ hedged'.pc = "delay"
    BY <1>1, <1>3 DEF Mine
  <2> QED
    BY <2>1, <2>2
<1>9. Cardinality({n}) = 1
  BY FS_Singleton
<1> QED
  BY <1>1, <1>2, <1>4, <1>6, <1>7, <1>8, <1>9 DEF HedgedInv

\* The second attempt, beside the first or after it.
LEMMA SecondKeepsHedged ==
  ASSUME HedgedInv, NEW before \in Seq(Attempts), Len(before) = Len(race),
         race' = Append(before, [of |-> hedged.number, label |-> 2, state |-> "asking"]),
         hedged.pc \in {"delay", "race"}, hedged'.pc = "race", hedged'.number = hedged.number,
         hedged' \in Requests, strays' = strays,
         \A i \in 1..Len(race) : /\ before[i].of = race[i].of
                                 /\ before[i].state \in Racing => race[i].state \in Racing
                                 /\ before[i].state \in {"asking", "ready"}
                                      => race[i].state \in {"asking", "ready"},
         hedged.pc = "delay" \/ {i \in Mine : before[i].state \in Racing} = {}
  PROVE  HedgedInv'
<1> DEFINE new == [of |-> hedged.number, label |-> 2, state |-> "asking"]
           n == Len(race) + 1
           old == {i \in Mine : before[i].state \in Racing}
<1>1. new \in Attempts /\ hedged.number \in 1..MaxHedged
  BY HedgedAssumption DEF HedgedInv, HedgedTypeOK, Attempts, States
<1>2. /\ race' \in Seq(Attempts) /\ Len(race') = n /\ n \in Nat /\ n \notin 1..Len(race)
      /\ race'[n] = new /\ \A i \in 1..Len(race) : race'[i] = before[i]
      /\ DOMAIN race' = 1..n /\ DOMAIN race = 1..Len(race) /\ 1..n = 1..Len(race) \cup {n}
  BY <1>1 DEF HedgedInv, HedgedTypeOK
<1> HIDE DEF n, new
<1>3. HedgedTypeOK'
  <2>1. 0..Len(race) \subseteq 0..Len(race')
    BY <1>2 DEF n
  <2> QED
    BY <1>2, <2>1 DEF HedgedInv, HedgedTypeOK, Attempts, Requests
<1>4. \A i \in DOMAIN race' : race'[i].of =< hedged'.number
  BY <1>1, <1>2 DEF HedgedInv, new
<1>5. Mine' = Mine \cup {n} /\ Mine \subseteq 1..Len(race)
  BY <1>1, <1>2 DEF Mine, new
<1>6. Of(Racing)' = old \cup {n} /\ n \notin old
  <2>1. race'[n].state \in Racing
    BY <1>2 DEF Racing, new
  <2>2. \A i \in Mine : race'[i].state = before[i].state
    BY <1>2, <1>5
  <2>3. \A i : i \in Of(Racing)' <=> i \in Mine' /\ race'[i].state \in Racing
    BY DEF Of
  <2>4. \A i : i \in old <=> i \in Mine /\ before[i].state \in Racing
    OBVIOUS
  <2> HIDE DEF old
  <2>5. Of(Racing)' = old \cup {n}
    BY <1>5, <2>1, <2>2, <2>3, <2>4
  <2> QED
    BY <1>2, <1>5, <2>4, <2>5
<1>7. \A i \in Live' : race'[i].of \in strays' \/ (i \in Mine' /\ hedged'.pc \in {"delay", "race"})
  <2>1. ASSUME NEW i \in Live', i # n
        PROVE  race'[i].of \in strays' \/ (i \in Mine' /\ hedged'.pc \in {"delay", "race"})
    <3>1. i \in 1..Len(race) /\ before[i].state \in {"asking", "ready"}
      BY <1>2, <2>1 DEF Live
    <3>2. i \in Live
      BY <1>2, <3>1 DEF Live
    <3> QED
      BY <1>2, <1>5, <3>1, <3>2 DEF HedgedInv
  <2> QED
    BY <1>5, <2>1
<1>8. Cardinality(old) =< 1 /\ Cardinality(old) \in Nat /\ IsFiniteSet(old)
  <2>1. CASE hedged.pc = "delay"
    <3>1. old \subseteq Of(Racing)
      BY <1>5 DEF Of
    <3> HIDE DEF old
    <3>2. Cardinality(old) =< Cardinality(Of(Racing)) /\ IsFiniteSet(old)
      BY <3>1, RacingFinite, FS_Subset
    <3>3. Cardinality(old) \in Nat
      BY <3>2, FS_CardinalityType
    <3> QED
      BY <2>1, <3>2, <3>3, RacingFinite DEF HedgedInv
  <2>2. CASE old = {}
    <3> HIDE DEF old
    <3>1. Cardinality({}) = 0 /\ IsFiniteSet({})
      BY FS_EmptySet
    <3> QED
      BY <2>2, <3>1
  <2> QED
    BY <2>1, <2>2
<1> HIDE DEF old
<1>9. Cardinality(Of(Racing)') =< 2
  <2>1. Cardinality(old \cup {n}) = Cardinality(old) + 1
    BY <1>6, <1>8, FS_AddElement
  <2> QED
    BY <1>6, <1>8, <2>1
<1> QED
  BY <1>1, <1>3, <1>4, <1>7, <1>9 DEF HedgedInv

\* What leaves the attempts of the requests where they are.
LEMMA HedgedUnchanged ==
  ASSUME HedgedInv, UNCHANGED hedgedVars
  PROVE  HedgedInv'
BY DEF HedgedInv, HedgedTypeOK, hedgedVars, Live, Of, Mine

\* One attempt takes its next state, whoever's it is.
LEMMA AttemptMoves ==
  ASSUME HedgedInv, NEW i \in DOMAIN race, NEW s \in States,
         race' = [race EXCEPT ![i].state = s], UNCHANGED <<hedged, strays>>,
         s \in Racing => race[i].state \in Racing,
         s \in {"asking", "ready"} => race[i].state \in {"asking", "ready"}
  PROVE  HedgedInv'
<1>1. race \in Seq(Attempts) /\ DOMAIN race = 1..Len(race) /\ race[i] \in Attempts
  <2>1. race \in Seq(Attempts)
    BY DEF HedgedInv, HedgedTypeOK, Attempts
  <2> QED
    BY <2>1
<1>2. /\ race' \in Seq(Attempts) /\ Len(race') = Len(race) /\ DOMAIN race' = DOMAIN race
      /\ \A j \in 1..Len(race) : race'[j].of = race[j].of
      /\ \A j \in 1..Len(race) : j # i => race'[j] = race[j]
      /\ race'[i].state = s
  <2>1. [race[i] EXCEPT !.state = s] \in Attempts
    BY <1>1 DEF Attempts
  <2>2. race' = [race EXCEPT ![i] = [race[i] EXCEPT !.state = s]]
    OBVIOUS
  <2> QED
    BY <1>1, <2>1, <2>2 DEF Attempts
<1>3. HedgedTypeOK'
  BY <1>1, <1>2 DEF HedgedInv, HedgedTypeOK, Attempts
<1>4. Mine' = Mine /\ Mine \subseteq 1..Len(race)
  BY <1>1, <1>2 DEF Mine
<1>5. Of(Racing)' \subseteq Of(Racing)
  BY <1>1, <1>2, <1>4 DEF Of
<1>6. Cardinality(Of(Racing)') =< Cardinality(Of(Racing)) /\ Cardinality(Of(Racing)') \in Nat
  BY <1>5, RacingFinite, FS_Subset, FS_CardinalityType
<1>7. Live' \subseteq Live
  BY <1>1, <1>2 DEF Live
<1>8. Cardinality(Of(Racing)') =< (IF hedged'.pc = "delay" THEN 1 ELSE 2)
  BY <1>6, RacingFinite DEF HedgedInv
<1>9. \A j \in Live' : race'[j].of \in strays' \/ (j \in Mine' /\ hedged'.pc \in {"delay", "race"})
  BY <1>1, <1>2, <1>4, <1>7 DEF HedgedInv, Live
<1> QED
  BY <1>1, <1>2, <1>3, <1>5, <1>8, <1>9 DEF HedgedInv

\* An attempt ends or is closed.
LEMMA AttemptKeepsHedged ==
  ASSUME HedgedInv, attempt_ends \/ attempt_closed
  PROVE  HedgedInv'
<1>1. ASSUME attempt_ends PROVE HedgedInv'
  <2>1. PICK i \in DOMAIN race, s \in {"ready", "failed"} :
          race[i].state = "asking" /\ race' = [race EXCEPT ![i].state = s]
    BY <1>1 DEF attempt_ends
  <2>2. s \in States /\ race[i].state \in Racing /\ race[i].state \in {"asking", "ready"}
    BY <2>1 DEF States, Racing
  <2> QED
    BY <1>1, <2>1, <2>2, AttemptMoves DEF attempt_ends
<1>2. ASSUME attempt_closed PROVE HedgedInv'
  <2>1. PICK i \in DOMAIN race :
          race[i].state = "closing" /\ race' = [race EXCEPT ![i].state = "closed"]
    BY <1>2 DEF attempt_closed
  <2>2. "closed" \in States /\ "closed" \notin Racing
    BY DEF States, Racing
  <2> QED
    BY <1>2, <2>1, <2>2, AttemptMoves DEF attempt_closed
<1> QED
  BY <1>1, <1>2

\* A request that races or is read moves on, and its attempts with it.
LEMMA RequestMoves ==
  ASSUME HedgedInv, NEW next \in [States -> States], Settles(next), race' = Becomes(next),
         hedged' \in Requests, hedged'.number = hedged.number, hedged.pc # "idle",
         strays \subseteq strays', strays' \subseteq 1..MaxHedged,
         \/ hedged'.pc = hedged.pc
         \/ hedged.pc = "race" /\ \A i \in Mine : next[race[i].state] \notin Racing
         \/ hedged.pc \in {"closing", "read", "recovery"} /\ hedged'.pc # "delay"
  PROVE  HedgedInv'
<1>1. race \in Seq(Attempts) /\ DOMAIN race = 1..Len(race)
  BY DEF HedgedInv, HedgedTypeOK, Attempts
<1>2. /\ race' \in Seq(Attempts) /\ Len(race') = Len(race)
      /\ \A i \in 1..Len(race) :
           race'[i] = [race[i] EXCEPT !.state = IF i \in Mine THEN next[race[i].state]
                                                ELSE race[i].state]
  BY BecomesKeeps
<1>3. \A i \in 1..Len(race) : race[i] \in Attempts
  BY <1>1
<1>4. \A i \in 1..Len(race) :
        /\ race'[i].of = race[i].of
        /\ race'[i].state = IF i \in Mine THEN next[race[i].state] ELSE race[i].state
  BY <1>2, <1>3 DEF Attempts
<1>5. HedgedTypeOK'
  BY <1>2 DEF HedgedTypeOK, Requests, Attempts
<1>6. \A i \in 1..Len(race) :
        /\ race'[i].state \in Racing => race[i].state \in Racing
        /\ race'[i].state \in {"asking", "ready"} => race[i].state \in {"asking", "ready"}
  BY <1>3, <1>4 DEF Settles, Attempts
<1>7. Mine' = Mine /\ Mine \subseteq 1..Len(race)
  BY <1>1, <1>2, <1>4 DEF Mine
<1>8. (\A i \in Mine : next[race[i].state] \notin Racing) => Of(Racing)' = {}
  BY <1>4, <1>7 DEF Of
<1> QED
  BY <1>2, <1>4, <1>5, <1>6, <1>8, NoneBegins

\* The race has a winner: of the request's attempts none races any more.
Wins(w) ==
  /\ hedged' = [hedged EXCEPT !.pc = "closing", !.winner = w]
  /\ race' = [Becomes(Closed) EXCEPT ![w].state = "read"]

LEMMA WinnerKeepsHedged ==
  ASSUME HedgedInv, hedged.pc = "race", NEW w \in Of({"ready"}), Wins(w), strays' = strays
  PROVE  HedgedInv'
<1>1. /\ race \in Seq(Attempts) /\ DOMAIN race = 1..Len(race) /\ w \in 1..Len(race)
      /\ w \in Mine /\ Mine \subseteq 1..Len(race) /\ Len(race) \in Nat
  BY DEF HedgedInv, HedgedTypeOK, Attempts, Of, Mine
<1>2. \A i \in 1..Len(race) : race[i] \in Attempts
  BY <1>1
<1> DEFINE others == Becomes(Closed)
<1>3. /\ others \in Seq(Attempts) /\ Len(others) = Len(race)
      /\ \A i \in 1..Len(race) :
           others[i] = [race[i] EXCEPT !.state = IF i \in Mine THEN Closed[race[i].state]
                                                 ELSE race[i].state]
  BY BecomesKeeps, NextStatesSettle
<1>4. \A i \in 1..Len(race) :
        /\ others[i].of = race[i].of
        /\ others[i].state = IF i \in Mine THEN Closed[race[i].state] ELSE race[i].state
  BY <1>2, <1>3 DEF Attempts
<1>5. race' = [others EXCEPT ![w].state = "read"]
  BY DEF Wins
<1> HIDE DEF others
<1>6. /\ race' \in Seq(Attempts) /\ Len(race') = Len(race)
      /\ \A i \in 1..Len(race) : race'[i].of = race[i].of
      /\ \A i \in 1..Len(race) : i # w => race'[i] = others[i]
      /\ race'[w].state = "read"
  <2> DEFINE read == [others[w] EXCEPT !.state = "read"]
  <2>1. others[w] \in Attempts
    BY <1>1, <1>3
  <2>2. read \in Attempts /\ read.of = others[w].of /\ read.state = "read"
    BY <2>1 DEF Attempts, States
  <2>3. race' = [others EXCEPT ![w] = read]
    BY <1>5
  <2> HIDE DEF read
  <2>4. DOMAIN others = 1..Len(race) /\ \A i \in 1..Len(race) : others[i] \in Attempts
    BY <1>3
  <2>5. race'[w] = read /\ \A i \in 1..Len(race) : i # w => race'[i] = others[i]
    BY <1>1, <2>3, <2>4
  <2>6. race' \in Seq(Attempts) /\ Len(race') = Len(race)
    <3>1. others \in [1..Len(race) -> Attempts]
      BY <1>3, <2>4
    <3>2. race' \in [1..Len(race) -> Attempts] /\ Len(race) \in Nat
      BY <1>1, <2>2, <2>3, <3>1
    <3> QED
      BY <3>2, TypedSequence
  <2>7. \A i \in 1..Len(race) : race'[i].of = others[i].of
    BY <2>2, <2>5
  <2> QED
    BY <1>4, <2>2, <2>5, <2>6, <2>7
<1>7. /\ hedged' \in Requests /\ hedged'.number = hedged.number /\ hedged'.pc = "closing"
  <2>1. w \in 0..Len(race)
    BY <1>1
  <2> QED
    BY <2>1, RequestTyped DEF Requests, Wins
<1>8. HedgedTypeOK'
  BY <1>6, <1>7 DEF HedgedInv, HedgedTypeOK, Requests, Attempts
<1>9. \A i \in 1..Len(race) :
        /\ race'[i].state \in Racing => race[i].state \in Racing /\ i \notin Mine
        /\ race'[i].state \in {"asking", "ready"}
             => race[i].state \in {"asking", "ready"} /\ i \notin Mine
  <2> SUFFICES ASSUME NEW i \in 1..Len(race), i # w
               PROVE  /\ others[i].state \in Racing => race[i].state \in Racing /\ i \notin Mine
                      /\ others[i].state \in {"asking", "ready"}
                           => race[i].state \in {"asking", "ready"} /\ i \notin Mine
    BY <1>1, <1>6 DEF Racing
  <2>1. race[i].state \in States
    BY <1>2 DEF Attempts
  <2>2. Closed[race[i].state] \notin Racing
    BY <2>1, NextStatesSettle
  <2>3. CASE i \in Mine
    BY <1>4, <2>2, <2>3 DEF Racing
  <2>4. CASE i \notin Mine
    BY <1>4, <2>4
  <2> QED
    BY <2>3, <2>4
<1>10. Of(Racing)' = {}
  <2>1. Mine' = Mine
    BY <1>1, <1>6, <1>7 DEF Mine, HedgedTypeOK
  <2> QED
    BY <1>1, <1>9, <2>1 DEF Of
<1> QED
  BY <1>6, <1>7, <1>8, <1>9, <1>10, NoneBegins

\* The hedge delay is over.
LEMMA DelayKeepsHedged ==
  ASSUME HedgedInv, hedge_delay
  PROVE  HedgedInv'
<1>1. /\ hedged.pc = "delay" /\ hedged' \in Requests /\ hedged'.pc = "race"
      /\ hedged'.number = hedged.number /\ strays' = strays
  BY RequestTyped DEF hedge_delay
<1>2. CASE race' = race
  <2>1. HedgedTypeOK'
    BY <1>1, <1>2 DEF HedgedInv, HedgedTypeOK, Requests
  <2> QED
    BY <1>1, <1>2, <2>1, NoneBegins
<1>3. CASE race' = Started(2)
  <2>1. race \in Seq(Attempts)
    BY DEF HedgedInv, HedgedTypeOK, Attempts
  <2>2. race' = Append(race, [of |-> hedged.number, label |-> 2, state |-> "asking"])
    BY <1>1, <1>3 DEF Started
  <2> QED
    BY <1>1, <2>1, <2>2, SecondKeepsHedged
<1> QED
  BY <1>1, <1>2, <1>3 DEF hedge_delay

\* The attempts that are done are taken.
LEMMA RaceKeepsHedged ==
  ASSUME HedgedInv, race_step
  PROVE  HedgedInv'
<1> DEFINE pop == [Same EXCEPT !["failed"] = "over"]
           popped == Becomes(pop)
           another == Append(popped, [of |-> hedged.number, label |-> 2, state |-> "asking"])
<1>1. hedged.pc = "race" /\ strays' = strays /\ strays \subseteq 1..MaxHedged
  BY DEF race_step, HedgedInv, HedgedTypeOK
<1>2. pop \in [States -> States] /\ Settles(pop)
  BY NextStatesSettle
<1>3. \/ \E w \in Of({"ready"}) : Wins(w)
      \/ race' = popped /\ Goes("race")
      \/ Of({"asking", "ready"}) = {} /\ race' = popped /\ Goes("recovery")
      \/ Of({"asking", "ready"}) = {} /\ race' = another /\ hedged' = hedged
  <2>1. Of({"ready"}) = {} /\ Of({"asking"}) = {} => Of({"asking", "ready"}) = {}
    BY DEF Of
  <2> QED
    BY <2>1 DEF race_step, Wins
<1>4. Of({"asking", "ready"}) = {} => \A i \in Mine : pop[race[i].state] \notin Racing
  <2>1. ASSUME Of({"asking", "ready"}) = {}, NEW i \in Mine
        PROVE  pop[race[i].state] \notin Racing
    <3>1. race[i].state \notin {"asking", "ready"}
      BY <2>1 DEF Of
    <3> QED
      BY <2>1, <3>1, StatesTyped DEF Same, States, Racing
  <2> QED
    BY <2>1
<1> HIDE DEF pop
<1>5. CASE \E w \in Of({"ready"}) : Wins(w)
  BY <1>1, <1>5, WinnerKeepsHedged
<1>6. CASE race' = popped /\ Goes("race")
  <2>1. hedged' \in Requests /\ hedged'.number = hedged.number /\ hedged'.pc = "race"
    BY <1>6, RequestTyped
  <2> QED
    BY <1>1, <1>2, <1>6, <2>1, RequestMoves
<1>7. CASE Of({"asking", "ready"}) = {} /\ race' = popped /\ Goes("recovery")
  <2>1. hedged' \in Requests /\ hedged'.number = hedged.number /\ hedged'.pc = "recovery"
    BY <1>7, RequestTyped
  <2> QED
    BY <1>1, <1>2, <1>4, <1>7, <2>1, RequestMoves
<1>8. CASE Of({"asking", "ready"}) = {} /\ race' = another /\ hedged' = hedged
  <2>1. /\ race \in Seq(Attempts) /\ DOMAIN race = 1..Len(race) /\ Mine \subseteq 1..Len(race)
    BY DEF HedgedInv, HedgedTypeOK, Attempts, Mine
  <2>2. /\ popped \in Seq(Attempts) /\ Len(popped) = Len(race)
        /\ \A i \in 1..Len(race) :
             popped[i] = [race[i] EXCEPT !.state = IF i \in Mine THEN pop[race[i].state]
                                                   ELSE race[i].state]
    BY <1>2, BecomesKeeps
  <2>3. \A i \in 1..Len(race) : race[i] \in Attempts
    BY <2>1
  <2>4. \A i \in 1..Len(race) :
          /\ popped[i].of = race[i].of
          /\ popped[i].state = IF i \in Mine THEN pop[race[i].state] ELSE race[i].state
    BY <2>2, <2>3 DEF Attempts
  <2> HIDE DEF popped
  <2>5. \A i \in 1..Len(race) :
          /\ popped[i].of = race[i].of
          /\ popped[i].state \in Racing => race[i].state \in Racing
          /\ popped[i].state \in {"asking", "ready"} => race[i].state \in {"asking", "ready"}
    BY <1>2, <2>3, <2>4 DEF Settles, Attempts
  <2>6. {i \in Mine : popped[i].state \in Racing} = {}
    BY <1>4, <1>8, <2>1, <2>4
  <2>7. hedged' \in Requests /\ hedged'.number = hedged.number /\ hedged'.pc = "race"
    BY <1>1, <1>8, RequestTyped
  <2> QED
    BY <1>1, <1>8, <2>2, <2>5, <2>6, <2>7, SecondKeepsHedged
<1> QED
  BY <1>3, <1>5, <1>6, <1>7, <1>8

\* The steps of a request after its race, and the deadline of the race.
LEMMA ReadKeepsHedged ==
  ASSUME HedgedInv,
         \/ first_deadline \/ all_closed \/ hedged_output \/ read_deadline
         \/ deadline_astray \/ hedged_raises \/ recovery_answers \/ hedged_ends
  PROVE  HedgedInv'
<1>1. strays' = strays /\ strays \subseteq 1..MaxHedged
  BY DEF HedgedInv, HedgedTypeOK, first_deadline, all_closed, hedged_output, read_deadline,
         deadline_astray, hedged_raises, recovery_answers, hedged_ends
<1>2. CASE first_deadline
  <2>1. hedged.pc = "race" /\ Goes("closing") /\ race' = Becomes(Closed)
    BY <1>2 DEF first_deadline
  <2>2. hedged' \in Requests /\ hedged'.number = hedged.number
    BY <2>1, RequestTyped
  <2>3. \A i \in Mine : Closed[race[i].state] \notin Racing
    BY StatesTyped, NextStatesSettle
  <2> QED
    BY <1>1, <2>1, <2>2, <2>3, NextStatesSettle, RequestMoves
<1>3. CASE all_closed \/ hedged_output \/ recovery_answers
  <2>1. /\ hedged.pc \in {"closing", "read", "recovery"} /\ race' = race
        /\ \/ \E pc \in {"recovery", "read"} : Goes(pc)
           \/ hedged' = [hedged EXCEPT !.output = TRUE]
           \/ Over("answered")
    BY <1>3 DEF all_closed, hedged_output, recovery_answers
  <2>2. hedged' \in Requests /\ hedged'.number = hedged.number /\ hedged'.pc # "delay"
    BY <2>1, RequestTyped DEF Requests
  <2>3. HedgedTypeOK'
    BY <1>1, <2>1, <2>2 DEF HedgedInv, HedgedTypeOK, Requests
  <2> QED
    BY <1>1, <2>1, <2>2, <2>3, NoneBegins
<1>4. CASE read_deadline \/ deadline_astray \/ hedged_raises \/ hedged_ends
  <2>1. /\ hedged.pc = "read"
        /\ \E f \in {[Same EXCEPT !["read"] = "closed"], [Same EXCEPT !["read"] = "dropped"]} :
             race' = Becomes(f)
        /\ Goes("recovery") \/ \E how \in {"cut", "raised", "answered"} : Over(how)
    BY <1>4 DEF read_deadline, deadline_astray, hedged_raises, hedged_ends, WinnerClosed
  <2>2. hedged' \in Requests /\ hedged'.number = hedged.number /\ hedged'.pc # "delay"
    BY <2>1, RequestTyped
  <2>3. PICK f \in {[Same EXCEPT !["read"] = "closed"], [Same EXCEPT !["read"] = "dropped"]} :
          race' = Becomes(f)
    BY <2>1
  <2>4. f \in [States -> States] /\ Settles(f)
    BY ZenonT(40), <2>3, NextStatesSettle
  <2> QED
    BY <1>1, <2>1, <2>2, <2>3, <2>4, RequestMoves
<1> QED
  BY <1>2, <1>3, <1>4

\* An interruption.
LEMMA CancelKeepsHedged ==
  ASSUME HedgedInv, cancel_hedged
  PROVE  HedgedInv'
<1>1. CASE hedged.pc = "idle"
  BY <1>1, HedgedUnchanged DEF cancel_hedged
<1>2. CASE hedged.pc # "idle"
  <2>1. /\ hedged' \in Requests /\ hedged'.number = hedged.number /\ hedged'.pc = "idle"
    BY <1>2, RequestTyped DEF cancel_hedged
  <2>2. hedged.number \in 1..MaxHedged /\ strays \subseteq 1..MaxHedged
    BY <1>2, RequestTyped, HedgedAssumption DEF HedgedInv, HedgedTypeOK
  <2>3. CASE hedged.pc = "delay"
    <3>1. race' = race /\ strays' = strays \cup {hedged.number}
      BY <2>3 DEF cancel_hedged
    <3>2. HedgedTypeOK'
      BY <2>1, <2>2, <3>1 DEF HedgedInv, HedgedTypeOK, Requests
    <3> QED
      BY <2>1, <2>3, <3>1, <3>2, NoneBegins
  <2>4. CASE hedged.pc \in {"race", "closing", "recovery"}
    <3>1. race' = Becomes([Closed EXCEPT !["read"] = "dropped"]) /\ strays' = strays
      BY <2>4 DEF cancel_hedged
    <3>2. \A i \in Mine : [Closed EXCEPT !["read"] = "dropped"][race[i].state] \notin Racing
      BY StatesTyped, NextStatesSettle
    <3> QED
      BY <2>1, <2>2, <2>4, <3>1, <3>2, NextStatesSettle, RequestMoves
  <2>5. CASE hedged.pc = "read"
    <3>1. race' = Becomes([Same EXCEPT !["read"] = "closed"]) /\ strays' = strays
      BY <2>5 DEF cancel_hedged
    <3> QED
      BY <2>1, <2>2, <2>5, <3>1, NextStatesSettle, RequestMoves
  <2> QED
    BY <1>2, <2>3, <2>4, <2>5, RequestTyped DEF Requests
<1> QED
  BY <1>1, <1>2

LEMMA NextKeepsHedgedInv ==
  ASSUME HedgedInv, [Next]_vars
  PROVE  HedgedInv'
<1>1. CASE Request \/ Response
  <2>1. UNCHANGED hedgedVars \/ start_hedged \/ hedged_ends
    BY <1>1 DEF Request, Response
  <2> QED
    BY <2>1, HedgedUnchanged, StartKeepsHedged, ReadKeepsHedged
<1>2. CASE Interruption
  BY <1>2, CancelKeepsHedged DEF Interruption
<1>3. CASE StreamStep
  <2>1. UNCHANGED hedgedVars \/ HedgedStep
    BY <1>3 DEF StreamStep
  <2> QED
    BY <2>1, HedgedUnchanged, AttemptKeepsHedged, DelayKeepsHedged, RaceKeepsHedged,
       ReadKeepsHedged DEF HedgedStep
<1>4. CASE Turn \/ SpeechStep \/ EmbeddingStep \/ IssueStep \/ MemoryStep \/ UNCHANGED vars
  <2>1. UNCHANGED hedgedVars
    BY <1>4 DEF Turn, SpeechStep, EmbeddingStep, IssueStep, MemoryStep, vars, modelVars
  <2> QED
    BY <2>1, HedgedUnchanged
<1> QED
  BY <1>1, <1>2, <1>3, <1>4 DEF Next

THEOREM RaceAlwaysSound == Spec => []HedgedInv
<1>1. Init => HedgedInv
  BY InitHedgedInv DEF Init
<1>2. HedgedInv /\ [Next]_vars => HedgedInv'
  BY NextKeepsHedgedInv
<1> QED
  BY <1>1, <1>2, PTL DEF Spec

\* At most two attempts of a request race, and when the race is over, by a winner, a
\* deadline, a failure or an interruption, none goes on asking or waits to be read, unless
\* the request was cancelled during the hedge delay (google_llm.py).
THEOREM NoAttemptIsLeft == Spec => []NoAttemptLeft
<1>1. HedgedInv => NoAttemptLeft
  <2> SUFFICES ASSUME HedgedInv PROVE NoAttemptLeft
    OBVIOUS
  <2>1. Cardinality(Of({"asking", "ready", "failed"})) =< 2
    BY RacingFinite DEF HedgedInv, Racing
  <2> QED
    BY <2>1 DEF HedgedInv, NoAttemptLeft, Live
<1> QED
  BY <1>1, RaceAlwaysSound, PTL

---------------------------------------------------------------------------
\* The transcripts.

\* The final of an endpoint that still waits for its stop frame is held back: while the
\* frame is forwarded no task takes what is queued, and what a task took waited for none
\* but forwarded frames.
HeldBack ==
  /\ waiting \in Nat /\ forwarded \in Nat
  /\ ~gate <=> frames = "forward"
  /\ waiting = forwarded + (IF frames = "forward" THEN 1 ELSE 0)
  /\ frames = "forward" => pump # "drain" /\ watchdog \in {"none", "waiting"}
  /\ \E S : finals \in Seq(S) /\ \A e \in S : e.after \in Nat /\ e.after =< waiting
  /\ batch = [t \in Tasks |-> batch[t]]
  /\ \A t \in Tasks : \A e \in batch[t] : e.after \in Nat /\ e.after =< forwarded

LEMMA InitHeldBack == SpeechInit => HeldBack
<1> SUFFICES ASSUME SpeechInit PROVE HeldBack
  OBVIOUS
<1>1. finals \in Seq({})
  BY DEF SpeechInit
<1>2. \E S : finals \in Seq(S) /\ \A e \in S : e.after \in Nat /\ e.after =< waiting
  BY <1>1
<1> QED
  BY <1>2 DEF SpeechInit, HeldBack

\* What leaves the gate, the tasks and the queue as they are.
LEMMA GateUnchanged ==
  ASSUME HeldBack, UNCHANGED <<waiting, forwarded, gate, finals, batch>>,
         (frames' = "forward") <=> (frames = "forward"),
         frames' = "forward" => pump' # "drain" /\ watchdog' \in {"none", "waiting"}
  PROVE  HeldBack'
BY DEF HeldBack

\* A line that is completed while an endpoint waits.
LEMMA EventKeepsHeldBack ==
  ASSUME HeldBack, on_transcript_event,
         UNCHANGED <<waiting, forwarded, gate, frames, pump, watchdog, batch>>
  PROVE  HeldBack'
<1> DEFINE event == [stream |-> native.number, line |-> native.line, words |-> native.words,
                     after |-> waiting]
<1>1. PICK S : finals \in Seq(S) /\ \A e \in S : e.after \in Nat /\ e.after =< waiting
  BY DEF HeldBack
<1>2. finals' = Append(finals, event) /\ event.after = waiting
  BY DEF on_transcript_event
<1> HIDE DEF event
<1>3. finals \in Seq(S \cup {event})
  BY <1>1
<1>4. finals' \in Seq(S \cup {event})
  BY <1>2, <1>3
<1>5. \A e \in S \cup {event} : e.after \in Nat /\ e.after =< waiting'
  BY <1>1, <1>2 DEF HeldBack
<1>6. \E T : finals' \in Seq(T) /\ \A e \in T : e.after \in Nat /\ e.after =< waiting'
  BY <1>4, <1>5
<1> QED
  BY <1>6 DEF HeldBack

\* A task takes what is queued when no stop frame is on its way.
LEMMA TakeKeepsHeldBack ==
  ASSUME HeldBack, NEW t \in Tasks, take(t), frames # "forward", frames' # "forward"
  PROVE  HeldBack'
<1>1. /\ finals' = <<>> /\ batch' = [batch EXCEPT ![t] = {finals[i] : i \in Kept}]
      /\ gate' = gate /\ waiting' = waiting /\ forwarded' = forwarded
  BY DEF take, orderVars
<1>2. PICK S : finals \in Seq(S) /\ \A e \in S : e.after \in Nat /\ e.after =< waiting
  BY DEF HeldBack
<1>3. \A i \in Kept : finals[i] \in S
  BY <1>2 DEF Kept
<1>4. \A e \in {finals[i] : i \in Kept} : e.after \in Nat /\ e.after =< forwarded
  BY <1>2, <1>3 DEF HeldBack
<1>5. /\ batch' = [s \in Tasks |-> batch'[s]]
      /\ \A s \in Tasks : \A e \in batch'[s] : e.after \in Nat /\ e.after =< forwarded
  BY <1>1, <1>4 DEF HeldBack
<1>6. \E T : finals' \in Seq(T) /\ \A e \in T : e.after \in Nat /\ e.after =< waiting'
  <2>1. finals' \in Seq({})
    BY <1>1
  <2> QED
    BY <2>1
<1> QED
  BY <1>1, <1>5, <1>6 DEF HeldBack

\* A task has pushed its transcripts, or they are lost.
LEMMA PushKeepsHeldBack ==
  ASSUME HeldBack, NEW t \in Tasks, batch' = [batch EXCEPT ![t] = {}],
         UNCHANGED <<waiting, forwarded, gate, finals>>,
         (frames' = "forward") <=> (frames = "forward"),
         frames' = "forward" => pump' # "drain" /\ watchdog' \in {"none", "waiting"}
  PROVE  HeldBack'
<1>1. /\ batch' = [s \in Tasks |-> batch'[s]]
      /\ \A s \in Tasks : \A e \in batch'[s] : e \in batch[s]
  BY DEF HeldBack
<1> QED
  BY <1>1 DEF HeldBack

LEMMA JobKeepsHeldBack ==
  ASSUME HeldBack, RunJob \/ LineCompleted
  PROVE  HeldBack'
<1>1. /\ UNCHANGED <<waiting, forwarded, gate, frames, pump, watchdog, batch>>
      /\ on_transcript_event \/ UNCHANGED finals
  BY DEF RunJob, LineCompleted, endpointVars, taskVars, orderVars, eventVars
<1> QED
  BY <1>1, EventKeepsHeldBack, GateUnchanged DEF HeldBack

LEMMA PumpKeepsHeldBack ==
  ASSUME HeldBack, run_event_pump
  PROVE  HeldBack'
<1>1. CASE pump_wakes \/ pump_allowed
  <2>1. /\ UNCHANGED <<waiting, forwarded, gate, finals, batch, frames, watchdog>>
        /\ pump' = "drain" => gate
    BY <1>1 DEF pump_wakes, pump_allowed, endpointVars, orderVars, eventVars
  <2> QED
    BY <2>1, GateUnchanged DEF HeldBack
<1>2. CASE pump_drains
  <2>1. CASE pump = "drain" /\ take("pump")
    BY <1>2, <2>1, TakeKeepsHeldBack DEF pump_drains, HeldBack, Tasks
  <2>2. CASE pump = "push" /\ push("pump") /\ pump' = "wait"
    <3>1. /\ batch' = [batch EXCEPT !["pump"] = {}]
          /\ UNCHANGED <<waiting, forwarded, gate, finals, frames, watchdog>>
      BY <1>2, <2>2 DEF pump_drains, push, eventVars, endpointVars, orderVars
    <3> QED
      BY <2>2, <3>1, PushKeepsHeldBack DEF HeldBack, Tasks
  <2> QED
    BY <1>2, <2>1, <2>2 DEF pump_drains
<1> QED
  BY <1>1, <1>2 DEF run_event_pump

LEMMA WatchdogKeepsHeldBack ==
  ASSUME HeldBack, await_native_finalization
  PROVE  HeldBack'
<1>1. CASE final_arrived \/ grace_ends
  <2>1. /\ UNCHANGED <<waiting, forwarded, gate, finals, batch, frames, pump>>
        /\ watchdog' = "none" \/ frames # "forward"
    BY <1>1 DEF final_arrived, grace_ends, watchdog_ends, endpointVars, orderVars, eventVars
  <2> QED
    BY <2>1, GateUnchanged DEF HeldBack
<1>2. CASE watchdog = "flushing" /\ take("watchdog") /\ UNCHANGED <<frames, pump>>
  BY <1>2, TakeKeepsHeldBack DEF HeldBack, Tasks
<1>3. CASE \/ /\ watchdog = "push" /\ watchdog_ends
              /\ batch' = [batch EXCEPT !["watchdog"] = {}] /\ UNCHANGED eventVars
           \/ watchdog_cancelled
  <2>1. /\ UNCHANGED <<waiting, forwarded, gate, finals, frames, pump>> /\ watchdog' = "none"
        /\ batch' = [batch EXCEPT !["watchdog"] = {}]
    BY <1>3 DEF watchdog_cancelled, watchdog_ends, endpointVars, orderVars, eventVars
  <2> QED
    BY <2>1, PushKeepsHeldBack DEF HeldBack, Tasks
<1> QED
  BY <1>1, <1>2, <1>3 DEF await_native_finalization, fallback_pushes

LEMMA CallerKeepsHeldBack ==
  ASSUME HeldBack, CallerSpeaks
  PROVE  HeldBack'
<1>1. /\ UNCHANGED <<waiting, forwarded, gate, finals, batch, pump, watchdog>>
      /\ frames = "idle" /\ frames' \in {"audio", "start", "stop", "end"}
  BY DEF CallerSpeaks, Speak, Silence, Starts, Stops, Ends, run_stt,
         cancel_finalization_watchdog, eventVars, endpointVars, orderVars, streamVars
<1> QED
  BY <1>1, GateUnchanged

LEMMA FrameKeepsHeldBack ==
  ASSUME HeldBack, Frame
  PROVE  HeldBack'
<1>1. CASE vad_start \/ end_flush
  <2>1. /\ UNCHANGED <<waiting, forwarded, gate, finals, batch, pump, watchdog>>
        /\ frames # "forward" /\ frames' # "forward"
    BY <1>1 DEF vad_start, end_flush, eventVars, endpointVars, orderVars
  <2> QED
    BY <2>1, GateUnchanged
<1>2. CASE vad_stop
  <2>1. /\ frames = "stop" /\ watchdog = "none" /\ pump # "drain"
        /\ UNCHANGED <<forwarded, finals, batch, pump>>
    BY <1>2 DEF vad_stop, eventVars
  <2>2. CASE stop_is_complete
    BY <2>1, <2>2, GateUnchanged DEF stop_is_complete
  <2>3. CASE stop_waits
    <3>1. /\ frames' = "forward" /\ waiting' = waiting + 1 /\ watchdog' = "waiting"
          /\ gate' = FALSE
      BY <2>3 DEF stop_waits
    <3>2. \E S : finals' \in Seq(S) /\ \A e \in S : e.after \in Nat /\ e.after =< waiting'
      <4>1. PICK S : finals \in Seq(S) /\ \A e \in S : e.after \in Nat /\ e.after =< waiting
        BY DEF HeldBack
      <4>2. \A e \in S : e.after \in Nat /\ e.after =< waiting'
        BY <3>1, <4>1 DEF HeldBack
      <4> QED
        BY <2>1, <4>1, <4>2
    <3> QED
      BY <2>1, <3>1, <3>2 DEF HeldBack
  <2> QED
    BY <1>2, <2>2, <2>3 DEF vad_stop
<1>3. CASE stop_forwarded
  <2>1. /\ frames = "forward" /\ frames' = "drain" /\ gate' = TRUE /\ forwarded' = forwarded + 1
        /\ UNCHANGED <<waiting, finals, batch, pump, watchdog>>
    BY <1>3 DEF stop_forwarded, eventVars
  <2>2. \A t \in Tasks : \A e \in batch[t] : e.after \in Nat /\ e.after =< forwarded'
    BY <2>1 DEF HeldBack
  <2> QED
    BY <2>1, <2>2 DEF HeldBack
<1>4. CASE \E t \in Tasks : take(t) /\ frames # "forward" /\ frames' # "forward"
  BY <1>4, TakeKeepsHeldBack
<1>5. CASE push("frames") /\ frames \in {"push", "last"} /\ frames' # "forward"
  <2>1. /\ batch' = [batch EXCEPT !["frames"] = {}]
        /\ UNCHANGED <<waiting, forwarded, gate, finals>>
    BY <1>5 DEF push, eventVars, endpointVars, orderVars
  <2> QED
    BY <1>5, <2>1, PushKeepsHeldBack DEF Tasks
<1> QED
  BY <1>1, <1>2, <1>3, <1>4, <1>5 DEF Frame, frames_push, end_push, Tasks

LEMMA NextKeepsHeldBack ==
  ASSUME HeldBack, [Next]_vars
  PROVE  HeldBack'
<1>1. CASE SpeechStep
  BY <1>1, JobKeepsHeldBack, PumpKeepsHeldBack, WatchdogKeepsHeldBack, CallerKeepsHeldBack,
     FrameKeepsHeldBack DEF SpeechStep, Service
<1>2. CASE \/ Turn \/ Request \/ Response \/ Interruption
           \/ EmbeddingStep \/ IssueStep \/ StreamStep \/ MemoryStep \/ UNCHANGED vars
  <2>1. UNCHANGED speechVars
    BY <1>2 DEF Turn, Request, Response, Interruption, EmbeddingStep, IssueStep, StreamStep,
                MemoryStep, vars
  <2> QED
    BY <2>1, GateUnchanged DEF speechVars, eventVars, endpointVars, taskVars, orderVars, HeldBack
<1> QED
  BY <1>1, <1>2 DEF Next

THEOREM FinalsAlwaysHeldBack == Spec => []HeldBack
<1>1. Init => HeldBack
  BY InitHeldBack DEF Init
<1>2. HeldBack /\ [Next]_vars => HeldBack'
  BY NextKeepsHeldBack
<1> QED
  BY <1>1, <1>2, PTL DEF Spec

\* The transcript of an endpoint never overtakes the frame that says the caller has
\* stopped, whichever of the three tasks pushes it (moonshine_stt.py).
THEOREM FinalsFollowStop == Spec => FinalAfterStop
<1>1. HeldBack =>
        [\A t \in Tasks : delivered' # delivered => \A e \in batch[t] : e.after =< forwarded]_speechVars
  BY DEF HeldBack
<1> QED
  BY <1>1, FinalsAlwaysHeldBack, PTL DEF FinalAfterStop

---------------------------------------------------------------------------
\* The request and its tools.

\* Only a request that still tries has taken the tools away; one that is read has a stream
\* or the recovery; and what is called answered gave the caller something.
RequestInv ==
  /\ StreamTypeOK
  /\ request.disabled => Trying
  /\ request.pc = "stream" => request.stream # "none"
  /\ request.ended = "answered" => request.output

RequestRows ==
  [pc : {"idle", "create", "prefetch", "stream"}, attempt : 0..MaxAttempts,
   disabled : BOOLEAN, stream : {"none", "live", "closed", "recovery"},
   output : BOOLEAN, ended : {"none", "answered", "raised", "cancelled"}]

LEMMA NoRequestIsRow ==
  ASSUME NEW ended \in {"none", "answered", "raised", "cancelled"}
  PROVE  /\ NoRequest(ended) \in RequestRows
         /\ NoRequest(ended).pc = "idle" /\ ~NoRequest(ended).disabled
         /\ ~NoRequest(ended).output /\ NoRequest(ended).ended = ended
<1>1. 0 \in 0..MaxAttempts
  BY StreamAssumption
<1>2. NoRequest(ended) \in RequestRows
  BY <1>1 DEF NoRequest, RequestRows
<1>3. /\ NoRequest(ended).pc = "idle" /\ ~NoRequest(ended).disabled
         /\ ~NoRequest(ended).output /\ NoRequest(ended).ended = ended
  BY DEF NoRequest
<1> QED
  BY <1>2, <1>3

LEMMA EndedIsRow ==
  ASSUME StreamTypeOK, NEW how \in {"none", "answered", "raised", "cancelled"}, Ended(how)
  PROVE  /\ request' \in RequestRows
         /\ request'.pc = "idle" /\ ~request'.disabled
         /\ request'.output = request.output /\ request'.ended = how
<1>1. request.output \in BOOLEAN
  BY DEF StreamTypeOK
<1> QED
  BY <1>1, NoRequestIsRow DEF Ended, RequestRows

LEMMA StepKeepsRequestInv ==
  ASSUME RequestInv, RequestStep
  PROVE  RequestInv'
<1>1. StreamTypeOK /\ MaxAttempts \in Nat /\ UNCHANGED offered
  BY StreamAssumption DEF RequestInv, RequestStep
<1>2. CASE stream_created
  BY <1>1, <1>2 DEF stream_created, RequestInv, StreamTypeOK, Trying
<1>3. CASE first_output
  BY <1>1, <1>3 DEF first_output, leave_attempts, Restored, RequestInv, StreamTypeOK, Trying
<1>4. CASE \E disabled \in BOOLEAN :
             Trying /\ (request.disabled => disabled) /\ try_again(disabled)
  <2>1. PICK disabled \in BOOLEAN : Trying /\ (request.disabled => disabled) /\ try_again(disabled)
    BY <1>4
  <2>2. /\ request \in RequestRows /\ request.attempt + 1 \in 0..MaxAttempts
        /\ (IF request.stream = "live" THEN "closed" ELSE request.stream)
             \in {"none", "closed", "recovery"}
    BY <1>1, <2>1 DEF try_again, StreamTypeOK, RequestRows
  <2>3. request' = [request EXCEPT !.pc = "create", !.attempt = request.attempt + 1,
                                   !.disabled = disabled,
                                   !.stream = IF request.stream = "live" THEN "closed"
                                              ELSE request.stream]
    BY <2>1 DEF try_again
  <2>4. /\ request' \in RequestRows /\ request'.pc = "create" /\ request'.disabled = disabled
        /\ request'.ended = request.ended /\ request'.output = request.output
    BY <2>2, <2>3 DEF RequestRows
  <2>5. tools' = IF disabled THEN "none" ELSE offered
    BY <1>1, <2>1 DEF try_again, StreamTypeOK
  <2> QED
    BY <1>1, <2>4, <2>5 DEF RequestInv, StreamTypeOK, RequestRows, Trying
<1>5. CASE attempt_fails
  <2>1. CASE try_again(request.disabled)
    BY <1>1, <1>4, <1>5, <2>1 DEF attempt_fails, StreamTypeOK
  <2>2. CASE ~try_again(request.disabled)
    BY <1>1, <1>5, <2>2 DEF attempt_fails, Restored, RequestInv, StreamTypeOK, Trying
  <2> QED
    BY <2>1, <2>2
<1>6. CASE tool_call_rejected
  BY <1>4, <1>6 DEF tool_call_rejected
<1>7. CASE request_raises
  <2>1. Ended("raised") /\ tools' = Restored
    BY <1>7 DEF request_raises
  <2> QED
    BY <1>1, <2>1, EndedIsRow DEF RequestRows, Restored, RequestInv, StreamTypeOK, Trying
<1>8. CASE output \/ deadline
  BY <1>1, <1>8 DEF output, deadline, RequestInv, StreamTypeOK, Trying
<1>9. CASE recovery_spoken
  <2>1. /\ ~request.disabled /\ UNCHANGED tools
        /\ request' = [NoRequest("answered") EXCEPT !.output = TRUE]
    BY <1>9 DEF recovery_spoken, RequestInv, Trying
  <2> QED
    BY <1>1, <2>1, NoRequestIsRow DEF RequestRows, RequestInv, StreamTypeOK, Trying
<1>10. CASE stream_raises
  <2>1. ~request.disabled /\ Ended("raised") /\ UNCHANGED tools
    BY <1>10 DEF stream_raises, RequestInv, Trying
  <2> QED
    BY <1>1, <2>1, EndedIsRow DEF RequestRows, RequestInv, StreamTypeOK, Trying
<1> QED
  BY <1>2, <1>3, <1>5, <1>6, <1>7, <1>8, <1>9, <1>10 DEF RequestStep

LEMMA NextKeepsRequestInv ==
  ASSUME RequestInv, [Next]_vars
  PROVE  RequestInv'
<1>1. StreamTypeOK /\ MaxAttempts \in Nat \ {0}
  BY StreamAssumption DEF RequestInv
<1>2. CASE UNCHANGED requestVars
  BY <1>2 DEF requestVars, RequestInv, StreamTypeOK, Trying
<1>3. CASE Request
  <2>1. CASE \E chosen \in {"all", "issue"} : start_request(chosen)
    <3>1. PICK chosen \in {"all", "issue"} : start_request(chosen)
      BY <2>1
    <3>2. /\ tools' = chosen /\ offered' = chosen
          /\ request' = [NoRequest("none") EXCEPT !.pc = "create", !.attempt = 1]
      BY <3>1 DEF start_request
    <3>3. /\ NoRequest("none") \in RequestRows /\ 1 \in 0..MaxAttempts
          /\ ~NoRequest("none").disabled /\ NoRequest("none").ended = "none"
      BY <1>1, NoRequestIsRow
    <3>4. /\ request' \in RequestRows /\ request'.pc = "create" /\ ~request'.disabled
          /\ request'.ended = "none"
      BY <3>2, <3>3 DEF RequestRows
    <3> QED
      BY <3>2, <3>4 DEF RequestRows, RequestInv, StreamTypeOK, Trying
  <2> QED
    BY <1>2, <1>3, <2>1 DEF Request
<1>4. CASE Response
  <2>1. CASE stream_ends
    <3>1. request.output /\ ~request.disabled /\ Ended("answered") /\ UNCHANGED <<tools, offered>>
      BY <2>1 DEF stream_ends, RequestInv, Trying
    <3> QED
      BY <1>1, <3>1, EndedIsRow DEF RequestRows, RequestInv, StreamTypeOK, Trying
  <2> QED
    BY <1>2, <1>4, <2>1 DEF Response
<1>5. CASE Interruption
  <2>1. CASE request.pc # "idle"
    <3>1. tools' = Restored /\ Ended("cancelled") /\ UNCHANGED offered
      BY <1>5, <2>1 DEF Interruption, cancel_request
    <3> QED
      BY <1>1, <3>1, EndedIsRow DEF RequestRows, Restored, RequestInv, StreamTypeOK, Trying
  <2> QED
    BY <1>2, <1>5, <2>1 DEF Interruption, cancel_request
<1>6. CASE StreamStep
  BY <1>2, <1>6, StepKeepsRequestInv DEF StreamStep
<1> QED
  BY <1>2, <1>3, <1>4, <1>5, <1>6
     DEF Next, Turn, SpeechStep, EmbeddingStep, IssueStep, MemoryStep, vars, modelVars

\* The request, its tools and its stream are as RequestInv says in every reachable state.
THEOREM RequestAlwaysSound == Spec => []RequestInv
<1>1. Init => RequestInv
  BY NoRequestIsRow DEF Init, StreamInit, RequestRows, RequestInv, StreamTypeOK, Trying
<1>2. RequestInv /\ [Next]_vars => RequestInv'
  BY NextKeepsRequestInv
<1> QED
  BY <1>1, <1>2, PTL DEF Spec

\* The safety in RequestEnds: however its attempts and its stream end, a request that is
\* over has given the context its tools back, and is answered only with something for the
\* caller (groq_llm.py, stream_timeout.py).
THEOREM ToolsComeBack ==
  Spec => [](request.pc = "idle" =>
               tools = offered /\ (request.ended = "answered" => request.output))
<1>1. RequestInv =>
        (request.pc = "idle" =>
           tools = offered /\ (request.ended = "answered" => request.output))
  BY DEF RequestInv, StreamTypeOK, Trying
<1> QED
  BY <1>1, RequestAlwaysSound, PTL

---------------------------------------------------------------------------
\* The circuit breaker.

AskerStates ==
  [query : Queries \cup {"none"}, state : {"idle", "waiting", "answered", "raised"}]

\* A circuit that is not closed has all its failures, so that a probe that fails opens it
\* again, and who waits knows what for.
CircuitInv ==
  /\ EmbeddingTypeOK
  /\ circuit # "closed" => failures = Threshold
  /\ IsFiniteSet(inflight) /\ asker \in [Askers -> AskerStates]

LEMMA InitCircuitInv == EmbeddingInit => CircuitInv
<1> SUFFICES ASSUME EmbeddingInit PROVE CircuitInv
  OBVIOUS
<1>1. Idle \in AskerStates
  BY DEF Idle, AskerStates
<1>2. IsFiniteSet({}) /\ Cardinality({}) = 0
  BY FS_EmptySet
<1>3. /\ asker \in [Askers -> AskerStates] /\ \A a \in Askers : asker[a] = Idle
      /\ 0 \in 0..Threshold /\ 0 \in 0..MaxOutages /\ 0 =< InflightMax
  BY <1>1, QueryEmbeddingAssumption DEF EmbeddingInit
<1> QED
  BY <1>2, <1>3 DEF EmbeddingInit, CircuitInv, EmbeddingTypeOK

\* What is recorded leaves a circuit that is closed or open, or the probe at work.
LEMMA RecordedCircuit ==
  ASSUME CircuitInv, record_success \/ record_failure
  PROVE  /\ circuit' \in {"closed", "open", "half_open"} /\ failures' \in 0..Threshold
         /\ cooled' \in BOOLEAN
         /\ circuit' # "closed" => failures' = Threshold
         /\ circuit' = "half_open" => FALSE
<1>1. /\ Threshold \in Nat \ {0} /\ failures \in 0..Threshold
      /\ circuit \in {"closed", "open", "half_open"} /\ cooled \in BOOLEAN
      /\ circuit # "closed" => failures = Threshold
  BY QueryEmbeddingAssumption DEF CircuitInv, EmbeddingTypeOK
<1>2. CASE record_success
  BY <1>1, <1>2 DEF record_success
<1>3. CASE record_failure
  <2>1. failures' \in 0..Threshold
    BY <1>1, <1>3 DEF record_failure
  <2>2. CASE failures' = Threshold
    <3>1. circuit' = "open" /\ cooled' = FALSE
      BY <1>3, <2>2 DEF record_failure
    <3> QED
      BY <2>1, <2>2, <3>1
  <2>3. CASE failures' # Threshold
    <3>1. UNCHANGED <<circuit, cooled>> /\ failures # Threshold
      BY <1>1, <1>3, <2>3 DEF record_failure
    <3> QED
      BY <1>1, <2>1, <3>1
  <2> QED
    BY <2>2, <2>3
<1> QED
  BY <1>2, <1>3

\* An asker begins to wait, is answered or goes.
LEMMA AskerKeepsType ==
  ASSUME CircuitInv, NEW a \in Askers,
         Rest(a) \/ \E q \in Queries : Wait(a, q)
  PROVE  /\ asker' \in [Askers -> AskerStates]
         /\ \A b \in Askers : asker'[b] # Idle => asker'[b].query \in Queries
<1>1. /\ asker \in [Askers -> AskerStates] /\ Idle \in AskerStates
      /\ \A b \in Askers : asker[b] # Idle => asker[b].query \in Queries
  BY DEF CircuitInv, EmbeddingTypeOK, Idle, AskerStates
<1>2. CASE Rest(a)
  BY <1>1, <1>2 DEF Rest
<1>3. ASSUME NEW q \in Queries, Wait(a, q)
      PROVE  /\ asker' \in [Askers -> AskerStates]
             /\ \A b \in Askers : asker'[b] # Idle => asker'[b].query \in Queries
  <2> DEFINE waits == [query |-> q, state |-> "waiting"]
  <2>1. waits \in AskerStates /\ waits.query = q
    BY DEF AskerStates
  <2>2. asker' = [asker EXCEPT ![a] = waits]
    BY <1>3 DEF Wait
  <2> HIDE DEF waits
  <2> QED
    BY <1>1, <2>1, <2>2
<1> QED
  BY <1>2, <1>3

LEMMA QueryKeepsCircuitInv ==
  ASSUME CircuitInv, NEW a \in Askers, NEW q \in Queries, query_knowledge_embedding(a, q)
  PROVE  CircuitInv'
<1>1. UNCHANGED <<cache, up, outages>>
  BY DEF query_knowledge_embedding
<1>2. CASE bypassed
  <2>1. UNCHANGED <<failures, cooled, inflight, asker>>
    BY <1>2 DEF bypassed
  <2>2. /\ circuit' \in {"closed", "open", "half_open"} /\ probe' \in BOOLEAN
        /\ circuit' # "closed" => failures = Threshold
        /\ circuit' = "half_open" => probe'
    BY <1>2 DEF bypassed, CircuitInv, EmbeddingTypeOK
  <2> QED
    BY <1>1, <2>1, <2>2 DEF CircuitInv, EmbeddingTypeOK
<1>3. CASE (record_success \/ record_failure) /\ UNCHANGED <<inflight, asker, probe>>
  BY <1>1, <1>3, RecordedCircuit DEF CircuitInv, EmbeddingTypeOK
<1>4. CASE /\ q \in inflight \/ Cardinality(inflight) < InflightMax
           /\ inflight' = inflight \cup {q} /\ Wait(a, q)
           /\ UNCHANGED <<circuit, failures, cooled, probe>>
  <2>1. /\ IsFiniteSet(inflight) /\ Cardinality(inflight) \in Nat
        /\ InflightMax \in Nat /\ Cardinality(inflight) =< InflightMax
    BY FS_CardinalityType, QueryEmbeddingAssumption DEF CircuitInv, EmbeddingTypeOK
  <2>2. /\ IsFiniteSet(inflight \cup {q})
        /\ Cardinality(inflight \cup {q}) =
             IF q \in inflight THEN Cardinality(inflight) ELSE Cardinality(inflight) + 1
    BY <2>1, FS_AddElement
  <2>3. IsFiniteSet(inflight') /\ Cardinality(inflight') =< InflightMax
    BY <1>4, <2>1, <2>2
  <2>4. inflight' \subseteq Queries
    BY <1>4 DEF CircuitInv, EmbeddingTypeOK
  <2> QED
    BY <1>1, <1>4, <2>3, <2>4, AskerKeepsType DEF CircuitInv, EmbeddingTypeOK
<1> QED
  BY <1>2, <1>3, <1>4 DEF query_knowledge_embedding, allowed

LEMMA TaskKeepsCircuitInv ==
  ASSUME CircuitInv, NEW q \in Queries, run_query_embedding(q)
  PROVE  CircuitInv'
<1>1. /\ inflight' = inflight \ {q} /\ cache' \subseteq cache \cup {q}
      /\ UNCHANGED <<circuit, failures, cooled, probe, up, outages>>
  BY DEF run_query_embedding
<1>2. PICK state \in {"answered", "raised"} :
        asker' = [b \in Askers |-> IF asker[b] = [query |-> q, state |-> "waiting"]
                                   THEN [asker[b] EXCEPT !.state = state] ELSE asker[b]]
  BY DEF run_query_embedding
<1>3. /\ IsFiniteSet(inflight') /\ Cardinality(inflight') =< InflightMax
      /\ inflight' \subseteq Queries /\ cache' \subseteq Queries
  <2>1. /\ IsFiniteSet(inflight) /\ Cardinality(inflight) \in Nat /\ q \in inflight
        /\ InflightMax \in Nat /\ Cardinality(inflight) =< InflightMax
    BY FS_CardinalityType, QueryEmbeddingAssumption
       DEF CircuitInv, EmbeddingTypeOK, run_query_embedding
  <2>2. IsFiniteSet(inflight') /\ Cardinality(inflight') =< InflightMax
    BY <1>1, <2>1, FS_RemoveElement
  <2> QED
    BY <1>1, <2>2 DEF CircuitInv, EmbeddingTypeOK
<1>4. \A b \in Askers : /\ asker'[b] \in AskerStates
                        /\ asker'[b] # Idle => asker'[b].query \in Queries
  <2> SUFFICES ASSUME NEW b \in Askers
               PROVE  /\ asker'[b] \in AskerStates
                      /\ asker'[b] # Idle => asker'[b].query \in Queries
    OBVIOUS
  <2>1. asker[b] \in AskerStates /\ (asker[b] # Idle => asker[b].query \in Queries)
    BY DEF CircuitInv, EmbeddingTypeOK
  <2>2. CASE asker[b] = [query |-> q, state |-> "waiting"]
    <3>1. asker[b].query = q /\ asker'[b] = [asker[b] EXCEPT !.state = state]
      BY <1>2, <2>2
    <3> QED
      BY <2>1, <3>1 DEF AskerStates
  <2>3. CASE asker[b] # [query |-> q, state |-> "waiting"]
    BY <1>2, <2>1, <2>3
  <2> QED
    BY <2>2, <2>3
<1>5. asker' \in [Askers -> AskerStates]
  BY <1>2, <1>4
<1> QED
  BY <1>1, <1>3, <1>4, <1>5 DEF CircuitInv, EmbeddingTypeOK

LEMMA StepKeepsCircuitInv ==
  ASSUME CircuitInv, Embedding
  PROVE  CircuitInv'
<1>1. ASSUME NEW q \in Queries, evict(q) PROVE CircuitInv'
  BY <1>1 DEF evict, CircuitInv, EmbeddingTypeOK
<1>2. ASSUME NEW a \in Askers, outcome(a) PROVE CircuitInv'
  <2>1. /\ record_success \/ record_failure
        /\ Rest(a) /\ UNCHANGED <<probe, inflight, cache, up, outages>>
    BY <1>2 DEF outcome
  <2> QED
    BY <2>1, RecordedCircuit, AskerKeepsType DEF CircuitInv, EmbeddingTypeOK
<1>3. CASE recovery_probe
  <2>1. /\ record_success \/ record_failure
        /\ probe' = FALSE /\ UNCHANGED <<inflight, cache, asker, up, outages>>
    BY <1>3 DEF recovery_probe
  <2> QED
    BY <2>1, RecordedCircuit DEF CircuitInv, EmbeddingTypeOK
<1>4. CASE cooldown
  BY <1>4 DEF cooldown, CircuitInv, EmbeddingTypeOK
<1>5. CASE provider_fails \/ provider_recovers
  <2>1. /\ up' \in BOOLEAN
        /\ UNCHANGED <<circuit, failures, cooled, probe, inflight, cache, asker>>
    BY <1>5 DEF provider_fails, provider_recovers
  <2>2. outages' \in 0..MaxOutages
    BY <1>5, QueryEmbeddingAssumption
       DEF provider_fails, provider_recovers, CircuitInv, EmbeddingTypeOK
  <2> QED
    BY <2>1, <2>2 DEF CircuitInv, EmbeddingTypeOK
<1> QED
  BY <1>1, <1>2, <1>3, <1>4, <1>5, TaskKeepsCircuitInv DEF Embedding

LEMMA NextKeepsCircuitInv ==
  ASSUME CircuitInv, scope \in Scopes, [Next]_vars
  PROVE  CircuitInv'
<1>1. CASE UNCHANGED embeddingVars
  BY <1>1 DEF embeddingVars, CircuitInv, EmbeddingTypeOK
<1>2. scope \in ScopeType /\ Own \in Askers
  BY CallerAssumption
<1>3. CASE Response
  <2>1. CASE \E q \in scope.asks : query_knowledge_embedding(Own, q)
    BY <1>2, <2>1, QueryKeepsCircuitInv DEF ScopeType
  <2> QED
    BY <1>1, <1>3, <2>1 DEF Response
<1>4. CASE Interruption
  <2>1. /\ UNCHANGED <<circuit, failures, cooled, probe, inflight, cache, up, outages>>
        /\ asker' = asker \/ Rest(Own)
    BY <1>4 DEF Interruption, cancel_query
  <2>2. /\ asker' \in [Askers -> AskerStates]
        /\ \A b \in Askers : asker'[b] # Idle => asker'[b].query \in Queries
    BY <1>2, <2>1, AskerKeepsType DEF CircuitInv, EmbeddingTypeOK
  <2> QED
    BY <2>1, <2>2 DEF CircuitInv, EmbeddingTypeOK
<1>5. CASE EmbeddingStep
  <2>1. CASE OthersAsk
    BY <1>2, <2>1, QueryKeepsCircuitInv DEF OthersAsk, ScopeType
  <2> QED
    BY <1>5, <2>1, StepKeepsCircuitInv DEF EmbeddingStep
<1> QED
  BY <1>1, <1>3, <1>4, <1>5
     DEF Next, Turn, Request, SpeechStep, IssueStep, StreamStep, MemoryStep, vars

\* The circuit and its probe are as CircuitInv says in every reachable state.
THEOREM CircuitAlwaysSound == Spec => []CircuitInv
<1>1. Init => CircuitInv
  BY InitCircuitInv DEF Init
<1>2. (CircuitInv /\ scope \in Scopes) /\ [Next]_vars => CircuitInv'
  BY NextKeepsCircuitInv
<1> QED
  BY <1>1, <1>2, IssueAlwaysSound, PTL DEF Spec

\* A circuit that is half open has its probe at work, which will close or open it, and no
\* more queries are computed at a time than the cache admits, each once
\* (services/knowledge/embedding.py).
THEOREM CircuitTypeCorrect == Spec => []EmbeddingTypeOK
<1>1. CircuitInv => EmbeddingTypeOK
  BY DEF CircuitInv
<1> QED
  BY <1>1, CircuitAlwaysSound, PTL

---------------------------------------------------------------------------
\* The words.

\* The words of a sequence of jobs or finals, and that they are in order.
WordsOf(s) == UNION {s[i].words : i \in 1..Len(s)}
Precede(A, B) == \A v \in A, w \in B : v < w
InTurn(s) == \A i, j \in 1..Len(s) : i < j => Precede(s[i].words, s[j].words)
Single(s) == \A i, j \in 1..Len(s) : s[i].kind = s[j].kind => i = j

LEMMA WordsAppended ==
  ASSUME NEW S, NEW s \in Seq(S), NEW e \in S
  PROVE  /\ WordsOf(Append(s, e)) = WordsOf(s) \cup e.words
         /\ InTurn(s) /\ Precede(WordsOf(s), e.words) => InTurn(Append(s, e))
<1> DEFINE r == Append(s, e)
<1>1. /\ Len(s) \in Nat /\ Len(r) = Len(s) + 1 /\ r[Len(s) + 1] = e
      /\ \A i \in 1..Len(s) : r[i] = s[i]
  OBVIOUS
<1> HIDE DEF r
<1>2. WordsOf(r) = WordsOf(s) \cup e.words
  <2>1. WordsOf(r) \subseteq WordsOf(s) \cup e.words
    <3>1. ASSUME NEW i \in 1..Len(r) PROVE r[i].words \subseteq WordsOf(s) \cup e.words
      <4>1. CASE i \in 1..Len(s)
        BY <1>1, <4>1 DEF WordsOf
      <4>2. CASE i = Len(s) + 1
        BY <1>1, <4>2
      <4> QED
        BY <1>1, <4>1, <4>2
    <3> QED
      BY <3>1 DEF WordsOf
  <2>2. ASSUME NEW i \in 1..Len(s) PROVE s[i].words \subseteq WordsOf(r)
    <3>1. i \in 1..Len(r) /\ r[i] = s[i]
      BY <1>1
    <3> QED
      BY <3>1 DEF WordsOf
  <2>3. e.words \subseteq WordsOf(r)
    <3>1. Len(s) + 1 \in 1..Len(r)
      BY <1>1
    <3> QED
      BY <1>1, <3>1 DEF WordsOf
  <2>4. WordsOf(s) \subseteq WordsOf(r)
    BY <2>2 DEF WordsOf
  <2> QED
    BY <2>1, <2>3, <2>4
<1>3. ASSUME InTurn(s), Precede(WordsOf(s), e.words) PROVE InTurn(r)
  <2>1. ASSUME NEW i \in 1..Len(r), NEW j \in 1..Len(r), i < j
        PROVE  Precede(r[i].words, r[j].words)
    <3>1. i \in 1..Len(s) /\ r[i] = s[i] /\ s[i].words \subseteq WordsOf(s)
      BY <1>1, <2>1 DEF WordsOf
    <3>2. CASE j \in 1..Len(s)
      BY <1>1, <1>3, <2>1, <3>1, <3>2 DEF InTurn
    <3>3. CASE j = Len(s) + 1
      BY <1>1, <1>3, <3>1, <3>3 DEF Precede
    <3> QED
      BY <1>1, <3>2, <3>3
  <2> QED
    BY <2>1 DEF InTurn
<1> QED
  BY <1>2, <1>3 DEF r

LEMMA WordsBehind ==
  ASSUME NEW S, NEW s \in Seq(S), s # <<>>
  PROVE  /\ WordsOf(s) = Head(s).words \cup WordsOf(Tail(s))
         /\ InTurn(s) => InTurn(Tail(s)) /\ Precede(Head(s).words, WordsOf(Tail(s)))
<1> DEFINE r == Tail(s)
<1>1. /\ Len(s) \in Nat \ {0} /\ Len(r) = Len(s) - 1 /\ Head(s) = s[1]
      /\ \A i \in 1..Len(r) : r[i] = s[i + 1] /\ i + 1 \in 1..Len(s)
  OBVIOUS
<1> HIDE DEF r
<1>2. ASSUME NEW i \in 1..Len(s) PROVE i = 1 \/ (i - 1 \in 1..Len(r) /\ r[i - 1] = s[i])
  <2>1. i # 1 => i - 1 \in 1..Len(r) /\ (i - 1) + 1 = i
    BY <1>1
  <2> QED
    BY <1>1, <2>1
<1>3. WordsOf(s) \subseteq Head(s).words \cup WordsOf(r)
  <2>1. ASSUME NEW i \in 1..Len(s) PROVE s[i].words \subseteq Head(s).words \cup WordsOf(r)
    BY <1>1, <1>2 DEF WordsOf
  <2> QED
    BY <2>1 DEF WordsOf
<1>4. WordsOf(r) \subseteq WordsOf(s) /\ Head(s).words \subseteq WordsOf(s)
  <2>1. 1 \in 1..Len(s)
    BY <1>1
  <2> QED
    BY <1>1, <2>1 DEF WordsOf
<1>5. InTurn(s) => InTurn(r)
  BY <1>1 DEF InTurn
<1>6. InTurn(s) => Precede(Head(s).words, WordsOf(r))
  <2>1. ASSUME InTurn(s), NEW i \in 1..Len(r) PROVE Precede(Head(s).words, r[i].words)
    <3>1. 1 \in 1..Len(s) /\ i + 1 \in 1..Len(s) /\ 1 < i + 1 /\ r[i] = s[i + 1]
      BY <1>1
    <3> QED
      BY <1>1, <2>1, <3>1 DEF InTurn
  <2> QED
    BY <2>1 DEF WordsOf, Precede
<1> QED
  BY <1>3, <1>4, <1>5, <1>6 DEF r

\* A job without words is withdrawn.
LEMMA WordsBeside ==
  ASSUME NEW S, NEW s \in Seq(S), NEW i \in 1..Len(s), s[i].words = {}
  PROVE  /\ RemoveAt(s, i) \in Seq(S) /\ WordsOf(RemoveAt(s, i)) = WordsOf(s)
         /\ InTurn(s) => InTurn(RemoveAt(s, i))
         /\ \A k \in 1..Len(RemoveAt(s, i)) :
              \E j \in 1..Len(s) : j # i /\ RemoveAt(s, i)[k] = s[j]
         /\ Single(s) => Single(RemoveAt(s, i))
<1> DEFINE before == SubSeq(s, 1, i - 1)
           after == SubSeq(s, i + 1, Len(s))
           r == before \o after
           from(k) == IF k < i THEN k ELSE k + 1
<1>1. /\ before \in Seq(S) /\ after \in Seq(S) /\ Len(before) = i - 1 /\ Len(after) = Len(s) - i
      /\ \A k \in 1..(i - 1) : before[k] = s[k]
      /\ \A k \in 1..(Len(s) - i) : after[k] = s[i + k]
      /\ Len(s) \in Nat
  <2> HIDE DEF r, from
  <2>1. Len(s) \in Nat /\ i \in Nat /\ \A k \in 1..Len(s) : s[k] \in S
    OBVIOUS
  <2>2. /\ before \in Seq(S) /\ Len(before) = i - 1
        /\ \A k \in 1..(i - 1) : before[k] = s[k]
    BY <2>1
  <2>3. /\ after \in Seq(S) /\ Len(after) = Len(s) - i
        /\ \A k \in 1..(Len(s) - i) : after[k] = s[i + k]
    BY <2>1
  <2> QED
    BY <2>1, <2>2, <2>3
<1> HIDE DEF before, after, from
<1>2. /\ r \in Seq(S) /\ Len(r) = Len(before) + Len(after)
      /\ \A k \in 1..(Len(before) + Len(after)) :
           r[k] = IF k =< Len(before) THEN before[k] ELSE after[k - Len(before)]
  <2>1. before \in Seq(S) /\ after \in Seq(S)
    BY <1>1
  <2> QED
    BY <2>1, ConcatProperties
<1> HIDE DEF r
<1>3. Len(r) = Len(s) - 1
  BY <1>1, <1>2
<1>4. ASSUME NEW k \in 1..Len(r)
      PROVE  from(k) \in 1..Len(s) /\ from(k) # i /\ r[k] = s[from(k)]
  <2>1. CASE k < i
    BY <1>1, <1>2, <1>3, <2>1 DEF from
  <2>2. CASE ~(k < i)
    <3>1. /\ ~(k =< i - 1) /\ k - (i - 1) \in 1..(Len(s) - i) /\ i + (k - (i - 1)) = k + 1
          /\ k \in 1..((i - 1) + (Len(s) - i)) /\ k + 1 \in 1..Len(s) /\ k + 1 # i
      BY <1>1, <1>3, <2>2
    <3>2. r[k] = after[k - (i - 1)]
      BY <1>1, <1>2, <3>1
    <3> QED
      BY <1>1, <2>2, <3>1, <3>2 DEF from
  <2> QED
    BY <2>1, <2>2
<1>5. ASSUME NEW j \in 1..Len(s), j # i PROVE \E k \in 1..Len(r) : from(k) = j
  <2>1. CASE j < i
    <3>1. j \in 1..Len(r)
      BY <1>1, <1>3, <2>1
    <3> QED
      BY <2>1, <3>1 DEF from
  <2>2. CASE j > i
    <3>1. j - 1 \in 1..Len(r) /\ ~(j - 1 < i) /\ (j - 1) + 1 = j
      BY <1>1, <1>3, <2>2
    <3> QED
      BY <3>1 DEF from
  <2> QED
    BY <1>5, <2>1, <2>2
<1>6. \A k, l \in 1..Len(r) : k < l => from(k) < from(l)
  BY <1>3 DEF from
<1>7. WordsOf(r) = WordsOf(s)
  <2>1. WordsOf(r) \subseteq WordsOf(s)
    BY <1>4 DEF WordsOf
  <2>2. ASSUME NEW j \in 1..Len(s) PROVE s[j].words \subseteq WordsOf(r)
    <3>1. CASE j = i
      BY <3>1
    <3>2. CASE j # i
      <4>1. PICK k \in 1..Len(r) : from(k) = j
        BY <1>5, <3>2
      <4>2. r[k].words = s[j].words
        BY <1>4, <4>1
      <4> QED
        BY <4>2 DEF WordsOf
    <3> QED
      BY <3>1, <3>2
  <2> QED
    BY <2>1, <2>2 DEF WordsOf
<1>8. InTurn(s) => InTurn(r)
  BY <1>4, <1>6 DEF InTurn
<1>9. \A k \in 1..Len(r) : \E j \in 1..Len(s) : j # i /\ r[k] = s[j]
  BY <1>4
<1>10. Single(s) => Single(r)
  <2>1. ASSUME Single(s), NEW k \in 1..Len(r), NEW l \in 1..Len(r), r[k].kind = r[l].kind
        PROVE  k = l
    <3>1. from(k) = from(l)
      BY <1>4, <2>1 DEF Single
    <3>2. ~(k < l) /\ ~(l < k)
      BY <1>4, <1>6, <3>1
    <3> QED
      BY <1>2, <1>3, <3>2
  <2> QED
    BY <2>1 DEF Single
<1>11. RemoveAt(s, i) = r
  BY DEF RemoveAt, r, before, after
<1> QED
  BY <1>2, <1>7, <1>8, <1>9, <1>10, <1>11

\* The words in the hands of the tasks.
Taken == UNION {UNION {e.words : e \in batch[t]} : t \in Tasks}

Finals == [stream : Nat, line : Nat, words : SUBSET Nat, after : Nat]
Jobs == [kind : {"audio", "flush"}, words : SUBSET Nat]

SpeechTypes ==
  /\ said \in Nat /\ waiting \in Nat
  /\ native \in [number : Nat, open : BOOLEAN, line : Nat, words : SUBSET Nat]
  /\ completed \subseteq [line : Nat, late : BOOLEAN]
  /\ finals \in Seq(Finals) /\ executor \in Seq(Jobs)
  /\ batch \in [Tasks -> SUBSET Finals]
  /\ \A s, t \in Tasks : batch[s] # {} /\ batch[t] # {} => s = t

\* A flush carries no words, and the audio is heard as it was sent.
JobsInv ==
  /\ InTurn(executor)
  /\ \A i \in 1..Len(executor) : executor[i].kind = "flush" => executor[i].words = {}

\* The lines of a stream are numbered on, so that a final whose line is marked as completed
\* was marked by a line of an older stream.
NextLine == IF native.open THEN native.line ELSE native.line + 1
LinesInv ==
  /\ ~native.open => native.words = {}
  /\ \A i \in 1..Len(finals) :
       /\ finals[i].stream =< native.number
       /\ finals[i].stream = native.number => finals[i].line < NextLine
  /\ \A i, j \in 1..Len(finals) :
       i < j => \/ finals[i].stream < finals[j].stream
                \/ finals[i].stream = finals[j].stream /\ finals[i].line < finals[j].line
  /\ \A m \in completed :
       ~m.late => /\ m.line < NextLine
                  /\ \A i \in 1..Len(finals) :
                       finals[i].stream = native.number /\ m.line < finals[i].line

\* Words go from the executor to the stream, to its finals, to a task and to the call,
\* and stay in the order in which they were said; none gets lost, except where nothing
\* waits for it.
OrderInv ==
  /\ Precede(delivered, Taken)
  /\ Precede(delivered \cup Taken, WordsOf(finals))
  /\ Precede(delivered \cup Taken \cup WordsOf(finals), native.words)
  /\ Precede(delivered \cup Taken \cup WordsOf(finals) \cup native.words, WordsOf(executor))

Placed ==
  delivered \cup excused \cup Taken \cup WordsOf(finals) \cup native.words \cup WordsOf(executor)

WordsInv ==
  /\ SpeechTypes /\ JobsInv /\ LinesInv /\ OrderInv
  /\ Placed = 1..said

LEMMA InitWordsInv == SpeechInit => WordsInv
<1> SUFFICES ASSUME SpeechInit PROVE WordsInv
  OBVIOUS
<1>1. /\ Len(finals) = 0 /\ Len(executor) = 0 /\ finals \in Seq(Finals) /\ executor \in Seq(Jobs)
      /\ said = 0 /\ waiting = 0 /\ completed = {} /\ delivered = {} /\ excused = {}
  BY DEF SpeechInit
<1>2. native = [number |-> 1, open |-> TRUE, line |-> 0, words |-> {}]
  BY DEF SpeechInit, Stream
<1>3. /\ native \in [number : Nat, open : BOOLEAN, line : Nat, words : SUBSET Nat]
      /\ native.words = {} /\ native.open
  BY <1>2
<1>4. batch \in [Tasks -> SUBSET Finals] /\ \A t \in Tasks : batch[t] = {}
  BY DEF SpeechInit
<1>5. WordsOf(finals) = {} /\ WordsOf(executor) = {} /\ Taken = {}
  BY <1>1, <1>4 DEF WordsOf, Taken
<1> QED
  BY <1>1, <1>3, <1>4, <1>5
     DEF WordsInv, SpeechTypes, JobsInv, InTurn, LinesInv, OrderInv, Precede, Placed

\* Steps that move no word, though nothing may wait for some from then on.
LEMMA NothingMoves ==
  ASSUME WordsInv, UNCHANGED <<native, completed, finals, executor, said, batch, delivered>>,
         excused \subseteq excused', excused' \subseteq 1..said, waiting' \in Nat
  PROVE  WordsInv'
<1>1. SpeechTypes' /\ JobsInv' /\ LinesInv'
  BY DEF WordsInv, SpeechTypes, JobsInv, InTurn, LinesInv, NextLine
<1>2. Taken' = Taken /\ WordsOf(finals)' = WordsOf(finals) /\ WordsOf(executor)' = WordsOf(executor)
  BY DEF Taken, WordsOf
<1>3. OrderInv' /\ Placed' = 1..said'
  BY <1>2 DEF WordsInv, OrderInv, Placed
<1> QED
  BY <1>1, <1>3 DEF WordsInv

\* A job is submitted: audio that was said last, or without words.
LEMMA SubmitKeepsWords ==
  ASSUME WordsInv, NEW kind \in {"audio", "flush"}, NEW words \in {{}, {said + 1}},
         kind = "flush" => words = {},
         Submit(kind, words), said' = said + (IF words = {} THEN 0 ELSE 1),
         UNCHANGED <<native, completed, finals, batch, delivered, excused, waiting>>
  PROVE  WordsInv'
<1> DEFINE e == [kind |-> kind, words |-> words]
<1>1. said \in Nat /\ executor \in Seq(Jobs) /\ Placed = 1..said
  BY DEF WordsInv, SpeechTypes
<1>2. e \in Jobs /\ e.words = words /\ e.kind = kind /\ executor' = Append(executor, e)
  BY <1>1 DEF Jobs, Submit
<1> HIDE DEF e
<1>3. Precede(WordsOf(executor), words) /\ Precede(Placed, words)
  BY <1>1 DEF Placed, Precede
<1>4. /\ executor' \in Seq(Jobs) /\ InTurn(executor')
      /\ WordsOf(executor') = WordsOf(executor) \cup words
      /\ \A i \in 1..Len(executor') : executor'[i].kind = "flush" => executor'[i].words = {}
  <2>1. InTurn(executor) /\ \A i \in 1..Len(executor) : executor[i].kind = "flush" => executor[i].words = {}
    BY DEF WordsInv, JobsInv
  <2>2. InTurn(executor') /\ WordsOf(executor') = WordsOf(executor) \cup words
    BY <1>1, <1>2, <1>3, <2>1, WordsAppended
  <2>3. ASSUME NEW i \in 1..Len(executor'), executor'[i].kind = "flush"
        PROVE  executor'[i].words = {}
    <3>1. (i \in 1..Len(executor) /\ executor'[i] = executor[i]) \/ executor'[i] = e
      BY <1>1, <1>2
    <3> QED
      BY <1>2, <2>1, <2>3, <3>1
  <2> QED
    BY <1>1, <1>2, <2>2, <2>3
<1>5. Taken' = Taken /\ WordsOf(finals)' = WordsOf(finals)
  BY DEF Taken, WordsOf
<1>6. SpeechTypes' /\ JobsInv' /\ LinesInv'
  <2>1. said' \in Nat
    BY <1>1
  <2>2. SpeechTypes'
    BY <1>4, <2>1 DEF WordsInv, SpeechTypes
  <2> QED
    BY <1>4, <2>2 DEF WordsInv, JobsInv, LinesInv, NextLine
<1>7. OrderInv'
  BY <1>3, <1>4, <1>5 DEF WordsInv, OrderInv, Placed, Precede
<1>8. Placed' = 1..said'
  BY <1>1, <1>4, <1>5 DEF Placed
<1> QED
  BY <1>6, <1>7, <1>8 DEF WordsInv

\* The words of the open line become a final, and the stream goes on or is closed.
LEMMA FinalKeepsWords ==
  ASSUME WordsInv, native.open, on_transcript_event,
         \/ native' = [native EXCEPT !.line = @ + 1, !.words = {}]
         \/ native' = [native EXCEPT !.open = FALSE, !.words = {}],
         JobsInv', executor' \in Seq(Jobs), WordsOf(executor') = WordsOf(executor),
         UNCHANGED <<completed, said, batch, delivered, excused, waiting>>
  PROVE  WordsInv'
<1> DEFINE e == [stream |-> native.number, line |-> native.line, words |-> native.words,
                 after |-> waiting]
<1>1. /\ SpeechTypes /\ finals \in Seq(Finals)
      /\ native \in [number : Nat, open : BOOLEAN, line : Nat, words : SUBSET Nat]
      /\ waiting \in Nat
  BY DEF WordsInv, SpeechTypes
<1>2. /\ e \in Finals /\ e.stream = native.number /\ e.line = native.line
      /\ e.words = native.words /\ finals' = Append(finals, e)
  BY <1>1 DEF Finals, on_transcript_event
<1> HIDE DEF e
<1>3. /\ native' \in [number : Nat, open : BOOLEAN, line : Nat, words : SUBSET Nat]
      /\ native'.number = native.number /\ native'.words = {}
      /\ NextLine = native.line /\ NextLine' = native.line + 1
  <2>1. CASE native' = [native EXCEPT !.line = @ + 1, !.words = {}]
    <3>1. native.line + 1 \in Nat /\ {} \in SUBSET Nat
      BY <1>1
    <3>2. /\ native' \in [number : Nat, open : BOOLEAN, line : Nat, words : SUBSET Nat]
          /\ native'.number = native.number /\ native'.words = {}
          /\ native'.line = native.line + 1 /\ native'.open = native.open
      BY <1>1, <2>1, <3>1
    <3> QED
      BY <3>2 DEF NextLine
  <2>2. CASE native' = [native EXCEPT !.open = FALSE, !.words = {}]
    <3>1. {} \in SUBSET Nat
      OBVIOUS
    <3>2. /\ native' \in [number : Nat, open : BOOLEAN, line : Nat, words : SUBSET Nat]
          /\ native'.number = native.number /\ native'.words = {}
          /\ native'.line = native.line /\ native'.open = FALSE
      BY <1>1, <2>2, <3>1
    <3> QED
      BY <3>2 DEF NextLine
  <2> QED
    BY <2>1, <2>2
<1>4. /\ finals' \in Seq(Finals) /\ Len(finals') = Len(finals) + 1 /\ Len(finals) \in Nat
      /\ finals'[Len(finals) + 1] = e /\ \A i \in 1..Len(finals) : finals'[i] = finals[i]
  BY <1>1, <1>2
<1>5. WordsOf(finals') = WordsOf(finals) \cup native.words
  BY <1>1, <1>2, WordsAppended
<1>6. LinesInv'
  <2>1. ASSUME NEW i \in 1..Len(finals')
        PROVE  /\ finals'[i].stream =< native'.number
               /\ finals'[i].stream = native'.number => finals'[i].line < NextLine'
    <3>1. CASE i \in 1..Len(finals)
      <4>1. finals[i].line \in Nat /\ native.line \in Nat
        <5>1. finals[i] \in Finals
          BY <1>1, <3>1
        <5> QED
          BY <1>1, <5>1 DEF Finals
      <4>2. /\ finals[i].stream =< native.number
            /\ finals[i].stream = native.number => finals[i].line < native.line
        BY <1>3, <3>1 DEF WordsInv, LinesInv
      <4> QED
        BY <1>3, <1>4, <3>1, <4>1, <4>2
    <3>2. CASE i = Len(finals) + 1
      BY <1>1, <1>2, <1>3, <1>4, <3>2
    <3> QED
      BY <1>4, <3>1, <3>2
  <2>2. ASSUME NEW i \in 1..Len(finals'), NEW j \in 1..Len(finals'), i < j
        PROVE  \/ finals'[i].stream < finals'[j].stream
               \/ finals'[i].stream = finals'[j].stream /\ finals'[i].line < finals'[j].line
    <3>1. i \in 1..Len(finals) /\ finals[i] \in Finals /\ finals'[i] = finals[i]
      BY <1>1, <1>4, <2>2
    <3>2. CASE j \in 1..Len(finals)
      BY <1>4, <2>2, <3>1, <3>2 DEF WordsInv, LinesInv
    <3>3. CASE j = Len(finals) + 1
      <4>1. /\ finals[i].stream =< native.number
            /\ finals[i].stream = native.number => finals[i].line < native.line
        BY <1>3, <3>1 DEF WordsInv, LinesInv
      <4>2. finals[i].stream \in Nat /\ native.number \in Nat
        BY <1>1, <3>1 DEF Finals
      <4> QED
        BY <1>2, <1>4, <3>1, <3>3, <4>1, <4>2
    <3> QED
      BY <1>4, <3>2, <3>3
  <2>3. ASSUME NEW m \in completed', ~m.late
        PROVE  /\ m.line < NextLine'
               /\ \A i \in 1..Len(finals') :
                    finals'[i].stream = native'.number /\ m.line < finals'[i].line
    <3>1. /\ m.line \in Nat /\ m.line < native.line
          /\ \A i \in 1..Len(finals) : finals[i].stream = native.number /\ m.line < finals[i].line
      BY <1>1, <1>3, <2>3 DEF WordsInv, LinesInv, SpeechTypes
    <3>2. ASSUME NEW i \in 1..Len(finals')
          PROVE  finals'[i].stream = native'.number /\ m.line < finals'[i].line
      <4>1. i \in 1..Len(finals) \/ i = Len(finals) + 1
        BY <1>4
      <4> QED
        BY <1>2, <1>3, <1>4, <3>1, <4>1
    <3> QED
      BY <1>1, <1>3, <3>1, <3>2
  <2> QED
    BY <1>3, <2>1, <2>2, <2>3 DEF LinesInv
<1>7. Taken' = Taken
  BY DEF Taken
<1>8. SpeechTypes'
  BY <1>1, <1>3, <1>4 DEF SpeechTypes
<1>9. OrderInv' /\ Placed' = 1..said'
  BY <1>3, <1>5, <1>7 DEF WordsInv, OrderInv, Placed, Precede
<1> QED
  BY <1>6, <1>8, <1>9 DEF WordsInv

\* The native thread runs a job.
LEMMA JobKeepsWords ==
  ASSUME WordsInv, RunJob
  PROVE  WordsInv'
<1> DEFINE job == Head(executor)
<1>1. /\ executor \in Seq(Jobs) /\ executor # <<>> /\ executor' = Tail(executor)
      /\ UNCHANGED <<said, batch, delivered, excused, waiting>>
  BY DEF RunJob, WordsInv, SpeechTypes, taskVars, callerVars, orderVars, outcomeVars
<1>2. /\ native \in [number : Nat, open : BOOLEAN, line : Nat, words : SUBSET Nat]
      /\ ~native.open => native.words = {}
  BY DEF WordsInv, SpeechTypes, LinesInv
<1>3. /\ job \in Jobs /\ executor' \in Seq(Jobs) /\ InTurn(executor')
      /\ WordsOf(executor) = job.words \cup WordsOf(executor')
      /\ Precede(job.words, WordsOf(executor'))
      /\ job.kind = "flush" => job.words = {}
      /\ \A i \in 1..Len(executor') : executor'[i].kind = "flush" => executor'[i].words = {}
  <2>1. InTurn(executor) /\ \A i \in 1..Len(executor) : executor[i].kind = "flush" => executor[i].words = {}
    BY DEF WordsInv, JobsInv
  <2>2. /\ 1 \in 1..Len(executor) /\ job = executor[1] /\ executor' \in Seq(Jobs)
        /\ \A i \in 1..Len(executor') : i + 1 \in 1..Len(executor) /\ executor'[i] = executor[i + 1]
    BY <1>1
  <2>3. /\ InTurn(executor') /\ WordsOf(executor) = job.words \cup WordsOf(executor')
        /\ Precede(job.words, WordsOf(executor'))
    BY <1>1, <2>1, WordsBehind
  <2> QED
    BY <1>1, <2>1, <2>2, <2>3
<1>4. JobsInv'
  BY <1>3 DEF JobsInv
<1> HIDE DEF job
<1>5. Taken' = Taken
  BY <1>1 DEF Taken
<1>6. CASE job.kind = "audio"
  <2>1. /\ native' = [Current EXCEPT !.words = @ \cup job.words]
        /\ completed' = IF native.open THEN completed ELSE {}
        /\ UNCHANGED finals
    BY <1>6 DEF RunJob, job, hear, eventVars
  <2>2. /\ native' \in [number : Nat, open : BOOLEAN, line : Nat, words : SUBSET Nat]
        /\ native'.words = native.words \cup job.words /\ native'.open = TRUE
        /\ IF native.open THEN native'.number = native.number /\ native'.line = native.line
           ELSE native'.number = native.number + 1
    <3>1. job.words \in SUBSET Nat
      BY <1>3 DEF Jobs
    <3>2. CASE native.open
      BY <1>2, <2>1, <3>1, <3>2 DEF Current
    <3>3. CASE ~native.open
      <4> DEFINE new == Stream(native.number + 1)
      <4>1. /\ new \in [number : Nat, open : BOOLEAN, line : Nat, words : SUBSET Nat]
            /\ new.words = {} /\ new.open = TRUE /\ new.number = native.number + 1
        BY <1>2 DEF Stream
      <4>2. native' = [new EXCEPT !.words = new.words \cup job.words]
        BY <2>1, <3>3 DEF Current
      <4> HIDE DEF new
      <4> QED
        BY <1>2, <3>1, <3>3, <4>1, <4>2
    <3> QED
      BY <3>2, <3>3
  <2>3. WordsOf(finals') = WordsOf(finals)
    BY <2>1
  <2>4. SpeechTypes'
    BY <1>1, <1>3, <2>1, <2>2 DEF WordsInv, SpeechTypes
  <2>5. LinesInv'
    <3>1. CASE native.open
      BY <2>1, <2>2, <3>1 DEF WordsInv, LinesInv, NextLine
    <3>2. CASE ~native.open
      <4>1. \A i \in 1..Len(finals) : finals[i].stream =< native.number /\ finals[i].stream \in Nat
        <5>1. \A i \in 1..Len(finals) : finals[i] \in Finals
          BY DEF WordsInv, SpeechTypes
        <5> QED
          BY <5>1 DEF WordsInv, LinesInv, Finals
      <4>2. \A i \in 1..Len(finals) : finals[i].stream =< native'.number /\ finals[i].stream # native'.number
        BY <1>2, <2>2, <3>2, <4>1
      <4> QED
        BY <2>1, <2>2, <3>2, <4>2 DEF WordsInv, LinesInv
    <3> QED
      BY <3>1, <3>2
  <2>6. OrderInv'
    BY <1>1, <1>3, <1>5, <2>2, <2>3 DEF WordsInv, OrderInv, Precede
  <2>7. Placed' = 1..said'
    BY <1>1, <1>3, <1>5, <2>2, <2>3 DEF WordsInv, Placed
  <2> QED
    BY <1>4, <2>4, <2>5, <2>6, <2>7 DEF WordsInv
<1>7. CASE job.kind # "audio"
  <2>1. /\ native' = [native EXCEPT !.open = FALSE, !.words = {}]
        /\ UNCHANGED completed
        /\ IF native.open /\ native.words # {} THEN on_transcript_event ELSE UNCHANGED finals
    BY <1>7 DEF RunJob, job, eventVars
  <2>2. job.words = {} /\ WordsOf(executor') = WordsOf(executor)
    <3>1. job.kind = "flush"
      BY <1>3, <1>7 DEF Jobs
    <3> QED
      BY <1>3, <3>1
  <2>3. CASE native.open /\ native.words # {}
    BY <1>1, <1>3, <1>4, <2>1, <2>2, <2>3, FinalKeepsWords
  <2>4. CASE ~(native.open /\ native.words # {})
    <3>1. /\ native' \in [number : Nat, open : BOOLEAN, line : Nat, words : SUBSET Nat]
          /\ native'.words = native.words /\ native'.open = FALSE
          /\ native'.number = native.number /\ native'.line = native.line
      BY <1>2, <2>1, <2>4
    <3>2. UNCHANGED <<finals, completed>> /\ WordsOf(finals') = WordsOf(finals) /\ native.words = {}
      BY <1>2, <2>1, <2>4
    <3>3. SpeechTypes'
      BY <1>1, <1>3, <3>1, <3>2 DEF WordsInv, SpeechTypes
    <3>4. LinesInv'
      <4>1. NextLine =< NextLine' /\ NextLine \in Nat /\ NextLine' \in Nat
        BY <1>2, <3>1 DEF NextLine
      <4>2. ASSUME NEW i \in 1..Len(finals), finals[i].stream = native.number
            PROVE  finals[i].line < NextLine'
        <5>1. finals[i] \in Finals /\ finals[i].line < NextLine
          BY <4>2 DEF WordsInv, LinesInv, SpeechTypes
        <5>2. finals[i].line \in Nat
          BY <5>1 DEF Finals
        <5> QED
          BY <4>1, <5>1, <5>2
      <4>3. ASSUME NEW m \in completed, ~m.late
            PROVE  m.line < NextLine'
        <5>1. m.line \in Nat /\ m.line < NextLine
          BY <4>3 DEF WordsInv, LinesInv, SpeechTypes
        <5> QED
          BY <4>1, <5>1
      <4> QED
        BY <3>1, <3>2, <4>2, <4>3 DEF WordsInv, LinesInv
    <3>5. OrderInv' /\ Placed' = 1..said'
      BY <1>1, <1>5, <2>2, <3>1, <3>2 DEF WordsInv, OrderInv, Placed, Precede
    <3> QED
      BY <1>4, <3>3, <3>4, <3>5 DEF WordsInv
  <2> QED
    BY <2>3, <2>4
<1> QED
  BY <1>6, <1>7

LEMMA LineKeepsWords ==
  ASSUME WordsInv, LineCompleted
  PROVE  WordsInv'
<1>1. /\ native.open /\ on_transcript_event
      /\ native' = [native EXCEPT !.line = @ + 1, !.words = {}]
      /\ UNCHANGED <<completed, executor, said, batch, delivered, excused, waiting>>
  BY DEF LineCompleted, taskVars, callerVars, orderVars, outcomeVars
<1>2. JobsInv' /\ executor' \in Seq(Jobs) /\ WordsOf(executor') = WordsOf(executor)
  BY <1>1 DEF WordsInv, JobsInv, InTurn, SpeechTypes
<1> QED
  BY <1>1, <1>2, FinalKeepsWords

\* A final is dropped only when nothing waits for its words.
LEMMA DroppedIsMasked ==
  ASSUME SpeechTypes, LinesInv, NEW i \in 1..Len(finals), i \notin Kept
  PROVE  i \in Masked
<1>1. finals \in Seq(Finals) /\ DOMAIN finals = 1..Len(finals) /\ finals[i] \in Finals
  BY DEF SpeechTypes
<1>2. PICK mark \in Seen(i) : mark.line = finals[i].line
  BY <1>1 DEF Kept
<1>3. mark.late
  <2>1. ASSUME mark \in completed, ~mark.late PROVE FALSE
    BY <1>1, <1>2, <2>1 DEF LinesInv, SpeechTypes, Finals
  <2>2. ASSUME NEW j \in 1..(i - 1), ~mark.late,
               mark = [line |-> finals[j].line, late |-> finals[j].stream # native.number]
        PROVE  FALSE
    <3>1. j \in 1..Len(finals) /\ j < i
      BY <1>1
    <3>2. finals[j] \in Finals /\ finals[j].stream = native.number /\ finals[j].line = finals[i].line
      <4>1. mark.line = finals[j].line /\ mark.late = (finals[j].stream # native.number)
        BY <2>2
      <4>2. finals[j] \in Finals
        BY <1>1, <3>1
      <4>3. finals[j].stream = native.number
        BY <2>2, <4>1
      <4> QED
        BY <1>2, <4>1, <4>2, <4>3
    <3>3. /\ finals[j].stream \in Nat /\ finals[i].stream \in Nat
          /\ finals[j].line \in Nat /\ finals[i].line \in Nat
      BY <1>1, <3>2 DEF Finals
    <3>4. /\ finals[i].stream =< native.number
          /\ finals[j].stream < finals[i].stream \/ finals[j].line < finals[i].line
      BY <3>1 DEF LinesInv
    <3> QED
      BY <3>2, <3>3, <3>4
  <2>3. \/ mark \in completed
        \/ \E j \in 1..(i - 1) :
             mark = [line |-> finals[j].line, late |-> finals[j].stream # native.number]
    BY DEF Seen
  <2> QED
    BY <2>1, <2>2, <2>3
<1> QED
  BY <1>1, <1>2, <1>3 DEF Masked

LEMMA TakeKeepsWords ==
  ASSUME WordsInv, NEW t \in Tasks, take(t)
  PROVE  WordsInv'
<1>1. /\ SpeechTypes /\ LinesInv /\ finals \in Seq(Finals) /\ DOMAIN finals = 1..Len(finals)
      /\ \A i \in 1..Len(finals) : finals[i] \in Finals
  BY DEF WordsInv, SpeechTypes
<1>2. /\ \A o \in Tasks : batch[o] = {}
      /\ finals' = <<>> /\ batch' = [batch EXCEPT ![t] = {finals[i] : i \in Kept}]
      /\ completed' = completed \cup
           {[line |-> finals[i].line, late |-> finals[i].stream # native.number] : i \in Kept}
      /\ excused' = excused \cup UNION {finals[i].words : i \in Masked}
      /\ UNCHANGED <<native, executor, said, waiting, delivered>>
  BY DEF take, callerVars, orderVars
<1>3. Kept \subseteq 1..Len(finals) /\ Masked \subseteq 1..Len(finals)
  BY <1>1 DEF Kept, Masked
<1>4. /\ batch' \in [Tasks -> SUBSET Finals] /\ batch'[t] = {finals[i] : i \in Kept}
      /\ \A o \in Tasks \ {t} : batch'[o] = {}
  BY <1>1, <1>2, <1>3 DEF SpeechTypes
<1>5. Taken = {}
  BY <1>2 DEF Taken
<1>6. Taken' = UNION {finals[i].words : i \in Kept}
  <2>1. UNION {e.words : e \in batch'[t]} = UNION {finals[i].words : i \in Kept}
    BY <1>4
  <2>2. \A o \in Tasks \ {t} : UNION {e.words : e \in batch'[o]} = {}
    BY <1>4
  <2> QED
    BY <2>1, <2>2 DEF Taken
<1>7. Taken' \subseteq WordsOf(finals) /\ UNION {finals[i].words : i \in Masked} \subseteq WordsOf(finals)
  BY <1>3, <1>6 DEF WordsOf
<1>8. WordsOf(finals) \subseteq Taken' \cup excused'
  <2>1. ASSUME NEW i \in 1..Len(finals) PROVE finals[i].words \subseteq Taken' \cup excused'
    <3>1. CASE i \in Kept
      BY <1>6, <3>1
    <3>2. CASE i \notin Kept
      <4>1. i \in Masked
        BY <1>1, <3>2, DroppedIsMasked
      <4> QED
        BY <1>2, <4>1
    <3> QED
      BY <3>1, <3>2
  <2> QED
    BY <2>1 DEF WordsOf
<1>9. Len(finals') = 0 /\ finals' \in Seq(Finals) /\ WordsOf(finals') = {}
  BY <1>2 DEF WordsOf
<1>10. SpeechTypes'
  <2>1. ASSUME NEW i \in Kept
        PROVE  [line |-> finals[i].line, late |-> finals[i].stream # native.number]
                 \in [line : Nat, late : BOOLEAN]
    <3>1. finals[i].line \in Nat
      BY <1>1, <1>3 DEF Finals
    <3> QED
      BY <3>1
  <2>2. completed \subseteq [line : Nat, late : BOOLEAN]
    BY <1>1 DEF SpeechTypes
  <2>3. completed' \subseteq [line : Nat, late : BOOLEAN]
    BY <1>2, <2>1, <2>2
  <2> QED
    BY <1>1, <1>2, <1>4, <1>9, <2>3 DEF SpeechTypes
<1>11. LinesInv'
  <2>1. ASSUME NEW m \in completed', ~m.late PROVE m.line < NextLine
    <3>1. CASE m \in completed
      BY <1>1, <2>1, <3>1 DEF LinesInv
    <3>2. ASSUME NEW i \in Kept,
                 m = [line |-> finals[i].line, late |-> finals[i].stream # native.number]
          PROVE  m.line < NextLine
      <4>1. finals[i].stream = native.number /\ m.line = finals[i].line
        BY <2>1, <3>2
      <4> QED
        BY <1>1, <1>3, <4>1 DEF LinesInv
    <3> QED
      BY <1>2, <3>1, <3>2
  <2>2. NextLine' = NextLine /\ ~native.open => native.words = {}
    BY <1>1, <1>2 DEF NextLine, LinesInv
  <2> QED
    BY <1>1, <1>2, <1>9, <2>1, <2>2 DEF LinesInv, NextLine
<1>12. JobsInv' /\ WordsOf(executor') = WordsOf(executor)
  BY <1>2 DEF WordsInv, JobsInv, InTurn
<1>13. OrderInv'
  BY <1>2, <1>5, <1>7, <1>9, <1>12 DEF WordsInv, OrderInv, Precede
<1>14. Placed' = 1..said'
  BY <1>2, <1>5, <1>7, <1>8, <1>9, <1>12 DEF WordsInv, Placed
<1> QED
  BY <1>10, <1>11, <1>12, <1>13, <1>14 DEF WordsInv

\* What a task had taken is pushed, or lost with a fallback that is cancelled.
LEMMA LeavingKeepsWords ==
  ASSUME WordsInv, NEW t \in Tasks,
         batch' = [batch EXCEPT ![t] = {}],
         \/ /\ delivered' = delivered \cup UNION {e.words : e \in batch[t]}
            /\ UNCHANGED excused
         \/ /\ excused' = excused \cup UNION {e.words : e \in batch[t]}
            /\ UNCHANGED delivered,
         JobsInv', executor' \in Seq(Jobs), WordsOf(executor') = WordsOf(executor),
         UNCHANGED <<native, completed, finals, said, waiting>>
  PROVE  WordsInv'
<1> DEFINE mine == UNION {e.words : e \in batch[t]}
<1>1. /\ SpeechTypes /\ batch' \in [Tasks -> SUBSET Finals] /\ batch'[t] = {}
      /\ \A o \in Tasks \ {t} : batch'[o] = batch[o]
  BY DEF WordsInv, SpeechTypes
<1>2. Taken = mine \cup Taken' /\ (mine # {} => Taken' = {})
  <2>1. Taken = mine \cup Taken'
    BY <1>1 DEF Taken
  <2>2. ASSUME mine # {} PROVE Taken' = {}
    <3>1. batch[t] # {}
      BY <2>2
    <3>2. \A o \in Tasks : batch'[o] = {}
      BY <1>1, <3>1 DEF SpeechTypes
    <3> QED
      BY <3>2 DEF Taken
  <2> QED
    BY <2>1, <2>2
<1>3. \/ delivered' = delivered \cup mine /\ excused' = excused
      \/ excused' = excused \cup mine /\ delivered' = delivered
  OBVIOUS
<1> HIDE DEF mine
<1>4. WordsOf(finals') = WordsOf(finals)
  OBVIOUS
<1>5. SpeechTypes' /\ LinesInv'
  BY <1>1 DEF WordsInv, SpeechTypes, LinesInv, NextLine
<1>6. OrderInv'
  BY <1>2, <1>3, <1>4 DEF WordsInv, OrderInv, Precede
<1>7. Placed' = 1..said'
  BY <1>2, <1>3, <1>4 DEF WordsInv, Placed
<1> QED
  BY <1>5, <1>6, <1>7 DEF WordsInv

LEMMA WithdrawnKeepsJobs ==
  ASSUME WordsInv, flush_withdrawn
  PROVE  JobsInv' /\ executor' \in Seq(Jobs) /\ WordsOf(executor') = WordsOf(executor)
<1>1. executor \in Seq(Jobs) /\ DOMAIN executor = 1..Len(executor) /\ JobsInv
  BY DEF WordsInv, SpeechTypes
<1>2. CASE ~Pending("flush")
  BY <1>1, <1>2 DEF flush_withdrawn, JobsInv, InTurn
<1>3. CASE Pending("flush")
  <2> DEFINE i == CHOOSE i \in DOMAIN executor : executor[i].kind = "flush"
  <2>1. i \in 1..Len(executor) /\ executor[i].kind = "flush"
    BY <1>1, <1>3 DEF Pending
  <2>2. executor' = RemoveAt(executor, i)
    BY <1>3 DEF flush_withdrawn
  <2> HIDE DEF i
  <2>3. executor[i].words = {}
    BY <1>1, <2>1 DEF JobsInv
  <2>4. /\ executor' \in Seq(Jobs) /\ WordsOf(executor') = WordsOf(executor)
        /\ InTurn(executor) => InTurn(executor')
        /\ \A k \in 1..Len(executor') : \E j \in 1..Len(executor) : executor'[k] = executor[j]
    BY <1>1, <2>1, <2>2, <2>3, WordsBeside
  <2>5. \A k \in 1..Len(executor') : executor'[k].kind = "flush" => executor'[k].words = {}
    BY <1>1, <2>4 DEF JobsInv
  <2> QED
    BY <1>1, <2>4, <2>5 DEF JobsInv
<1> QED
  BY <1>2, <1>3

LEMMA ExecutorStays ==
  ASSUME WordsInv, UNCHANGED executor
  PROVE  JobsInv' /\ executor' \in Seq(Jobs) /\ WordsOf(executor') = WordsOf(executor)
BY DEF WordsInv, SpeechTypes, JobsInv, InTurn

LEMMA PushKeepsWords ==
  ASSUME WordsInv, NEW t \in Tasks, push(t)
  PROVE  WordsInv'
<1>1. /\ batch' = [batch EXCEPT ![t] = {}]
      /\ delivered' = delivered \cup UNION {e.words : e \in batch[t]}
      /\ UNCHANGED <<excused, executor, native, completed, finals, said, waiting>>
  BY DEF push, streamVars, eventVars, callerVars, orderVars
<1> QED
  BY <1>1, ExecutorStays, LeavingKeepsWords

LEMMA PumpKeepsWords ==
  ASSUME WordsInv, run_event_pump
  PROVE  WordsInv'
<1>1. CASE pump_wakes \/ pump_allowed
  <2>1. /\ UNCHANGED <<native, completed, finals, executor, said, batch, delivered, excused>>
        /\ waiting' = waiting
    BY <1>1 DEF pump_wakes, pump_allowed, streamVars, eventVars, callerVars, orderVars, outcomeVars
  <2> QED
    BY <2>1, NothingMoves DEF WordsInv, SpeechTypes, Placed
<1>2. CASE pump_drains
  BY <1>2, TakeKeepsWords, PushKeepsWords DEF pump_drains, Tasks
<1> QED
  BY <1>1, <1>2 DEF run_event_pump

LEMMA WatchdogKeepsWords ==
  ASSUME WordsInv, await_native_finalization
  PROVE  WordsInv'
<1>1. CASE final_arrived
  <2>1. /\ UNCHANGED <<native, completed, finals, executor, said, batch, delivered, excused>>
        /\ waiting' = waiting
    BY <1>1 DEF final_arrived, watchdog_ends, eventVars, callerVars, orderVars, outcomeVars
  <2> QED
    BY <2>1, NothingMoves DEF WordsInv, SpeechTypes, Placed
<1>2. CASE grace_ends
  <2>1. /\ Submit("flush", {})
        /\ UNCHANGED <<native, completed, finals, said, waiting, batch, delivered, excused>>
    BY <1>2 DEF grace_ends, eventVars, callerVars, orderVars, outcomeVars
  <2>2. said' = said + 0
    BY <2>1 DEF WordsInv, SpeechTypes
  <2> QED
    BY <2>1, <2>2, SubmitKeepsWords
<1>3. CASE fallback_pushes
  <2>1. CASE take("watchdog")
    BY <2>1, TakeKeepsWords DEF Tasks
  <2>2. CASE ~take("watchdog")
    <3>1. /\ batch' = [batch EXCEPT !["watchdog"] = {}]
          /\ delivered' = delivered \cup UNION {e.words : e \in batch["watchdog"]}
          /\ UNCHANGED <<excused, executor, native, completed, finals, said, waiting>>
      BY <1>3, <2>2 DEF fallback_pushes, watchdog_ends, eventVars, callerVars, orderVars
    <3> QED
      BY <3>1, ExecutorStays, LeavingKeepsWords DEF Tasks
  <2> QED
    BY <2>1, <2>2
<1>4. CASE watchdog_cancelled
  <2>1. /\ flush_withdrawn /\ batch' = [batch EXCEPT !["watchdog"] = {}]
        /\ excused' = excused \cup UNION {e.words : e \in batch["watchdog"]}
        /\ UNCHANGED <<delivered, native, completed, finals, said, waiting>>
    BY <1>4 DEF watchdog_cancelled, eventVars, callerVars, orderVars
  <2> QED
    BY <2>1, WithdrawnKeepsJobs, LeavingKeepsWords DEF Tasks
<1> QED
  BY <1>1, <1>2, <1>3, <1>4 DEF await_native_finalization

LEMMA FrameKeepsWords ==
  ASSUME WordsInv, Frame
  PROVE  WordsInv'
<1>1. CASE vad_start \/ stop_forwarded
  <2>1. /\ UNCHANGED <<native, completed, finals, executor, said, batch, delivered, excused>>
        /\ waiting' = waiting
    BY <1>1 DEF vad_start, stop_forwarded, streamVars, eventVars, callerVars, orderVars, outcomeVars
  <2> QED
    BY <2>1, NothingMoves DEF WordsInv, SpeechTypes, Placed
<1>2. CASE vad_stop
  <2>1. UNCHANGED <<native, completed, finals, executor, said, batch, delivered>>
    BY <1>2 DEF vad_stop, streamVars, eventVars
  <2>2. excused' \in {excused, excused \cup native.words} /\ waiting' \in {waiting, waiting + 1}
    BY <1>2 DEF vad_stop, stop_is_complete, stop_waits
  <2>3. waiting' \in Nat /\ excused' \subseteq 1..said
    BY <2>2 DEF WordsInv, SpeechTypes, Placed
  <2> QED
    BY <2>1, <2>2, <2>3, NothingMoves
<1>3. CASE frames_push \/ end_push
  BY <1>3, TakeKeepsWords, PushKeepsWords DEF frames_push, end_push, Tasks
<1>4. CASE end_flush
  <2>1. /\ Submit("flush", {})
        /\ UNCHANGED <<native, completed, finals, said, waiting, batch, delivered, excused>>
    BY <1>4 DEF end_flush, eventVars, callerVars, orderVars, outcomeVars
  <2>2. said' = said + 0
    BY <2>1 DEF WordsInv, SpeechTypes
  <2> QED
    BY <2>1, <2>2, SubmitKeepsWords
<1> QED
  BY <1>1, <1>2, <1>3, <1>4 DEF Frame

LEMMA CallerKeepsWords ==
  ASSUME WordsInv, CallerSpeaks
  PROVE  WordsInv'
<1>1. CASE \E pc \in {"start", "stop", "end"} : cancel_finalization_watchdog(pc)
  <2>1. /\ UNCHANGED <<native, completed, finals, executor, said, batch, delivered, excused>>
        /\ waiting' = waiting
    BY <1>1 DEF cancel_finalization_watchdog, streamVars, eventVars, callerVars, orderVars,
                outcomeVars
  <2> QED
    BY <2>1, NothingMoves DEF WordsInv, SpeechTypes, Placed
<1>2. CASE Speak \/ Silence
  <2>1. PICK words \in {{}, {said + 1}} : run_stt(words)
    BY <1>2 DEF Speak, Silence
  <2>2. /\ Submit("audio", words) /\ said' = said + (IF words = {} THEN 0 ELSE 1)
        /\ UNCHANGED <<native, completed, finals, waiting, batch, delivered, excused>>
    BY <2>1 DEF run_stt, eventVars, orderVars, outcomeVars
  <2> QED
    BY <2>2, SubmitKeepsWords
<1> QED
  BY <1>1, <1>2 DEF CallerSpeaks, Starts, Stops, Ends

LEMMA NextKeepsWords ==
  ASSUME WordsInv, [Next]_vars
  PROVE  WordsInv'
<1>1. CASE SpeechStep
  BY <1>1, JobKeepsWords, LineKeepsWords, PumpKeepsWords, WatchdogKeepsWords, CallerKeepsWords,
     FrameKeepsWords DEF SpeechStep, Service
<1>2. CASE \/ Turn \/ Request \/ Response \/ Interruption
           \/ EmbeddingStep \/ IssueStep \/ StreamStep \/ MemoryStep \/ UNCHANGED vars
  <2>1. UNCHANGED speechVars
    BY <1>2 DEF Turn, Request, Response, Interruption, EmbeddingStep, IssueStep, StreamStep,
                MemoryStep, vars
  <2>2. /\ UNCHANGED <<native, completed, finals, executor, said, batch, delivered, excused>>
        /\ waiting' = waiting
    BY <2>1 DEF speechVars, streamVars, eventVars, taskVars, callerVars, orderVars, outcomeVars
  <2> QED
    BY <2>2, NothingMoves DEF WordsInv, SpeechTypes, Placed
<1> QED
  BY <1>1, <1>2 DEF Next

\* Every word that was said is in one place, in its order, in every reachable state.
THEOREM WordsAlwaysSound == Spec => []WordsInv
<1>1. Init => WordsInv
  BY InitWordsInv DEF Init
<1>2. WordsInv /\ [Next]_vars => WordsInv'
  BY NextKeepsWords
<1> QED
  BY <1>1, <1>2, PTL DEF Spec

\* The safety in SpeechTranscribed: whatever the stream, the pump, the watchdog and the
\* frames do in between, a word that was sent to the service is transcribed, is still on
\* its way in the executor, the stream, its finals or a task, or is one that nothing waits
\* for (moonshine_stt.py).
THEOREM NoWordIsLost ==
  Spec => [](\A w \in 1..said :
               \/ w \in delivered \cup excused \cup native.words
               \/ \E i \in 1..Len(executor) : w \in executor[i].words
               \/ \E i \in 1..Len(finals) : w \in finals[i].words
               \/ \E t \in Tasks : \E e \in batch[t] : w \in e.words)
<1>1. WordsInv =>
        \A w \in 1..said :
          \/ w \in delivered \cup excused \cup native.words
          \/ \E i \in 1..Len(executor) : w \in executor[i].words
          \/ \E i \in 1..Len(finals) : w \in finals[i].words
          \/ \E t \in Tasks : \E e \in batch[t] : w \in e.words
  BY DEF WordsInv, Placed, WordsOf, Taken
<1> QED
  BY <1>1, WordsAlwaysSound, PTL

\* Transcripts come in the order in which the words were said, and no word comes twice:
\* what a task is about to push is of later words than all that was pushed before.
THEOREM TranscriptsInOrder ==
  Spec => [](\A t \in Tasks : \A e \in batch[t] : \A v \in delivered, w \in e.words : v < w)
<1>1. WordsInv => \A t \in Tasks : \A e \in batch[t] : \A v \in delivered, w \in e.words : v < w
  BY DEF WordsInv, OrderInv, Precede, Taken
<1> QED
  BY <1>1, WordsAlwaysSound, PTL

---------------------------------------------------------------------------
\* The bounds of the speech.

Ending == {"flush", "last", "closed"}
Holds(s, kind) == \E i \in 1..Len(s) : s[i].kind = kind
Worded(s) == \E i \in 1..Len(s) : s[i].words # {}

\* A stop follows a start, and the watchdog is gone before the stream ends.
StagesInv ==
  /\ completion \in {"none", "unset", "set"}
  /\ gate \in BOOLEAN /\ ready \in BOOLEAN /\ speaking \in BOOLEAN
  /\ frames \in {"idle", "audio", "start", "stop", "forward", "drain", "push", "end"} \cup Ending
  /\ pump \in {"wait", "gate", "drain", "push"}
  /\ watchdog \in {"none", "waiting", "flushing", "push"}
  /\ finalCount \in Nat /\ starts \in 0..MaxStarts /\ said =< MaxWords
  /\ startCount \in (0..finalCount) \cup {None}
  /\ covered \subseteq 1..said
  /\ frames = "start" => ~speaking /\ starts < MaxStarts
  /\ frames = "stop" => speaking
  /\ frames \in Ending => watchdog = "none"

\* The executor has at most the audio that the frames wait for and the one flush that the
\* watchdog or the end waits for.
ExecutorInv ==
  /\ Single(executor)
  /\ Holds(executor, "audio") => frames = "audio"
  /\ Holds(executor, "flush") => watchdog = "flushing" \/ frames = "flush"

\* Each final, and the open line, is of a word of its own.
CountInv ==
  /\ Len(finals) =< finalCount /\ native.line =< finalCount
  /\ finalCount + (IF native.words = {} THEN 0 ELSE 1) + (IF Worded(executor) THEN 1 ELSE 0)
       =< said

\* A stream ends with the flush of a stop, which a start goes before, or with the call.
StreamsInv ==
  /\ native.number \in 1..(starts + 1)
  /\ native.number + (IF native.open THEN 0 ELSE 1) + (IF Holds(executor, "flush") THEN 1 ELSE 0)
       + (IF watchdog = "waiting" THEN 1 ELSE 0) + (IF speaking THEN 1 ELSE 0)
     =< starts + 1 + (IF frames \in Ending THEN 1 ELSE 0)

BoundsInv == StagesInv /\ ExecutorInv /\ CountInv /\ StreamsInv

LEMMA InitBoundsInv == SpeechInit => BoundsInv
<1> SUFFICES ASSUME SpeechInit PROVE BoundsInv
  OBVIOUS
<1>1. /\ Len(finals) = 0 /\ Len(executor) = 0 /\ finalCount = 0 /\ said = 0 /\ starts = 0
      /\ frames = "idle" /\ watchdog = "none" /\ speaking = FALSE /\ covered = {}
      /\ MaxWords \in Nat /\ MaxStarts \in Nat
  BY SpeechAssumption DEF SpeechInit
<1>2. native = [number |-> 1, open |-> TRUE, line |-> 0, words |-> {}]
  BY DEF SpeechInit, Stream
<1>3. /\ native.number = 1 /\ native.open = TRUE /\ native.line = 0 /\ native.words = {}
  BY <1>2
<1>4. ~Holds(executor, "audio") /\ ~Holds(executor, "flush") /\ ~Worded(executor)
      /\ Single(executor)
  BY <1>1 DEF Holds, Worded, Single
<1>5. StagesInv
  <2>1. finalCount \in Nat /\ starts \in 0..MaxStarts /\ said =< MaxWords /\ covered \subseteq 1..said
    BY <1>1
  <2> QED
    BY <1>1, <2>1 DEF SpeechInit, StagesInv, Ending
<1>6. CountInv
  BY <1>1, <1>3, <1>4 DEF CountInv
<1>7. StreamsInv
  BY <1>1, <1>3, <1>4 DEF StreamsInv, Ending
<1> QED
  BY <1>4, <1>5, <1>6, <1>7 DEF BoundsInv, ExecutorInv

LEMMA SingleShort ==
  ASSUME NEW s \in Seq(Jobs), Single(s)
  PROVE  Len(s) =< 2
<1>1. SUFFICES ASSUME Len(s) > 2 PROVE FALSE
  BY LenProperties
<1>2. Len(s) \in Nat /\ 1 \in 1..Len(s) /\ 2 \in 1..Len(s) /\ 3 \in 1..Len(s)
  BY <1>1
<1>3. s[1].kind \in {"audio", "flush"} /\ s[2].kind \in {"audio", "flush"}
      /\ s[3].kind \in {"audio", "flush"}
  <2>1. s[1] \in Jobs /\ s[2] \in Jobs /\ s[3] \in Jobs
    BY <1>2
  <2> QED
    BY <2>1 DEF Jobs
<1>4. s[1].kind # s[2].kind /\ s[1].kind # s[3].kind /\ s[2].kind # s[3].kind
  BY <1>2 DEF Single
<1> QED
  BY <1>3, <1>4

LEMMA SingleAppended ==
  ASSUME NEW s \in Seq(Jobs), NEW e \in Jobs, Single(s), ~Holds(s, e.kind)
  PROVE  /\ Single(Append(s, e))
         /\ \A kind : Holds(Append(s, e), kind) <=> Holds(s, kind) \/ kind = e.kind
         /\ Worded(Append(s, e)) <=> Worded(s) \/ e.words # {}
<1> DEFINE r == Append(s, e)
<1>1. /\ Len(s) \in Nat /\ Len(r) = Len(s) + 1 /\ r[Len(s) + 1] = e
      /\ \A i \in 1..Len(s) : r[i] = s[i]
  OBVIOUS
<1> HIDE DEF r
<1>2. \A i \in 1..Len(r) : i \in 1..Len(s) \/ i = Len(s) + 1
  BY <1>1
<1>3. \A i \in 1..Len(s) : i \in 1..Len(r)
  BY <1>1
<1>4. Len(s) + 1 \in 1..Len(r)
  BY <1>1
<1>5. Single(r)
  BY <1>1, <1>2 DEF Single, Holds
<1>6. \A kind : Holds(r, kind) <=> Holds(s, kind) \/ kind = e.kind
  BY <1>1, <1>2, <1>3, <1>4 DEF Holds
<1>7. Worded(r) <=> Worded(s) \/ e.words # {}
  BY <1>1, <1>2, <1>3, <1>4 DEF Worded
<1> QED
  BY <1>5, <1>6, <1>7 DEF r

LEMMA SingleBehind ==
  ASSUME NEW s \in Seq(Jobs), s # <<>>, Single(s)
  PROVE  /\ Single(Tail(s)) /\ ~Holds(Tail(s), Head(s).kind)
         /\ Holds(s, Head(s).kind)
         /\ \A kind : Holds(Tail(s), kind) => Holds(s, kind)
         /\ Worded(Tail(s)) => Worded(s)
         /\ Head(s).words # {} => Worded(s)
<1> DEFINE r == Tail(s)
<1>1. /\ Len(s) \in Nat /\ 1 \in 1..Len(s) /\ Head(s) = s[1]
      /\ \A i \in 1..Len(r) : i + 1 \in 1..Len(s) /\ r[i] = s[i + 1] /\ i + 1 # 1
  OBVIOUS
<1> HIDE DEF r
<1>2. Single(r)
  <2>1. ASSUME NEW i \in 1..Len(r), NEW j \in 1..Len(r), r[i].kind = r[j].kind
        PROVE  i = j
    <3>1. i + 1 = j + 1
      BY <1>1, <2>1 DEF Single
    <3> QED
      BY <3>1
  <2> QED
    BY <2>1 DEF Single
<1>3. ~Holds(r, Head(s).kind)
  BY <1>1 DEF Single, Holds
<1>4. Holds(s, Head(s).kind) /\ \A kind : Holds(r, kind) => Holds(s, kind)
  BY <1>1 DEF Holds
<1>5. (Worded(r) => Worded(s)) /\ (Head(s).words # {} => Worded(s))
  BY <1>1 DEF Worded
<1> QED
  BY <1>2, <1>3, <1>4, <1>5 DEF r

LEMMA SingleBeside ==
  ASSUME WordsInv, Single(executor), flush_withdrawn
  PROVE  /\ Single(executor') /\ ~Holds(executor', "flush")
         /\ Holds(executor', "audio") => Holds(executor, "audio")
         /\ Worded(executor') => Worded(executor)
<1>1. executor \in Seq(Jobs) /\ DOMAIN executor = 1..Len(executor) /\ JobsInv
  BY DEF WordsInv, SpeechTypes
<1>2. CASE ~Pending("flush")
  BY <1>1, <1>2 DEF flush_withdrawn, Pending, Holds
<1>3. CASE Pending("flush")
  <2> DEFINE i == CHOOSE i \in DOMAIN executor : executor[i].kind = "flush"
  <2>1. i \in 1..Len(executor) /\ executor[i].kind = "flush"
    BY <1>1, <1>3 DEF Pending
  <2>2. executor' = RemoveAt(executor, i)
    BY <1>3 DEF flush_withdrawn
  <2> HIDE DEF i
  <2>3. executor[i].words = {}
    BY <1>1, <2>1 DEF JobsInv
  <2>4. /\ Single(executor')
        /\ \A k \in 1..Len(executor') :
             \E j \in 1..Len(executor) : j # i /\ executor'[k] = executor[j]
    BY <1>1, <2>1, <2>2, <2>3, WordsBeside
  <2>5. ~Holds(executor', "flush")
    BY <2>1, <2>4 DEF Holds, Single
  <2> QED
    BY <2>4, <2>5 DEF Holds, Worded
<1> QED
  BY <1>2, <1>3

\* Steps of the tasks: the words and the stream stay, but that what is queued is taken.
LEMMA CountStays ==
  ASSUME WordsInv, CountInv, finalCount \in Nat, UNCHANGED <<native, finalCount, executor, said>>,
         finals' = finals \/ finals' = <<>>
  PROVE  CountInv'
<1>1. Len(finals') =< finalCount
  BY DEF CountInv
<1>2. Worded(executor') = Worded(executor)
  BY DEF Worded
<1> QED
  BY <1>1, <1>2 DEF CountInv

LEMMA StreamsStay ==
  ASSUME StreamsInv, native.number \in Nat, starts \in Nat,
         Holds(executor', "flush") => Holds(executor, "flush"),
         UNCHANGED <<native, starts, speaking>>,
         frames' \in Ending <=> frames \in Ending,
         watchdog' = "waiting" => watchdog = "waiting"
  PROVE  StreamsInv'
<1>1. /\ (IF Holds(executor', "flush") THEN 1 ELSE 0) =< (IF Holds(executor, "flush") THEN 1 ELSE 0)
      /\ (IF watchdog' = "waiting" THEN 1 ELSE 0) =< (IF watchdog = "waiting" THEN 1 ELSE 0)
      /\ (IF frames' \in Ending THEN 1 ELSE 0) = (IF frames \in Ending THEN 1 ELSE 0)
  OBVIOUS
<1> QED
  BY <1>1 DEF StreamsInv

\* What every step keeps, in the terms of the proof.
LEMMA BoundsTyped ==
  ASSUME WordsInv, BoundsInv
  PROVE  /\ native.number \in Nat /\ native.open \in BOOLEAN /\ native.line \in Nat
         /\ finalCount \in Nat /\ starts \in Nat /\ said \in Nat /\ executor \in Seq(Jobs)
         /\ Len(finals) \in Nat
         /\ native \in [number : Nat, open : BOOLEAN, line : Nat, words : SUBSET Nat]
         /\ MaxStarts \in Nat /\ MaxWords \in Nat
         /\ \A kind : Pending(kind) <=> Holds(executor, kind)
<1>1. DOMAIN executor = 1..Len(executor)
  BY DEF WordsInv, SpeechTypes
<1> QED
  BY <1>1, SpeechAssumption DEF WordsInv, SpeechTypes, BoundsInv, StagesInv, Pending, Holds

LEMMA LineKeepsBounds ==
  ASSUME WordsInv, BoundsInv, LineCompleted
  PROVE  BoundsInv'
<1>1. /\ native.open /\ native.words # {} /\ finalCount' = finalCount + 1 /\ ready' = TRUE
      /\ native' = [native EXCEPT !.line = @ + 1, !.words = {}]
      /\ UNCHANGED <<executor, endpointVars, taskVars, callerVars>>
      /\ \E e : finals' = Append(finals, e)
  BY DEF LineCompleted, on_transcript_event
<1>2. /\ native'.number = native.number /\ native'.open = native.open /\ native'.words = {}
      /\ native'.line = native.line + 1
  BY <1>1, BoundsTyped
<1>3. Len(finals') = Len(finals) + 1
  <2>1. finals \in Seq(Finals)
    BY DEF WordsInv, SpeechTypes
  <2> QED
    BY <1>1, <2>1
<1>4. CountInv'
  <2>1. /\ UNCHANGED <<said, executor>> /\ Worded(executor') = Worded(executor)
        /\ Len(finals) =< finalCount /\ native.line =< finalCount
        /\ finalCount + 1 + (IF Worded(executor) THEN 1 ELSE 0) =< said
    BY <1>1 DEF BoundsInv, CountInv, callerVars
  <2> QED
    BY <1>1, <1>2, <1>3, <2>1, BoundsTyped DEF CountInv
<1>5. StagesInv'
  <2>1. finalCount' \in Nat /\ \A n \in 0..finalCount : n \in 0..finalCount'
    BY <1>1, BoundsTyped
  <2> QED
    BY <1>1, <2>1 DEF BoundsInv, StagesInv, endpointVars, taskVars, callerVars
<1>6. ExecutorInv' /\ StreamsInv'
  BY <1>1, <1>2 DEF BoundsInv, ExecutorInv, StreamsInv, taskVars, callerVars, Single, Holds
<1> QED
  BY <1>4, <1>5, <1>6 DEF BoundsInv

\* A job of the executor: a new stream takes what a closed one had, and a flush leaves its own.
LEMMA JobKeepsBounds ==
  ASSUME WordsInv, BoundsInv, RunJob
  PROVE  BoundsInv'
<1> DEFINE job == Head(executor)
<1>1. /\ executor # <<>> /\ executor' = Tail(executor)
      /\ UNCHANGED <<endpointVars, taskVars, callerVars>>
  BY DEF RunJob
<1>2. /\ Single(executor') /\ ~Holds(executor', job.kind) /\ Holds(executor, job.kind)
      /\ \A kind : Holds(executor', kind) => Holds(executor, kind)
      /\ Worded(executor') => Worded(executor)
      /\ job.words # {} => Worded(executor)
      /\ job \in Jobs
  <2>1. executor \in Seq(Jobs) /\ Single(executor)
    BY BoundsTyped DEF BoundsInv, ExecutorInv
  <2>2. job \in Jobs
    BY <1>1, <2>1
  <2> QED
    BY <1>1, <2>1, <2>2, SingleBehind
<1>3. job.kind \in {"audio", "flush"} /\ job.words \in SUBSET Nat
  BY <1>2 DEF Jobs
<1>4. job.kind = "audio" => ~Worded(executor')
  <2>1. ASSUME job.kind = "audio", NEW k \in 1..Len(executor'), executor'[k].words # {} PROVE FALSE
    <3>1. executor' \in Seq(Jobs) /\ executor'[k] = executor[k + 1] /\ k + 1 \in 1..Len(executor)
      BY <1>1, BoundsTyped
    <3>2. executor[k + 1].kind = "audio"
      <4>1. executor[k + 1] \in Jobs
        BY <3>1, BoundsTyped
      <4> QED
        BY <2>1, <3>1, <4>1 DEF WordsInv, JobsInv, Jobs
    <3> QED
      BY <1>2, <2>1, <3>1, <3>2 DEF Holds
  <2> QED
    BY <2>1 DEF Worded
<1> HIDE DEF job
<1>5. ExecutorInv'
  BY <1>1, <1>2 DEF BoundsInv, ExecutorInv, taskVars
<1>6. CASE job.kind = "audio"
  <2>1. native' = [Current EXCEPT !.words = @ \cup job.words] /\ UNCHANGED eventVars
    BY <1>6 DEF RunJob, hear, job
  <2>2. /\ native'.words = native.words \cup job.words /\ native'.open = TRUE
        /\ IF native.open THEN native'.number = native.number /\ native'.line = native.line
           ELSE native'.number = native.number + 1 /\ native'.line = 0
    <3>1. CASE native.open
      BY <1>3, <2>1, <3>1, BoundsTyped DEF Current
    <3>2. CASE ~native.open
      <4>1. native.words = {}
        BY <3>2 DEF WordsInv, LinesInv
      <4>2. native' = [Stream(native.number + 1) EXCEPT !.words = @ \cup job.words]
        BY <2>1, <3>2 DEF Current
      <4> QED
        BY <3>2, <4>1, <4>2 DEF Stream
    <3> QED
      BY <3>1, <3>2
  <2>3. frames = "audio" /\ frames \notin Ending
    BY <1>2, <1>6 DEF BoundsInv, ExecutorInv, Ending
  <2>4. CountInv'
    <3>1. native'.line =< finalCount
      BY <2>2, BoundsTyped DEF BoundsInv, CountInv
    <3>2. (IF native'.words = {} THEN 0 ELSE 1) =<
            (IF native.words = {} THEN 0 ELSE 1) + (IF Worded(executor) THEN 1 ELSE 0)
      BY <1>2, <2>2
    <3>3. UNCHANGED <<finals, finalCount, said>>
      BY <1>1, <2>1 DEF eventVars, callerVars
    <3> QED
      BY <1>4, <1>6, <3>1, <3>2, <3>3, BoundsTyped DEF BoundsInv, CountInv
  <2>5. StreamsInv'
    <3>1. /\ native'.number = native.number + (IF native.open THEN 0 ELSE 1)
          /\ (IF native'.open THEN 0 ELSE 1) = 0
      BY <2>2, BoundsTyped
    <3>2. /\ (IF Holds(executor', "flush") THEN 1 ELSE 0) =< (IF Holds(executor, "flush") THEN 1 ELSE 0)
          /\ (IF frames \in Ending THEN 1 ELSE 0) = 0 /\ frames' = frames
          /\ UNCHANGED <<watchdog, speaking, starts>>
      BY <1>1, <1>2, <2>3 DEF taskVars, callerVars
    <3>3. StreamsInv /\ native.number \in Nat /\ starts \in Nat
      BY BoundsTyped DEF BoundsInv
    <3> QED
      BY <3>1, <3>2, <3>3 DEF StreamsInv
  <2>6. StagesInv'
    BY <1>1, <2>1 DEF BoundsInv, StagesInv, endpointVars, taskVars, callerVars, eventVars
  <2> QED
    BY <1>5, <2>4, <2>5, <2>6 DEF BoundsInv
<1>7. CASE job.kind = "flush"
  <2>1. /\ native' = [native EXCEPT !.open = FALSE, !.words = {}]
        /\ IF native.open /\ native.words # {} THEN on_transcript_event ELSE UNCHANGED eventVars
    BY <1>7 DEF RunJob, job
  <2>2. /\ native'.number = native.number /\ native'.open = FALSE /\ native'.words = {}
        /\ native'.line = native.line
    BY <2>1, BoundsTyped
  <2>3. /\ (IF Worded(executor') THEN 1 ELSE 0) =< (IF Worded(executor) THEN 1 ELSE 0)
        /\ UNCHANGED said
    BY <1>1, <1>2 DEF callerVars
  <2>4. CountInv'
    <3>1. CASE native.open /\ native.words # {}
      <4>1. finalCount' = finalCount + 1 /\ \E e : finals' = Append(finals, e)
        BY <2>1, <3>1 DEF on_transcript_event
      <4>2. Len(finals') = Len(finals) + 1
        <5>1. finals \in Seq(Finals)
          BY DEF WordsInv, SpeechTypes
        <5> QED
          BY <4>1, <5>1
      <4>3. /\ CountInv /\ finalCount \in Nat /\ said \in Nat
            /\ native.line \in Nat /\ Len(finals) \in Nat
        BY BoundsTyped DEF BoundsInv
      <4>4. Len(finals') =< finalCount' /\ native'.line =< finalCount'
        BY <2>2, <4>1, <4>2, <4>3 DEF CountInv
      <4>5. finalCount + 1 + (IF Worded(executor) THEN 1 ELSE 0) =< said
        BY <3>1, <4>3 DEF CountInv
      <4>6. (IF native'.words = {} THEN 0 ELSE 1) = 0
        BY <2>2
      <4>7. finalCount' + 0 + (IF Worded(executor') THEN 1 ELSE 0) =< said'
        BY <2>3, <4>1, <4>3, <4>5
      <4> QED
        BY <4>4, <4>6, <4>7 DEF CountInv
    <3>2. CASE ~(native.open /\ native.words # {})
      <4>1. UNCHANGED <<finals, finalCount>>
        BY <2>1, <3>2 DEF eventVars
      <4> QED
        BY <2>2, <2>3, <4>1, BoundsTyped DEF BoundsInv, CountInv
    <3> QED
      BY <3>1, <3>2
  <2>5. StreamsInv'
    <3>1. /\ (IF native'.open THEN 0 ELSE 1) = 1
          /\ (IF Holds(executor', "flush") THEN 1 ELSE 0) = 0
          /\ (IF Holds(executor, "flush") THEN 1 ELSE 0) = 1
          /\ UNCHANGED <<frames, watchdog, speaking, starts>>
      BY <1>1, <1>2, <1>7, <2>2 DEF taskVars, callerVars
    <3>2. StreamsInv /\ native.number \in Nat /\ starts \in Nat
      BY BoundsTyped DEF BoundsInv
    <3> QED
      BY <2>2, <3>1, <3>2 DEF StreamsInv
  <2>6. StagesInv'
    <3>1. /\ finalCount' \in {finalCount, finalCount + 1}
          /\ ready' \in BOOLEAN
      BY <2>1 DEF on_transcript_event, eventVars, BoundsInv, StagesInv
    <3>2. finalCount' \in Nat /\ \A n \in 0..finalCount : n \in 0..finalCount'
      BY <3>1, BoundsTyped
    <3> QED
      BY <1>1, <3>1, <3>2 DEF BoundsInv, StagesInv, endpointVars, taskVars, callerVars
  <2> QED
    BY <1>5, <2>4, <2>5, <2>6 DEF BoundsInv
<1> QED
  BY <1>3, <1>6, <1>7

\* Who takes what is queued, and who pushes it.
LEMMA TakeKeepsCount ==
  ASSUME WordsInv, BoundsInv, NEW t \in Tasks, take(t) \/ push(t)
  PROVE  /\ CountInv' /\ completion' \in {"none", "unset", "set"}
         /\ UNCHANGED <<native, executor, finalCount, ready, startCount, gate, callerVars>>
<1>1. /\ UNCHANGED <<native, executor, finalCount, ready, startCount, gate, callerVars>>
      /\ finals' = finals \/ finals' = <<>>
      /\ completion' = completion \/ completion' = "set"
  BY DEF take, push, streamVars, eventVars, endpointVars
<1>2. CountInv'
  BY <1>1, BoundsTyped, CountStays DEF BoundsInv, callerVars
<1> QED
  BY <1>1, <1>2 DEF BoundsInv, StagesInv

LEMMA PumpKeepsBounds ==
  ASSUME WordsInv, BoundsInv, run_event_pump
  PROVE  BoundsInv'
<1>1. /\ UNCHANGED <<native, executor, finalCount, startCount, gate, frames, watchdog, callerVars>>
      /\ pump' \in {"wait", "gate", "drain", "push"} /\ ready' \in BOOLEAN
      /\ completion' \in {"none", "unset", "set"} /\ CountInv'
  <2>1. CASE pump_wakes \/ pump_allowed
    <3>1. /\ UNCHANGED <<native, executor, finals, finalCount, startCount, gate, frames,
                         watchdog, callerVars, completion>>
          /\ ready' \in {ready, FALSE} /\ pump' \in {"gate", "drain"}
      BY <2>1 DEF pump_wakes, pump_allowed, streamVars, eventVars, endpointVars
    <3>2. CountInv'
      BY <3>1, BoundsTyped, CountStays DEF BoundsInv, callerVars
    <3> QED
      BY <3>1, <3>2 DEF BoundsInv, StagesInv
  <2>2. CASE pump_drains
    <3>1. /\ take("pump") \/ push("pump")
          /\ UNCHANGED <<frames, watchdog>> /\ pump' \in {"push", "wait"}
      BY <2>2 DEF pump_drains
    <3>2. /\ CountInv' /\ completion' \in {"none", "unset", "set"}
          /\ UNCHANGED <<native, executor, finalCount, ready, startCount, gate, callerVars>>
      BY <3>1, TakeKeepsCount DEF Tasks
    <3> QED
      BY <3>1, <3>2 DEF BoundsInv, StagesInv
  <2> QED
    BY <2>1, <2>2 DEF run_event_pump
<1>2. StagesInv' /\ ExecutorInv'
  BY <1>1 DEF BoundsInv, StagesInv, ExecutorInv, callerVars, Single, Holds
<1>3. StreamsInv'
  BY <1>1, BoundsTyped, StreamsStay DEF BoundsInv, callerVars
<1> QED
  BY <1>1, <1>2, <1>3 DEF BoundsInv

\* A job is submitted that none like it is queued for.
LEMMA SubmitKeepsSingle ==
  ASSUME WordsInv, BoundsInv, NEW kind \in {"audio", "flush"}, NEW words \in SUBSET Nat,
         Submit(kind, words), ~Holds(executor, kind)
  PROVE  /\ Single(executor')
         /\ \A other : Holds(executor', other) <=> Holds(executor, other) \/ other = kind
         /\ Worded(executor') <=> Worded(executor) \/ words # {}
<1> DEFINE e == [kind |-> kind, words |-> words]
<1>1. /\ e \in Jobs /\ e.kind = kind /\ e.words = words /\ executor' = Append(executor, e)
      /\ executor \in Seq(Jobs) /\ Single(executor)
  BY BoundsTyped DEF Jobs, Submit, BoundsInv, ExecutorInv
<1> HIDE DEF e
<1> QED
  BY <1>1, SingleAppended

LEMMA WatchdogKeepsBounds ==
  ASSUME WordsInv, BoundsInv, await_native_finalization
  PROVE  BoundsInv'
<1>1. CASE final_arrived \/ fallback_pushes
  <2>1. /\ UNCHANGED <<native, executor, finalCount, ready, startCount, gate, frames, pump, callerVars>>
        /\ completion' \in {"none", "unset", "set"} /\ CountInv'
    <3>1. CASE take("watchdog") /\ UNCHANGED <<frames, pump>>
      BY <3>1, TakeKeepsCount DEF Tasks
    <3>2. CASE ~(take("watchdog") /\ UNCHANGED <<frames, pump>>)
      <4>1. /\ UNCHANGED <<native, executor, finals, finalCount, ready, startCount, gate, frames, pump, callerVars>>
            /\ completion' = "none"
        BY <1>1, <3>2 DEF final_arrived, fallback_pushes, watchdog_ends, eventVars
      <4> QED
        BY <4>1, BoundsTyped, CountStays DEF BoundsInv, callerVars
    <3> QED
      BY <3>1, <3>2
  <2>2. watchdog' \in {"none", "push"} /\ watchdog # "none"
        /\ (watchdog = "flushing" => ~Pending("flush"))
    BY <1>1 DEF final_arrived, fallback_pushes, watchdog_ends
  <2>3. frames \notin Ending /\ frames # "flush"
    BY <2>2 DEF BoundsInv, StagesInv, Ending
  <2>4. StagesInv'
    BY <2>1, <2>2, <2>3 DEF BoundsInv, StagesInv, callerVars
  <2>5. ~Holds(executor, "flush")
    BY <2>2, <2>3, BoundsTyped DEF BoundsInv, ExecutorInv
  <2>6. ExecutorInv'
    BY <2>1, <2>5 DEF BoundsInv, ExecutorInv, Single, Holds
  <2>7. StreamsInv'
    BY <2>1, <2>2, BoundsTyped, StreamsStay DEF BoundsInv, callerVars
  <2> QED
    BY <2>1, <2>4, <2>6, <2>7 DEF BoundsInv
<1>2. CASE grace_ends
  <2>1. /\ watchdog = "waiting" /\ watchdog' = "flushing" /\ Submit("flush", {})
        /\ UNCHANGED <<native, eventVars, endpointVars, frames, pump, callerVars>>
    BY <1>2 DEF grace_ends
  <2>2. frames \notin Ending /\ frames # "flush"
    BY <2>1 DEF BoundsInv, StagesInv, Ending
  <2>3. ~Holds(executor, "flush")
    BY <2>1, <2>2 DEF BoundsInv, ExecutorInv
  <2>4. /\ Single(executor') /\ Holds(executor', "flush")
        /\ Holds(executor', "audio") => Holds(executor, "audio")
        /\ Worded(executor') <=> Worded(executor)
    <3>1. {} \in SUBSET Nat
      OBVIOUS
    <3> QED
      BY <2>1, <2>3, <3>1, SubmitKeepsSingle
  <2>5. StagesInv'
    BY <2>1, <2>2 DEF BoundsInv, StagesInv, eventVars, endpointVars, callerVars
  <2>6. ExecutorInv'
    BY <2>1, <2>4 DEF BoundsInv, ExecutorInv
  <2>7. CountInv'
    BY <2>1, <2>4 DEF BoundsInv, CountInv, eventVars, callerVars
  <2>8. StreamsInv'
    <3>1. /\ (IF Holds(executor', "flush") THEN 1 ELSE 0) = 1
          /\ (IF Holds(executor, "flush") THEN 1 ELSE 0) = 0
          /\ (IF watchdog' = "waiting" THEN 1 ELSE 0) = 0
          /\ (IF watchdog = "waiting" THEN 1 ELSE 0) = 1
          /\ UNCHANGED <<native, frames, speaking, starts>>
      BY <2>1, <2>3, <2>4 DEF callerVars
    <3>2. StreamsInv /\ native.number \in Nat /\ starts \in Nat
      BY BoundsTyped DEF BoundsInv
    <3> QED
      BY <3>1, <3>2 DEF StreamsInv
  <2> QED
    BY <2>5, <2>6, <2>7, <2>8 DEF BoundsInv
<1>3. CASE watchdog_cancelled
  <2>1. /\ watchdog' = "none" /\ flush_withdrawn
        /\ UNCHANGED <<native, eventVars, endpointVars, frames, pump, callerVars>>
    BY <1>3 DEF watchdog_cancelled
  <2>2. /\ Single(executor') /\ ~Holds(executor', "flush")
        /\ Holds(executor', "audio") => Holds(executor, "audio")
        /\ Worded(executor') => Worded(executor)
    BY <2>1, SingleBeside DEF BoundsInv, ExecutorInv
  <2>3. StagesInv'
    BY <2>1 DEF BoundsInv, StagesInv, eventVars, endpointVars, callerVars
  <2>4. ExecutorInv'
    BY <2>1, <2>2 DEF BoundsInv, ExecutorInv
  <2>5. CountInv'
    <3>1. (IF Worded(executor') THEN 1 ELSE 0) =< (IF Worded(executor) THEN 1 ELSE 0)
      BY <2>2
    <3> QED
      BY <2>1, <3>1, BoundsTyped DEF BoundsInv, CountInv, eventVars, callerVars
  <2>6. StreamsInv'
    BY <2>1, <2>2, BoundsTyped, StreamsStay DEF BoundsInv, callerVars
  <2> QED
    BY <2>3, <2>4, <2>5, <2>6 DEF BoundsInv
<1> QED
  BY <1>1, <1>2, <1>3 DEF await_native_finalization

LEMMA FrameKeepsBounds ==
  ASSUME WordsInv, BoundsInv, Frame
  PROVE  BoundsInv'
<1>1. CASE vad_start
  <2>1. /\ frames = "start" /\ frames' = "idle" /\ watchdog = "none" /\ speaking' = TRUE
        /\ starts' = starts + 1 /\ startCount' = finalCount
        /\ UNCHANGED <<native, executor, finals, finalCount, ready, gate, completion, pump,
                       watchdog, said, covered>>
    BY <1>1 DEF vad_start, streamVars, eventVars
  <2>2. speaking = FALSE /\ starts < MaxStarts
    BY <2>1 DEF BoundsInv, StagesInv
  <2>3. StagesInv'
    <3>1. starts' \in 0..MaxStarts /\ finalCount \in 0..finalCount
      BY <2>1, <2>2, BoundsTyped
    <3> QED
      BY <2>1, <3>1 DEF BoundsInv, StagesInv, Ending
  <2>4. ~Holds(executor, "flush") /\ ~Holds(executor, "audio")
    BY <2>1 DEF BoundsInv, ExecutorInv
  <2>5. ExecutorInv'
    BY <2>1, <2>4 DEF BoundsInv, ExecutorInv
  <2>6. CountInv'
    BY <2>1, BoundsTyped, CountStays DEF BoundsInv
  <2>7. StreamsInv'
    <3>1. /\ (IF speaking' THEN 1 ELSE 0) = 1 /\ (IF speaking THEN 1 ELSE 0) = 0
          /\ (IF frames \in Ending THEN 1 ELSE 0) = 0 /\ (IF frames' \in Ending THEN 1 ELSE 0) = 0
      BY <2>1, <2>2 DEF Ending
    <3>2. StreamsInv /\ native.number \in Nat /\ starts \in Nat
      BY BoundsTyped DEF BoundsInv
    <3> QED
      BY <2>1, <3>1, <3>2 DEF StreamsInv
  <2> QED
    BY <2>3, <2>5, <2>6, <2>7 DEF BoundsInv
<1>2. CASE vad_stop
  <2>1. /\ frames = "stop" /\ watchdog = "none" /\ speaking' = FALSE /\ covered' = 1..said
        /\ UNCHANGED <<native, executor, finals, finalCount, ready, pump, starts, said>>
    BY <1>2 DEF vad_stop, streamVars, eventVars
  <2>2. /\ frames' \in {"idle", "forward"} /\ startCount' \in {startCount, None}
        /\ gate' \in {gate, FALSE} /\ watchdog' \in {"none", "waiting"}
        /\ completion' \in {completion, "unset"}
    BY <1>2, <2>1 DEF vad_stop, stop_is_complete, stop_waits
  <2>3. speaking = TRUE
    BY <2>1 DEF BoundsInv, StagesInv
  <2>4. StagesInv'
    BY <2>1, <2>2 DEF BoundsInv, StagesInv, Ending
  <2>5. ~Holds(executor, "flush") /\ ~Holds(executor, "audio")
    BY <2>1 DEF BoundsInv, ExecutorInv
  <2>6. ExecutorInv'
    BY <2>1, <2>5 DEF BoundsInv, ExecutorInv
  <2>7. CountInv'
    BY <2>1, BoundsTyped, CountStays DEF BoundsInv
  <2>8. StreamsInv'
    <3>1. /\ (IF speaking' THEN 1 ELSE 0) = 0 /\ (IF speaking THEN 1 ELSE 0) = 1
          /\ (IF watchdog' = "waiting" THEN 1 ELSE 0) \in {0, 1}
          /\ (IF watchdog = "waiting" THEN 1 ELSE 0) = 0
          /\ (IF frames \in Ending THEN 1 ELSE 0) = 0 /\ (IF frames' \in Ending THEN 1 ELSE 0) = 0
      BY <2>1, <2>2, <2>3 DEF Ending
    <3>2. StreamsInv /\ native.number \in Nat /\ starts \in Nat
      BY BoundsTyped DEF BoundsInv
    <3> QED
      BY <2>1, <3>1, <3>2 DEF StreamsInv
  <2> QED
    BY <2>4, <2>6, <2>7, <2>8 DEF BoundsInv
<1>3. CASE stop_forwarded
  <2>1. /\ frames = "forward" /\ frames' = "drain" /\ gate' = TRUE
        /\ UNCHANGED <<native, executor, eventVars, startCount, completion, pump, watchdog, callerVars>>
    BY <1>3 DEF stop_forwarded, streamVars
  <2>2. StagesInv'
    BY <2>1 DEF BoundsInv, StagesInv, Ending, eventVars, callerVars
  <2>3. ExecutorInv'
    BY <2>1 DEF BoundsInv, ExecutorInv
  <2>4. CountInv'
    BY <2>1, BoundsTyped, CountStays DEF BoundsInv, eventVars, callerVars
  <2>5. StreamsInv'
    BY <2>1, BoundsTyped, StreamsStay DEF BoundsInv, callerVars, Ending
  <2> QED
    BY <2>2, <2>3, <2>4, <2>5 DEF BoundsInv
<1>4. CASE frames_push \/ end_push
  <2>1. /\ (take("frames") \/ push("frames")) /\ UNCHANGED <<pump, watchdog>>
        /\ frames' \in {"push", "idle", "last", "closed"}
        /\ frames' \in Ending <=> frames \in Ending
        /\ frames = "audio" => ~Pending("audio")
        /\ frames = "flush" => ~Pending("flush")
        /\ frames' \notin {"audio", "flush", "start", "stop"}
    BY <1>4 DEF frames_push, end_push, Ending
  <2>2. /\ CountInv' /\ completion' \in {"none", "unset", "set"}
        /\ UNCHANGED <<native, executor, finalCount, ready, startCount, gate, callerVars>>
    BY <2>1, TakeKeepsCount DEF Tasks
  <2>3. StagesInv'
    BY <2>1, <2>2 DEF BoundsInv, StagesInv, Ending, callerVars
  <2>4. ExecutorInv'
    BY <2>1, <2>2, BoundsTyped DEF BoundsInv, ExecutorInv
  <2>5. StreamsInv'
    BY <2>1, <2>2, BoundsTyped, StreamsStay DEF BoundsInv, callerVars
  <2> QED
    BY <2>2, <2>3, <2>4, <2>5 DEF BoundsInv
<1>5. CASE end_flush
  <2>1. /\ frames = "end" /\ watchdog = "none" /\ Submit("flush", {}) /\ frames' = "flush"
        /\ UNCHANGED <<native, eventVars, endpointVars, pump, watchdog, callerVars>>
    BY <1>5 DEF end_flush
  <2>2. ~Holds(executor, "flush") /\ ~Holds(executor, "audio")
    BY <2>1 DEF BoundsInv, ExecutorInv
  <2>3. /\ Single(executor') /\ Holds(executor', "flush") /\ ~Holds(executor', "audio")
        /\ Worded(executor') <=> Worded(executor)
    <3>1. {} \in SUBSET Nat
      OBVIOUS
    <3> QED
      BY <2>1, <2>2, <3>1, SubmitKeepsSingle
  <2>4. StagesInv'
    BY <2>1 DEF BoundsInv, StagesInv, Ending, eventVars, endpointVars, callerVars
  <2>5. ExecutorInv'
    BY <2>1, <2>3 DEF ExecutorInv
  <2>6. CountInv'
    BY <2>1, <2>3 DEF BoundsInv, CountInv, eventVars, callerVars
  <2>7. StreamsInv'
    <3>1. /\ (IF Holds(executor', "flush") THEN 1 ELSE 0) = 1
          /\ (IF Holds(executor, "flush") THEN 1 ELSE 0) = 0
          /\ (IF frames' \in Ending THEN 1 ELSE 0) = 1
          /\ (IF frames \in Ending THEN 1 ELSE 0) = 0
          /\ UNCHANGED <<native, watchdog, speaking, starts>>
      BY <2>1, <2>2, <2>3 DEF callerVars, Ending
    <3>2. StreamsInv /\ native.number \in Nat /\ starts \in Nat
      BY BoundsTyped DEF BoundsInv
    <3> QED
      BY <3>1, <3>2 DEF StreamsInv
  <2> QED
    BY <2>4, <2>5, <2>6, <2>7 DEF BoundsInv
<1> QED
  BY <1>1, <1>2, <1>3, <1>4, <1>5 DEF Frame

LEMMA CallerKeepsBounds ==
  ASSUME WordsInv, BoundsInv, CallerSpeaks
  PROVE  BoundsInv'
<1>1. CASE Starts \/ Stops \/ Ends
  <2>1. /\ frames = "idle" /\ frames' \in {"start", "stop", "end"} /\ completion' = "none"
        /\ frames' = "start" => ~speaking /\ starts < MaxStarts
        /\ frames' = "stop" => speaking
        /\ UNCHANGED <<native, executor, eventVars, startCount, gate, pump, watchdog, callerVars>>
    BY <1>1 DEF Starts, Stops, Ends, cancel_finalization_watchdog, streamVars
  <2>2. StagesInv'
    BY <2>1 DEF BoundsInv, StagesInv, Ending, eventVars, callerVars
  <2>3. ExecutorInv'
    BY <2>1 DEF BoundsInv, ExecutorInv
  <2>4. CountInv'
    BY <2>1, BoundsTyped, CountStays DEF BoundsInv, eventVars, callerVars
  <2>5. StreamsInv'
    BY <2>1, BoundsTyped, StreamsStay DEF BoundsInv, callerVars, Ending
  <2> QED
    BY <2>2, <2>3, <2>4, <2>5 DEF BoundsInv
<1>2. CASE Speak \/ Silence
  <2>1. PICK words \in {{}, {said + 1}} : run_stt(words) /\ (words # {} => said < MaxWords)
    BY <1>2 DEF Speak, Silence
  <2>2. /\ frames = "idle" /\ frames' = "audio" /\ Submit("audio", words)
        /\ said' = said + (IF words = {} THEN 0 ELSE 1)
        /\ UNCHANGED <<native, eventVars, endpointVars, pump, watchdog, speaking, starts, covered>>
    BY <2>1 DEF run_stt
  <2>3. ~Holds(executor, "audio") /\ words \in SUBSET Nat
    BY <2>2, BoundsTyped DEF BoundsInv, ExecutorInv
  <2>4. /\ Single(executor')
        /\ Holds(executor', "flush") <=> Holds(executor, "flush")
        /\ Worded(executor') <=> Worded(executor) \/ words # {}
    BY <2>2, <2>3, SubmitKeepsSingle
  <2>5. said =< said' /\ said' =< MaxWords /\ 1..said \subseteq 1..said'
    BY <2>1, <2>2, BoundsTyped DEF BoundsInv, StagesInv
  <2>6. StagesInv'
    <3>1. covered \subseteq 1..said'
      BY <2>5 DEF BoundsInv, StagesInv
    <3> QED
      BY <2>2, <2>5, <3>1 DEF BoundsInv, StagesInv, Ending, eventVars, endpointVars
  <2>7. ExecutorInv'
    BY <2>2, <2>4 DEF BoundsInv, ExecutorInv
  <2>8. CountInv'
    <3>1. (IF Worded(executor') THEN 1 ELSE 0) =<
            (IF Worded(executor) THEN 1 ELSE 0) + (IF words = {} THEN 0 ELSE 1)
      BY <2>4
    <3>2. UNCHANGED <<native, finals, finalCount>>
      BY <2>2 DEF eventVars
    <3>3. CountInv /\ finalCount \in Nat /\ said \in Nat
      BY BoundsTyped DEF BoundsInv
    <3> QED
      BY <2>2, <3>1, <3>2, <3>3 DEF CountInv
  <2>9. StreamsInv'
    BY <2>2, <2>4, BoundsTyped, StreamsStay DEF BoundsInv, Ending
  <2> QED
    BY <2>6, <2>7, <2>8, <2>9 DEF BoundsInv
<1> QED
  BY <1>1, <1>2 DEF CallerSpeaks

LEMMA NextKeepsBounds ==
  ASSUME WordsInv, BoundsInv, [Next]_vars
  PROVE  BoundsInv'
<1>1. CASE SpeechStep
  BY <1>1, JobKeepsBounds, LineKeepsBounds, PumpKeepsBounds, WatchdogKeepsBounds,
     CallerKeepsBounds, FrameKeepsBounds DEF SpeechStep, Service
<1>2. CASE \/ Turn \/ Request \/ Response \/ Interruption
           \/ EmbeddingStep \/ IssueStep \/ StreamStep \/ MemoryStep \/ UNCHANGED vars
  <2>1. UNCHANGED speechVars
    BY <1>2 DEF Turn, Request, Response, Interruption, EmbeddingStep, IssueStep, StreamStep,
                MemoryStep, vars
  <2>2. StagesInv' /\ ExecutorInv'
    BY <2>1 DEF BoundsInv, StagesInv, ExecutorInv, speechVars, streamVars, eventVars,
                endpointVars, taskVars, callerVars, Single, Holds
  <2>3. CountInv' /\ StreamsInv'
    BY <2>1 DEF BoundsInv, CountInv, StreamsInv, speechVars, streamVars, eventVars,
                taskVars, callerVars, Worded, Holds
  <2> QED
    BY <2>2, <2>3 DEF BoundsInv
<1> QED
  BY <1>1, <1>2 DEF Next

\* The stages of the tasks, and what the words and starts allow of jobs, lines and streams,
\* are as BoundsInv says in every reachable state.
THEOREM BoundsAlwaysSound == Spec => []BoundsInv
<1>1. Init => BoundsInv
  BY InitBoundsInv DEF Init
<1>2. WordsInv /\ BoundsInv /\ [Next]_vars => BoundsInv'
  BY NextKeepsBounds
<1> QED
  BY <1>1, <1>2, WordsAlwaysSound, PTL DEF Spec

\* However many words, starts and stops there are, the executor never holds more than one
\* piece of audio and one flush, every word makes at most one line, and a new stream follows
\* a stop (moonshine_stt.py).
THEOREM SpeechTypeCorrect == Spec => []SpeechTypeOK
<1>1. WordsInv /\ BoundsInv /\ HeldBack => SpeechTypeOK
  <2> SUFFICES ASSUME WordsInv, BoundsInv, HeldBack PROVE SpeechTypeOK
    OBVIOUS
  <2>1. native.number \in 1..(MaxStarts + 1)
    BY BoundsTyped DEF BoundsInv, StagesInv, StreamsInv
  <2>2. /\ finalCount \in 0..MaxWords /\ native.line \in 0..MaxWords
        /\ Len(finals) =< finalCount /\ startCount \in (0..MaxWords) \cup {None}
    <3>1. finalCount =< said /\ said =< MaxWords /\ native.line =< finalCount
      BY BoundsTyped DEF BoundsInv, CountInv, StagesInv
    <3>2. \A n \in 0..finalCount : n \in 0..MaxWords
      BY <3>1, BoundsTyped
    <3> QED
      BY <3>1, <3>2, BoundsTyped DEF BoundsInv, CountInv, StagesInv
  <2>3. native.words \subseteq Words /\ delivered \cup covered \cup excused \subseteq 1..said
    <3>1. 1..said \subseteq Words
      BY BoundsTyped DEF BoundsInv, StagesInv, Words
    <3>2. native.words \cup delivered \cup excused \subseteq 1..said /\ covered \subseteq 1..said
      BY DEF WordsInv, Placed, BoundsInv, StagesInv
    <3> QED
      BY <3>1, <3>2
  <2>4. Len(executor) =< 2
    BY BoundsTyped, SingleShort DEF BoundsInv, ExecutorInv
  <2>5. \A s, t \in Tasks : batch[s] # {} /\ batch[t] # {} => s = t
    BY DEF WordsInv, SpeechTypes
  <2>6. ~gate <=> frames = "forward"
    BY DEF HeldBack
  <2> QED
    BY <2>1, <2>2, <2>3, <2>4, <2>5, <2>6, BoundsTyped
       DEF SpeechTypeOK, BoundsInv, StagesInv, Ending
<1> QED
  BY <1>1, WordsAlwaysSound, BoundsAlwaysSound, FinalsAlwaysHeldBack, PTL

\* All variables of the caller's turns have the values their parts declare.
THEOREM TurnsTypeCorrect == Spec => []TypeOK
<1>1. Init => typed \in 0..scope.typed
  BY CallerAssumption DEF Init, ScopeType
<1>2. typed \in 0..scope.typed /\ scope \in Scopes /\ [Next]_vars => (typed \in 0..scope.typed)'
  <2> SUFFICES ASSUME typed \in 0..scope.typed, scope \in Scopes, [Next]_vars
               PROVE  typed' \in 0..scope'.typed
    OBVIOUS
  <2>1. scope.typed \in Nat
    BY CallerAssumption DEF ScopeType
  <2>2. CASE Interruption
    <3>1. scope' = scope
      BY <2>2 DEF Interruption
    <3>2. typed' = typed \/ typed' \in 1..scope.typed
      <4>1. CASE speaking /\ start_user_turn /\ UNCHANGED typed
        BY <4>1
      <4>2. CASE typed < scope.typed /\ typed' = typed + 1
        BY <2>1, <4>2
      <4> QED
        BY <2>2, <4>1, <4>2 DEF Interruption
    <3> QED
      BY <2>1, <3>1, <3>2
  <2>3. CASE UNCHANGED turnVars
    BY <2>3 DEF turnVars
  <2> QED
    BY <2>2, <2>3 DEF Next, Turn, Request, Response, SpeechStep, EmbeddingStep, IssueStep,
                      StreamStep, MemoryStep, vars
<1>3. SpeechTypeOK /\ CircuitInv /\ IssueInv /\ scope \in Scopes /\ RequestInv /\ HedgedInv
        /\ GenerationInv /\ typed \in 0..scope.typed => TypeOK
  BY DEF TypeOK, CircuitInv, IssueInv, RequestInv, HedgedInv, GenerationInv
<1> QED
  BY <1>1, <1>2, <1>3, SpeechTypeCorrect, CircuitAlwaysSound, IssueAlwaysSound,
     RequestAlwaysSound, RaceAlwaysSound, GenerationAlwaysSound, PTL DEF Spec
====

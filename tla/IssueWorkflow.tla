---- MODULE IssueWorkflow ----
(***************************************************************************)
(* The complaint draft of a call and the tool that the language model      *)
(* calls to change it (tools/raise_issue.py).                              *)
(*                                                                         *)
(* A response may call the tool several times, and the calls run at once.  *)
(* A call publishes that it is in progress, changes the draft in one step, *)
(* and publishes its result; only a confirmation waits in between, for the *)
(* issue to be stored, while it holds the draft's lock.  Of the fields the *)
(* model keeps whether none is missing.                                    *)
(***************************************************************************)
EXTENDS Naturals, Sequences, FiniteSets

CONSTANTS
  Calls,        \* tool calls that can be under way at once
  MaxDrafts,    \* bound: drafts that are started
  MaxIssues     \* bound: issues that are stored

ASSUME IssueAssumption == MaxDrafts \in Nat /\ MaxIssues \in Nat

VARIABLES
  status,     \* IssueWorkflowState.status
  complete,   \* missing_fields() is empty
  draft,      \* number of the draft: reset() starts the next one
  issueId,    \* issue_id, 0 for None
  call,       \* each tool call: where it is, its operation, the row it stores and its id
  issues,     \* the table of issues: the draft that each row is of
  unsure,     \* history: drafts whose stored row was not reported
  overtaken   \* history: drafts begun while an earlier one was submitted

issueVars == <<status, complete, draft, issueId, call, issues, unsure, overtaken>>

Operations == {"start", "update", "confirm", "cancel", "status", "retry"}
NoCall == [pc |-> "none", op |-> "status", row |-> 0, id |-> 0]
Editable == {"collecting_fields", "awaiting_confirmation"}
NoDraft == {"idle", "cancelled", "submitted"}
IssueActive == status \in Editable \cup {"submitting"}

IssueInit ==
  /\ status = "idle" /\ complete = FALSE /\ draft = 0 /\ issueId = 0
  /\ call = [c \in Calls |-> NoCall]
  /\ issues = <<>> /\ unsure = {} /\ overtaken = {}

At(c, pc) == call[c].pc = pc
Goto(c, pc) == call' = [call EXCEPT ![c].pc = pc]
Submits(c) == call[c].pc \in {"creating", "stored"}

\* A confirmation holds confirmation_lock until its result is published.
Locked == \E c \in Calls : call[c].op = "confirm" /\ (Submits(c) \/ At(c, "finish"))

\* The calls of one response run at once; each of them, manage_issue_draft,
\* first publishes that it is in progress.
begin_calls(op) ==
  /\ \A c \in DOMAIN op : At(c, "none")
  /\ call' = [c \in Calls |-> IF c \in DOMAIN op
                              THEN [NoCall EXCEPT !.pc = "begun", !.op = op[c]] ELSE call[c]]
  /\ UNCHANGED <<status, complete, draft, issueId, issues, unsure, overtaken>>

\* status and defer, and every operation that the draft is not ready for.
refuse(c) ==
  /\ \/ call[c].op = "status"
     \/ call[c].op = "cancel" /\ status \in NoDraft
     \/ call[c].op \in {"update", "retry"} /\ status \notin Editable
     \/ call[c].op = "confirm" /\ ~Locked /\ status # "awaiting_confirmation"
  /\ Goto(c, "finish")
  /\ UNCHANGED <<status, complete, draft, issueId, issues, unsure, overtaken>>

\* A draft that is being submitted can be cancelled, and is stored all the same.
cancel_draft(c) ==
  /\ call[c].op = "cancel" /\ status \notin NoDraft
  /\ status' = "cancelled"
  /\ Goto(c, "finish")
  /\ UNCHANGED <<complete, draft, issueId, issues, unsure, overtaken>>

\* _merge_draft_fields clears a field that it rejects.
merged(after) ==
  /\ complete' = after
  /\ status' = IF after THEN "awaiting_confirmation" ELSE "collecting_fields"

\* reset() happens only without a draft; a draft under submission is reopened.
start(c) ==
  /\ call[c].op = "start"
  /\ \E after \in BOOLEAN : merged(after)
  /\ IF status \in NoDraft
     THEN /\ draft < MaxDrafts /\ draft' = draft + 1 /\ issueId' = 0
          /\ overtaken' = overtaken \cup (IF \E d \in Calls : Submits(d) THEN {draft + 1} ELSE {})
     ELSE UNCHANGED <<draft, issueId, overtaken>>
  /\ Goto(c, "finish")
  /\ UNCHANGED <<issues, unsure>>

\* _retry_recent_evidence only adds fields.
edit(c) ==
  /\ status \in Editable
  /\ \/ call[c].op = "update" /\ \E after \in BOOLEAN : merged(after)
     \/ call[c].op = "retry" /\ \E after \in {complete, TRUE} : merged(after)
  /\ Goto(c, "finish")
  /\ UNCHANGED <<draft, issueId, issues, unsure, overtaken>>

\* The row is built from the fields of this moment; without one of them, 0, the
\* table refuses it.
RowOf == IF complete THEN draft ELSE 0

\* Fault: a confirmation does not wait for the lock.
confirmUnlocked(c) ==
  /\ call[c].op = "confirm" /\ status = "awaiting_confirmation"
  /\ status' = "submitting"
  /\ call' = [call EXCEPT ![c].pc = "creating", ![c].row = RowOf]
  /\ UNCHANGED <<complete, draft, issueId, issues, unsure, overtaken>>

confirm(c) ==
  /\ call[c].op = "confirm" /\ ~Locked /\ status = "awaiting_confirmation"
  /\ status' = "submitting"
  /\ call' = [call EXCEPT ![c].pc = "creating", ![c].row = RowOf]
  /\ UNCHANGED <<complete, draft, issueId, issues, unsure, overtaken>>

operate(c) ==
  At(c, "begun") /\ (refuse(c) \/ cancel_draft(c) \/ start(c) \/ edit(c) \/ confirm(c))

---------------------------------------------------------------------------
\* _create_issue_record.
commit(c) ==
  /\ At(c, "creating") /\ call[c].row # 0 /\ Len(issues) < MaxIssues
  /\ issues' = Append(issues, call[c].row)
  /\ call' = [call EXCEPT ![c].pc = "stored", ![c].id = Len(issues) + 1]
  /\ UNCHANGED <<status, complete, draft, issueId, unsure, overtaken>>

created(c) ==
  /\ At(c, "stored")
  /\ issueId' = call[c].id
  /\ status' = "submitted"
  /\ Goto(c, "finish")
  /\ UNCHANGED <<complete, draft, issues, unsure, overtaken>>

\* A time-out or an error, also between the commit and its answer.
not_created(c) ==
  /\ Submits(c)
  /\ status' = "awaiting_confirmation"
  /\ unsure' = IF At(c, "stored") THEN unsure \cup {call[c].row} ELSE unsure
  /\ Goto(c, "finish")
  /\ UNCHANGED <<complete, draft, issueId, issues, overtaken>>

\* _finish_workflow_call.
finish_call(c) ==
  /\ At(c, "finish")
  /\ call' = [call EXCEPT ![c] = NoCall]
  /\ UNCHANGED <<status, complete, draft, issueId, issues, unsure, overtaken>>

CallStep(c) == operate(c) \/ commit(c) \/ created(c) \/ not_created(c) \/ finish_call(c)

\* An interruption cancels every call: a submission returns the draft to the
\* caller and publishes that it was cancelled, the others just end.
cancel_calls ==
  /\ LET submitting == {c \in Calls : Submits(c)} IN
     /\ status' = IF submitting = {} THEN status ELSE "awaiting_confirmation"
     /\ unsure' = unsure \cup {call[c].row : c \in {d \in submitting : At(d, "stored")}}
     /\ call' = [c \in Calls |-> IF c \in submitting THEN [call[c] EXCEPT !.pc = "finish"]
                                 ELSE NoCall]
  /\ UNCHANGED <<complete, draft, issueId, issues, overtaken>>

CallRows == [pc : {"none", "begun", "creating", "stored", "finish"}, op : Operations,
             row : 0..draft, id : 0..Len(issues)]

IssueTypeOK ==
  /\ status \in NoDraft \cup Editable \cup {"submitting"}
  /\ complete \in BOOLEAN
  /\ draft \in 0..MaxDrafts /\ issueId \in 0..Len(issues)
  /\ call \in [Calls -> CallRows]
  /\ issues \in Seq(1..draft) /\ Len(issues) =< MaxIssues
  /\ unsure \cup overtaken \subseteq 1..draft

\* A draft is stored once, although its confirmation may be repeated, raced by
\* another or followed by edits, unless a stored row's answer was lost.  What is
\* called submitted was stored, and being submitted means that a call sees to it;
\* a draft begun while its predecessor was stored may carry that one's outcome.
FiledOnce ==
  /\ \A d \in 1..draft :
       d \notin unsure => Cardinality({i \in DOMAIN issues : issues[i] = d}) =< 1
  /\ status = "submitted" =>
       issueId \in DOMAIN issues /\ (issues[issueId] = draft \/ draft \in overtaken)
  /\ status = "submitting" => \E c \in Calls : Submits(c)
====

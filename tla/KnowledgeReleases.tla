---- MODULE KnowledgeReleases ----
(***************************************************************************)
(* The releases of the knowledge corpus and the administrators' publish    *)
(* and rollback transactions (services/knowledge/releases.py), over the    *)
(* units, embeddings and conflicts of KnowledgeUnits.                      *)
(*                                                                         *)
(* A transaction locks its target's row, validates without locks, waits    *)
(* for the row of the release that was published when it looked, and       *)
(* commits both changes at once, unless the partial unique index on the    *)
(* status finds another published release.                                 *)
(***************************************************************************)
EXTENDS KnowledgeUnits

CONSTANTS
  Releases,     \* the releases that may be created
  Admins        \* requests that can be under way at once

NoRelease == "no release"
NoAdmin == "no admin"

ASSUME KnowledgeReleasesAssumption == NoRelease \notin Releases /\ NoAdmin \notin Admins

VARIABLES
  release,   \* rows of knowledge_releases
  members,   \* knowledge_release_units
  lock,      \* the transaction that holds each release's row
  txn        \* where each administrator's transaction is

releaseVars == <<release, members, lock, txn>>

Closed == [pc |-> "none", kind |-> "publish", target |-> NoRelease, current |-> NoRelease]

ReleasesInit ==
  /\ release = [r \in Releases |-> "none"]
  /\ members = [r \in Releases |-> {}]
  /\ lock = [r \in Releases |-> NoAdmin]
  /\ txn = [a \in Admins |-> Closed]

\* A draft of any existing units, of any status.
create_release(r) ==
  /\ release[r] = "none"
  /\ \E us \in SUBSET {u \in Unit : Exists(u)} \ {{}} :
       members' = [members EXCEPT ![r] = us]
  /\ release' = [release EXCEPT ![r] = "draft"]
  /\ UNCHANGED <<lock, txn>>

Required(kind) == IF kind = "publish" THEN "draft" ELSE "retired"

\* SELECT ... FOR UPDATE of the target; any other status raises at once.
lock_target(a, kind, r) ==
  /\ txn[a].pc = "none" /\ lock[r] = NoAdmin
  /\ release[r] = Required(kind)
  /\ lock' = [lock EXCEPT ![r] = a]
  /\ txn' = [txn EXCEPT ![a] = [Closed EXCEPT !.pc = "validate", !.kind = kind, !.target = r]]
  /\ UNCHANGED <<release, members>>

Release(a) == [r \in Releases |-> IF lock[r] = a THEN NoAdmin ELSE lock[r]]

\* An exception: the session rolls back and its locks are released.
Raise(a) ==
  /\ lock' = Release(a)
  /\ txn' = [txn EXCEPT ![a] = Closed]
  /\ UNCHANGED <<release, members>>

\* validate_release: statuses, open conflicts, embeddings.
valid(r, kind) ==
  /\ \A u \in members[r] :
       /\ units[u].status \in ({"approved"} \cup (IF kind = "rollback" THEN {"retired"} ELSE {}))
       /\ u \in embedded
  /\ \A p \in Pairs : p \cap members[r] # {} => conflict[p] # "open"

\* Validation, then the look for the published release.
validate_release(a) ==
  /\ txn[a].pc = "validate"
  /\ IF valid(txn[a].target, txn[a].kind)
     THEN /\ txn' = [txn EXCEPT ![a].pc = "look"]
          /\ UNCHANGED <<release, members, lock>>
     ELSE Raise(a)

look_for_current(a) ==
  /\ txn[a].pc = "look"
  /\ \E r \in Releases \cup {NoRelease} :
       /\ IF r = NoRelease THEN \A p \in Releases : release[p] # "published"
          ELSE release[r] = "published"
       /\ txn' = [txn EXCEPT ![a].pc = "lock", ![a].current = r]
  /\ UNCHANGED <<release, members, lock>>

\* A row that was waited for is skipped if it no longer matches.
still_current(r) == release[r] = "published"

lock_current(a) ==
  LET r == txn[a].current IN
  /\ txn[a].pc = "lock"
  /\ IF r = NoRelease
     THEN /\ txn' = [txn EXCEPT ![a].pc = "commit"] /\ UNCHANGED lock
     ELSE /\ lock[r] = NoAdmin
          /\ IF still_current(r)
             THEN /\ lock' = [lock EXCEPT ![r] = a]
                  /\ txn' = [txn EXCEPT ![a].pc = "commit"]
             ELSE /\ txn' = [txn EXCEPT ![a].pc = "commit", ![a].current = NoRelease]
                  /\ UNCHANGED lock
  /\ UNCHANGED <<release, members>>

\* Fault: the database has no partial unique index on the published status.
unique_publishedUnchecked(a) == TRUE

\* uq_krel_one_published.
unique_published(a) ==
  \A r \in Releases : release[r] = "published" => r = txn[a].current

commit_swap(a) ==
  LET t == txn[a] IN
  /\ t.pc = "commit"
  /\ IF unique_published(a)
     THEN /\ release' = [r \in Releases |->
               IF r = t.target THEN "published"
               ELSE IF r = t.current THEN "retired" ELSE release[r]]
          /\ lock' = Release(a)
          /\ txn' = [txn EXCEPT ![a] = Closed]
          /\ UNCHANGED members
     ELSE Raise(a)

publish_release(a) == \E r \in Releases : lock_target(a, "publish", r)
rollback_release(a) == \E r \in Releases : lock_target(a, "rollback", r)

Transaction(a) ==
  \/ publish_release(a) \/ rollback_release(a) \/ validate_release(a)
  \/ look_for_current(a) \/ lock_current(a) \/ commit_swap(a)

Transactions ==
  [pc : {"none", "validate", "look", "lock", "commit"}, kind : {"publish", "rollback"},
   target : Releases \cup {NoRelease}, current : Releases \cup {NoRelease}]

ReleasesTypeOK ==
  /\ release \in [Releases -> {"none", "draft", "published", "retired"}]
  /\ members \in [Releases -> SUBSET Unit]
  /\ lock \in [Releases -> Admins \cup {NoAdmin}]
  /\ txn \in [Admins -> Transactions]

Served == {r \in Releases : release[r] \in {"published", "retired"}}
Live == IF \E r \in Releases : release[r] = "published"
        THEN CHOOSE r \in Releases : release[r] = "published"
        ELSE NoRelease

\* Publication and rollback keep exactly one live release, whatever requests
\* are under way at once.
Corpus == INSTANCE KnowledgeCorpus WITH live <- Live, served <- Served
OneLiveRelease == Corpus!Spec

\* What a caller can be told from a release is a text an administrator
\* approved: every unit of a release that was ever published has such a text,
\* unless a crawl had read the unit as a draft before its approval and wrote
\* it afterwards.
ServedTextApproved ==
  \A r \in Served : \A u \in members[r] :
    units[u].text \in approved[u] \/ u \in raced
====

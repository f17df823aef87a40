---- MODULE KnowledgeUnits ----
(***************************************************************************)
(* The knowledge units, the jobs that change them and the reviewers who    *)
(* decide on them (services/knowledge/units.py, ingestion.py, conflicts.py,*)
(* jobs.py:80-112 and the review endpoints of api/knowledge.py).           *)
(*                                                                         *)
(* A unit is a version of a section of a crawled page.  Version 1 has the  *)
(* section's stable key, version n the key with the suffix .vn; a page     *)
(* shows one section with one text, or nothing a unit is made of.  A crawl *)
(* reads a unit without a lock and writes it with its session's flush, so  *)
(* a review can come between the two.                                      *)
(***************************************************************************)
EXTENDS Naturals, FiniteSets

CONSTANTS
  Sections,     \* stable keys a crawl of the page derives
  Texts,        \* texts a page can show for a section
  Spoken,       \* the text of a unit once a reviewer gave a voice_answer
  Crawlers,     \* worker processes
  MaxVersion,   \* bound: versions of a section
  MaxEdits,     \* bound: changes of the page or of the source's policy
  MaxReviews    \* bound: reviewers' decisions

ASSUME KnowledgeUnitsAssumption ==
  /\ Spoken \notin Texts
  /\ MaxVersion \in Nat \ {0} /\ MaxEdits \in Nat /\ MaxReviews \in Nat

VARIABLES
  page,        \* what the source's page shows
  normalized,  \* page contents with a normalized snapshot
  units,       \* rows of knowledge_units
  embedded,    \* units with a row in knowledge_embeddings
  conflict,    \* knowledge_conflicts, by pair of units
  task,        \* where each worker's job is, and what it has read
  approved,    \* history: the texts each unit was approved with
  raced,       \* history: units a crawl wrote that were reviewed since it read them
  edits, reviews

unitVars == <<page, normalized, units, embedded, conflict, task, approved,
              raced, edits, reviews>>

Unit == Sections \X (1..MaxVersion)
Excluded == << >>   \* the source's policy keeps the page from making units
Contents == (Sections \X Texts) \cup {Excluded}
Base(s) == <<s, 1>>
Pairs == {p \in SUBSET Unit : Cardinality(p) = 2}

UnitRows == [status : {"none", "draft", "approved", "retired"},
             text : Texts \cup {Spoken, "none"}]
NoUnit == [status |-> "none", text |-> "none"]
Exists(u) == units[u].status # "none"
Open(u) == units[u].status \in {"draft", "approved"}

Idle == [pc |-> "idle", content |-> Excluded, base |-> NoUnit, next |-> 0]

\* A corpus that starts empty, or with one unit reviewed and embedded.
Seeded(us, text) ==
  /\ units = [u \in Unit |->
       IF u \in us THEN [status |-> "approved", text |-> text] ELSE NoUnit]
  /\ approved = [u \in Unit |-> IF u \in us THEN {text} ELSE {}]
  /\ embedded = us
  /\ normalized = {<<u[1], text>> : u \in us}

UnitsInit ==
  /\ page \in Contents \ {Excluded}
  /\ Seeded({}, page[2]) \/ Seeded({Base(page[1])}, page[2])
  /\ conflict = [p \in Pairs |-> "none"]
  /\ task = [w \in Crawlers |-> Idle]
  /\ raced = {}
  /\ edits = 0 /\ reviews = 0

At(w, pc) == task[w].pc = pc
Move(w, pc) == task' = [task EXCEPT ![w].pc = pc]
Quiet == UNCHANGED <<page, edits, approved, reviews>>
Still == UNCHANGED <<normalized, units, embedded, conflict, raced>>

---------------------------------------------------------------------------
page_changes ==
  /\ edits < MaxEdits /\ edits' = edits + 1
  /\ page' \in Contents \ {page}
  /\ UNCHANGED <<normalized, units, embedded, conflict, task, approved, raced, reviews>>

---------------------------------------------------------------------------
\* crawl_source: _ingest_html_page.  A content that was ingested before (or a
\* 304) makes no unit, even if another content was ingested in between.
ingest_page(w) ==
  /\ At(w, "idle")
  /\ IF page \in normalized \ {Excluded}
     THEN Move(w, "dedupe")
     ELSE task' = [task EXCEPT ![w] = [Idle EXCEPT !.pc = "fetched", !.content = page]]
  /\ Quiet /\ Still

\* An excluded page retires the drafts it has left.
exclude_page(w) ==
  /\ At(w, "fetched") /\ task[w].content = Excluded
  /\ units' = [u \in Unit |->
       IF units[u].status = "draft" THEN [units[u] EXCEPT !.status = "retired"]
       ELSE units[u]]
  /\ Move(w, "dedupe")
  /\ Quiet /\ UNCHANGED <<normalized, embedded, conflict, raced>>

LastVersion(s) ==
  CHOOSE n \in 1..MaxVersion :
    /\ Exists(<<s, n>>)
    /\ \A m \in (n + 1)..MaxVersion : ~Exists(<<s, m>>)

\* upsert_draft_unit reads the unit with the section's key, and for a reviewed
\* one the highest version there is...
upsert_read(w) ==
  LET s == task[w].content[1]
      base == units[Base(s)] IN
  /\ At(w, "fetched") /\ task[w].content # Excluded
  /\ task' = [task EXCEPT
       ![w].pc = "flush",
       ![w].base = base,
       ![w].next = IF base.status \in {"approved", "retired"} /\ base.text # task[w].content[2]
                   THEN LastVersion(s) + 1 ELSE 1]
  /\ Quiet /\ Still

\* Fault: a reviewed unit gets no new version, it is edited in place.
targetInPlace(read, text, next) == 1

\* The version upsert_draft_unit leaves as it is or writes.
target(read, text, next) == IF read.status = "draft" \/ read.text = text THEN 1 ELSE next

\* ... and flushes with the page's transaction, which retires the other open
\* units of the page.  A draft edited in place keeps the status it has by now:
\* the session writes the columns that differ from what it read.  A version
\* that exists by now violates the unique key, and the page can only fail.
upsert_write(w) ==
  LET s == task[w].content[1]
      text == task[w].content[2]
      base == task[w].base
      u == <<s, target(base, text, task[w].next)>>
      unchanged == base.status # "none" /\ base.text = text
      insert == ~unchanged /\ (base.status = "none" \/ u # Base(s)) IN
  /\ At(w, "flush") /\ u \in Unit
  /\ insert => ~Exists(u)
  /\ units' = [v \in Unit |->
       IF v = u
       THEN IF unchanged THEN units[v]
            ELSE IF insert THEN [status |-> "draft", text |-> text]
            ELSE [units[v] EXCEPT !.text = text]
       ELSE IF Open(v) THEN [units[v] EXCEPT !.status = "retired"] ELSE units[v]]
  /\ raced' = IF base.status = "draft" /\ ~unchanged /\ units[u].status # "draft"
              THEN raced \cup {u} ELSE raced
  /\ normalized' = normalized \cup {task[w].content}
  /\ Move(w, "dedupe")
  /\ Quiet /\ UNCHANGED <<embedded, conflict>>

\* Extraction, storage or the database fails: the page is rolled back, the
\* crawl goes on with the next one.
page_fails(w) ==
  /\ task[w].pc \in {"fetched", "flush"}
  /\ Move(w, "dedupe")
  /\ Quiet /\ Still

\* _retire_duplicate_draft_units: of the open units with one answer, every
\* draft but the one kept is retired; an approved one is kept first.
Duplicates(u) == {v \in Unit : Open(v) /\ units[v].text = units[u].text}
Kept(u) ==
  LET reviewed == {v \in Duplicates(u) : units[v].status = "approved"} IN
  CHOOSE v \in (IF reviewed # {} THEN reviewed ELSE Duplicates(u)) : TRUE

retire_duplicates(w) ==
  /\ At(w, "dedupe")
  /\ units' = [u \in Unit |->
       IF units[u].status = "draft" /\ Kept(u) # u
       THEN [units[u] EXCEPT !.status = "retired"] ELSE units[u]]
  /\ Move(w, "done")
  /\ Quiet /\ UNCHANGED <<normalized, embedded, conflict, raced>>

crawl_website_source(w) ==
  ingest_page(w) \/ exclude_page(w) \/ upsert_read(w) \/ upsert_write(w)
    \/ page_fails(w) \/ retire_duplicates(w)

---------------------------------------------------------------------------
\* embed_units: every open unit gets a row, with the vector of the text read.
embed_units(w) ==
  /\ At(w, "idle")
  /\ embedded' = embedded \cup {u \in Unit : Open(u)}
  /\ Move(w, "done")
  /\ Quiet /\ UNCHANGED <<normalized, units, conflict, raced>>

\* detect_conflicts: two open versions of one section, from two documents, with
\* two answers.  A pair is flagged once: a row that was decided stays decided.
detect_knowledge_conflicts(w) ==
  /\ At(w, "idle")
  /\ conflict' = [p \in Pairs |->
       IF /\ conflict[p] = "none"
          /\ \A u \in p : Open(u)
          /\ \E u, v \in p : u[1] = v[1] /\ units[u].text # units[v].text
       THEN "open" ELSE conflict[p]]
  /\ Move(w, "done")
  /\ Quiet /\ UNCHANGED <<normalized, units, embedded, raced>>

---------------------------------------------------------------------------
\* approve_unit, under the row's lock: whatever text the row has by now, or the
\* text with the reviewer's voice_answer; any status may be approved.
approve_unit(u) ==
  \E text \in {units[u].text, Spoken} :
    /\ Exists(u)
    /\ units' = [units EXCEPT ![u] = [status |-> "approved", text |-> text]]
    /\ approved' = [approved EXCEPT ![u] = @ \cup {text}]
    /\ UNCHANGED conflict

retire_unit(u) ==
  /\ Exists(u) /\ units[u].status # "retired"
  /\ units' = [units EXCEPT ![u].status = "retired"]
  /\ UNCHANGED <<approved, conflict>>

resolve_conflict(p) ==
  /\ conflict[p] = "open"
  /\ conflict' = [conflict EXCEPT ![p] = "decided"]
  /\ UNCHANGED <<units, approved>>

Review ==
  /\ reviews < MaxReviews /\ reviews' = reviews + 1
  /\ \/ \E u \in Unit : approve_unit(u) \/ retire_unit(u)
     \/ \E p \in Pairs : resolve_conflict(p)
  /\ UNCHANGED <<page, normalized, embedded, task, raced, edits>>

TaskRows == [pc : {"idle", "fetched", "flush", "dedupe", "done"}, content : Contents,
             base : UnitRows, next : 0..(MaxVersion + 1)]

UnitsTypeOK ==
  /\ page \in Contents /\ normalized \subseteq Contents
  /\ units \in [Unit -> UnitRows]
  /\ embedded \subseteq Unit
  /\ conflict \in [Pairs -> {"none", "open", "decided"}]
  /\ task \in [Crawlers -> TaskRows]
  /\ approved \in [Unit -> SUBSET (Texts \cup {Spoken})]
  /\ raced \subseteq Unit
  /\ edits \in 0..MaxEdits /\ reviews \in 0..MaxReviews
====

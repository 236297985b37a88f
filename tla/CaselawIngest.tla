------------------------------ MODULE CaselawIngest ------------------------------
(* The worker's stage and caselaw jobs.  A stage job splits a snapshot's tables into *)
(* one directory per court; a caselaw job walks one staged court's opinions into     *)
(* document rows and stored texts, one committed transaction per transition, and     *)
(* completes rows that an earlier release or an earlier pipeline left behind.        *)
(*                                                                                   *)
(* An opinion is its position in the staged file.  What the parsers compute is       *)
(* reduced to which passes have rows under which pipeline.                           *)
EXTENDS Integers, Sequences, FiniteSets

CONSTANTS
  Opinions,    \* how many opinions the court has
  Text,        \* per opinion: "text", "no-text" or "illegible"
  Poison,      \* the opinions whose parse takes the worker down
  Histories,   \* [rows, pipes]: rows an earlier release left, the pipelines asked for
  Workers,     \* the executions that may be going at once
  MaxAttempts, \* MAX_ATTEMPTS
  MaxFaults    \* bound on the failures and kills that are not a poison opinion's

ASSUME IngestShapes ==
  /\ Opinions \in Nat \ {0} /\ MaxAttempts \in Nat \ {0} /\ MaxFaults \in Nat
  /\ Text \in [1..Opinions -> {"text", "no-text", "illegible"}] /\ Poison \subseteq 1..Opinions
  /\ 0 \notin Workers

VARIABLES
  staged,     \* the label's stage directory: none, or whole with its record
  partial,    \* the tables written in <source>.partial, -1 when there is none
  locks,      \* the stage lock and the court lock: the execution holding each, or 0
  documents,  \* per opinion its document and opinion rows
  storedDocs,     \* the texts in the object store
  pipes,      \* the pipelines this installation's labels name
  ingestRun,  \* per execution its place
  faults

ingestVars == <<staged, partial, locks, documents, storedDocs, pipes, ingestRun, faults>>

Passes0 == {"sections", "anchors", "citations", "signals", "chunks"}
STAGE_TABLES == <<"courts", "dockets", "opinion-clusters", "citations", "opinions">>
Rows0 == 1..Opinions
Reasons == {"none", "no-text", "illegible", "interrupted"}

\* A document with its opinion row: its marks, and the passes that have rows, per pipeline.
Document == [status : {"absent", "processing", "ready", "failed"}, attempts : Int, reason : Reasons,
             named : BOOLEAN, flagged : BOOLEAN, anchored : BOOLEAN, cited : BOOLEAN,
             treated : 0..2, rows : [1..2 -> SUBSET Passes0]]

\* No document row yet.
Absent == [status |-> "absent", attempts |-> 0, reason |-> "none", named |-> FALSE, flagged |-> FALSE,
           anchored |-> FALSE, cited |-> FALSE, treated |-> 0, rows |-> [p \in 1..2 |-> {}]]

NoRun == [op |-> "none", at |-> "idle", i |-> 0, pipe |-> 0, present |-> <<>>, active |-> FALSE,
          outcome |-> "none"]

Job(w) == ingestRun[w]
Puts(w, r) == ingestRun' = [ingestRun EXCEPT ![w] = r]
Steps(w, place) == Puts(w, [Job(w) EXCEPT !.at = place])
Ends(w, outcome) == Puts(w, [Job(w) EXCEPT !.at = "close", !.outcome = outcome])
Fault == faults > 0 /\ faults' = faults - 1
On(w, op, place) == Job(w).op = op /\ Job(w).at = place

Stage0   == <<staged, partial>>
Records0 == <<documents, storedDocs>>

-----------------------------------------------------------------------------
(* The stage job. *)

\* A whole directory with its record ends the job before the lock.
StageStarts(w) ==
  /\ Job(w) = NoRun /\ staged = "none"
  /\ Puts(w, [NoRun EXCEPT !.op = "stage", !.at = "lock"])
  /\ UNCHANGED <<Stage0, Records0, locks, pipes, faults>>

StageLocks(w) ==
  /\ On(w, "stage", "lock")
  /\ IF locks.stage = 0 THEN locks' = [locks EXCEPT !.stage = w] /\ Steps(w, "recheck")
     ELSE Ends(w, "busy") /\ UNCHANGED locks
  /\ UNCHANGED <<Stage0, Records0, pipes, faults>>

\* The record once more under the lock, the pinned inputs, then a clean partial.
StageRechecks(w) ==
  /\ On(w, "stage", "recheck")
  /\ \/ staged # "none" /\ Ends(w, "succeeded") /\ UNCHANGED <<partial, faults>>
     \/ staged = "none" /\ partial' = 0 /\ Steps(w, "tables") /\ UNCHANGED faults
     \/ staged = "none" /\ Fault /\ Ends(w, "missing-input") /\ UNCHANGED partial
  /\ UNCHANGED <<staged, Records0, locks, pipes>>

\* One table after another, each filtered by the ids the one before kept.
StageTable(w) ==
  /\ On(w, "stage", "tables") /\ partial < Len(STAGE_TABLES)
  /\ \/ partial' = partial + 1 /\ UNCHANGED <<ingestRun, faults>>
     \/ Fault /\ Ends(w, "malformed") /\ UNCHANGED partial
  /\ UNCHANGED <<staged, Records0, locks, pipes>>

\* The record goes into the partial, which is then renamed.
StagePublishes(w) ==
  /\ On(w, "stage", "tables") /\ partial = Len(STAGE_TABLES)
  /\ staged' = "whole" /\ partial' = -1 /\ Ends(w, "succeeded")
  /\ UNCHANGED <<Records0, locks, pipes, faults>>

-----------------------------------------------------------------------------
(* The caselaw job. *)

IngestStarts(w) ==
  /\ Job(w) = NoRun
  /\ \E p \in pipes :
       Puts(w, [NoRun EXCEPT !.op = "ingest", !.pipe = p,
                  !.at = IF staged = "whole" THEN "lock" ELSE "close",
                  !.outcome = IF staged = "whole" THEN "none" ELSE "missing-stage"])
  /\ UNCHANGED <<Stage0, Records0, locks, pipes, faults>>

\* Mutant: the court lock is not taken.
IngestLocksNever(w) ==
  /\ On(w, "ingest", "lock") /\ Steps(w, "load")
  /\ UNCHANGED <<Stage0, Records0, locks, pipes, faults>>

IngestLocks(w) ==
  /\ On(w, "ingest", "lock")
  /\ IF locks.court = 0 THEN locks' = [locks EXCEPT !.court = w] /\ Steps(w, "load")
     ELSE Ends(w, "busy") /\ UNCHANGED locks
  /\ UNCHANGED <<Stage0, Records0, pipes, faults>>

\* The tables, the finder and the tokenizer; then the rows present, read once.
Loads0(w) ==
  /\ On(w, "ingest", "load")
  /\ \/ /\ Puts(w, [Job(w) EXCEPT !.at = "name", !.i = 1, !.present = documents])
        /\ UNCHANGED faults
     \/ Fault /\ Ends(w, "database")
  /\ UNCHANGED <<Stage0, Records0, locks, pipes>>

Previous(w) == Job(w).present[Job(w).i]
OpinionRow(w, d) == documents' = [documents EXCEPT ![Job(w).i] = d]
Now0(w) == documents[Job(w).i]

\* The next opinion of the file, or the job's end.
Next0(w) == IF Job(w).i = Opinions THEN Ends(w, "succeeded")
            ELSE Puts(w, [Job(w) EXCEPT !.at = "name", !.i = @ + 1, !.active = FALSE])

\* A transaction that fails rolls back; the attempt the job counted is given back.
CommitFails(w) ==
  /\ Fault
  /\ IF Job(w).active THEN Puts(w, [Job(w) EXCEPT !.at = "give-back", !.outcome = "database"])
     ELSE Ends(w, "database")
  /\ UNCHANGED documents

write_name(w) ==
  /\ On(w, "ingest", "name")
  /\ \/ /\ IF Previous(w).status = "ready" /\ ~Previous(w).named
           THEN OpinionRow(w, [Now0(w) EXCEPT !.named = TRUE]) ELSE UNCHANGED documents
        /\ Steps(w, "flag") /\ UNCHANGED faults
     \/ Previous(w).status = "ready" /\ ~Previous(w).named /\ CommitFails(w)
  /\ UNCHANGED <<Stage0, storedDocs, locks, pipes>>

write_flag(w) ==
  /\ On(w, "ingest", "flag")
  /\ \/ /\ IF Previous(w).status = "ready" /\ ~Previous(w).flagged
           THEN OpinionRow(w, [Now0(w) EXCEPT !.flagged = TRUE]) ELSE UNCHANGED documents
        /\ Steps(w, "judge") /\ UNCHANGED faults
     \/ Previous(w).status = "ready" /\ ~Previous(w).flagged /\ CommitFails(w)
  /\ UNCHANGED <<Stage0, storedDocs, locks, pipes>>

Sectioned(d, p) == "sections" \in d.rows[p]
Chunked(d, p)   == "chunks" \in d.rows[p]
Complete(d, p)  == Sectioned(d, p) /\ d.anchored /\ d.cited /\ d.treated = p /\ Chunked(d, p)

\* What the row asks for: a backfill, nothing, the end of its attempts, or a parse.
JudgesRow(w) ==
  /\ On(w, "ingest", "judge")
  /\ LET d == Previous(w)
         p == Job(w).pipe
     IN  \/ d.status = "ready" /\ ~Complete(d, p) /\ Steps(w, "backfill") /\ UNCHANGED documents
         \/ d.status = "ready" /\ Complete(d, p) /\ Next0(w) /\ UNCHANGED documents
         \/ d.status = "failed" /\ Next0(w) /\ UNCHANGED documents
         \/ /\ d.status = "processing" /\ d.attempts >= MaxAttempts
            /\ OpinionRow(w, [Now0(w) EXCEPT !.status = "failed", !.reason = "interrupted"]) /\ Next0(w)
         \/ /\ d.status = "absent" \/ (d.status = "processing" /\ d.attempts < MaxAttempts)
            /\ Steps(w, "begin") /\ UNCHANGED documents
  /\ UNCHANGED <<Stage0, storedDocs, locks, pipes, faults>>

\* Mutant: a retried parse counts no attempt.
BeginsUncounted(w) ==
  /\ On(w, "ingest", "begin")
  /\ \/ /\ OpinionRow(w, [Now0(w) EXCEPT !.status = "processing", !.attempts = 1, !.named = TRUE, !.flagged = TRUE])
        /\ Puts(w, [Job(w) EXCEPT !.at = "parse", !.active = TRUE]) /\ UNCHANGED faults
     \/ CommitFails(w)
  /\ UNCHANGED <<Stage0, storedDocs, locks, pipes>>

\* begin inserts both rows; retry counts one more attempt.
Begins(w) ==
  /\ On(w, "ingest", "begin")
  /\ \/ /\ OpinionRow(w, [Now0(w) EXCEPT !.status = "processing", !.attempts = @ + 1, !.named = TRUE, !.flagged = TRUE])
        /\ Puts(w, [Job(w) EXCEPT !.at = "parse", !.active = TRUE]) /\ UNCHANGED faults
     \/ CommitFails(w)
  /\ UNCHANGED <<Stage0, storedDocs, locks, pipes>>

\* _parse_opinion up to the store: the original's text, then the canonical one.
Parses(w) ==
  /\ On(w, "ingest", "parse") /\ Job(w).i \notin Poison
  /\ \/ /\ Text[Job(w).i] = "text" /\ Steps(w, "finish") /\ UNCHANGED <<documents, faults>>
        /\ storedDocs' = storedDocs \cup {<<Job(w).i, "original">>, <<Job(w).i, "canonical">>}
     \/ /\ Text[Job(w).i] # "text"
        /\ OpinionRow(w, [Now0(w) EXCEPT !.status = "failed", !.reason = Text[Job(w).i]]) /\ Next0(w)
        /\ storedDocs' = IF Text[Job(w).i] = "no-text" THEN storedDocs ELSE storedDocs \cup {<<Job(w).i, "original">>}
        /\ UNCHANGED faults
     \/ /\ Fault /\ Puts(w, [Job(w) EXCEPT !.at = "give-back", !.outcome = "store"])
        /\ UNCHANGED <<documents, storedDocs>>
  /\ UNCHANGED <<Stage0, locks, pipes>>

Walked(d, p) == [d EXCEPT !.rows[p] = Passes0, !.anchored = TRUE, !.cited = TRUE, !.treated = p]

\* One transaction: the status, the marks and every pass.
finish_ready(w) ==
  /\ On(w, "ingest", "finish")
  /\ \/ /\ OpinionRow(w, Walked([Now0(w) EXCEPT !.status = "ready"], Job(w).pipe))
        /\ Next0(w) /\ UNCHANGED faults
     \/ CommitFails(w)
  /\ UNCHANGED <<Stage0, storedDocs, locks, pipes>>

\* The attempt is undone, unless the database refuses that too.
give_back(w) ==
  /\ On(w, "ingest", "give-back")
  /\ \/ OpinionRow(w, [Now0(w) EXCEPT !.attempts = @ - 1]) /\ UNCHANGED faults
     \/ Fault /\ UNCHANGED documents
  /\ Steps(w, "close")
  /\ UNCHANGED <<Stage0, storedDocs, locks, pipes>>

-----------------------------------------------------------------------------
(* The backfill of a ready row. *)

\* A pipeline without its sections gets the whole walk in one transaction.
write_walk(w) ==
  /\ On(w, "ingest", "backfill") /\ ~Sectioned(Previous(w), Job(w).pipe)
  /\ \/ OpinionRow(w, Walked(Now0(w), Job(w).pipe)) /\ Next0(w) /\ UNCHANGED faults
     \/ CommitFails(w)
  /\ UNCHANGED <<Stage0, storedDocs, locks, pipes>>

\* The passes the present row lacks, each a transaction with its mark.
Missing(d, p) ==
  (IF d.anchored THEN {} ELSE {"anchors"}) \cup (IF d.cited THEN {} ELSE {"citations"})
    \cup (IF d.treated = p THEN {} ELSE {"signals"}) \cup (IF Chunked(d, p) THEN {} ELSE {"chunks"})

PASS_ORDER == <<"anchors", "citations", "signals", "chunks">>

Marked(d, pass, p) ==
  [d EXCEPT !.rows[p] = @ \cup {pass}, !.anchored = @ \/ pass = "anchors",
            !.cited = @ \/ pass = "citations", !.treated = IF pass = "signals" THEN p ELSE @]

\* The first of them the backfill has not written yet, in their order.
WritesPass(w) ==
  /\ On(w, "ingest", "backfill") /\ Sectioned(Previous(w), Job(w).pipe)
  /\ LET p == Job(w).pipe
         left == {k \in DOMAIN PASS_ORDER :
                    PASS_ORDER[k] \in Missing(Previous(w), p) \cap Missing(Now0(w), p)}
     IN  IF left = {} THEN Next0(w) /\ UNCHANGED <<documents, faults>>
         ELSE \/ /\ OpinionRow(w, Marked(Now0(w), PASS_ORDER[CHOOSE k \in left : \A m \in left : k <= m], p))
                 /\ UNCHANGED <<ingestRun, faults>>
              \/ CommitFails(w)
  /\ UNCHANGED <<Stage0, storedDocs, locks, pipes>>

-----------------------------------------------------------------------------
(* The end of an execution, and of a worker. *)

\* The locks close with the job; the failure file names the job it is of.
Closes0(w) ==
  /\ Job(w).at = "close"
  /\ locks' = [l \in {"stage", "court"} |-> IF locks[l] = w THEN 0 ELSE locks[l]]
  /\ Puts(w, NoRun)
  /\ UNCHANGED <<Stage0, Records0, pipes, faults>>

\* Every execution ends where it stands, and its locks with the process.
Stopped ==
  /\ ingestRun' = [w \in Workers |-> NoRun]
  /\ locks' = [l \in {"stage", "court"} |-> 0]

\* The worker is killed.
WorkerKilled ==
  /\ Fault /\ \E w \in Workers : Job(w) # NoRun
  /\ Stopped
  /\ UNCHANGED <<Stage0, documents, storedDocs, pipes>>

\* A poison opinion takes the worker down, every time it is parsed.
PoisonStops(w) ==
  /\ On(w, "ingest", "parse") /\ Job(w).i \in Poison
  /\ Stopped
  /\ UNCHANGED <<Stage0, documents, storedDocs, pipes, faults>>

IngestInit ==
  /\ staged = "none" /\ partial = -1 /\ locks = [l \in {"stage", "court"} |-> 0]
  /\ \E h \in Histories : documents = h.rows /\ pipes = h.pipes
  /\ storedDocs = {<<i, "original">> : i \in {j \in Rows0 : documents[j].status = "ready"}}
                \cup {<<i, "canonical">> : i \in {j \in Rows0 : documents[j].status = "ready"}}
  /\ ingestRun = [w \in Workers |-> NoRun] /\ faults = MaxFaults

JobStep(w) == \/ StageLocks(w) \/ StageRechecks(w) \/ StageTable(w) \/ StagePublishes(w)
              \/ IngestLocks(w) \/ Loads0(w) \/ write_name(w) \/ write_flag(w) \/ JudgesRow(w)
              \/ Begins(w) \/ Parses(w) \/ finish_ready(w) \/ give_back(w) \/ write_walk(w)
              \/ WritesPass(w) \/ Closes0(w) \/ PoisonStops(w)

IngestNext == \/ \E w \in Workers : StageStarts(w) \/ IngestStarts(w) \/ JobStep(w)
              \/ WorkerKilled

\* The worker runs what it started; the operator's installs defer the jobs again.
IngestFairness == \A w \in Workers : /\ WF_ingestVars(JobStep(w))
                                     /\ SF_ingestVars(StageStarts(w)) /\ SF_ingestVars(IngestStarts(w))

IngestSpec == IngestInit /\ [][IngestNext]_ingestVars /\ IngestFairness

-----------------------------------------------------------------------------
(* What the host counts once the court's job succeeded. *)

ready_documents == {i \in Rows0 : documents[i].status = "ready"}
SectionRows(p)  == {i \in ready_documents : "sections" \in documents[i].rows[p]}
AnchoredDocs    == {i \in ready_documents : documents[i].anchored}
CitedDocs       == {i \in ready_documents : documents[i].cited}
TreatedDocs(p)  == {i \in ready_documents : documents[i].treated = p}
ChunkRows(p)    == {i \in ready_documents : "chunks" \in documents[i].rows[p]}

read_counts            == Cardinality({i \in Rows0 : documents[i].status # "absent"})
read_section_counts(p) == [ready |-> Cardinality(ready_documents), done |-> Cardinality(SectionRows(p))]
read_anchor_counts     == [ready |-> Cardinality(ready_documents), done |-> Cardinality(AnchoredDocs)]
read_citation_counts   == [ready |-> Cardinality(ready_documents), done |-> Cardinality(CitedDocs)]
read_treatment_counts(p) == [ready |-> Cardinality(ready_documents), done |-> Cardinality(TreatedDocs(p))]
read_chunk_counts(p)   == [ready |-> Cardinality(ready_documents), done |-> Cardinality(ChunkRows(p))]

Short(c) == c.done < c.ready

\* The install goes on only when no count falls short of the ready documents, and the
\* opinions of what was staged.
CountsRefuse(p) ==
  \/ read_counts < Opinions \/ Short(read_section_counts(p)) \/ Short(read_anchor_counts)
  \/ Short(read_citation_counts) \/ Short(read_treatment_counts(p)) \/ Short(read_chunk_counts(p))

-----------------------------------------------------------------------------
(* The rows an installation begins with. *)

\* The marks of a document say its passes ran under every pipeline that has its sections;
\* only where one pipeline is asked for may a mark be missing, with its pass.
MarksAgree(d, asked) ==
  \A p \in asked :
    /\ d.treated = p => "signals" \in d.rows[p]
    /\ Sectioned(d, p) => /\ (d.anchored \/ asked # {p}) => "anchors" \in d.rows[p]
                          /\ (d.cited \/ asked # {p}) => "citations" \in d.rows[p]

\* A row is settled whole, refused with its reason, or has nothing yet.
RowKept(d, asked) ==
  /\ d.status = "failed" => d.reason # "none"
  /\ d.status # "ready" => d.treated = 0 /\ \A p \in 1..2 : d.rows[p] = {}
  /\ MarksAgree(d, asked)

HistoryKept(h) ==
  /\ h.rows \in [Rows0 -> Document] /\ h.pipes \subseteq 1..2
  /\ \A i \in Rows0 : RowKept(h.rows[i], h.pipes)

-----------------------------------------------------------------------------
(* Properties. *)

\* A caselaw job that succeeds leaves every opinion of its court settled: failed with a
\* reason, or ready with its texts stored, its name and flag, and every pass's rows under
\* the pipeline the job was asked for; and the host's counts do not refuse the court.
IngestedWhole ==
  \A w \in Workers :
    Job(w).op = "ingest" /\ Job(w).at = "close" /\ Job(w).outcome = "succeeded" =>
      /\ ~CountsRefuse(Job(w).pipe)
      /\ \A i \in Rows0 :
           LET d == documents[i]
           IN  \/ d.status = "failed" /\ d.reason # "none"
               \/ /\ d.status = "ready" /\ d.named /\ d.flagged
                  /\ d.rows[Job(w).pipe] = Passes0
                  /\ {<<i, "original">>, <<i, "canonical">>} \subseteq storedDocs

\* Installs that keep coming settle the court, an opinion whose parse takes the worker
\* down every time included.
CourtSettles == <>(\A i \in Rows0 : documents[i].status \in {"ready", "failed"})
=============================================================================

------------------------------ MODULE MCWorker --------------------------------
(* The jobs of the worker, checked side by side: a generation's jobs and those of a   *)
(* court keep no state in common, so one of the two runs and the other rests in an    *)
(* initial state of its own.  The generation is the box's own or a sample of the      *)
(* sibling stack, filled again while it serves.                                       *)
EXTENDS MCIndexGenerations, CaselawIngest

CONSTANT MaxMishaps  \* bound: stops, failures, crashes and stalls of an index part together

VARIABLE part

Sample == INSTANCE IndexGenerations WITH Stack <- "ci"

Texts == <<"text", "text", "illegible">>

Ready(p, passes, anchored, cited, treated, named) ==
  [Absent EXCEPT !.status = "ready", !.attempts = 1, !.named = named, !.flagged = named,
     !.anchored = anchored, !.cited = cited, !.treated = treated, !.rows[p] = passes]

\* Nothing yet; rows from before the anchors, the citations and the chunks; whole rows
\* of the first pipeline.
Past ==
  {[rows |-> <<Absent, Absent, Absent>>, pipes |-> {1, 2}],
   [rows |-> <<Ready(1, {}, FALSE, FALSE, 0, FALSE), Absent, Absent>>, pipes |-> {1, 2}],
   [rows |-> <<Ready(1, {"sections"}, FALSE, FALSE, 0, FALSE), Absent, Absent>>, pipes |-> {1}],
   [rows |-> <<Ready(1, {"sections", "anchors"}, TRUE, FALSE, 0, TRUE), Absent, Absent>>, pipes |-> {1}],
   [rows |-> <<Ready(1, Passes0, TRUE, TRUE, 1, FALSE), Absent, Absent>>, pipes |-> {1, 2}]}

ASSUME PastKept == \A h \in Past : HistoryKept(h)

\* Sections of the first pipeline from before the anchors and the citations, on an
\* installation whose labels name both pipelines.
Crossed == {[rows |-> <<Ready(1, {"sections"}, FALSE, FALSE, 0, TRUE), Absent, Absent>>, pipes |-> {1, 2}]}

-----------------------------------------------------------------------------
WorkerInit ==
  /\ part \in {"index", "sample", "court"}
  /\ part = "court" \/ documents = [i \in Rows0 |-> Absent]
  /\ Init \/ (part # "court" /\ InitServing)
  /\ IngestInit

\* Turns, the hold's days and restores have runs of their own: here are the commands
\* and the worker.
Mishaps == spent.stops + spent.fails + spent.crashes + spent.stalls

IndexRuns ==
  /\ part = "index" /\ (Commands \/ Worker) /\ Mishaps' <= MaxMishaps
  /\ UNCHANGED <<part, ingestVars>>
SampleRuns ==
  /\ part = "sample" /\ (Sample!Commands \/ Sample!Worker) /\ Mishaps' <= MaxMishaps
  /\ UNCHANGED <<part, ingestVars>>
CourtRuns == part = "court" /\ IngestNext /\ UNCHANGED <<part, vars>>

WorkerNext == IndexRuns \/ SampleRuns \/ CourtRuns

\* The fairness of each part, while it runs.
Fetches(g, k, s) == (part = "index" /\ JobStart(g, k, s)) \/ (part = "sample" /\ Sample!JobStart(g, k, s))
Polls ==
  \/ part = "index" /\ (BuildDefer \/ BuildPoll)
  \/ part = "sample" /\ (Sample!BuildDefer \/ Sample!BuildPoll)
  \/ BuildBuilt \/ BuildFinish

WorkerFairness ==
  /\ \A g \in Gen, k \in Kind, s \in Slot :
       WF_vars(Fetches(g, k, s) \/ BodyLock(g, k, s) \/ BodyBusy(g, k, s)
               \/ BodyFill(g, k, s) \/ BodyFinish(g, k, s))
  /\ \A g \in Gen, k \in Kind : WF_vars(Orphaned(g, k) /\ RetryStalled(g, k))
  /\ WF_vars(Polls)
  /\ \A w \in Workers : /\ WF_ingestVars(part = "court" /\ JobStep(w))
                        /\ SF_ingestVars(part = "court" /\ StageStarts(w))
                        /\ SF_ingestVars(part = "court" /\ IngestStarts(w))

WorkerSpec == WorkerInit /\ [][WorkerNext]_<<part, vars, ingestVars>> /\ WorkerFairness

-----------------------------------------------------------------------------
\* Installs that keep coming settle the court that is ingested, an opinion whose parse
\* takes the worker down every time included (caselaw.py ingest).
CourtFills == part = "court" => CourtSettles
=============================================================================

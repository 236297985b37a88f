------------------------------- MODULE MCData --------------------------------
(* What the box stores, checked side by side: the model store, the worker's snapshot *)
(* fetch, the corpus labels and the corpus jobs keep no state in common, so one of   *)
(* them runs and the others rest in an initial state of theirs.                      *)
EXTENDS ModelStore, SnapshotFetch, MCCorpus, CorpusJobs

VARIABLE part

-----------------------------------------------------------------------------
(* The model store. *)

\* Two revisions of one repository that share a file, and a second repository.
TheRepo  == [s \in StoreSnapshots |-> IF s = "b1" THEN "b" ELSE "a"]
TheBlobs == [s \in StoreSnapshots |->
               CASE s = "a1" -> {"x", "y"} [] s = "a2" -> {"y"} [] OTHER -> {"z"}]
TheLocks == {{}, {[name |-> "c", snap |-> "b1"]}}
TheProfiles == {{"a1"}, {"a2"}, {"b1"}}

-----------------------------------------------------------------------------
(* The snapshot fetch. *)

EveryOffer == [etag : BOOLEAN, length : BOOLEAN]

-----------------------------------------------------------------------------
(* The corpus jobs. *)

Bare == [court |-> <<"a", "a", "b">>, cluster |-> <<1, 2, 2>>, ready |-> {1, 3}, edges |-> {<<1, 2>>},
         map |-> {<<1, 2>>, <<1, 3>>, <<3, 9>>}, unresolved |-> [o \in 1..3 |-> {}],
         cites |-> [k \in 1..2 |-> {k}], facts |-> <<>>, names |-> <<{}>>, list |-> {},
         plan |-> <<<<"agreement", "a">>, <<"agreement", "b">>, <<"agreement", "a">>>>]

MapEntry(order, ordinal, rc, rd, oc, on) ==
  [order |-> order, ordinal |-> ordinal, ruling |-> [cite |-> rc, docket |-> rd],
   ruled |-> [cite |-> oc, name |-> on]]

\* Two courts' jobs and one's again; two jobs of the list; and, a job at a time, other
\* map rows, edges, clusters and names.
SomeWorlds ==
  {Bare, [Bare EXCEPT !.plan = <<<<"overruled", "a">>, <<"overruled", "a">>>>]} \cup
  {[Bare EXCEPT !.map = m, !.edges = e, !.unresolved = [o \in 1..3 |-> u], !.ready = r,
                !.plan = <<<<"agreement", "a">>>>] :
     m \in {{<<1, 2>>, <<1, 3>>, <<3, 9>>}, {<<1, 1>>, <<2, 3>>, <<3, 1>>}, {<<1, 3>>, <<1, 9>>}},
     e \in {{}, {<<1, 2>>}, {<<1, 1>>, <<2, 1>>, <<3, 1>>}}, u \in {{}, {2}}, r \in {{1, 3}, {1, 2, 3}}}
  \cup
  {[Bare EXCEPT !.facts = <<[cites |-> x, docket |-> d], [cites |-> y, docket |-> 1]>>, !.names = <<n>>,
                !.plan = <<<<"overruled", "a">>>>,
                !.list = {MapEntry(1, 0, 1, 0, 2, 0), MapEntry(1, 1, 1, 0, 0, 1), MapEntry(2, 0, 0, 1, 3, 1)}] :
     x \in SUBSET {1, 2}, y \in SUBSET {2}, d \in 0..1, n \in {{}, {1}, {1, 2}}}

-----------------------------------------------------------------------------
Parts == {"store", "fetch", "labels", "jobs"}

\* The initial state a part rests in.
Resting0(p) ==
  /\ p = "fetch" \/ (form = "kept" /\ upstream = [v |-> 1, etag |-> TRUE, length |-> TRUE])
  /\ p = "labels" \/ (lockfiles = {})
  /\ p = "jobs" \/ (world = Bare)

DataInit ==
  /\ part \in Parts
  /\ Resting0(part)
  /\ StoreInit
  /\ FetchInit
  /\ CorpusInit
  /\ JobsInit

StoreRuns == part = "store" /\ StoreNext /\ UNCHANGED <<part, fetchVars, corpusVars, jobVars>>
FetchRuns == part = "fetch" /\ FetchNext /\ UNCHANGED <<part, storeVars, corpusVars, jobVars>>
LabelsRuns == part = "labels" /\ CorpusNext /\ UNCHANGED <<part, storeVars, fetchVars, jobVars>>
JobsRuns == part = "jobs" /\ JobsNext /\ UNCHANGED <<part, storeVars, fetchVars, corpusVars>>

DataNext ==
  \/ StoreRuns
  \/ FetchRuns
  \/ LabelsRuns
  \/ JobsRuns

dataVars == <<part, storeVars, fetchVars, corpusVars, jobVars>>

DataSpec == DataInit /\ [][DataNext]_dataVars
=============================================================================

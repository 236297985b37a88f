------------------------------ MODULE MCShipping -------------------------------
(* What a release is measured and shipped by, checked side by side: the evaluation    *)
(* runs and the releases keep no state in common, so one of them runs and the other   *)
(* rests in an initial state of its own.                                              *)
EXTENDS Releases, EvaluationRuns

VARIABLE part

ThreeArtifacts == [r \in Releases |-> {"compose"} \cup {f \in {"unit"} : r >= 2}]
ThreeContents  == [r \in Releases |-> [s \in Services |-> IF s = "store" /\ r = 3 THEN 2 ELSE r]]

TwoLists == <<{1}, {2}>>

Unbroken == [c \in Cases |-> "none"]

Plain(version) ==
  [version |-> version, digest |-> version, over |-> [c \in Cases |-> 0], parent |-> [c \in Cases |-> 0],
   cluster |-> [c \in Cases |-> c], held |-> {}, signing |-> {2, 3}, signed |-> {2},
   broken |-> Unbroken, unread |-> {}]

RunSets == {Plain(1), Plain(2)}

\* The set a person names, which the loader refuses.
Torn == [Plain(1) EXCEPT !.digest = 3, !.unread = {"cases"}]
EverySet == RunSets \cup {Torn}

Ask(kind, force, few, challenger, suites, supplied) ==
  [kind |-> kind, force |-> force, few |-> few, challenger |-> challenger, slice |-> TRUE,
   suites |-> suites, supplied |-> supplied]

EveryRun ==
  {Ask("manual", FALSE, TRUE, FALSE, 1, {}), Ask("manual", TRUE, FALSE, TRUE, 1, {}),
   Ask("nightly", FALSE, FALSE, FALSE, 2, {}), Ask("decision", TRUE, FALSE, FALSE, 1, {}),
   Ask("decision", FALSE, FALSE, FALSE, 2, {}), Ask("manual", FALSE, TRUE, FALSE, 1, {Plain(1)}),
   Ask("nightly", FALSE, FALSE, FALSE, 1, {Torn})}

Windows == [kind \in Kinds |-> IF kind = "decision" THEN {} ELSE {0}]
OneMorning == {1}

-----------------------------------------------------------------------------
ShippingInit ==
  /\ part \in {"releases", "runs"}
  /\ evalSet \in RunSets
  /\ part = "runs" \/ surface = "engine"
  /\ (part = "runs" /\ surface = "engine") \/ evalSet = Plain(1)
  /\ ReleaseInit /\ EvalInit

ReleasesRun == part = "releases" /\ ReleaseNext /\ UNCHANGED <<part, evalVars>>
EvalRuns    == part = "runs" /\ EvalNext /\ UNCHANGED <<part, releaseVars>>

ShippingNext == ReleasesRun \/ EvalRuns

shippingVars == <<part, releaseVars, evalVars>>

\* The fairness of each part, while it runs.
ShippingFairness ==
  /\ WF_releaseVars(part = "releases" /\ Command)
  /\ SF_releaseVars(part = "releases" /\ RerunNamed)
  /\ SF_releaseVars(part = "releases" /\ ForeignRemoved)
  /\ SF_releaseVars(part = "releases" /\ HostProvisioned)
  /\ WF_evalVars(part = "runs" /\ RunStep)
  /\ WF_evalVars(part = "runs" /\ Tick)

ShippingSpec == ShippingInit /\ [][ShippingNext]_shippingVars /\ ShippingFairness
=============================================================================

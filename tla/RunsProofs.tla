------------------------------ MODULE RunsProofs ------------------------------
(* Proofs about the evaluation: its runs and references, and the harness that drives *)
(* one turn after another.                                                           *)
EXTENDS EvaluationRuns, TurnHarness, FiniteSetTheorems, SequenceTheorems, WellFoundedInduction, TLAPS
-----------------------------------------------------------------------------
(* The runs: the commands, their rows, and what relates them. *)

Marks == 0..MaxClock
Ends  == {0, MaxClock + 1} \cup {EndOf(t) : t \in Marks}
Sides == {"none", "release", "challenger"}

Before    == {"flags", "load", "window", "lock", "wait", "target"}
Repeating == {"repeat", "ran"}
Judging   == {"record", "gate"}

Comparisons == {"none", "absent", "malformed", "other-version", "regressed", "compared"}

RunCmds ==
  [op : {"run"}, at : Before \cup Repeating \cup Judging \cup {"compare", "finally"}, kind : Kinds,
   force : BOOLEAN, few : BOOLEAN, challenger : BOOLEAN, slice : BOOLEAN, suites : Nat,
   supplied : SUBSET Sets, side : Sides, pairs : Nat, codes : Seq({0, 1}), end : Ends, claimed : BOOLEAN, repeat : Nat,
   failing : SUBSET Cases, partial : BOOLEAN, comparison : Comparisons, loses : BOOLEAN,
   written : BOOLEAN, ok : BOOLEAN, last : Marks]

RefCmds == [op : {"reference"}, at : {"check", "write"}, row : Nat, left : SUBSET DOMAIN Lists]

EvalRow ==
  [side : Sides, pairs : Nat, product : Nat, tagged : BOOLEAN, version : {s.version : s \in Sets},
   digest : {s.digest : s \in Sets}, partial : BOOLEAN, counted : SUBSET Cases,
   failing : SUBSET Cases, verdict : BOOLEAN, inside : BOOLEAN]

EvalTypes ==
  /\ evalSet \in Sets /\ product \in Nat /\ moment \in Marks
  /\ evalRows \in Seq(EvalRow)
  /\ evalCmd \in {NoCmd} \cup RunCmds \cup RefCmds

OnRun == evalCmd.op = "run"

\* A pass begins with nothing counted, and a run still repeating is not partial.
FreshStarts ==
  /\ OnRun /\ evalCmd.at \in Before => evalCmd.repeat = 0 /\ evalCmd.failing = {}
  /\ OnRun /\ evalCmd.at \in Before \cup Repeating => evalCmd.partial = FALSE

\* The repeats a complete run counts ended inside its window.
InWindow == OnRun /\ evalCmd.partial = FALSE /\ evalCmd.repeat > 0 => evalCmd.last < evalCmd.end

\* Only a counted case fails; once the repeats are over, only one the results cover.
FailuresCounted ==
  /\ OnRun /\ evalCmd.at # "finally" => evalCmd.failing \subseteq Counted(TheSet)
  /\ OnRun /\ evalCmd.at \in Judging \cup {"compare"} => evalCmd.failing \subseteq ResultsOf(evalCmd)

\* The comparison still speaks of the reference, the set and the results there are.
ComparedNow == OnRun /\ evalCmd.at \in Judging => evalCmd.comparison = Comparison

\* At the gate, a written row is the last one and says what the run found; a record that
\* succeeded without one is of a set outside the release or a slice off the box.
RowAtGate ==
  OnRun /\ evalCmd.at = "gate" =>
    /\ evalCmd.ok = TRUE /\ evalCmd.written = FALSE => evalCmd.supplied # {} \/ surface = "file"
    /\ evalCmd.written = TRUE =>
         /\ evalCmd.supplied = {} /\ evalRows # <<>>
         /\ \E tagged \in BOOLEAN : evalRows[Len(evalRows)] = RunRow(tagged)

\* A challenger's side names the complete release row of its own command.
PairedAt(p) ==
  /\ p \in 1..Len(evalRows) /\ evalRows[p].side = "release" /\ evalRows[p].partial = FALSE
  /\ evalRows[p].product = product /\ evalRows[p].digest = evalSet.digest

Challenges == OnRun /\ evalCmd.side = "challenger" => PairedAt(evalCmd.pairs)

CodesGiven == OnRun /\ evalCmd.at = "finally" => evalCmd.codes # <<>>

RunInv ==
  /\ EvalTypes /\ FreshStarts /\ InWindow /\ FailuresCounted /\ ComparedNow
  /\ RowAtGate /\ Challenges /\ CodesGiven /\ RowsTrusted

LEMMA CountedCases ==
  ASSUME NEW s
  PROVE  Counted(s) \subseteq Cases
<1> DEFINE Listed == UNION {Lists[l] : l \in DOMAIN Lists}
<1>1. Counted(s) = (Listed \cap Active(s)) \ Unsigned(s)
  BY DEF Counted
<1> HIDE DEF Listed
<1> QED BY <1>1 DEF Active

LEMMA ResultsAre ==
  ASSUME NEW c
  PROVE  /\ ResultsOf(c) = {} \/ ResultsOf(c) = Counted(TheSet)
         /\ c.partial = FALSE => ResultsOf(c) = Counted(TheSet)
         /\ ResultsOf(c) \subseteq Cases
<1>1. ResultsOf(c) = {} \/ ResultsOf(c) = Counted(TheSet)
  BY DEF ResultsOf
<1>2. c.partial = FALSE => ResultsOf(c) = Counted(TheSet)
  BY DEF ResultsOf
<1> QED BY <1>1, <1>2, CountedCases

LEMMA CompareTypes ==
  ASSUME NEW s, NEW counted, NEW failing
  PROVE  compare_reference(s, counted, failing) \in Comparisons \ {"none"}
<1>1. read_reference(s) \in {"absent", "malformed", "other-version", "read"}
  BY DEF read_reference
<1> QED BY <1>1 DEF compare_reference, Comparisons

\* The set a run evaluates is one of the sets.
LEMMA SetTypes ==
  ASSUME EvalTypes, evalCmd \in RunCmds
  PROVE  TheSet \in Sets
  BY DEF TheSet, EvalTypes, RunCmds

LEMMA RowTypes ==
  ASSUME EvalTypes, evalCmd \in RunCmds, NEW tagged \in BOOLEAN
  PROVE  RunRow(tagged) \in EvalRow
<1>1. recorded_verdict \in BOOLEAN /\ (evalCmd.last < evalCmd.end) \in BOOLEAN
  BY DEF recorded_verdict
<1>2. ResultsOf(evalCmd) \in SUBSET Cases
  BY ResultsAre
<1>3. evalCmd.side \in Sides /\ evalCmd.pairs \in Nat /\ evalCmd.partial \in BOOLEAN
      /\ evalCmd.failing \in SUBSET Cases
  BY DEF RunCmds
<1>4. TheSet.version \in {s.version : s \in Sets} /\ TheSet.digest \in {s.digest : s \in Sets}
      /\ product \in Nat
  BY SetTypes DEF EvalTypes
<1> HIDE DEF recorded_verdict
<1> QED BY <1>1, <1>2, <1>3, <1>4 DEF RunRow, EvalRow

\* The row depends on no field that a step of the gate changes.
LEMMA RowSame ==
  ASSUME evalCmd \in RunCmds, evalCmd' \in RunCmds, Steady,
         evalCmd'.side = evalCmd.side, evalCmd'.pairs = evalCmd.pairs, evalCmd'.kind = evalCmd.kind,
         evalCmd'.repeat = evalCmd.repeat, evalCmd'.failing = evalCmd.failing,
         evalCmd'.partial = evalCmd.partial, evalCmd'.comparison = evalCmd.comparison,
         evalCmd'.loses = evalCmd.loses, evalCmd'.last = evalCmd.last, evalCmd'.end = evalCmd.end,
         evalCmd'.supplied = evalCmd.supplied
  PROVE  \A tagged : RunRow(tagged)' = RunRow(tagged)
<1>0. TheSet' = TheSet
  BY DEF TheSet, Steady
<1>1. ResultsOf(evalCmd)' = ResultsOf(evalCmd)
  BY <1>0 DEF ResultsOf, Pairs, Counted, Active, Retired, Superseded, Unsigned, Claims
<1>2. recorded_verdict' = recorded_verdict
  BY DEF recorded_verdict, Bounds
<1>3. (evalCmd.last < evalCmd.end)' = (evalCmd.last < evalCmd.end)
  OBVIOUS
<1> HIDE DEF recorded_verdict
<1> QED BY <1>0, <1>1, <1>2, <1>3 DEF RunRow, Steady

LEMMA RunKinds ==
  ASSUME EvalTypes
  PROVE  /\ OnRun <=> evalCmd \in RunCmds
         /\ evalCmd.op = "reference" <=> evalCmd \in RefCmds
         /\ OnRun \/ evalCmd.op = "reference" \/ evalCmd = NoCmd
  BY DEF EvalTypes, OnRun, NoCmd, RunCmds, RefCmds

\* Where no run is under way, only the rows are spoken of.
LEMMA OffRun ==
  ASSUME RunInv, EvalTypes', evalCmd'.op # "run", evalRows' = evalRows
  PROVE  RunInv'
<1>1. ~OnRun'
  BY DEF OnRun
<1>2. PairsWhole'
  BY DEF RunInv, RowsTrusted, PairsWhole
<1>3. PassTrusted'
  BY <1>1 DEF PassTrusted, OnRun
<1> QED BY <1>1, <1>2, <1>3 DEF RunInv, FreshStarts, InWindow, FailuresCounted, ComparedNow,
           RowAtGate, Challenges, CodesGiven, RowsTrusted

\* A step of a run that has not begun to repeat, and does not end it.
LEMMA Advances ==
  ASSUME RunInv, evalCmd' \in RunCmds, Steady, evalRows' = evalRows, moment' = moment,
         OnRun, evalCmd.at \in Before, evalCmd'.at \in Before \cup {"repeat"},
         evalCmd'.side = evalCmd.side, evalCmd'.pairs = evalCmd.pairs,
         evalCmd'.repeat = evalCmd.repeat, evalCmd'.failing = evalCmd.failing,
         evalCmd'.partial = evalCmd.partial
  PROVE  RunInv'
<1>1. EvalTypes'
  BY DEF RunInv, EvalTypes, Steady
<1>2. evalCmd.repeat = 0 /\ evalCmd.failing = {} /\ evalCmd.partial = FALSE
  BY DEF RunInv, FreshStarts, Before, Repeating
<1>3. FreshStarts' /\ InWindow' /\ FailuresCounted'
  BY <1>2 DEF FreshStarts, InWindow, FailuresCounted, Before, Repeating, Judging
<1>4. ComparedNow' /\ RowAtGate' /\ CodesGiven'
  BY DEF ComparedNow, RowAtGate, CodesGiven, Before, Judging
<1>5. Challenges'
  BY DEF RunInv, Challenges, PairedAt, Steady, OnRun
<1>6. PassTrusted'
  BY DEF PassTrusted, Before
<1>7. PairsWhole'
  BY DEF RunInv, RowsTrusted, PairsWhole
<1> QED BY <1>1, <1>3, <1>4, <1>5, <1>6, <1>7 DEF RunInv, RowsTrusted

\* What a pass over leads to.
LEMMA AfterPass ==
  ASSUME EvalTypes, NEW c \in RunCmds, NEW code \in {0, 1}
  PROVE  /\ NextPass(c, code) \in RunCmds
         /\ \/ /\ NextPass(c, code).at = "load" /\ NextPass(c, code).repeat = 0
               /\ NextPass(c, code).failing = {} /\ NextPass(c, code).partial = FALSE
               /\ \/ NextPass(c, code).side # "challenger"
                  \/ /\ NextPass(c, code).side = "challenger" /\ c.side = "release"
                     /\ c.written = TRUE /\ c.partial = FALSE
                     /\ NextPass(c, code).pairs = Len(evalRows)
            \/ NextPass(c, code) = [c EXCEPT !.at = "finally", !.codes = Append(c.codes, code)]
<1> DEFINE codes == Append(c.codes, code)
           new   == EvalCmd([kind |-> c.kind, force |-> c.force, few |-> c.few, slice |-> c.slice,
                             challenger |-> c.challenger, suites |-> c.suites,
                             supplied |-> c.supplied])
           next  == [new EXCEPT !.at = "load", !.codes = codes, !.claimed = c.claimed]
           more  == c.side = "none" /\ Len(codes) < c.suites
           pair  == c.side = "release" /\ c.written /\ ~c.partial
<1>1. codes \in Seq({0, 1})
  BY DEF RunCmds
<1>2. 0 \in Ends /\ 0 \in Marks
  BY EvaluationShapes DEF Ends, Marks
<1>3. Len(evalRows) \in Nat
  BY DEF EvalTypes
<1> HIDE DEF codes
<1>4. next \in RunCmds /\ [next EXCEPT !.side = "challenger", !.pairs = Len(evalRows)] \in RunCmds
  <2>1. new \in RunCmds
    <3> DEFINE side == IF c.challenger THEN "release" ELSE "none"
    <3>1. side \in Sides /\ {} \in SUBSET Cases /\ <<>> \in Seq({0, 1}) /\ "none" \in Comparisons
          /\ "flags" \in Before
      BY DEF Sides, Comparisons, Before
    <3>2. /\ c.kind \in Kinds /\ c.force \in BOOLEAN /\ c.few \in BOOLEAN /\ c.slice \in BOOLEAN
          /\ c.challenger \in BOOLEAN /\ c.suites \in Nat /\ c.supplied \in SUBSET Sets
      BY DEF RunCmds
    <3>3. new = [op |-> "run", at |-> "flags", kind |-> c.kind, force |-> c.force, few |-> c.few,
                 challenger |-> c.challenger, slice |-> c.slice, suites |-> c.suites,
                 supplied |-> c.supplied,
                 side |-> side, pairs |-> 0, codes |-> <<>>, end |-> 0, claimed |-> FALSE,
                 repeat |-> 0, failing |-> {}, partial |-> FALSE, comparison |-> "none",
                 loses |-> FALSE, written |-> FALSE, ok |-> FALSE, last |-> 0]
      BY DEF EvalCmd
    <3> HIDE DEF side, new
    <3> QED BY <3>1, <3>2, <3>3, <1>2 DEF RunCmds
  <2>2. "load" \in Before /\ "challenger" \in Sides /\ c.claimed \in BOOLEAN
    BY DEF Before, Sides, RunCmds
  <2> HIDE DEF new
  <2>3. next \in RunCmds
    BY <2>1, <2>2, <1>1 DEF RunCmds
  <2> HIDE DEF next
  <2> QED BY <2>2, <2>3, <1>3 DEF RunCmds
<1>5. /\ next.at = "load" /\ next.repeat = 0 /\ next.failing = {} /\ next.partial = FALSE
      /\ next.side # "challenger"
  BY DEF EvalCmd
<1>6. CASE more
  <2>1. NextPass(c, code) = next
    BY <1>6 DEF NextPass, codes
  <2> HIDE DEF next
  <2> QED BY <1>4, <1>5, <2>1
<1>7. CASE ~more /\ pair
  <2>1. NextPass(c, code) = [next EXCEPT !.side = "challenger", !.pairs = Len(evalRows)]
    BY <1>7 DEF NextPass, codes
  <2>2. c.side = "release" /\ c.written = TRUE /\ c.partial = FALSE
    <3>1. c.written \in BOOLEAN /\ c.partial \in BOOLEAN
      BY DEF RunCmds
    <3> QED BY <1>7, <3>1
  <2>3. DOMAIN next = DOMAIN new /\ {"side", "pairs", "at", "repeat", "failing", "partial"} \subseteq DOMAIN new
    BY DEF EvalCmd
  <2> HIDE DEF next, new
  <2> QED BY <1>4, <1>5, <2>1, <2>2, <2>3
<1>8. CASE ~more /\ ~pair
  <2>1. NextPass(c, code) = [c EXCEPT !.at = "finally", !.codes = codes]
    BY <1>8 DEF NextPass, codes
  <2>2. [c EXCEPT !.at = "finally", !.codes = codes] \in RunCmds
    BY <1>1 DEF RunCmds
  <2> QED BY <2>1, <2>2 DEF codes
<1> QED BY <1>6, <1>7, <1>8

\* What a gate that passes leaves.
Trusted ==
  /\ ~evalCmd.partial /\ evalCmd.last < evalCmd.end
  /\ \/ surface = "file" \/ Present = {}
     \/ Whole(reference) /\ FilesPassed(reference) \cap evalCmd.failing = {}
  /\ IF evalCmd.written
     THEN LET r == evalRows[Len(evalRows)]
          IN  r.verdict /\ ~r.partial /\ r.inside /\ r.failing = evalCmd.failing
     ELSE evalCmd.supplied # {} \/ surface = "file"

LEMMA PassEnds ==
  ASSUME RunInv, OnRun, evalCmd.at # "finally", NEW c \in RunCmds, NEW code \in {0, 1},
         c.side = evalCmd.side, c.pairs = evalCmd.pairs, c.repeat = evalCmd.repeat,
         c.last = evalCmd.last, c.end = evalCmd.end, c.partial = evalCmd.partial,
         c.written = TRUE => evalCmd.at = "gate" /\ c = evalCmd,
         evalCmd' = NextPass(c, code), Steady, evalRows' = evalRows, moment' = moment,
         code = 0 => Trusted /\ c = evalCmd
  PROVE  RunInv'
<1> DEFINE n == NextPass(c, code)
<1>0. EvalTypes
  BY DEF RunInv
<1>1. /\ n \in RunCmds
      /\ \/ /\ n.at = "load" /\ n.repeat = 0 /\ n.failing = {} /\ n.partial = FALSE
            /\ \/ n.side # "challenger"
               \/ /\ n.side = "challenger" /\ c.side = "release"
                  /\ c.written = TRUE /\ c.partial = FALSE /\ n.pairs = Len(evalRows)
         \/ n = [c EXCEPT !.at = "finally", !.codes = Append(c.codes, code)]
  BY <1>0, AfterPass
<1>2. evalCmd' = n
  OBVIOUS
<1> HIDE DEF n
<1>3. EvalTypes'
  BY <1>0, <1>1, <1>2 DEF EvalTypes, Steady
<1>4. PairsWhole'
  BY DEF RunInv, RowsTrusted, PairsWhole
<1>5. CASE n.at = "load" /\ n.repeat = 0 /\ n.failing = {} /\ n.partial = FALSE
           /\ (\/ n.side # "challenger"
               \/ /\ n.side = "challenger" /\ c.side = "release"
                  /\ c.written = TRUE /\ c.partial = FALSE /\ n.pairs = Len(evalRows))
  <2>1. FreshStarts' /\ InWindow' /\ FailuresCounted' /\ ComparedNow' /\ RowAtGate' /\ CodesGiven'
    BY <1>2, <1>5 DEF FreshStarts, InWindow, FailuresCounted, ComparedNow, RowAtGate, CodesGiven,
          Before, Repeating, Judging
  <2>2. PassTrusted'
    BY <1>2, <1>5 DEF PassTrusted
  <2>3. Challenges'
    <3> SUFFICES ASSUME n.side = "challenger"
                 PROVE  PairedAt(evalCmd.pairs)'
      BY <1>2 DEF Challenges
    <3>1. c = evalCmd /\ evalCmd.at = "gate" /\ c.side = "release" /\ c.written = TRUE
          /\ c.partial = FALSE /\ n.pairs = Len(evalRows)
      BY <1>5
    <3>2. PICK tagged \in BOOLEAN : evalRows # <<>> /\ evalRows[Len(evalRows)] = RunRow(tagged)
      BY <3>1 DEF RunInv, RowAtGate
    <3>5. TheSet = evalSet
      BY <3>1 DEF RunInv, RowAtGate, TheSet
    <3>3. Len(evalRows) \in 1..Len(evalRows)
      BY <3>2, <1>0 DEF EvalTypes
    <3>4. evalCmd'.pairs = Len(evalRows)
      BY <1>2, <3>1
    <3> QED BY <3>1, <3>2, <3>3, <3>4, <3>5 DEF PairedAt, RunRow, Steady
  <2> QED BY <1>3, <1>4, <2>1, <2>2, <2>3 DEF RunInv, RowsTrusted
<1>6. CASE n = [c EXCEPT !.at = "finally", !.codes = Append(c.codes, code)]
  <2>1. /\ n.at = "finally" /\ n.side = evalCmd.side /\ n.pairs = evalCmd.pairs
        /\ n.codes = Append(c.codes, code) /\ n.partial = c.partial /\ n.repeat = c.repeat
        /\ n.last = c.last /\ n.end = c.end
    BY <1>6 DEF RunCmds
  <2>2. n.codes # <<>> /\ n.codes[Len(n.codes)] = code
    BY <2>1 DEF RunCmds
  <2>3. FreshStarts' /\ FailuresCounted' /\ ComparedNow' /\ RowAtGate' /\ CodesGiven'
    BY <1>2, <2>1, <2>2 DEF FreshStarts, FailuresCounted, ComparedNow, RowAtGate, CodesGiven,
          Before, Repeating, Judging
  <2>4. Challenges' /\ InWindow'
    BY <1>2, <2>1 DEF RunInv, Challenges, InWindow, PairedAt, Steady, OnRun
  <2>5. ASSUME code = 0
        PROVE  Trusted'
    <3>1. Trusted /\ c = evalCmd
      BY <2>5
    <3>2. /\ evalCmd'.partial = evalCmd.partial /\ evalCmd'.last = evalCmd.last
          /\ evalCmd'.end = evalCmd.end /\ evalCmd'.failing = evalCmd.failing
          /\ evalCmd'.written = evalCmd.written /\ evalCmd'.supplied = evalCmd.supplied
      BY <1>2, <1>6, <3>1 DEF RunCmds
    <3> QED BY <3>1, <3>2 DEF Trusted, Steady, Present, Whole, FilesPassed
  <2>6. PassTrusted'
    BY <1>2, <2>2, <2>5 DEF PassTrusted, Trusted
  <2> QED BY <1>3, <1>4, <2>3, <2>4, <2>6 DEF RunInv, RowsTrusted
<1> QED BY <1>1, <1>5, <1>6

LEMMA FailsKeeps ==
  ASSUME RunInv, OnRun, evalCmd.at # "finally", Fails, Steady, evalRows' = evalRows, moment' = moment
  PROVE  RunInv'
<1> DEFINE c == [evalCmd EXCEPT !.written = FALSE]
<1>1. evalCmd \in RunCmds
  BY RunKinds DEF RunInv
<1>2. /\ c \in RunCmds /\ c.side = evalCmd.side /\ c.pairs = evalCmd.pairs /\ c.repeat = evalCmd.repeat
      /\ c.last = evalCmd.last /\ c.end = evalCmd.end /\ c.partial = evalCmd.partial
      /\ c.written = FALSE
  BY <1>1 DEF RunCmds
<1>3. evalCmd' = NextPass(c, 1)
  BY DEF Fails
<1> HIDE DEF c
<1>4. c.written = TRUE => evalCmd.at = "gate" /\ c = evalCmd
  BY <1>2
<1>5. 1 \in {0, 1} /\ (1 = 0 => Trusted /\ c = evalCmd)
  OBVIOUS
<1> QED BY <1>2, <1>3, <1>4, <1>5, PassEnds

LEMMA AsksStep ==
  ASSUME RunInv, Asks
  PROVE  RunInv'
<1>1. PICK r \in Requests : evalCmd' = EvalCmd(r)
  BY DEF Asks
<1>2. evalRows' = evalRows /\ Steady /\ moment' \in Marks
  BY DEF Asks, Marks
<1> DEFINE side == IF r.challenger THEN "release" ELSE "none"
<1>3. evalCmd' = [op |-> "run", at |-> "flags", kind |-> r.kind, force |-> r.force, few |-> r.few,
                  challenger |-> r.challenger, slice |-> r.slice, suites |-> r.suites,
                  supplied |-> r.supplied, side |-> side, pairs |-> 0, codes |-> <<>>, end |-> 0, claimed |-> FALSE,
                  repeat |-> 0, failing |-> {}, partial |-> FALSE, comparison |-> "none",
                  loses |-> FALSE, written |-> FALSE, ok |-> FALSE, last |-> 0]
  BY <1>1 DEF EvalCmd
<1>4. /\ r.kind \in Kinds /\ r.suites \in Nat /\ r.force \in BOOLEAN /\ r.few \in BOOLEAN
      /\ r.challenger \in BOOLEAN /\ r.slice \in BOOLEAN /\ r.supplied \in SUBSET Sets
  BY EvaluationShapes
<1>5. /\ side \in Sides \ {"challenger"} /\ {} \in SUBSET Cases /\ <<>> \in Seq({0, 1})
      /\ "none" \in Comparisons /\ "flags" \in Before /\ 0 \in Ends /\ 0 \in Marks
  BY EvaluationShapes DEF Sides, Comparisons, Before, Ends, Marks
<1> HIDE DEF side
<1>6. evalCmd' \in RunCmds
  BY <1>3, <1>4, <1>5 DEF RunCmds
<1>7. EvalTypes'
  BY <1>2, <1>6 DEF RunInv, EvalTypes, Steady
<1>8. FreshStarts' /\ InWindow' /\ FailuresCounted' /\ ComparedNow' /\ RowAtGate' /\ CodesGiven'
      /\ Challenges' /\ PassTrusted'
  BY <1>3, <1>5 DEF FreshStarts, InWindow, FailuresCounted, ComparedNow, RowAtGate, CodesGiven,
        Challenges, PassTrusted, Before, Repeating, Judging
<1>9. PairsWhole'
  BY <1>2 DEF RunInv, RowsTrusted, PairsWhole
<1> QED BY <1>7, <1>8, <1>9 DEF RunInv, RowsTrusted

\* Before the repeats: a place forward, or the pass fails.
LEMMA FlagsStep ==
  ASSUME RunInv, Flags
  PROVE  RunInv'
<1>1. OnRun /\ evalCmd \in RunCmds /\ evalCmd.at = "flags" /\ Steady
      /\ evalRows' = evalRows /\ moment' = moment
  BY RunKinds DEF RunInv, Flags, Doing0, OnRun
<1>2. CASE evalCmd' = [evalCmd EXCEPT !.at = "load"]
  <2>1. /\ evalCmd' \in RunCmds /\ evalCmd'.at = "load" /\ evalCmd'.side = evalCmd.side
        /\ evalCmd'.pairs = evalCmd.pairs /\ evalCmd'.repeat = evalCmd.repeat
        /\ evalCmd'.failing = evalCmd.failing /\ evalCmd'.partial = evalCmd.partial
    BY <1>1, <1>2 DEF RunCmds, Before
  <2> QED BY <1>1, <2>1, Advances DEF Before
<1>3. CASE evalCmd' = [evalCmd EXCEPT !.at = "finally", !.codes = <<1>>]
  <2>1. /\ evalCmd' \in RunCmds /\ evalCmd'.at = "finally" /\ evalCmd'.side = evalCmd.side
        /\ evalCmd'.pairs = evalCmd.pairs /\ evalCmd'.repeat = evalCmd.repeat
        /\ evalCmd'.codes = <<1>>
    <3>1. <<1>> \in Seq({0, 1})
      OBVIOUS
    <3> QED BY <1>1, <1>3, <3>1 DEF RunCmds
  <2>2. evalCmd.repeat = 0
    BY <1>1 DEF RunInv, FreshStarts, Before
  <2>3. FreshStarts' /\ InWindow' /\ FailuresCounted' /\ ComparedNow' /\ RowAtGate' /\ CodesGiven'
    BY <2>1, <2>2 DEF FreshStarts, InWindow, FailuresCounted, ComparedNow, RowAtGate, CodesGiven,
          Before, Repeating, Judging
  <2>4. PassTrusted'
    BY <2>1 DEF PassTrusted
  <2>5. EvalTypes' /\ PairsWhole' /\ Challenges'
    BY <1>1, <2>1 DEF RunInv, EvalTypes, RowsTrusted, PairsWhole, Challenges, PairedAt, Steady, OnRun
  <2> QED BY <2>3, <2>4, <2>5 DEF RunInv, RowsTrusted
<1> QED BY <1>2, <1>3 DEF Flags

LEMMA LoadsStep ==
  ASSUME RunInv, Loads \/ Judges \/ TakesLock \/ LockHeld \/ GivesUp \/ Targets
  PROVE  RunInv'
<1>1. OnRun /\ evalCmd \in RunCmds /\ evalCmd.at \in Before /\ Steady
      /\ evalRows' = evalRows /\ moment' = moment
  BY RunKinds DEF RunInv, Loads, Judges, TakesLock, LockHeld, GivesUp, Targets, Doing0, OnRun, Before
<1>2. EndOf(moment) \in Ends /\ MaxClock + 1 \in Ends
  BY DEF RunInv, EvalTypes, Ends
<1>3. CASE \E at \in Before \cup {"repeat"}, end \in Ends, claimed \in BOOLEAN :
             evalCmd' = [evalCmd EXCEPT !.at = at, !.end = end, !.claimed = claimed]
  <2>1. PICK at \in Before \cup {"repeat"}, end \in Ends, claimed \in BOOLEAN :
               evalCmd' = [evalCmd EXCEPT !.at = at, !.end = end, !.claimed = claimed]
    BY <1>3
  <2>2. /\ evalCmd' \in RunCmds /\ evalCmd'.at = at /\ evalCmd'.side = evalCmd.side
        /\ evalCmd'.pairs = evalCmd.pairs /\ evalCmd'.repeat = evalCmd.repeat
        /\ evalCmd'.failing = evalCmd.failing /\ evalCmd'.partial = evalCmd.partial
    BY <1>1, <2>1 DEF RunCmds, Repeating
  <2> QED BY <1>1, <2>2, Advances
<1>4. evalCmd.at # "finally"
  BY <1>1 DEF Before
<1>5. ASSUME ~Fails
      PROVE  \E at \in Before \cup {"repeat"}, end \in Ends, claimed \in BOOLEAN :
               evalCmd' = [evalCmd EXCEPT !.at = at, !.end = end, !.claimed = claimed]
  <2> DEFINE Moved(at, end, claimed) ==
               evalCmd' = [evalCmd EXCEPT !.at = at, !.end = end, !.claimed = claimed]
  <2>1. evalCmd.end \in Ends /\ evalCmd.claimed \in BOOLEAN
    BY <1>1 DEF RunCmds
  <2>2. ASSUME NEW at, evalCmd' = [evalCmd EXCEPT !.at = at]
        PROVE  Moved(at, evalCmd.end, evalCmd.claimed)
    BY <1>1, <2>2 DEF RunCmds
  <2>6. CASE Loads
    <3>1. evalCmd' = [evalCmd EXCEPT !.at = FirstStage, !.end = MaxClock + 1]
      BY <1>5, <2>6, Zenon DEF Loads
    <3>2. FirstStage \in Before
      BY DEF FirstStage, Before
    <3>3. Moved(FirstStage, MaxClock + 1, evalCmd.claimed)
      BY <1>1, <3>1 DEF RunCmds
    <3> HIDE DEF FirstStage
    <3> QED BY <3>2, <3>3, <2>1, <1>2
  <2>3. CASE LockHeld \/ GivesUp \/ Targets
    <3>0. GivesUp => Fails
      BY DEF GivesUp
    <3>1. \E at \in {"wait", "repeat"} : evalCmd' = [evalCmd EXCEPT !.at = at]
      <4>2. LockHeld => evalCmd' = [evalCmd EXCEPT !.at = "wait"]
        BY <1>5, Zenon DEF LockHeld
      <4>3. Targets => evalCmd' = [evalCmd EXCEPT !.at = "repeat"]
        BY <1>5, Zenon DEF Targets
      <4> QED BY <1>5, <2>3, <3>0, <4>2, <4>3
    <3>2. PICK at \in {"wait", "repeat"} : evalCmd' = [evalCmd EXCEPT !.at = at]
      BY <3>1
    <3>3. Moved(at, evalCmd.end, evalCmd.claimed)
      BY <2>2, <3>2
    <3>4. at \in Before \cup {"repeat"}
      BY DEF Before
    <3> QED BY <3>3, <3>4, <2>1, Zenon
  <2>4. CASE Judges
    <3>1. evalCmd' = [evalCmd EXCEPT !.at = "lock", !.end = EndOf(moment)]
      BY <1>5, <2>4 DEF Judges
    <3>2. Moved("lock", EndOf(moment), evalCmd.claimed)
      BY <1>1, <3>1 DEF RunCmds
    <3> QED BY <3>2, <2>1, <1>2 DEF Before
  <2>5. CASE TakesLock
    <3> DEFINE claimed == evalCmd.claimed \/ engineLock = "free"
    <3>1. evalCmd' = [evalCmd EXCEPT !.at = "target", !.claimed = claimed]
      BY <2>5 DEF TakesLock
    <3>2. claimed \in BOOLEAN
      OBVIOUS
    <3> HIDE DEF claimed
    <3>3. Moved("target", evalCmd.end, claimed)
      BY <1>1, <3>1 DEF RunCmds
    <3> QED BY <3>2, <3>3, <2>1 DEF Before
  <2> QED BY <2>3, <2>4, <2>5, <2>6
<1> QED BY <1>1, <1>3, <1>4, <1>5, FailsKeeps

\* What a step in the middle of a run leaves alone.
LEMMA MidRun ==
  ASSUME RunInv, OnRun, evalCmd' \in RunCmds, evalCmd'.at # "finally", evalCmd'.side = evalCmd.side,
         evalCmd'.pairs = evalCmd.pairs, Steady, evalRows' = evalRows, moment' = moment
  PROVE  EvalTypes' /\ PairsWhole' /\ Challenges' /\ CodesGiven' /\ PassTrusted'
<1>1. EvalTypes' /\ PairsWhole'
  BY DEF RunInv, EvalTypes, RowsTrusted, PairsWhole, Steady
<1>2. Challenges'
  BY DEF RunInv, Challenges, PairedAt, Steady, OnRun
<1> QED BY <1>1, <1>2 DEF CodesGiven, PassTrusted

LEMMA CountedSame ==
  ASSUME Steady
  PROVE  /\ Counted(evalSet)' = Counted(evalSet)
         /\ evalCmd'.supplied = evalCmd.supplied => TheSet' = TheSet /\ Counted(TheSet)' = Counted(TheSet)
<1>1. Counted(evalSet)' = Counted(evalSet)
  BY DEF Steady, Counted, Active, Retired, Superseded, Unsigned, Claims
<1>2. ASSUME evalCmd'.supplied = evalCmd.supplied
      PROVE  TheSet' = TheSet
  BY <1>2 DEF TheSet, Steady
<1> QED BY <1>1, <1>2 DEF Counted, Active, Retired, Superseded, Unsigned, Claims

LEMMA RepeatStep ==
  ASSUME RunInv, Repeat \/ Kept
  PROVE  RunInv'
<1>1. OnRun /\ evalCmd \in RunCmds /\ evalCmd.at \in Repeating /\ Steady
      /\ evalRows' = evalRows /\ moment' = moment
  BY RunKinds DEF RunInv, Repeat, Kept, Doing0, OnRun, Repeating
<1>2. evalCmd.partial = FALSE /\ evalCmd.failing \in SUBSET Counted(TheSet) /\ evalCmd.failing \in SUBSET Cases
  BY <1>1 DEF RunInv, FreshStarts, FailuresCounted, Repeating, RunCmds
<1>3. CASE Repeat
  <2>1. PICK failing \in SUBSET Counted(TheSet) :
          evalCmd' = [evalCmd EXCEPT !.at = "ran", !.failing = evalCmd.failing \cup failing]
    BY <1>3 DEF Repeat
  <2>2. evalCmd.failing \cup failing \in SUBSET Counted(TheSet)
        /\ evalCmd.failing \cup failing \in SUBSET Cases
    BY <1>2, CountedCases
  <2>3. /\ evalCmd' \in RunCmds /\ evalCmd'.at = "ran" /\ evalCmd'.side = evalCmd.side
        /\ evalCmd'.pairs = evalCmd.pairs /\ evalCmd'.repeat = evalCmd.repeat
        /\ evalCmd'.failing = evalCmd.failing \cup failing /\ evalCmd'.partial = FALSE
        /\ evalCmd'.last = evalCmd.last /\ evalCmd'.end = evalCmd.end
        /\ evalCmd'.supplied = evalCmd.supplied
    BY <1>1, <1>2, <2>1, <2>2 DEF RunCmds, Repeating
  <2>4. FreshStarts' /\ FailuresCounted' /\ ComparedNow' /\ RowAtGate'
    BY <2>2, <2>3, <1>1, CountedSame DEF FreshStarts, FailuresCounted, ComparedNow, RowAtGate,
          Before, Repeating, Judging
  <2>5. InWindow'
    BY <1>1, <1>2, <2>3 DEF RunInv, InWindow, OnRun
  <2>6. evalCmd'.at # "finally"
    BY <2>3
  <2> QED BY <1>1, <2>3, <2>4, <2>5, <2>6, MidRun DEF RunInv, RowsTrusted
<1>4. CASE Kept
  <2>1. evalCmd' = [evalCmd EXCEPT !.at = "repeat", !.repeat = evalCmd.repeat + 1, !.last = moment]
    BY <1>4 DEF Kept
  <2>2. moment < evalCmd.end /\ moment \in Marks
    BY <1>4 DEF Kept, RunInv, EvalTypes
  <2>3. /\ evalCmd' \in RunCmds /\ evalCmd'.at = "repeat" /\ evalCmd'.side = evalCmd.side
        /\ evalCmd'.pairs = evalCmd.pairs /\ evalCmd'.failing = evalCmd.failing
        /\ evalCmd'.partial = FALSE /\ evalCmd'.last = moment /\ evalCmd'.end = evalCmd.end
        /\ evalCmd'.supplied = evalCmd.supplied
    <3>1. evalCmd.repeat + 1 \in Nat /\ moment \in Marks /\ "repeat" \in Repeating
      BY <1>1, <2>2 DEF RunCmds, Repeating
    <3> QED BY <1>1, <1>2, <2>1, <3>1 DEF RunCmds
  <2>4. FreshStarts' /\ FailuresCounted' /\ ComparedNow' /\ RowAtGate'
    BY <1>2, <2>3, <1>1, CountedSame DEF FreshStarts, FailuresCounted, ComparedNow, RowAtGate,
          Before, Repeating, Judging
  <2>5. InWindow'
    BY <1>1, <2>2, <2>3 DEF InWindow
  <2>6. evalCmd'.at # "finally"
    BY <2>3
  <2> QED BY <1>1, <2>3, <2>4, <2>5, <2>6, MidRun DEF RunInv, RowsTrusted
<1> QED BY <1>3, <1>4

\* The window ends: what the partial run keeps of its failures is what its results cover.
LEMMA OverrunsStep ==
  ASSUME RunInv, Overruns
  PROVE  RunInv'
<1>1. OnRun /\ evalCmd \in RunCmds /\ evalCmd.at \in Repeating /\ Steady
      /\ evalRows' = evalRows /\ moment' = moment
  BY RunKinds DEF RunInv, Overruns, Doing0, OnRun, Repeating
<1> DEFINE kept == IF Pairs(evalCmd) /\ evalCmd.repeat > 0 THEN evalCmd.failing ELSE {}
<1>2. evalCmd' = [evalCmd EXCEPT !.at = "compare", !.partial = TRUE, !.failing = kept]
  BY DEF Overruns
<1>3. evalCmd.failing \in SUBSET Counted(TheSet) /\ evalCmd.failing \in SUBSET Cases
  BY <1>1 DEF RunInv, FreshStarts, FailuresCounted, Repeating, RunCmds
<1>4. kept \in SUBSET Cases /\ kept \in SUBSET Counted(TheSet)
  BY <1>3
<1>5. /\ evalCmd' \in RunCmds /\ evalCmd'.at = "compare" /\ evalCmd'.side = evalCmd.side
      /\ evalCmd'.pairs = evalCmd.pairs /\ evalCmd'.failing = kept /\ evalCmd'.kind = evalCmd.kind
      /\ evalCmd'.partial = TRUE /\ evalCmd'.repeat = evalCmd.repeat
      /\ evalCmd'.supplied = evalCmd.supplied
  <2> HIDE DEF kept
  <2> QED BY <1>1, <1>2, <1>4 DEF RunCmds, Repeating
<1>6. kept \subseteq ResultsOf(evalCmd)'
  <2>1. CASE Pairs(evalCmd) /\ evalCmd.repeat > 0
    <3>1. ResultsOf(evalCmd)' = Counted(TheSet)'
      BY <1>1, <1>5, <2>1 DEF ResultsOf, Pairs, RunCmds
    <3> QED BY <1>4, <1>1, <1>5, <3>1, CountedSame
  <2>2. CASE ~(Pairs(evalCmd) /\ evalCmd.repeat > 0)
    BY <2>2
  <2> QED BY <2>1, <2>2
<1> HIDE DEF kept
<1>7. FreshStarts' /\ FailuresCounted' /\ ComparedNow' /\ RowAtGate' /\ InWindow'
  BY <1>1, <1>4, <1>5, <1>6, CountedSame DEF FreshStarts, FailuresCounted, ComparedNow, RowAtGate,
        InWindow, Before, Repeating, Judging
<1>8. evalCmd'.at # "finally"
  BY <1>5
<1> QED BY <1>1, <1>5, <1>7, <1>8, MidRun DEF RunInv, RowsTrusted

LEMMA ResultsSame ==
  ASSUME Steady, evalCmd'.kind = evalCmd.kind, evalCmd'.partial = evalCmd.partial,
         evalCmd'.repeat = evalCmd.repeat, evalCmd'.supplied = evalCmd.supplied
  PROVE  ResultsOf(evalCmd)' = ResultsOf(evalCmd)
  BY CountedSame DEF ResultsOf, Pairs

LEMMA CompareSame ==
  ASSUME Steady, ResultsOf(evalCmd)' = ResultsOf(evalCmd), evalCmd'.failing = evalCmd.failing,
         evalCmd'.supplied = evalCmd.supplied
  PROVE  Comparison' = Comparison
<1>0. TheSet' = TheSet
  BY CountedSame
<1>1. read_reference(TheSet)' = read_reference(TheSet)
  BY <1>0 DEF Steady, read_reference, Present, SomeFile
<1>2. ReferencePassed' = ReferencePassed
  BY DEF Steady, ReferencePassed, Present
<1>3. Regressed(ResultsOf(evalCmd), evalCmd.failing)' = Regressed(ResultsOf(evalCmd), evalCmd.failing)
  BY <1>2 DEF Regressed
<1> QED BY <1>1, <1>3 DEF Comparison, compare_reference, Steady

LEMMA ComparesStep ==
  ASSUME RunInv, Compares
  PROVE  RunInv'
<1>1. OnRun /\ evalCmd \in RunCmds /\ evalCmd.at \in {"compare", "repeat"} /\ Steady
      /\ evalRows' = evalRows /\ moment' = moment
  BY RunKinds DEF RunInv, Compares, Doing0, OnRun
<1> DEFINE found == Comparison
<1>2. PICK loses \in BOOLEAN :
        evalCmd' = [evalCmd EXCEPT !.at = "record", !.loses = loses, !.comparison = found]
  BY DEF Compares
<1>3. found \in Comparisons
  BY CompareTypes DEF Comparison, Comparisons
<1>4. evalCmd.failing \subseteq Counted(TheSet) /\ evalCmd.failing \subseteq ResultsOf(evalCmd)
  <2>1. evalCmd.at = "repeat" => evalCmd.partial = FALSE
    BY <1>1 DEF RunInv, FreshStarts, Repeating
  <2> QED BY <1>1, <2>1, ResultsAre DEF RunInv, FailuresCounted
<1>5. /\ evalCmd' \in RunCmds /\ evalCmd'.at = "record" /\ evalCmd'.side = evalCmd.side
      /\ evalCmd'.pairs = evalCmd.pairs /\ evalCmd'.failing = evalCmd.failing
      /\ evalCmd'.kind = evalCmd.kind /\ evalCmd'.partial = evalCmd.partial
      /\ evalCmd'.repeat = evalCmd.repeat /\ evalCmd'.comparison = found
      /\ evalCmd'.last = evalCmd.last /\ evalCmd'.end = evalCmd.end
      /\ evalCmd'.supplied = evalCmd.supplied
  <2> HIDE DEF found
  <2> QED BY <1>1, <1>2, <1>3 DEF RunCmds, Judging
<1>6. ResultsOf(evalCmd)' = ResultsOf(evalCmd)
  BY <1>1, <1>5, ResultsSame
<1>7. ComparedNow'
  BY <1>1, <1>5, <1>6, CompareSame DEF ComparedNow
<1> HIDE DEF found
<1>8. FreshStarts' /\ FailuresCounted' /\ RowAtGate'
  BY <1>1, <1>4, <1>5, <1>6, CountedSame DEF FreshStarts, FailuresCounted, RowAtGate, Before, Repeating, Judging
<1>9. InWindow'
  BY <1>1, <1>5 DEF RunInv, InWindow, OnRun
<1>10. evalCmd'.at # "finally"
  BY <1>5
<1> QED BY <1>1, <1>5, <1>7, <1>8, <1>9, <1>10, MidRun DEF RunInv, RowsTrusted

\* The new row is of the pair, where it is a challenger's.
LEMMA RecordsStep ==
  ASSUME RunInv, Records
  PROVE  RunInv'
<1>1. OnRun /\ evalCmd \in RunCmds /\ evalCmd.at = "record" /\ Steady /\ moment' = moment
      /\ evalRows \in Seq(EvalRow) /\ EvalTypes
  BY RunKinds DEF RunInv, Records, Doing0, OnRun, EvalTypes
<1>2. PICK tagged \in BOOLEAN :
        \/ /\ evalRows' = Append(evalRows, RunRow(tagged)) /\ evalCmd.supplied = {}
           /\ evalCmd' = [evalCmd EXCEPT !.at = "gate", !.written = TRUE, !.ok = TRUE]
        \/ /\ evalRows' = evalRows /\ (evalCmd.supplied # {} \/ surface = "file")
           /\ evalCmd' = [evalCmd EXCEPT !.at = "gate", !.written = FALSE, !.ok = TRUE]
        \/ /\ evalRows' = evalRows
           /\ evalCmd' = [evalCmd EXCEPT !.at = "gate", !.written = FALSE, !.ok = FALSE]
  BY Zenon DEF Records, RowWritten, RowSkipped, RowLost
<1>3. /\ evalCmd' \in RunCmds /\ evalCmd'.at = "gate" /\ evalCmd'.side = evalCmd.side
      /\ evalCmd'.pairs = evalCmd.pairs /\ evalCmd'.failing = evalCmd.failing
      /\ evalCmd'.kind = evalCmd.kind /\ evalCmd'.partial = evalCmd.partial
      /\ evalCmd'.repeat = evalCmd.repeat /\ evalCmd'.comparison = evalCmd.comparison
      /\ evalCmd'.last = evalCmd.last /\ evalCmd'.end = evalCmd.end /\ evalCmd'.loses = evalCmd.loses
      /\ evalCmd'.supplied = evalCmd.supplied
      /\ evalCmd'.ok = TRUE /\ evalCmd'.written = FALSE => evalCmd.supplied # {} \/ surface = "file"
      /\ evalCmd'.written = TRUE =>
           evalRows' = Append(evalRows, RunRow(tagged)) /\ evalCmd.supplied = {}
  <2> DEFINE Recorded(w, k) == evalCmd' = [evalCmd EXCEPT !.at = "gate", !.written = w, !.ok = k]
  <2>1. ASSUME NEW w \in BOOLEAN, NEW k \in BOOLEAN, Recorded(w, k)
        PROVE  /\ evalCmd' \in RunCmds /\ evalCmd'.at = "gate" /\ evalCmd'.side = evalCmd.side
               /\ evalCmd'.pairs = evalCmd.pairs /\ evalCmd'.failing = evalCmd.failing
               /\ evalCmd'.kind = evalCmd.kind /\ evalCmd'.partial = evalCmd.partial
               /\ evalCmd'.repeat = evalCmd.repeat /\ evalCmd'.comparison = evalCmd.comparison
               /\ evalCmd'.last = evalCmd.last /\ evalCmd'.end = evalCmd.end /\ evalCmd'.loses = evalCmd.loses
               /\ evalCmd'.supplied = evalCmd.supplied /\ evalCmd'.ok = k /\ evalCmd'.written = w
    BY <1>1, <2>1 DEF RunCmds, Judging
  <2>2. CASE Recorded(TRUE, TRUE)
    BY <1>2, <2>1, <2>2
  <2>3. CASE Recorded(FALSE, TRUE)
    BY <1>2, <2>1, <2>3
  <2>4. CASE Recorded(FALSE, FALSE)
    BY <1>2, <2>1, <2>4
  <2> QED BY <1>2, <2>2, <2>3, <2>4
<1>4. RunRow(tagged) \in EvalRow /\ RunRow(tagged)' = RunRow(tagged)
  BY <1>1, <1>3, RowTypes, RowSame
<1>5. evalRows' \in Seq(EvalRow) /\ Len(evalRows') >= Len(evalRows)
      /\ \A i \in 1..Len(evalRows) : evalRows'[i] = evalRows[i]
  BY <1>1, <1>2, <1>4
<1>6. EvalTypes'
  BY <1>1, <1>3, <1>5 DEF EvalTypes, Steady
<1>7. RowAtGate'
  <2>1. ASSUME evalCmd'.written = TRUE
        PROVE  /\ evalCmd'.supplied = {} /\ evalRows' # <<>>
               /\ evalRows'[Len(evalRows')] = RunRow(tagged)'
    BY <1>1, <1>3, <1>4, <2>1
  <2>2. surface' = surface
    BY <1>1 DEF Steady
  <2> QED BY <1>3, <2>1, <2>2 DEF RowAtGate
<1>8. ResultsOf(evalCmd)' = ResultsOf(evalCmd)
  BY <1>1, <1>3, ResultsSame
<1>9. ComparedNow'
  BY <1>1, <1>3, <1>8, CompareSame DEF ComparedNow, RunInv, Judging
<1>10. FreshStarts' /\ FailuresCounted' /\ CodesGiven' /\ PassTrusted'
  BY <1>1, <1>3, <1>8, CountedSame DEF RunInv, FreshStarts, FailuresCounted, CodesGiven, PassTrusted,
        Before, Repeating, Judging
<1>11. InWindow'
  BY <1>1, <1>3 DEF RunInv, InWindow, OnRun
<1>12. Challenges'
  <2>1. evalCmd.side = "challenger" => PairedAt(evalCmd.pairs)
    BY <1>1 DEF RunInv, Challenges
  <2> QED BY <1>1, <1>3, <1>5, <2>1 DEF Challenges, PairedAt, Steady
<1>13. PairsWhole'
  <2>1. CASE evalRows' = evalRows
    BY <2>1 DEF RunInv, RowsTrusted, PairsWhole
  <2>2. CASE evalRows' = Append(evalRows, RunRow(tagged)) /\ evalCmd.supplied = {}
    <3> SUFFICES ASSUME NEW i \in DOMAIN evalRows', evalRows'[i].side = "challenger"
                 PROVE  /\ evalRows'[i].pairs \in 1..(i - 1)
                        /\ evalRows'[evalRows'[i].pairs].side = "release"
                        /\ ~evalRows'[evalRows'[i].pairs].partial
                        /\ evalRows'[evalRows'[i].pairs].product = evalRows'[i].product
                        /\ evalRows'[evalRows'[i].pairs].digest = evalRows'[i].digest
      BY DEF PairsWhole
    <3>1. CASE i \in DOMAIN evalRows
      <4>1. evalRows'[i] = evalRows[i] /\ i \in 1..Len(evalRows)
        BY <3>1, <1>1, <1>5
      <4>2. /\ evalRows[i].pairs \in 1..(i - 1) /\ evalRows[evalRows[i].pairs].side = "release"
            /\ ~evalRows[evalRows[i].pairs].partial
            /\ evalRows[evalRows[i].pairs].product = evalRows[i].product
            /\ evalRows[evalRows[i].pairs].digest = evalRows[i].digest
        BY <3>1, <4>1 DEF RunInv, RowsTrusted, PairsWhole
      <4>3. evalRows[i].pairs \in 1..Len(evalRows)
        BY <4>1, <4>2, <1>1
      <4> QED BY <4>1, <4>2, <4>3, <1>5
    <3>2. CASE i \notin DOMAIN evalRows
      <4>1. i = Len(evalRows) + 1 /\ evalRows'[i] = RunRow(tagged)
        BY <3>2, <2>2, <1>1, <1>4
      <4>2. /\ RunRow(tagged).side = evalCmd.side /\ RunRow(tagged).pairs = evalCmd.pairs
            /\ RunRow(tagged).product = product /\ RunRow(tagged).digest = evalSet.digest
        BY <2>2 DEF RunRow, TheSet
      <4>3. PairedAt(evalCmd.pairs)
        BY <1>1, <4>1, <4>2 DEF RunInv, Challenges
      <4>4. evalRows'[evalCmd.pairs] = evalRows[evalCmd.pairs]
        BY <4>3, <1>5 DEF PairedAt
      <4> QED BY <4>1, <4>2, <4>3, <4>4, <1>1 DEF PairedAt
    <3> QED BY <3>1, <3>2
  <2> QED BY <1>2, <2>1, <2>2
<1> QED BY <1>6, <1>7, <1>9, <1>10, <1>11, <1>12, <1>13 DEF RunInv, RowsTrusted

\* A comparison that found nothing wrong: there is no reference, or a whole one with
\* which the failures do not disagree.
LEMMA ComparedWell ==
  ASSUME NEW s, NEW counted, NEW failing, failing \subseteq counted,
         compare_reference(s, counted, failing) \in {"absent", "compared"}
  PROVE  Present = {} \/ (Whole(reference) /\ FilesPassed(reference) \cap failing = {})
<1>1. CASE read_reference(s) = "read"
  <2>1. /\ Present = DOMAIN Lists
        /\ \A l, k \in Present : Header(reference[l]) = Header(reference[k])
    BY <1>1 DEF read_reference
  <2>2. Whole(reference)
    BY <2>1 DEF Whole, Present
  <2>3. Regressed(counted, failing) = {}
    BY <1>1 DEF compare_reference
  <2>4. ReferencePassed = FilesPassed(reference)
    BY <2>1 DEF ReferencePassed, FilesPassed
  <2> QED BY <2>2, <2>3, <2>4 DEF Regressed
<1>2. CASE read_reference(s) # "read"
  <2>1. read_reference(s) \in {"absent", "compared"}
    BY <1>2 DEF compare_reference
  <2> QED BY <2>1 DEF read_reference
<1> QED BY <1>1, <1>2

LEMMA GatesStep ==
  ASSUME RunInv, Gates
  PROVE  RunInv'
<1> DEFINE code == IF gate_ok /\ evalCmd.ok THEN 0 ELSE 1
<1>1. OnRun /\ evalCmd \in RunCmds /\ evalCmd.at = "gate" /\ Steady
      /\ evalRows' = evalRows /\ moment' = moment
  BY RunKinds DEF RunInv, Gates, Doing0, OnRun
<1>2. evalCmd' = NextPass(evalCmd, code) /\ code \in {0, 1}
  BY DEF Gates
<1>3. ASSUME gate_ok, evalCmd.ok
      PROVE  Trusted
  <2>1. evalCmd.ok = TRUE /\ evalCmd.written \in BOOLEAN
    <3>1. evalCmd.ok \in BOOLEAN /\ evalCmd.written \in BOOLEAN
      BY <1>1 DEF RunCmds
    <3> QED BY <1>3, <3>1
  <2>2. /\ evalCmd.written = FALSE => evalCmd.supplied # {} \/ surface = "file"
        /\ evalCmd.written = TRUE =>
             \E tagged \in BOOLEAN : evalRows[Len(evalRows)] = RunRow(tagged)
    BY <1>1, <2>1 DEF RunInv, RowAtGate
  <2>3. evalCmd.partial = FALSE /\ evalCmd.repeat > 0
    <3>1. evalCmd.partial \in BOOLEAN
      BY <1>1 DEF RunCmds
    <3>2. ~evalCmd.partial /\ evalCmd.repeat > 0
      BY <1>3, Zenon DEF gate_ok, Bounds
    <3> QED BY <3>1, <3>2
  <2>4. evalCmd.last < evalCmd.end
    BY <1>1, <2>3 DEF RunInv, InWindow
  <2>5. evalCmd.comparison = Comparison
        /\ evalCmd.comparison \notin {"regressed", "other-version", "malformed"}
    <3>1. evalCmd.comparison \notin {"regressed", "other-version", "malformed"}
      BY <1>3, Zenon DEF gate_ok
    <3> QED BY <1>1, <3>1 DEF RunInv, ComparedNow, Judging
  <2>6. recorded_verdict
    <3>1. evalCmd.comparison # "regressed"
      BY <2>5
    <3> QED BY <1>3, <3>1, Zenon DEF gate_ok, recorded_verdict
  <2>7. \/ surface = "file" \/ Present = {}
        \/ Whole(reference) /\ FilesPassed(reference) \cap evalCmd.failing = {}
    <3> SUFFICES ASSUME surface # "file"
                 PROVE  Present = {} \/ (Whole(reference) /\ FilesPassed(reference) \cap evalCmd.failing = {})
      OBVIOUS
    <3>1. compare_reference(TheSet, ResultsOf(evalCmd), evalCmd.failing)
            \notin {"regressed", "other-version", "malformed"}
      BY <2>5 DEF Comparison
    <3>2. compare_reference(TheSet, ResultsOf(evalCmd), evalCmd.failing) \in {"absent", "compared"}
      BY <3>1, CompareTypes DEF Comparisons
    <3>3. evalCmd.failing \subseteq ResultsOf(evalCmd)
      BY <1>1 DEF RunInv, FailuresCounted, Judging
    <3> QED BY <3>2, <3>3, ComparedWell
  <2>8. ASSUME NEW tagged, evalRows[Len(evalRows)] = RunRow(tagged)
        PROVE  LET r == evalRows[Len(evalRows)]
               IN  r.verdict /\ ~r.partial /\ r.inside /\ r.failing = evalCmd.failing
    <3> HIDE DEF recorded_verdict
    <3>1. /\ RunRow(tagged).verdict = recorded_verdict /\ RunRow(tagged).partial = evalCmd.partial
          /\ RunRow(tagged).inside = (evalCmd.last < evalCmd.end)
          /\ RunRow(tagged).failing = evalCmd.failing
      BY DEF RunRow
    <3> QED BY <2>3, <2>4, <2>6, <2>8, <3>1
  <2> HIDE DEF recorded_verdict
  <2> QED BY <2>1, <2>2, <2>3, <2>4, <2>7, <2>8 DEF Trusted
<1>4. code = 0 => Trusted
  <2>1. ~(gate_ok /\ evalCmd.ok) => code = 1
    BY Zenon
  <2>2. gate_ok /\ evalCmd.ok => Trusted
    BY <1>3, Zenon
  <2> HIDE DEF code
  <2> QED BY <2>1, <2>2
<1> HIDE DEF code
<1>5. evalCmd.at # "finally" /\ (evalCmd.written = TRUE => evalCmd.at = "gate" /\ evalCmd = evalCmd)
  BY <1>1
<1> QED BY <1>1, <1>2, <1>4, <1>5, PassEnds

LEMMA ReferenceSteps ==
  ASSUME RunInv, AsksReference \/ Checks \/ WritesList \/ Wrote \/ RestoresReference \/ Moves
  PROVE  RunInv'
<1>1. CASE AsksReference
  <2>1. PICK i \in DOMAIN evalRows : evalCmd' = RefCmd(i)
    BY <1>1 DEF AsksReference
  <2>2. evalCmd' \in RefCmds
    BY <2>1 DEF RefCmd, RefCmds, RunInv, EvalTypes
  <2>3. evalRows' = evalRows /\ EvalTypes'
    BY <1>1, <2>2 DEF AsksReference, RunInv, EvalTypes, Steady
  <2>4. evalCmd'.op # "run"
    BY <2>1 DEF RefCmd
  <2> QED BY <2>3, <2>4, OffRun
<1>2. CASE Checks
  <2>1. evalCmd \in RefCmds
    BY <1>2, RunKinds DEF RunInv, Checks
  <2>2. evalCmd' = [evalCmd EXCEPT !.at = "write"] \/ evalCmd' = NoCmd
    BY <1>2 DEF Checks
  <2>3. evalCmd' \in RefCmds \cup {NoCmd} /\ evalCmd'.op # "run"
    BY <2>1, <2>2 DEF RefCmds, NoCmd
  <2>4. evalRows' = evalRows /\ EvalTypes'
    BY <1>2, <2>3 DEF Checks, RunInv, EvalTypes, Steady
  <2> QED BY <2>3, <2>4, OffRun
<1>3. CASE WritesList
  <2>1. evalCmd \in RefCmds
    BY <1>3, RunKinds DEF RunInv, WritesList
  <2>2. evalCmd' = [evalCmd EXCEPT !.left = evalCmd.left \ {Min(evalCmd.left)}]
    BY <1>3 DEF WritesList
  <2>3. evalCmd' \in RefCmds /\ evalCmd'.op # "run"
    BY <2>1, <2>2 DEF RefCmds
  <2>4. evalRows' = evalRows /\ EvalTypes'
    BY <1>3, <2>3 DEF WritesList, RunInv, EvalTypes
  <2> QED BY <2>3, <2>4, OffRun
<1>4. CASE Wrote
  <2>1. evalRows' = evalRows /\ EvalTypes' /\ evalCmd'.op # "run"
    BY <1>4 DEF Wrote, RunInv, EvalTypes, NoCmd
  <2> QED BY <2>1, OffRun
<1>5. CASE RestoresReference
  <2>1. evalRows' = evalRows /\ EvalTypes' /\ evalCmd'.op # "run"
    BY <1>5 DEF RestoresReference, RunInv, EvalTypes, NoCmd
  <2> QED BY <2>1, OffRun
<1>6. CASE Moves
  <2>1. evalRows' = evalRows /\ EvalTypes' /\ evalCmd'.op # "run"
    BY <1>6 DEF Moves, RunInv, EvalTypes, NoCmd
  <2> QED BY <2>1, OffRun
<1> QED BY <1>1, <1>2, <1>3, <1>4, <1>5, <1>6

LEMMA Idles ==
  ASSUME RunInv, evalCmd' = evalCmd, evalRows' = evalRows, Steady, moment' \in Marks
  PROVE  RunInv'
<1>1. EvalTypes' /\ FreshStarts' /\ InWindow' /\ CodesGiven' /\ Challenges'
  BY DEF RunInv, EvalTypes, FreshStarts, InWindow, CodesGiven, Challenges, PairedAt, OnRun, Steady
<1>2. ResultsOf(evalCmd)' = ResultsOf(evalCmd)
  BY ResultsSame
<1>3. FailuresCounted' /\ ComparedNow'
  BY <1>2, CompareSame, CountedSame DEF RunInv, FailuresCounted, ComparedNow, OnRun
<1>4. RowAtGate'
  <2>1. OnRun => \A tagged : RunRow(tagged)' = RunRow(tagged)
    BY RunKinds, RowSame DEF RunInv
  <2>2. surface' = surface
    BY DEF Steady
  <2> QED BY <2>1, <2>2 DEF RunInv, RowAtGate, OnRun
<1>5. PairsWhole' /\ PassTrusted'
  BY DEF RunInv, RowsTrusted, PairsWhole, PassTrusted, Present, Whole, FilesPassed, Steady
<1> QED BY <1>1, <1>3, <1>4, <1>5 DEF RunInv, RowsTrusted

\* The end of the command, a kill, and the rest of the box.
LEMMA OtherSteps ==
  ASSUME RunInv, ReleasesLock \/ Killed \/ Tick \/ OtherTakes \/ OtherReleases
  PROVE  RunInv'
<1>1. CASE ReleasesLock \/ Killed
  <2>1. evalRows' = evalRows /\ EvalTypes' /\ evalCmd'.op # "run"
    <3>1. evalCmd' = NoCmd /\ moment' = 0 /\ Steady /\ evalRows' = evalRows
      BY <1>1 DEF ReleasesLock, Killed
    <3>2. 0 \in Marks
      BY EvaluationShapes DEF Marks
    <3> QED BY <3>1, <3>2 DEF RunInv, EvalTypes, NoCmd, Steady
  <2> QED BY <2>1, OffRun
<1>2. CASE Tick \/ OtherTakes \/ OtherReleases
  <2>1. evalCmd' = evalCmd /\ evalRows' = evalRows /\ Steady /\ moment' \in Marks
    BY <1>2, EvaluationShapes DEF Tick, OtherTakes, OtherReleases, RunInv, EvalTypes, Marks
  <2> QED BY <2>1, Idles
<1> QED BY <1>1, <1>2

LEMMA RunStarts ==
  ASSUME EvalInit
  PROVE  RunInv
<1>1. EvalTypes
  BY EvaluationShapes DEF EvalInit, EvalTypes, Marks
<1>2. ~OnRun /\ evalRows = <<>>
  BY DEF EvalInit, OnRun, NoCmd
<1> QED BY <1>1, <1>2 DEF RunInv, FreshStarts, InWindow, FailuresCounted, ComparedNow, RowAtGate,
      Challenges, CodesGiven, RowsTrusted, PassTrusted, PairsWhole, OnRun

LEMMA RunKeeps ==
  ASSUME RunInv, [EvalNext]_evalVars
  PROVE  RunInv'
<1>1. CASE UNCHANGED evalVars
  <2>1. evalCmd' = evalCmd /\ evalRows' = evalRows /\ Steady /\ moment' = moment
    BY <1>1 DEF evalVars, Steady
  <2>2. moment' \in Marks
    BY <2>1 DEF RunInv, EvalTypes
  <2> QED BY <2>1, <2>2, Idles
<1>2. CASE RunStep
  BY <1>2, FlagsStep, LoadsStep, RepeatStep, OverrunsStep, ComparesStep, RecordsStep, GatesStep,
     ReferenceSteps, OtherSteps DEF RunStep
<1>3. CASE Asks \/ AsksReference \/ Killed \/ RestoresReference \/ Tick \/ OtherTakes
           \/ OtherReleases \/ Moves
  BY <1>3, AsksStep, ReferenceSteps, OtherSteps
<1> QED BY <1>1, <1>2, <1>3 DEF EvalNext

\* Stated of every command the code takes (command.py), whatever the window, the lock, the
\* failures and the kills between: a pass that exits 0 is complete, ended inside its window and
\* was judged against a reference that was whole; it leaves a row that says so, unless its set
\* came from outside the release or its slice reaches nothing on the box; and a challenger's
\* row names the release row of its own command over the same set.
THEOREM RowsTrustedHolds == EvalSpec => []RowsTrusted
<1>1. EvalInit => RunInv
  BY RunStarts
<1>2. RunInv /\ [EvalNext]_evalVars => RunInv'
  BY RunKeeps
<1>3. RunInv => RowsTrusted
  BY DEF RunInv
<1> QED BY <1>1, <1>2, <1>3, PTL DEF EvalSpec

-----------------------------------------------------------------------------
(* The ratchet: the files between one committed reference and the next. *)

\* Within a version the set is kept append-only (eval/sets/eval-v1/slices/README.md): what
\* is retired stays retired, and no case that ran comes to wait for a sign-off.
AppendOnly ==
  evalSet'.version = evalSet.version =>
    /\ Retired(evalSet) \subseteq Retired(evalSet')
    /\ evalSet'.signing \ evalSet'.signed \subseteq evalSet.signing \ evalSet.signed

File ==
  [version : Nat, digest : {s.digest : s \in Sets}, product : Nat, verdict : BOOLEAN,
   counted : SUBSET Cases, failing : SUBSET Cases]

FileTypes == reference \in [DOMAIN Lists -> File \cup {NoFile}]
             /\ committed \in [DOMAIN Lists -> File \cup {NoFile}]

\* A complete row, of whatever release, counts what the set of its digest counts.
RowsCount ==
  \A i \in DOMAIN evalRows :
    /\ evalRows[i].failing \subseteq evalRows[i].counted
    /\ \A s \in Sets : evalRows[i].digest = s.digest /\ evalRows[i].partial = FALSE =>
                       evalRows[i].counted = Counted(s)

\* The list has a committed file, of the set's version.
Carried(l)   == committed[l] # NoFile
Current(l) == Carried(l) /\ committed[l].version = evalSet.version

\* Once committed, a list's file is there, and its version lies in between.
FilesStand ==
  \A l \in DOMAIN Lists : Carried(l) =>
    /\ reference[l] # NoFile /\ committed[l].version <= reference[l].version
    /\ reference[l].version <= evalSet.version
    /\ committed[l].counted \subseteq Lists[l]

\* What the committed file holds as passing, the file at hand does, or the case is retired.
PassedStand ==
  \A l \in DOMAIN Lists : Current(l) =>
    \A c \in Passed(committed[l]) :
      c \in Retired(evalSet) \/ (c \in Counted(evalSet) /\ c \in Passed(reference[l]))

\* The row being written was checked, and the lists done hold it.
RowChecked(r) ==
  /\ r.version = evalSet.version /\ r.digest = evalSet.digest /\ r.partial = FALSE
  /\ \A l \in DOMAIN Lists : Current(l) => Passed(committed[l]) \cap r.failing = {}

Writing ==
  evalCmd.op = "reference" =>
    /\ evalCmd.row \in DOMAIN evalRows
    /\ evalCmd.at = "write" =>
         /\ RowChecked(evalRows[evalCmd.row])
         /\ \A l \in DOMAIN Lists \ evalCmd.left : reference[l] = FileOf(evalRows[evalCmd.row], l)

\* The committed files are those of one row.
OneRow ==
  \A l, m \in DOMAIN Lists : Carried(l) /\ Carried(m) => Passed(committed[l]) \cap committed[m].failing = {}

Waiting == evalCmd.op = "reference" /\ evalCmd.at = "check" => evalCmd.left = DOMAIN Lists

RatchetInv == RunInv /\ FileTypes /\ RowsCount /\ FilesStand /\ PassedStand /\ OneRow
              /\ Waiting /\ Writing

\* A step of a run keeps to the run.
LEMMA RunStays ==
  ASSUME RunInv,
         Flags \/ Loads \/ Judges \/ TakesLock \/ LockHeld \/ GivesUp \/ Targets \/ Repeat
           \/ Kept \/ Overruns \/ Compares \/ Records \/ Gates
  PROVE  evalCmd'.op = "run" /\ Steady
<1>1. evalCmd \in RunCmds /\ Steady /\ EvalTypes
  BY RunKinds DEF RunInv, Flags, Loads, Judges, TakesLock, LockHeld, GivesUp, Targets, Repeat,
     Kept, Overruns, Compares, Records, Gates, Doing0, OnRun
<1>2. evalCmd.op = "run" /\ DOMAIN evalCmd = DOMAIN EvalCmd(evalCmd) /\ "op" \in DOMAIN evalCmd
  BY <1>1 DEF RunCmds, EvalCmd
<1>3. Fails => evalCmd'.op = "run"
  <2> DEFINE c == [evalCmd EXCEPT !.written = FALSE]
  <2>1. c \in RunCmds
    BY <1>1 DEF RunCmds
  <2>2. Fails <=> evalCmd' = NextPass(c, 1)
    BY DEF Fails
  <2> HIDE DEF c
  <2>3. NextPass(c, 1) \in RunCmds
    BY <1>1, <2>1, AfterPass
  <2> QED BY <2>2, <2>3 DEF RunCmds
<1>4. Gates => evalCmd'.op = "run"
  <2> DEFINE code == IF gate_ok /\ evalCmd.ok THEN 0 ELSE 1
  <2>1. Gates => evalCmd' = NextPass(evalCmd, code) /\ code \in {0, 1}
    BY DEF Gates
  <2> HIDE DEF code
  <2>2. NextPass(evalCmd, code) \in RunCmds \/ code \notin {0, 1}
    BY <1>1, AfterPass
  <2>3. Gates => evalCmd' \in RunCmds
    BY <2>1, <2>2
  <2> QED BY <2>3 DEF RunCmds
<1>5. (Flags \/ Loads \/ Judges \/ LockHeld \/ GivesUp \/ Targets) => Fails \/ evalCmd'.op = "run"
  <2>1. Flags => evalCmd'.op = "run"
    BY <1>2 DEF Flags
  <2>2. \A at : [evalCmd EXCEPT !.at = at].op = "run"
    BY <1>2
  <2>3. [evalCmd EXCEPT !.at = "lock", !.end = EndOf(moment)].op = "run"
    BY <1>2
  <2>6. [evalCmd EXCEPT !.at = FirstStage, !.end = MaxClock + 1].op = "run"
    BY <1>2
  <2>7. Loads => Fails \/ evalCmd' = [evalCmd EXCEPT !.at = FirstStage, !.end = MaxClock + 1]
    BY Zenon DEF Loads
  <2>4. (LockHeld \/ GivesUp \/ Targets) =>
          Fails \/ \E at \in {"wait", "repeat"} : evalCmd' = [evalCmd EXCEPT !.at = at]
    <3>2. LockHeld => Fails \/ evalCmd' = [evalCmd EXCEPT !.at = "wait"]
      BY Zenon DEF LockHeld
    <3>3. Targets => Fails \/ evalCmd' = [evalCmd EXCEPT !.at = "repeat"]
      BY Zenon DEF Targets
    <3>4. GivesUp => Fails
      BY Zenon DEF GivesUp
    <3> QED BY <3>2, <3>3, <3>4
  <2>5. Judges => Fails \/ evalCmd' = [evalCmd EXCEPT !.at = "lock", !.end = EndOf(moment)]
    BY Zenon DEF Judges
  <2> QED BY <2>1, <2>2, <2>3, <2>4, <2>5, <2>6, <2>7
<1>6. TakesLock \/ Kept \/ Overruns \/ Records \/ Repeat \/ Compares => evalCmd'.op = "run"
  <2>1. TakesLock \/ Kept => evalCmd'.op = "run"
    BY <1>2 DEF TakesLock, Kept
  <2>2. Overruns \/ Records => evalCmd'.op = "run"
    BY <1>2 DEF Overruns, Records, RowWritten, RowSkipped, RowLost
  <2>3. Repeat \/ Compares => evalCmd'.op = "run"
    BY <1>2 DEF Repeat, Compares
  <2> QED BY <2>1, <2>2, <2>3
<1> QED BY <1>1, <1>3, <1>4, <1>5, <1>6

\* A step that leaves the set, the files and the rows alone, and no reference command begins.
LEMMA RatchetIdles ==
  ASSUME RatchetInv, RunInv', Steady, evalRows' = evalRows,
         evalCmd'.op # "reference" \/ evalCmd' = evalCmd
  PROVE  RatchetInv'
<1>1. Counted(evalSet)' = Counted(evalSet) /\ Retired(evalSet)' = Retired(evalSet)
  BY CountedSame DEF Steady, Retired, Superseded, Claims
<1>2. evalSet' = evalSet /\ product' = product /\ reference' = reference /\ committed' = committed
  BY DEF Steady
<1>3. FileTypes' /\ RowsCount' /\ FilesStand'
  BY <1>1, <1>2 DEF RatchetInv, FileTypes, RowsCount, FilesStand, Carried
<1>4. PassedStand' /\ OneRow'
  BY <1>1, <1>2 DEF RatchetInv, PassedStand, OneRow, Current, Carried, Passed
<1>5. Writing' /\ Waiting'
  BY <1>2 DEF RatchetInv, Waiting, Writing, RowChecked, Current, Carried, Passed, FileOf
<1> QED BY <1>3, <1>4, <1>5 DEF RatchetInv

LEMMA RowRatchet ==
  ASSUME RatchetInv, RunInv', Records
  PROVE  RatchetInv'
<1>1. OnRun /\ evalCmd \in RunCmds /\ evalCmd.at = "record" /\ EvalTypes /\ evalRows \in Seq(EvalRow)
  BY RunKinds DEF RatchetInv, RunInv, Records, Doing0, OnRun, EvalTypes
<1>2. evalCmd'.op = "run" /\ Steady
  BY RunStays DEF RatchetInv
<1>3. CASE evalRows' = evalRows
  BY <1>2, <1>3, RatchetIdles
<1>4. ASSUME NEW tagged \in BOOLEAN, evalRows' = Append(evalRows, RunRow(tagged)), evalCmd.supplied = {}
      PROVE  RatchetInv'
  <2>1. Counted(evalSet)' = Counted(evalSet) /\ Retired(evalSet)' = Retired(evalSet)
    BY <1>2, CountedSame DEF Steady, Retired, Superseded, Claims
  <2>2. evalSet' = evalSet /\ product' = product /\ reference' = reference /\ committed' = committed
    BY <1>2 DEF Steady
  <2>3. FileTypes' /\ FilesStand' /\ Writing' /\ Waiting'
    BY <1>2, <2>1, <2>2 DEF RatchetInv, FileTypes, FilesStand, Carried, Writing, Waiting
  <2>4. PassedStand' /\ OneRow'
    BY <2>1, <2>2 DEF RatchetInv, PassedStand, OneRow, Current, Carried, Passed
  <2>5. /\ RunRow(tagged).failing \subseteq RunRow(tagged).counted
        /\ RunRow(tagged).digest = evalSet.digest
        /\ RunRow(tagged).partial = FALSE => RunRow(tagged).counted = Counted(evalSet)
    <3>1. /\ RunRow(tagged).failing = evalCmd.failing /\ RunRow(tagged).counted = ResultsOf(evalCmd)
          /\ RunRow(tagged).partial = evalCmd.partial /\ RunRow(tagged).digest = TheSet.digest
      BY DEF RunRow
    <3>2. evalCmd.failing \subseteq ResultsOf(evalCmd)
      BY <1>1 DEF RatchetInv, RunInv, FailuresCounted, Judging
    <3>3. TheSet = evalSet
      BY <1>4 DEF TheSet
    <3> QED BY <3>1, <3>2, <3>3, ResultsAre
  <2>6. RowsCount'
    <3> SUFFICES ASSUME NEW i \in DOMAIN evalRows'
                 PROVE  /\ evalRows'[i].failing \subseteq evalRows'[i].counted
                        /\ \A s \in Sets : evalRows'[i].digest = s.digest /\ evalRows'[i].partial = FALSE =>
                                           evalRows'[i].counted = Counted(s)
      BY DEF RowsCount, Counted, Active, Retired, Superseded, Unsigned, Claims
    <3>1. RunRow(tagged) \in EvalRow
      BY <1>1, RowTypes
    <3>2. CASE i \in DOMAIN evalRows
      <4>1. evalRows'[i] = evalRows[i]
        BY <1>1, <1>4, <3>1, <3>2
      <4> QED BY <3>2, <4>1 DEF RatchetInv, RowsCount
    <3>3. CASE i \notin DOMAIN evalRows
      <4>1. evalRows'[i] = RunRow(tagged)
        BY <1>1, <1>4, <3>1, <3>3
      <4>2. \A s \in Sets : evalSet.digest = s.digest => s = evalSet
        BY <1>1, EvaluationShapes DEF EvalTypes
      <4> QED BY <4>1, <4>2, <2>5
    <3> QED BY <3>2, <3>3
  <2> QED BY <2>3, <2>4, <2>6 DEF RatchetInv
<1>5. \/ evalRows' = evalRows
      \/ \E tagged \in BOOLEAN : evalRows' = Append(evalRows, RunRow(tagged)) /\ evalCmd.supplied = {}
  BY Zenon DEF Records, RowWritten, RowSkipped, RowLost
<1> QED BY <1>3, <1>4, <1>5

LEMMA MovesRatchet ==
  ASSUME RatchetInv, RunInv', Moves, AppendOnly
  PROVE  RatchetInv'
<1>1. /\ evalCmd' = NoCmd /\ reference' = reference /\ committed' = committed /\ evalRows' = evalRows
      /\ product' = product + 1 /\ evalSet' \in Sets /\ evalSet.version <= evalSet'.version
  BY EvaluationShapes DEF Moves
<1>2. evalSet.version \in Nat /\ evalSet'.version \in Nat /\ product \in Nat /\ evalRows \in Seq(EvalRow)
  BY <1>1, EvaluationShapes DEF RatchetInv, RunInv, EvalTypes
<1>3. FileTypes' /\ OneRow' /\ Writing' /\ Waiting'
  BY <1>1 DEF RatchetInv, FileTypes, OneRow, Carried, Passed, Writing, Waiting, NoCmd
<1>4. RowsCount'
  BY <1>1 DEF RatchetInv, RowsCount, Counted, Active, Retired, Superseded, Unsigned, Claims
<1>5. FilesStand'
  <2> SUFFICES ASSUME NEW l \in DOMAIN Lists, Carried(l)
               PROVE  /\ reference[l] # NoFile /\ committed[l].version <= reference[l].version
                      /\ reference[l].version <= evalSet'.version
                      /\ committed[l].counted \subseteq Lists[l]
    BY <1>1 DEF FilesStand, Carried
  <2>1. /\ reference[l] # NoFile /\ committed[l].version <= reference[l].version
        /\ reference[l].version <= evalSet.version /\ committed[l].counted \subseteq Lists[l]
    BY DEF RatchetInv, FilesStand
  <2>2. reference[l].version \in Nat
    BY <2>1 DEF RatchetInv, FileTypes, File
  <2> QED BY <1>1, <1>2, <2>1, <2>2
<1>6. PassedStand'
  <2> SUFFICES ASSUME NEW l \in DOMAIN Lists, Carried(l), committed[l].version = evalSet'.version,
                      NEW c \in Passed(committed[l])
               PROVE  \/ c \in Retired(evalSet')
                      \/ c \in Counted(evalSet') /\ c \in Passed(reference[l])
    BY <1>1 DEF PassedStand, Current, Carried, Passed
  <2>1. evalSet.version = evalSet'.version /\ Current(l)
    <3>1. /\ reference[l] # NoFile /\ committed[l].version <= reference[l].version
          /\ reference[l].version <= evalSet.version
      BY DEF RatchetInv, FilesStand
    <3>2. reference[l].version \in Nat
      BY <3>1 DEF RatchetInv, FileTypes, File
    <3> QED BY <1>1, <1>2, <3>1, <3>2 DEF Current
  <2>2. c \in Retired(evalSet) \/ (c \in Counted(evalSet) /\ c \in Passed(reference[l]))
    BY <2>1 DEF RatchetInv, PassedStand
  <2>3. /\ Retired(evalSet) \subseteq Retired(evalSet')
        /\ evalSet'.signing \ evalSet'.signed \subseteq evalSet.signing \ evalSet.signed
    BY <2>1 DEF AppendOnly
  <2>4. ASSUME c \in Counted(evalSet), c \notin Retired(evalSet')
        PROVE  c \in Counted(evalSet')
    <3> DEFINE Listed == UNION {Lists[k] : k \in DOMAIN Lists}
    <3>1. \A s : Counted(s) = (Listed \cap Active(s)) \ Unsigned(s)
      BY DEF Counted
    <3> HIDE DEF Listed
    <3>2. c \in Listed /\ c \in Cases /\ c \notin Unsigned(evalSet) /\ c \in Active(evalSet)
      BY <2>4, <3>1 DEF Active
    <3>3. c \in Active(evalSet') /\ c \notin Unsigned(evalSet')
      BY <2>3, <2>4, <3>2 DEF Active, Unsigned
    <3> QED BY <3>1, <3>2, <3>3
  <2> QED BY <2>2, <2>3, <2>4
<1> QED BY <1>3, <1>4, <1>5, <1>6 DEF RatchetInv

\* _check: what it compares the row with holds every case the committed files pass.
LEMMA ChecksRatchet ==
  ASSUME RatchetInv, RunInv', Checks
  PROVE  RatchetInv'
<1>1. /\ evalCmd \in RefCmds /\ Steady /\ evalRows' = evalRows /\ EvalTypes
      /\ evalCmd.row \in DOMAIN evalRows
  BY RunKinds DEF RatchetInv, RunInv, Checks, Writing
<1> DEFINE r == evalRows[evalCmd.row]
<1>2. CASE ~_check(r)
  <2>1. evalCmd' = NoCmd
    BY <1>2 DEF Checks
  <2> QED BY <1>1, <2>1, RatchetIdles DEF NoCmd
<1>3. CASE _check(r)
  <2>1. evalCmd' = [evalCmd EXCEPT !.at = "write"]
    BY <1>3 DEF Checks
  <2>2. evalCmd'.op = "reference" /\ evalCmd'.row = evalCmd.row /\ evalCmd'.left = DOMAIN Lists
    <3>1. evalCmd.left = DOMAIN Lists
      BY DEF RatchetInv, Waiting, Checks
    <3> QED BY <1>1, <2>1, <3>1 DEF RefCmds
  <2>3. r \in EvalRow /\ evalCmd.row \in 1..Len(evalRows)
    BY <1>1 DEF EvalTypes
  <2>4. r.version = evalSet.version /\ r.digest = evalSet.digest /\ r.partial = FALSE
    <3>1. r.partial \in BOOLEAN
      BY <2>3 DEF EvalRow
    <3>2. r.version = evalSet.version /\ r.digest = evalSet.digest /\ ~r.partial
      BY <1>3, Zenon DEF _check, RowFits
    <3> QED BY <3>1, <3>2
  <2>5. r.counted = Counted(evalSet) /\ r.failing \subseteq r.counted
    <3>1. evalSet \in Sets
      BY <1>1 DEF EvalTypes
    <3> QED BY <1>1, <2>4, <3>1 DEF RatchetInv, RowsCount
  <2>6. compare_reference(evalSet, r.counted, r.failing) \notin {"malformed", "regressed"}
    BY <1>3, Zenon DEF _check
  <2> HIDE DEF r
  <2>7. ASSUME NEW l \in DOMAIN Lists, Current(l), NEW c \in Passed(committed[l]), c \in r.failing
        PROVE  FALSE
    <3>1. reference[l] # NoFile /\ reference[l].version = evalSet.version /\ l \in Present
      <4>1. /\ reference[l] # NoFile /\ committed[l].version <= reference[l].version
            /\ reference[l].version <= evalSet.version /\ committed[l].version = evalSet.version
        BY <2>7 DEF RatchetInv, FilesStand, Current
      <4>2. reference[l].version \in Nat /\ evalSet.version \in Nat
        BY <4>1, EvaluationShapes, <1>1 DEF RatchetInv, FileTypes, File, EvalTypes
      <4> QED BY <4>1, <4>2 DEF Present
    <3>2. c \in Passed(reference[l])
      <4>1. c \in Counted(evalSet)
        BY <2>5, <2>7
      <4>2. c \notin Retired(evalSet)
        <5> DEFINE Listed == UNION {Lists[k] : k \in DOMAIN Lists}
        <5>1. Counted(evalSet) = (Listed \cap Active(evalSet)) \ Unsigned(evalSet)
          BY DEF Counted
        <5> HIDE DEF Listed
        <5> QED BY <4>1, <5>1 DEF Active
      <4> QED BY <2>7, <4>2 DEF RatchetInv, PassedStand
    <3>3. read_reference(evalSet) \in {"read", "malformed"}
      <4>1. ASSUME \A k, m \in Present : Header(reference[k]) = Header(reference[m])
            PROVE  SomeFile.version = evalSet.version
        <5> DEFINE k == CHOOSE k \in Present : TRUE
        <5>1. k \in Present
          BY <3>1
        <5>2. SomeFile = reference[k]
          BY DEF SomeFile
        <5> HIDE DEF k
        <5>3. Header(reference[k]) = Header(reference[l])
          BY <3>1, <4>1, <5>1
        <5> QED BY <3>1, <5>2, <5>3 DEF Header
      <4> QED BY <3>1, <4>1 DEF read_reference
    <3>4. Regressed(r.counted, r.failing) = {}
      BY <2>6, <3>3 DEF compare_reference
    <3>5. c \in ReferencePassed
      BY <3>1, <3>2 DEF ReferencePassed
    <3> QED BY <2>5, <2>7, <3>4, <3>5 DEF Regressed
  <2>8. RowChecked(r)
    BY <2>4, <2>7 DEF RowChecked
  <2>9. Counted(evalSet)' = Counted(evalSet) /\ Retired(evalSet)' = Retired(evalSet)
    BY <1>1, CountedSame DEF Steady, Retired, Superseded, Claims
  <2>10. evalSet' = evalSet /\ product' = product /\ reference' = reference /\ committed' = committed
    BY <1>1 DEF Steady
  <2>11. FileTypes' /\ RowsCount' /\ FilesStand'
    BY <1>1, <2>9, <2>10 DEF RatchetInv, FileTypes, RowsCount, FilesStand, Carried
  <2>12. PassedStand' /\ OneRow'
    BY <2>9, <2>10 DEF RatchetInv, PassedStand, OneRow, Current, Carried, Passed
  <2>13. RowChecked(evalRows[evalCmd.row])'
    BY <1>1, <2>2, <2>8, <2>10 DEF RowChecked, Current, Carried, Passed, r
  <2>14. Writing' /\ Waiting'
    BY <1>1, <2>1, <2>2, <2>13 DEF Writing, Waiting, RefCmds
  <2> QED BY <2>11, <2>12, <2>14 DEF RatchetInv
<1> QED BY <1>2, <1>3

LEMMA FileOfTypes ==
  ASSUME EvalTypes, NEW r \in EvalRow, NEW l
  PROVE  /\ FileOf(r, l) \in File /\ FileOf(r, l) # NoFile /\ FileOf(r, l).version = r.version
         /\ FileOf(r, l).failing = r.failing \cap Lists[l]
         /\ FileOf(r, l).counted = r.counted \cap Lists[l]
<1>1. /\ r.version \in Nat /\ r.digest \in {s.digest : s \in Sets} /\ r.product \in Nat
      /\ r.verdict \in BOOLEAN /\ r.counted \in SUBSET Cases /\ r.failing \in SUBSET Cases
  BY EvaluationShapes DEF EvalRow
<1>2. FileOf(r, l) \in File
  BY <1>1 DEF FileOf, File
<1>3. FileOf(r, l) # NoFile
  <2>1. "digest" \in DOMAIN FileOf(r, l) /\ "digest" \notin DOMAIN NoFile
    BY DEF FileOf, NoFile
  <2> QED BY <2>1
<1> QED BY <1>2, <1>3 DEF FileOf

LEMMA WritesRatchet ==
  ASSUME RatchetInv, RunInv', WritesList
  PROVE  RatchetInv'
<1> DEFINE r == evalRows[evalCmd.row]
           k == Min(evalCmd.left)
<1>1. /\ evalCmd \in RefCmds /\ evalCmd.op = "reference" /\ evalCmd.at = "write" /\ EvalTypes
      /\ evalCmd.row \in DOMAIN evalRows
  BY RunKinds DEF RatchetInv, RunInv, WritesList, Writing
<1>2. /\ reference' = [reference EXCEPT ![k] = FileOf(r, k)]
      /\ evalCmd' = [evalCmd EXCEPT !.left = evalCmd.left \ {k}]
      /\ evalSet' = evalSet /\ product' = product /\ committed' = committed /\ evalRows' = evalRows
  BY DEF WritesList
<1>3. r \in EvalRow
  BY <1>1 DEF EvalTypes
<1>4. RowChecked(r) /\ \A l \in DOMAIN Lists \ evalCmd.left : reference[l] = FileOf(r, l)
  BY <1>1 DEF RatchetInv, Writing
<1>5. r.version = evalSet.version /\ r.counted = Counted(evalSet) /\ evalSet.version \in Nat
  BY <1>1, <1>4, EvaluationShapes DEF RatchetInv, RowsCount, RowChecked, EvalTypes
<1>6. /\ evalCmd'.op = "reference" /\ evalCmd'.at = "write" /\ evalCmd'.row = evalCmd.row
      /\ evalCmd'.left = evalCmd.left \ {k}
  BY <1>1, <1>2 DEF RefCmds
<1>7. reference \in [DOMAIN Lists -> File \cup {NoFile}]
  BY DEF RatchetInv, FileTypes
<1> HIDE DEF r, k
<1>8. ASSUME NEW l \in DOMAIN Lists
      PROVE  \/ l = k /\ reference'[l] = FileOf(r, l)
             \/ l # k /\ reference'[l] = reference[l]
  BY <1>2, <1>7
<1>9. FileTypes'
  <2>1. reference' \in [DOMAIN Lists -> File \cup {NoFile}]
    BY <1>1, <1>2, <1>3, <1>7, FileOfTypes
  <2> QED BY <1>2, <2>1 DEF RatchetInv, FileTypes
<1>10. Counted(evalSet)' = Counted(evalSet) /\ Retired(evalSet)' = Retired(evalSet)
  BY <1>2 DEF Counted, Active, Unsigned, Retired, Superseded, Claims
<1>11. RowsCount' /\ OneRow'
  BY <1>2, <1>10 DEF RatchetInv, RowsCount, OneRow, Carried, Passed
<1>12. FilesStand'
  <2> SUFFICES ASSUME NEW l \in DOMAIN Lists, Carried(l)
               PROVE  /\ reference'[l] # NoFile /\ committed[l].version <= reference'[l].version
                      /\ reference'[l].version <= evalSet.version
                      /\ committed[l].counted \subseteq Lists[l]
    BY <1>2 DEF FilesStand, Carried
  <2>1. /\ reference[l] # NoFile /\ committed[l].version <= reference[l].version
        /\ reference[l].version <= evalSet.version /\ committed[l].counted \subseteq Lists[l]
    BY DEF RatchetInv, FilesStand
  <2>2. reference[l].version \in Nat /\ committed[l].version \in Nat
    BY <2>1 DEF RatchetInv, FileTypes, File, Carried
  <2>3. FileOf(r, l) # NoFile /\ FileOf(r, l).version = evalSet.version
    BY <1>1, <1>3, <1>5, FileOfTypes
  <2> QED BY <1>5, <1>8, <2>1, <2>2, <2>3
<1>13. PassedStand'
  <2> SUFFICES ASSUME NEW l \in DOMAIN Lists, Current(l), NEW c \in Passed(committed[l])
               PROVE  c \in Retired(evalSet) \/ (c \in Counted(evalSet) /\ c \in Passed(reference'[l]))
    BY <1>2, <1>10 DEF PassedStand, Current, Carried, Passed
  <2>1. c \in Retired(evalSet) \/ (c \in Counted(evalSet) /\ c \in Passed(reference[l]))
    BY DEF RatchetInv, PassedStand
  <2>2. c \notin r.failing
    BY <1>4 DEF RowChecked
  <2>3. c \in Lists[l]
    <3>1. committed[l].counted \subseteq Lists[l]
      BY DEF RatchetInv, FilesStand, Current
    <3> QED BY <3>1 DEF Passed
  <2>4. c \in Counted(evalSet) => c \in Passed(FileOf(r, l))
    <3>1. FileOf(r, l).failing = r.failing \cap Lists[l] /\ FileOf(r, l).counted = r.counted \cap Lists[l]
      BY <1>1, <1>3, FileOfTypes
    <3> QED BY <1>5, <2>2, <2>3, <3>1 DEF Passed
  <2> QED BY <1>8, <2>1, <2>4
<1>14. Writing' /\ Waiting'
  <2>1. RowChecked(evalRows[evalCmd.row])'
    BY <1>2, <1>4, <1>6 DEF RowChecked, Current, Carried, Passed, r
  <2>2. \A l \in DOMAIN Lists \ evalCmd'.left : reference'[l] = FileOf(r, l)
    BY <1>4, <1>6, <1>8
  <2>3. \A l : FileOf(evalRows[evalCmd.row], l)' = FileOf(r, l)
    BY <1>2, <1>6 DEF FileOf, r
  <2> QED BY <1>1, <1>2, <1>6, <2>1, <2>2, <2>3 DEF Writing, Waiting
<1> QED BY <1>9, <1>11, <1>12, <1>13, <1>14 DEF RatchetInv

\* The command ends: its row is the reference that stands.
LEMMA WroteRatchet ==
  ASSUME RatchetInv, RunInv', Wrote
  PROVE  /\ RatchetInv'
         /\ \A l \in DOMAIN Lists : /\ Current(l) => Passed(committed[l]) \cap FilesFailed(committed') = {}
                                    /\ committed'[l].version = evalSet.version
<1> DEFINE r == evalRows[evalCmd.row]
<1>1. /\ evalCmd.op = "reference" /\ evalCmd.at = "write" /\ EvalTypes /\ evalCmd.left = {}
      /\ evalCmd.row \in DOMAIN evalRows
  BY DEF RatchetInv, RunInv, Wrote, Writing
<1>2. /\ reference' = reference /\ evalCmd' = NoCmd /\ committed' = reference
      /\ evalSet' = evalSet /\ product' = product /\ evalRows' = evalRows
  BY DEF Wrote
<1>3. r \in EvalRow
  BY <1>1 DEF EvalTypes
<1>4. RowChecked(r) /\ \A l \in DOMAIN Lists : reference[l] = FileOf(r, l)
  BY <1>1 DEF RatchetInv, Writing
<1>5. r.version = evalSet.version /\ r.counted = Counted(evalSet) /\ evalSet.version \in Nat
  BY <1>1, <1>4, EvaluationShapes DEF RatchetInv, RowsCount, RowChecked, EvalTypes
<1> HIDE DEF r
<1>6. ASSUME NEW l \in DOMAIN Lists
      PROVE  /\ reference[l] # NoFile /\ reference[l].version = evalSet.version
             /\ reference[l].failing = r.failing \cap Lists[l]
             /\ reference[l].counted = r.counted \cap Lists[l]
  BY <1>1, <1>3, <1>4, <1>5, FileOfTypes
<1>7. Counted(evalSet)' = Counted(evalSet) /\ Retired(evalSet)' = Retired(evalSet)
  BY <1>2 DEF Counted, Active, Unsigned, Retired, Superseded, Claims
<1>8. FileTypes' /\ RowsCount' /\ Writing' /\ Waiting'
  BY <1>2, <1>7 DEF RatchetInv, FileTypes, RowsCount, Writing, Waiting, NoCmd
<1>9. FilesStand'
  BY <1>2, <1>5, <1>6 DEF FilesStand, Carried
<1>10. PassedStand' /\ OneRow'
  <2> SUFFICES ASSUME NEW l \in DOMAIN Lists, NEW m \in DOMAIN Lists, NEW c \in Passed(reference[l])
               PROVE  c \in Counted(evalSet) /\ c \notin reference[m].failing
    BY <1>2, <1>7 DEF PassedStand, OneRow, Current, Carried, Passed
  <2> QED BY <1>5, <1>6 DEF Passed
<1>11. FilesFailed(committed') \subseteq r.failing
  BY <1>2, <1>6 DEF FilesFailed
<1>12. \A l \in DOMAIN Lists : Current(l) => Passed(committed[l]) \cap FilesFailed(committed') = {}
  BY <1>4, <1>11 DEF RowChecked
<1>13. \A l \in DOMAIN Lists : committed'[l].version = evalSet.version
  BY <1>2, <1>6
<1> QED BY <1>8, <1>9, <1>10, <1>12, <1>13 DEF RatchetInv

LEMMA AsksRatchet ==
  ASSUME RatchetInv, RunInv', AsksReference
  PROVE  RatchetInv'
<1>1. PICK i \in DOMAIN evalRows : evalCmd' = RefCmd(i)
  BY DEF AsksReference
<1>2. Steady /\ evalRows' = evalRows
  BY DEF AsksReference
<1>3. Counted(evalSet)' = Counted(evalSet) /\ Retired(evalSet)' = Retired(evalSet)
  BY <1>2, CountedSame DEF Steady, Retired, Superseded, Claims
<1>4. evalSet' = evalSet /\ product' = product /\ reference' = reference /\ committed' = committed
  BY <1>2 DEF Steady
<1>5. FileTypes' /\ RowsCount' /\ FilesStand'
  BY <1>2, <1>3, <1>4 DEF RatchetInv, FileTypes, RowsCount, FilesStand, Carried
<1>6. PassedStand' /\ OneRow'
  BY <1>3, <1>4 DEF RatchetInv, PassedStand, OneRow, Current, Carried, Passed
<1>7. Writing' /\ Waiting'
  BY <1>1, <1>2 DEF Writing, Waiting, RefCmd
<1> QED BY <1>5, <1>6, <1>7 DEF RatchetInv

LEMMA RestoresRatchet ==
  ASSUME RatchetInv, RunInv', RestoresReference
  PROVE  RatchetInv'
<1>1. /\ reference' = committed /\ committed' = committed /\ evalSet' = evalSet /\ evalCmd' = NoCmd
      /\ product' = product /\ evalRows' = evalRows
  BY DEF RestoresReference
<1>2. Counted(evalSet)' = Counted(evalSet) /\ Retired(evalSet)' = Retired(evalSet)
  BY <1>1 DEF Counted, Active, Unsigned, Retired, Superseded, Claims
<1>3. FileTypes' /\ RowsCount' /\ OneRow' /\ Writing' /\ Waiting'
  BY <1>1, <1>2 DEF RatchetInv, FileTypes, RowsCount, OneRow, Carried, Passed, Writing, Waiting, NoCmd
<1>4. FilesStand'
  <2> SUFFICES ASSUME NEW l \in DOMAIN Lists, Carried(l)
               PROVE  /\ committed[l].version <= committed[l].version
                      /\ committed[l].version <= evalSet.version
                      /\ committed[l].counted \subseteq Lists[l]
    BY <1>1 DEF FilesStand, Carried
  <2>1. /\ reference[l] # NoFile /\ committed[l].version <= reference[l].version
        /\ reference[l].version <= evalSet.version /\ committed[l].counted \subseteq Lists[l]
    BY DEF RatchetInv, FilesStand
  <2>2. reference[l].version \in Nat /\ committed[l].version \in Nat /\ evalSet.version \in Nat
    BY <2>1, EvaluationShapes DEF RatchetInv, FileTypes, File, Carried, RunInv, EvalTypes
  <2> QED BY <2>1, <2>2
<1>5. PassedStand'
  <2> SUFFICES ASSUME NEW l \in DOMAIN Lists, Current(l), NEW c \in Passed(committed[l])
               PROVE  c \in Retired(evalSet) \/ c \in Counted(evalSet)
    BY <1>1, <1>2 DEF PassedStand, Current, Carried, Passed
  <2> QED BY DEF RatchetInv, PassedStand
<1> QED BY <1>3, <1>4, <1>5 DEF RatchetInv

LEMMA RatchetKeeps ==
  ASSUME RatchetInv, [EvalNext]_evalVars, AppendOnly \/ UNCHANGED evalVars
  PROVE  RatchetInv'
<1>1. RunInv'
  BY RunKeeps DEF RatchetInv
<1>2. CASE UNCHANGED evalVars
  BY <1>1, <1>2, RatchetIdles DEF evalVars, Steady
<1>3. CASE RunStep
  <2>1. CASE Flags \/ Loads \/ Judges \/ TakesLock \/ LockHeld \/ GivesUp \/ Targets \/ Repeat
              \/ Kept \/ Overruns \/ Compares \/ Gates
    <3>1. evalCmd'.op = "run" /\ Steady
      BY <2>1, RunStays DEF RatchetInv
    <3>2. evalRows' = evalRows
      BY <2>1 DEF Flags, Loads, Judges, TakesLock, LockHeld, GivesUp, Targets, Repeat, Kept,
            Overruns, Compares, Gates
    <3> QED BY <1>1, <3>1, <3>2, RatchetIdles
  <2>2. CASE ReleasesLock
    <3>1. evalCmd' = NoCmd /\ Steady /\ evalRows' = evalRows
      BY <2>2 DEF ReleasesLock
    <3> QED BY <1>1, <3>1, RatchetIdles DEF NoCmd
  <2> QED BY <1>1, <1>3, <2>1, <2>2, RowRatchet, ChecksRatchet, WritesRatchet, WroteRatchet DEF RunStep
<1>4. CASE Killed \/ Tick \/ OtherTakes \/ OtherReleases
  <2>1. (evalCmd' = NoCmd \/ evalCmd' = evalCmd) /\ Steady /\ evalRows' = evalRows
    BY <1>4 DEF Killed, Tick, OtherTakes, OtherReleases
  <2> QED BY <1>1, <2>1, RatchetIdles DEF NoCmd
<1>5. CASE Asks
  <2>1. PICK q \in Requests : evalCmd' = EvalCmd(q)
    BY <1>5 DEF Asks
  <2>2. evalCmd'.op = "run" /\ Steady /\ evalRows' = evalRows
    BY <1>5, <2>1 DEF Asks, EvalCmd
  <2> QED BY <1>1, <2>2, RatchetIdles
<1>6. CASE Moves
  BY <1>1, <1>2, <1>6, MovesRatchet
<1> QED BY <1>1, <1>2, <1>3, <1>4, <1>5, <1>6, AsksRatchet, RestoresRatchet DEF EvalNext

\* Only the end of a reference command replaces the committed files.
LEMMA RatchetStep ==
  ASSUME RatchetInv, [EvalNext]_evalVars, Whole(committed), Whole(committed'),
         committed[1].version = committed'[1].version
  PROVE  FilesPassed(committed) \cap FilesFailed(committed') = {}
<1> SUFFICES ASSUME NEW l \in DOMAIN Lists, NEW c \in Passed(committed[l]),
                    NEW m \in DOMAIN Lists, c \in committed'[m].failing
             PROVE  FALSE
  BY DEF FilesPassed, FilesFailed
<1>1. 1 \in DOMAIN Lists
  BY EvaluationShapes
<1>2. \A k \in DOMAIN Lists : committed[k] # NoFile /\ committed[k].version = committed[1].version
  BY <1>1 DEF Whole, Header
<1>3. RunInv'
  BY RunKeeps DEF RatchetInv
<1>4. CASE Wrote
  <2>1. Current(l)
    BY <1>1, <1>2, <1>3, <1>4, WroteRatchet DEF Current, Carried
  <2>2. c \in FilesFailed(committed')
    BY DEF FilesFailed
  <2> QED BY <1>3, <1>4, <2>1, <2>2, WroteRatchet
<1>5. CASE committed' = committed
  <2>1. Passed(committed[l]) \cap committed[m].failing = {}
    BY <1>2 DEF RatchetInv, OneRow, Carried
  <2> QED BY <1>5, <2>1
<1>6. Wrote \/ committed' = committed
  <2>1. RunStep => Wrote \/ committed' = committed
    BY RunStays DEF RunStep, ReleasesLock, Checks, WritesList, Steady, RatchetInv
  <2> QED BY <2>1 DEF EvalNext, Asks, AsksReference, Killed, RestoresReference, Tick, OtherTakes,
       OtherReleases, Moves, Steady, evalVars
<1> QED BY <1>4, <1>5, <1>6

\* `eval reference` (reference.py): whatever is killed, torn, put back or moved to another
\* release between two committed references of a version, no case the first holds as passing
\* is failing in the second.  It needs the set of a version to be kept append-only.
THEOREM RatchetHolds == EvalSpec /\ [][AppendOnly]_evalVars => RatchetKept
<1>1. EvalInit => RatchetInv
  <2> SUFFICES ASSUME EvalInit
               PROVE  RatchetInv
    OBVIOUS
  <2>1. \A l \in DOMAIN Lists : reference[l] = NoFile /\ committed[l] = NoFile
    BY DEF EvalInit
  <2>2. FileTypes /\ RowsCount /\ Writing /\ Waiting
    BY DEF EvalInit, FileTypes, RowsCount, Writing, Waiting, NoCmd
  <2>3. FilesStand /\ PassedStand /\ OneRow
    BY <2>1 DEF FilesStand, PassedStand, OneRow, Current, Carried
  <2> QED BY <2>2, <2>3, RunStarts DEF RatchetInv
<1>2. RatchetInv /\ [EvalNext]_evalVars /\ [AppendOnly]_evalVars => RatchetInv'
  BY RatchetKeeps
<1>3. RatchetInv /\ [EvalNext]_evalVars =>
        [Whole(committed) /\ Whole(committed') /\ committed[1].version = committed'[1].version
           => FilesPassed(committed) \cap FilesFailed(committed') = {}]_evalVars
  BY RatchetStep
<1> QED BY <1>1, <1>2, <1>3, PTL DEF EvalSpec, RatchetKept

-----------------------------------------------------------------------------
(* The harness: its turns, and where their chats are. *)

Unsent   == {"list", "register", "post", "page"}
Unjudged == Unsent \cup {"await", "find", "name", "watch", "stored", "call", "judge"}
JudgedAlready  == {"replay", "delete", "release", "finalise"}

Entry ==
  {e \in [trip : BOOLEAN, whole : BOOLEAN, refused : BOOLEAN, continued : BOOLEAN,
          cleared : BOOLEAN, block : BOOLEAN] : e.cleared = TRUE => e.trip = FALSE}

Watch == [entries : Seq(Entry), open : BOOLEAN, last : BOOLEAN]

Turn ==
  [n : Nat \ {0}, at : Unjudged \cup JudgedAlready, chat : BOOLEAN, ids : BOOLEAN,
   problem : {"none", "error", "cut"}, retried : BOOLEAN, ok : BOOLEAN, bad : BOOLEAN,
   deleted : BOOLEAN, watch : Watch]

\* A row passes only if nothing bad was seen and the turn met no bound; a turn that is not
\* sent knows no chat, and a door without chats has its own three stages.
TurnOK(t) ==
  /\ t.bad = TRUE \/ t.problem = "cut" => t.ok = FALSE
  /\ t.at \in Unjudged => t.ok = FALSE /\ t.bad = FALSE
  /\ t.at \in Unsent => t.chat = FALSE
  /\ ~KeepsChats => t.at \in {"call", "judge", "finalise"}

Ids == Sessions \X (Nat \ {0})

\* The turn's chat may exist, or its turn is over: no later step makes it.
Sent(t) ==
  \/ t[2] < turnOf[t[1]].n
  \/ t[2] = turnOf[t[1]].n /\ turnOf[t[1]].at \notin Unsent

Somewhere == chats \cup landing

HarnessTypes ==
  /\ options \in Options
  /\ turnOf \in [Sessions -> Turn]
  /\ chats \subseteq Ids /\ landing \subseteq Ids
  /\ flying \subseteq [id : Ids, named : BOOLEAN]
  /\ released \subseteq Ids /\ stopRow \subseteq Ids /\ snapshot \subseteq [id : Ids, named : BOOLEAN]
  /\ snapshot \subseteq DOMAIN swept

TurnsOK == \A s \in Sessions : TurnOK(turnOf[s])

\* The session's last turn is over when the next is fresh.
FreshAfter ==
  \A s \in Sessions : turnOf[s].n > Units /\ KeepsChats => turnOf[s].at \in Unsent

\* Whoever knows the chat knows that it landed; a deleted one is gone.
TurnPlaces ==
  \A s \in Sessions :
    /\ turnOf[s].at = "name" \/ turnOf[s].chat = TRUE => TurnId(s) \notin landing
    /\ turnOf[s].deleted = TRUE => turnOf[s].chat = TRUE /\ TurnId(s) \notin Somewhere

\* A chat is of a turn that was sent; the chat of a turn that is over is in the rows.
ChatsSent ==
  /\ chats \cap landing = {}
  /\ \A t \in Somewhere :
       /\ Sent(t)
       /\ t[2] < turnOf[t[1]].n => t \in rows.notDeleted \cup rows.unverified
  /\ ~KeepsChats \/ runAt \in {"preconditions", "signin"} => Somewhere = {}

\* The registry, the sweep and the stop row name only chats that landed, and call deleted
\* only chats that are gone for good.
StopPlaces ==
  /\ \A r \in flying : r.named = TRUE => r.id \notin landing /\ Sent(r.id)
  /\ \A r \in snapshot :
       /\ swept[r] \in {"named", "deleted"} => r.id \notin landing /\ Sent(r.id)
       /\ swept[r] = "deleted" => r.id \notin chats
  /\ \A t \in released \cup stopRow : Sent(t) /\ t \notin Somewhere

RowsBad == rows.bad \subseteq rows.failed /\ rows.cut \subseteq rows.failed

HarnessInv ==
  /\ HarnessTypes /\ TurnsOK /\ FreshAfter /\ TurnPlaces /\ ChatsSent /\ StopPlaces /\ RowsBad /\ RunSound

\* A step of one session's turn that keeps its number: what it must not do to the server,
\* the registry and the turn for the invariant to stand.
LEMMA TurnSteps ==
  ASSUME HarnessInv, NEW s \in Sessions, NEW u \in Turn,
         runAt = "turns", exitCode = "running", turnOf[s].n <= Units,
         turnOf' = [turnOf EXCEPT ![s] = u], u.n = turnOf[s].n,
         UNCHANGED <<runVars, stopVars, rows>>,
         TurnOK(u), turnOf[s].at \in Unsent \/ u.at \notin Unsent,
         chats' \cap landing' = {}, KeepsChats \/ chats' \cup landing' = {},
         \A t \in chats' \cup landing' :
           t \in Somewhere \/ (t = TurnId(s) /\ turnOf[s].at \in Unsent /\ u.at \notin Unsent),
         \A t \in landing' :
           t \in landing \/ (t = TurnId(s) /\ turnOf[s].at \in Unsent /\ u.at \notin Unsent),
         u.at = "name" \/ u.chat = TRUE => TurnId(s) \notin landing',
         u.deleted = TRUE => u.chat = TRUE /\ TurnId(s) \notin chats' \cup landing',
         flying' \subseteq [id : Ids, named : BOOLEAN],
         \A r \in flying' : r.named = TRUE =>
           \/ r.id \notin landing /\ Sent(r.id)
           \/ r.id = TurnId(s) /\ u.at \notin Unsent /\ r.id \notin landing',
         \A t \in released' :
           t \in released \/ (t = TurnId(s) /\ u.at \notin Unsent /\ t \notin chats' \cup landing')
  PROVE  HarnessInv'
<1> DEFINE id == TurnId(s)
<1>1. /\ turnOf \in [Sessions -> Turn] /\ turnOf' \in [Sessions -> Turn] /\ turnOf'[s] = u
      /\ options' = options /\ exitCode' = exitCode /\ runAt' = runAt /\ rows' = rows
      /\ stopAt' = stopAt /\ snapshot' = snapshot /\ swept' = swept /\ stopRow' = stopRow
      /\ Sessions' = Sessions /\ KeepsChats' = KeepsChats /\ Ids' = Ids
  BY DEF HarnessInv, HarnessTypes, runVars, stopVars, Sessions, KeepsChats, Ids
<1>2. /\ turnOf[s] \in Turn /\ turnOf[s].n \in Nat \ {0} /\ id = <<s, u.n>> /\ id[1] = s /\ id[2] = u.n
      /\ id \in Ids
  BY <1>1 DEF TurnId, Turn, Ids
<1>3. ASSUME NEW x \in Sessions, x # s
      PROVE  turnOf'[x] = turnOf[x] /\ TurnId(x)' = TurnId(x) /\ TurnId(x) # id
  BY <1>1, <1>2, <1>3 DEF TurnId
<1>4. TurnId(s)' = id
  BY <1>1, <1>2 DEF TurnId
<1>5. ASSUME NEW t \in Ids
      PROVE  /\ Sent(t) => Sent(t)'
             /\ t[2] < turnOf'[t[1]].n <=> t[2] < turnOf[t[1]].n
  <2>1. t[1] \in Sessions
    BY DEF Ids
  <2>2. CASE t[1] = s
    BY <1>1, <2>2 DEF Sent
  <2>3. CASE t[1] # s
    BY <1>3, <2>1, <2>3 DEF Sent
  <2> QED BY <2>2, <2>3
<1>6. ASSUME NEW t, t = id, u.at \notin Unsent
      PROVE  Sent(t)'
  BY <1>1, <1>2, <1>6 DEF Sent
<1>7. id \in Somewhere => turnOf[s].at \notin Unsent
  <2>1. turnOf[s].at \in Unsent => ~Sent(id)
    BY <1>2 DEF Sent
  <2> QED BY <2>1 DEF HarnessInv, ChatsSent
<1>8. Somewhere \subseteq Ids /\ chats' \cup landing' \subseteq Ids /\ released' \subseteq Ids
  BY <1>2 DEF HarnessInv, HarnessTypes, Somewhere
<1>9. HarnessTypes'
  <2>1. chats' \subseteq Ids /\ landing' \subseteq Ids
    BY <1>8
  <2> QED BY <1>1, <1>8, <2>1 DEF HarnessInv, HarnessTypes
<1>10. TurnsOK'
  <2>1. \A t : TurnOK(t)' <=> TurnOK(t)
    BY <1>1 DEF TurnOK
  <2>2. \A x \in Sessions : TurnOK(turnOf'[x])
    BY <1>1, <1>3 DEF HarnessInv, TurnsOK
  <2>3. \A x \in Sessions : TurnOK(turnOf[x])'
    BY <1>1, <2>2 DEF TurnOK
  <2> QED BY <1>1, <2>3 DEF TurnsOK
<1>11. FreshAfter'
  <2>1. ASSUME NEW x \in Sessions, turnOf'[x].n > Units, KeepsChats
        PROVE  turnOf'[x].at \in Unsent
    <3>1. CASE x = s
      <4>1. u.n > Units /\ u.n <= Units /\ u.n \in Nat /\ Units \in Nat
        BY <1>1, <1>2, <2>1, <3>1, HarnessShapes DEF Units
      <4> QED BY <4>1
    <3>2. CASE x # s
      BY <1>3, <2>1, <3>2 DEF HarnessInv, FreshAfter
    <3> QED BY <3>1, <3>2
  <2>2. Units' = Units
    BY DEF Units
  <2> QED BY <1>1, <2>1, <2>2 DEF FreshAfter
<1>12. TurnPlaces'
  <2>1. ASSUME NEW x \in Sessions
        PROVE  /\ turnOf'[x].at = "name" \/ turnOf'[x].chat = TRUE => TurnId(x)' \notin landing'
               /\ turnOf'[x].deleted = TRUE => turnOf'[x].chat = TRUE /\ TurnId(x)' \notin Somewhere'
    <3>1. CASE x = s
      BY <1>1, <1>4, <3>1 DEF Somewhere
    <3>2. CASE x # s
      BY <1>3, <3>2 DEF HarnessInv, TurnPlaces, Somewhere
    <3> QED BY <3>1, <3>2
  <2> QED BY <1>1, <2>1 DEF TurnPlaces
<1>13. ChatsSent'
  <2>1. ASSUME NEW t \in chats' \cup landing'
        PROVE  Sent(t)' /\ (t[2] < turnOf'[t[1]].n => t \in rows.notDeleted \cup rows.unverified)
    <3>1. CASE t \in Somewhere
      BY <1>5, <1>8, <3>1 DEF HarnessInv, ChatsSent
    <3>2. CASE t \notin Somewhere
      <4>1. t = id /\ u.at \notin Unsent
        BY <3>2
      <4>2. ~(u.n < u.n)
        BY <1>2, <1>1
      <4>3. Sent(t)'
        BY <1>6, <4>1
      <4>4. t[2] = u.n /\ turnOf'[t[1]].n = u.n
        BY <1>1, <1>2, <4>1
      <4> QED BY <4>2, <4>3, <4>4
    <3> QED BY <3>1, <3>2
  <2> QED BY <1>1, <2>1 DEF HarnessInv, ChatsSent, Somewhere
<1>14. ASSUME NEW t \in Ids, Sent(t)
       PROVE  /\ t \notin landing => t \notin landing'
              /\ t \notin Somewhere => t \notin chats' \cup landing'
  <2>1. t = id => turnOf[s].at \notin Unsent
    BY <1>2, <1>14 DEF Sent
  <2> QED BY <2>1
<1>15. StopPlaces'
  <2>1. ASSUME NEW r \in flying', r.named = TRUE
        PROVE  r.id \notin landing' /\ Sent(r.id)'
    <3>1. r.id \in Ids
      OBVIOUS
    <3>2. CASE r.id \notin landing /\ Sent(r.id)
      BY <1>5, <1>14, <3>1, <3>2
    <3>3. CASE r.id = TurnId(s) /\ u.at \notin Unsent /\ r.id \notin landing'
      <4>1. Sent(r.id)'
        BY <1>6, <3>3
      <4> QED BY <3>3, <4>1
    <3> QED BY <2>1, <3>2, <3>3
  <2>2. ASSUME NEW r \in snapshot, swept[r] \in {"named", "deleted"}
        PROVE  /\ r.id \notin landing' /\ Sent(r.id)'
               /\ swept[r] = "deleted" => r.id \notin chats'
    <3>1. r.id \in Ids
      BY DEF HarnessInv, HarnessTypes
    <3>2. r.id \notin landing /\ Sent(r.id) /\ (swept[r] = "deleted" => r.id \notin chats)
      BY <2>2 DEF HarnessInv, StopPlaces
    <3> QED BY <1>5, <1>14, <3>1, <3>2 DEF Somewhere
  <2>3. ASSUME NEW t \in released' \cup stopRow
        PROVE  Sent(t)' /\ t \notin chats' \cup landing'
    <3>1. CASE t \in released \cup stopRow
      <4>1. t \in Ids /\ Sent(t) /\ t \notin Somewhere
        BY <3>1 DEF HarnessInv, HarnessTypes, StopPlaces
      <4> QED BY <1>5, <1>14, <4>1
    <3>2. CASE t \notin released \cup stopRow
      <4>1. t = id /\ u.at \notin Unsent /\ t \notin chats' \cup landing'
        BY <3>2
      <4>2. Sent(t)'
        BY <1>6, <4>1
      <4> QED BY <4>1, <4>2
    <3> QED BY <3>1, <3>2
  <2> QED BY <1>1, <2>1, <2>2, <2>3 DEF StopPlaces, Somewhere
<1>16. RowsBad' /\ RunSound'
  <2>1. ChatsAccounted'
    <3>1. stopRow \subseteq released' \cup stopRow
      OBVIOUS
    <3>2. stopRow \cap (chats' \cup landing') = {}
      BY <1>1, <1>15 DEF StopPlaces, Somewhere
    <3> QED BY <1>1, <3>2 DEF ChatsAccounted
  <2>2. CleanExit'
    BY <1>1 DEF CleanExit
  <2> QED BY <1>1, <2>1, <2>2 DEF HarnessInv, RowsBad, RunSound
<1> QED BY <1>9, <1>10, <1>11, <1>12, <1>13, <1>15, <1>16 DEF HarnessInv

LEMMA AtStage ==
  ASSUME HarnessInv, NEW s, NEW stage, SessionAt(s, stage)
  PROVE  /\ s \in Sessions /\ turnOf[s] \in Turn /\ TurnOK(turnOf[s]) /\ turnOf[s].at = stage
         /\ runAt = "turns" /\ exitCode = "running" /\ turnOf[s].n <= Units
         /\ ~KeepsChats => stage \in {"call", "judge", "finalise"}
         /\ stage \in Unjudged => turnOf[s].ok = FALSE /\ turnOf[s].bad = FALSE
<1>1. s \in Sessions /\ turnOf[s].at = stage /\ runAt = "turns" /\ exitCode = "running" /\ turnOf[s].n <= Units
  BY DEF SessionAt
<1>2. turnOf[s] \in Turn /\ TurnOK(turnOf[s])
  BY <1>1 DEF HarnessInv, HarnessTypes, TurnsOK
<1> QED BY <1>1, <1>2 DEF TurnOK

LEMMA KeepingStage ==
  ASSUME HarnessInv, NEW s, NEW stage, SessionAt(s, stage), stage \notin {"call", "judge", "finalise"}
  PROVE  KeepsChats
  BY AtStage

\* A step of the turn alone.
LEMMA QuietSteps ==
  ASSUME HarnessInv, NEW s, NEW stage, SessionAt(s, stage), NEW u \in Turn,
         turnOf' = [turnOf EXCEPT ![s] = u], u.n = turnOf[s].n,
         UNCHANGED <<runVars, Server, Registry, stopVars, rows>>,
         TurnOK(u), stage \in Unsent \/ u.at \notin Unsent,
         u.at = "name" => TurnId(s) \in chats,
         u.chat = turnOf[s].chat, u.deleted = turnOf[s].deleted
  PROVE  HarnessInv'
<1>1. /\ s \in Sessions /\ turnOf[s] \in Turn /\ turnOf[s].at = stage
      /\ runAt = "turns" /\ exitCode = "running" /\ turnOf[s].n <= Units
  BY AtStage
<1>2. /\ chats' = chats /\ landing' = landing /\ flying' = flying /\ released' = released
      /\ UNCHANGED <<runVars, stopVars, rows>>
  BY DEF Server, Registry
<1>3. chats \cap landing = {} /\ (KeepsChats \/ chats \cup landing = {})
  BY DEF HarnessInv, ChatsSent, Somewhere
<1>4. u.at = "name" \/ u.chat = TRUE => TurnId(s) \notin landing'
  BY <1>1, <1>2, <1>3 DEF HarnessInv, TurnPlaces
<1>5. u.deleted = TRUE => u.chat = TRUE /\ TurnId(s) \notin chats' \cup landing'
  BY <1>1, <1>2 DEF HarnessInv, TurnPlaces, Somewhere
<1>6. flying' \subseteq [id : Ids, named : BOOLEAN]
  BY <1>2 DEF HarnessInv, HarnessTypes
<1>7. \A r \in flying' : r.named = TRUE => r.id \notin landing /\ Sent(r.id)
  BY <1>2 DEF HarnessInv, StopPlaces
<1>8. \A t \in chats' \cup landing' : t \in Somewhere
  BY <1>2 DEF Somewhere
<1> QED BY <1>1, <1>2, <1>3, <1>4, <1>5, <1>6, <1>7, <1>8, TurnSteps

\* The turn before it is judged: what it may become.
Unfolds(s, u) ==
  /\ u \in Turn /\ turnOf' = [turnOf EXCEPT ![s] = u] /\ u.n = turnOf[s].n
  /\ u.ok = FALSE /\ u.bad = FALSE /\ u.chat = turnOf[s].chat /\ u.deleted = turnOf[s].deleted
  /\ turnOf[s].at \in Unsent \/ u.at \notin Unsent
  /\ u.at = "name" => TurnId(s) \in chats
  /\ KeepsChats \/ u.at \in {"judge", "finalise"}

LEMMA UnfoldSteps ==
  ASSUME HarnessInv, NEW s, NEW stage, SessionAt(s, stage), stage \in Unjudged,
         UNCHANGED <<runVars, Server, Registry, stopVars, rows>>, \E u : Unfolds(s, u)
  PROVE  HarnessInv'
<1>1. PICK u : Unfolds(s, u)
  OBVIOUS
<1>2. turnOf[s].at = stage /\ TurnOK(turnOf[s])
  BY AtStage
<1>3. TurnOK(u)
  BY <1>1, <1>2 DEF Unfolds, TurnOK
<1> QED BY <1>1, <1>2, <1>3, QuietSteps DEF Unfolds

\* The places a step moves the turn to, with nothing else of it changed.
LEMMA MoveSteps ==
  ASSUME HarnessInv, NEW s, NEW stage, SessionAt(s, stage), stage \in Unjudged,
         NEW at \in Unjudged, Move(s, at), stage \in Unsent \/ at \notin Unsent,
         at = "name" => TurnId(s) \in chats, KeepsChats
  PROVE  \E u : Unfolds(s, u)
<1> DEFINE u == [turnOf[s] EXCEPT !.at = at]
<1>1. turnOf[s] \in Turn /\ turnOf[s].at = stage /\ turnOf[s].ok = FALSE /\ turnOf[s].bad = FALSE
  BY AtStage
<1>2. turnOf' = [turnOf EXCEPT ![s] = u]
  BY DEF Move
<1>3. /\ u \in Turn /\ u.n = turnOf[s].n /\ u.ok = FALSE /\ u.bad = FALSE /\ u.at = at
      /\ u.chat = turnOf[s].chat /\ u.deleted = turnOf[s].deleted
  BY <1>1 DEF Turn
<1> HIDE DEF u
<1>4. Unfolds(s, u)
  BY <1>1, <1>2, <1>3 DEF Unfolds
<1> QED BY <1>4

LEMMA MovesKeep ==
  ASSUME HarnessInv, NEW s, ListsChats(s) \/ Answered(s) \/ WatchEnds(s) \/ ReadsStored(s)
  PROVE  HarnessInv'
<1>1. CASE ListsChats(s)
  <2> DEFINE at == TurnStages[options.mode][2]
  <2>1. SessionAt(s, "list") /\ Move(s, at) /\ UNCHANGED <<runVars, Server, Registry, stopVars, rows>>
    BY <1>1 DEF ListsChats
  <2>2. KeepsChats
    BY <2>1, KeepingStage
  <2>3. at \in {"register", "page"}
    BY <2>2 DEF KeepsChats, TurnStages
  <2> HIDE DEF at
  <2>4. \E u : Unfolds(s, u)
    BY <2>1, <2>2, <2>3, MoveSteps DEF Unjudged, Unsent
  <2> QED BY <2>1, <2>4, UnfoldSteps DEF Unjudged, Unsent
<1>2. CASE Answered(s)
  <2>1. SessionAt(s, "await") /\ Move(s, "find") /\ UNCHANGED <<runVars, Server, Registry, stopVars, rows>>
    BY <1>2 DEF Answered
  <2>2. KeepsChats
    BY <2>1, KeepingStage
  <2>3. \E u : Unfolds(s, u)
    BY <2>1, <2>2, MoveSteps DEF Unjudged, Unsent
  <2> QED BY <2>1, <2>3, UnfoldSteps DEF Unjudged
<1>3. CASE WatchEnds(s)
  <2>1. SessionAt(s, "watch") /\ Move(s, "stored") /\ UNCHANGED <<runVars, Server, Registry, stopVars, rows>>
    BY <1>3 DEF WatchEnds
  <2>2. KeepsChats
    BY <2>1, KeepingStage
  <2>3. \E u : Unfolds(s, u)
    BY <2>1, <2>2, MoveSteps DEF Unjudged, Unsent
  <2> QED BY <2>1, <2>3, UnfoldSteps DEF Unjudged
<1>4. CASE ReadsStored(s)
  <2>1. SessionAt(s, "stored") /\ Move(s, "judge") /\ UNCHANGED <<runVars, Server, Registry, stopVars, rows>>
    BY <1>4 DEF ReadsStored
  <2>2. KeepsChats
    BY <2>1, KeepingStage
  <2>3. \E u : Unfolds(s, u)
    BY <2>1, <2>2, MoveSteps DEF Unjudged, Unsent
  <2> QED BY <2>1, <2>3, UnfoldSteps DEF Unjudged
<1> QED BY <1>1, <1>2, <1>3, <1>4

LEMMA TroubleSteps ==
  ASSUME HarnessInv, NEW s, NEW stage, SessionAt(s, stage), stage \in Unjudged,
         NEW at \in Unjudged \cup {"finalise"}, NEW problem \in {"none", "error", "cut"},
         Put(s, [turnOf[s] EXCEPT !.at = at, !.problem = problem]),
         at \notin Unsent, at # "name", KeepsChats \/ at \in {"judge", "finalise"},
         UNCHANGED <<runVars, Server, Registry, stopVars, rows>>
  PROVE  HarnessInv'
<1> DEFINE u == [turnOf[s] EXCEPT !.at = at, !.problem = problem]
<1>1. turnOf[s] \in Turn /\ turnOf[s].at = stage /\ turnOf[s].ok = FALSE /\ turnOf[s].bad = FALSE
  BY AtStage
<1>2. turnOf' = [turnOf EXCEPT ![s] = u]
  BY DEF Put
<1>3. /\ u \in Turn /\ u.n = turnOf[s].n /\ u.ok = FALSE /\ u.bad = FALSE /\ u.at = at
      /\ u.chat = turnOf[s].chat /\ u.deleted = turnOf[s].deleted
  <2>1. at \in Unjudged \cup JudgedAlready
    BY DEF JudgedAlready
  <2> QED BY <1>1, <2>1 DEF Turn
<1> HIDE DEF u
<1>4. Unfolds(s, u)
  BY <1>1, <1>2, <1>3 DEF Unfolds
<1> QED BY <1>4, UnfoldSteps

LEMMA TroubleKeeps ==
  ASSUME HarnessInv, NEW s,
         ListingFails(s) \/ AnswerFails(s) \/ WatchFails(s) \/ StoredFails(s) \/ Calls(s)
           \/ ClientFails(s) \/ CallExpires(s)
  PROVE  HarnessInv'
<1> DEFINE Problems == {"none", "error", "cut"}
<1>8. /\ "await" \in Unjudged /\ "watch" \in Unjudged
      /\ "find" \in Unjudged \cup {"finalise"} /\ "find" \notin Unsent /\ "find" # "name"
      /\ "stored" \in Unjudged \cup {"finalise"} /\ "stored" \notin Unsent /\ "stored" # "name"
      /\ "cut" \in Problems /\ "error" \in Problems
  BY DEF Unjudged, Unsent
<1>1. CASE ListingFails(s)
  <2>1. /\ SessionAt(s, "list") /\ Put(s, [turnOf[s] EXCEPT !.at = "finalise", !.problem = "error"])
        /\ UNCHANGED <<runVars, Server, Registry, stopVars, rows>>
    BY <1>1 DEF ListingFails
  <2> QED BY <2>1, TroubleSteps DEF Unjudged, Unsent
<1>2. CASE AnswerFails(s)
  <2>1. SessionAt(s, "await") /\ UNCHANGED <<runVars, Server, Registry, stopVars, rows>>
    BY <1>2 DEF AnswerFails
  <2>2. KeepsChats
    BY <2>1, KeepingStage
  <2>3. PICK cut \in BOOLEAN :
          Put(s, [turnOf[s] EXCEPT !.at = "find", !.problem = IF cut THEN "cut" ELSE "error"])
    BY <1>2 DEF AnswerFails
  <2>4. CASE cut
    <3>1. Put(s, [turnOf[s] EXCEPT !.at = "find", !.problem = "cut"])
      BY <2>3, <2>4, Zenon
    <3> QED BY <2>1, <2>2, <3>1, <1>8, TroubleSteps
  <2>5. CASE ~cut
    <3>1. Put(s, [turnOf[s] EXCEPT !.at = "find", !.problem = "error"])
      BY <2>3, <2>5, Zenon
    <3> QED BY <2>1, <2>2, <3>1, <1>8, TroubleSteps
  <2> QED BY <2>4, <2>5
<1>3. CASE WatchFails(s)
  <2>1. SessionAt(s, "watch") /\ UNCHANGED <<runVars, Server, Registry, stopVars, rows>>
    BY <1>3 DEF WatchFails
  <2>2. KeepsChats
    BY <2>1, KeepingStage
  <2>3. Put(s, [turnOf[s] EXCEPT !.at = "stored", !.problem = "error"])
    BY <1>3 DEF WatchFails
  <2> QED BY <2>1, <2>2, <2>3, <1>8, TroubleSteps
<1>4. CASE StoredFails(s)
  <2> DEFINE p == IF turnOf[s].problem = "none" THEN "error" ELSE turnOf[s].problem
  <2>1. SessionAt(s, "stored") /\ UNCHANGED <<runVars, Server, Registry, stopVars, rows>>
    BY <1>4 DEF StoredFails
  <2>2. turnOf[s].problem \in Problems
    BY <2>1, AtStage DEF Turn
  <2>3. p \in Problems
    BY <2>2
  <2>4. Put(s, [turnOf[s] EXCEPT !.at = "judge", !.problem = p])
    BY <1>4 DEF StoredFails
  <2> HIDE DEF p
  <2> QED BY <2>1, <2>3, <2>4, TroubleSteps DEF Unjudged, Unsent
<1>5. CASE Calls(s)
  <2>1. PICK e \in Envelopes : Put(s, [turnOf[s] EXCEPT !.at = "judge", !.problem = reply_problem(e)])
    BY <1>5 DEF Calls
  <2>2. SessionAt(s, "call") /\ UNCHANGED <<runVars, Server, Registry, stopVars, rows>>
    BY <1>5 DEF Calls
  <2>3. reply_problem(e) \in Problems
    BY DEF reply_problem
  <2> QED BY <2>1, <2>2, <2>3, TroubleSteps DEF Unjudged, Unsent
<1>6. CASE ClientFails(s)
  <2>1. /\ SessionAt(s, "call") /\ Put(s, [turnOf[s] EXCEPT !.at = "judge", !.problem = "error"])
        /\ UNCHANGED <<runVars, Server, Registry, stopVars, rows>>
    BY <1>6 DEF ClientFails
  <2> QED BY <2>1, TroubleSteps DEF Unjudged, Unsent
<1>7. CASE CallExpires(s)
  <2> DEFINE p == IF options.mode = "service" THEN "cut" ELSE "error"
  <2>1. /\ SessionAt(s, "call") /\ Put(s, [turnOf[s] EXCEPT !.at = "judge", !.problem = p])
        /\ UNCHANGED <<runVars, Server, Registry, stopVars, rows>>
    BY <1>7 DEF CallExpires
  <2>2. p \in Problems
    OBVIOUS
  <2> HIDE DEF p
  <2> QED BY <2>1, <2>2, TroubleSteps DEF Unjudged, Unsent
<1> QED BY <1>1, <1>2, <1>3, <1>4, <1>5, <1>6, <1>7

LEMMA FindsKeeps ==
  ASSUME HarnessInv, NEW s, Finds(s)
  PROVE  HarnessInv'
<1>1. SessionAt(s, "find") /\ UNCHANGED <<runVars, Server, Registry, stopVars, rows>>
  BY DEF Finds
<1>2. KeepsChats /\ turnOf[s] \in Turn /\ turnOf[s].at = "find" /\ turnOf[s].ok = FALSE /\ turnOf[s].bad = FALSE
  BY <1>1, KeepingStage, AtStage DEF Unjudged
<1>3. CASE TurnId(s) \in chats
  <2>1. Move(s, "name")
    BY <1>3 DEF Finds
  <2>2. \E u : Unfolds(s, u)
    BY <1>1, <1>2, <1>3, <2>1, MoveSteps DEF Unjudged, Unsent
  <2> QED BY <1>1, <2>2, UnfoldSteps DEF Unjudged
<1>4. CASE TurnId(s) \notin chats
  <2> DEFINE u == [turnOf[s] EXCEPT !.at = "judge", !.ids = TRUE]
  <2>1. turnOf' = [turnOf EXCEPT ![s] = u]
    BY <1>4 DEF Finds, Put
  <2>2. /\ u \in Turn /\ u.n = turnOf[s].n /\ u.ok = FALSE /\ u.bad = FALSE /\ u.at = "judge"
        /\ u.chat = turnOf[s].chat /\ u.deleted = turnOf[s].deleted
    BY <1>2 DEF Turn, Unjudged
  <2> HIDE DEF u
  <2>3. Unfolds(s, u)
    BY <1>2, <2>1, <2>2 DEF Unfolds, Unsent
  <2> QED BY <1>1, <2>3, UnfoldSteps DEF Unjudged
<1> QED BY <1>3, <1>4

\* A painted frame clears nothing while it trips.
LEMMA TakeTypes ==
  ASSUME NEW w \in Watch, NEW f \in Frame
  PROVE  take(w, f) \in Watch
<1> DEFINE cleared == ~f.trip /\ w.open /\ (w.last \/ ~f.prefix) /\ ~f.whole
           e == [trip |-> f.trip, whole |-> f.whole, refused |-> f.refused, continued |-> f.continued,
                 cleared |-> cleared, block |-> f.block]
           open == IF f.trip THEN TRUE ELSE w.open /\ ~cleared
<1>1. /\ f.trip \in BOOLEAN /\ f.whole \in BOOLEAN /\ f.refused \in BOOLEAN /\ f.continued \in BOOLEAN
      /\ f.block \in BOOLEAN /\ w.open \in BOOLEAN /\ w.last \in BOOLEAN /\ w.entries \in Seq(Entry)
  BY DEF Frame, Watch
<1>2. cleared \in BOOLEAN /\ (cleared => ~f.trip)
  OBVIOUS
<1> HIDE DEF cleared
<1>3. open \in BOOLEAN
  BY <1>1, <1>2, Zenon
<1>4. e \in Entry
  BY <1>1, <1>2 DEF Entry
<1>5. take(w, f) = [entries |-> Append(w.entries, e), open |-> open, last |-> f.trip]
  BY Zenon DEF take, cleared
<1> HIDE DEF e, open
<1> QED BY <1>1, <1>3, <1>4, <1>5 DEF Watch

LEMMA PaintsKeep ==
  ASSUME HarnessInv, NEW s, Paints(s)
  PROVE  HarnessInv'
<1>1. SessionAt(s, "watch") /\ UNCHANGED <<runVars, Server, Registry, stopVars, rows>>
  BY DEF Paints
<1>2. KeepsChats /\ turnOf[s] \in Turn /\ turnOf[s].at = "watch" /\ turnOf[s].ok = FALSE /\ turnOf[s].bad = FALSE
  BY <1>1, KeepingStage, AtStage DEF Unjudged
<1>3. PICK f \in Frame : Put(s, [turnOf[s] EXCEPT !.watch = take(turnOf[s].watch, f)])
  BY DEF Paints
<1> DEFINE w == take(turnOf[s].watch, f)
           u == [turnOf[s] EXCEPT !.watch = w]
<1>4. w \in Watch
  BY <1>2, TakeTypes DEF Turn
<1>5. turnOf' = [turnOf EXCEPT ![s] = u]
  BY <1>3 DEF Put
<1> HIDE DEF w
<1>6. /\ u \in Turn /\ u.n = turnOf[s].n /\ u.ok = FALSE /\ u.bad = FALSE /\ u.at = "watch"
      /\ u.chat = turnOf[s].chat /\ u.deleted = turnOf[s].deleted
  BY <1>2, <1>4 DEF Turn
<1> HIDE DEF u
<1>7. Unfolds(s, u)
  BY <1>2, <1>5, <1>6 DEF Unfolds, Unsent
<1> QED BY <1>1, <1>7, UnfoldSteps DEF Unjudged

\* A step of the turn that changes the registry and leaves the server alone.
LEMMA RegistrySteps ==
  ASSUME HarnessInv, NEW s, NEW stage, SessionAt(s, stage), NEW u \in Turn,
         turnOf' = [turnOf EXCEPT ![s] = u], u.n = turnOf[s].n,
         UNCHANGED <<runVars, Server, stopVars, rows>>,
         TurnOK(u), stage \in Unsent \/ u.at \notin Unsent, u.at # "name",
         u.chat = turnOf[s].chat \/ (u.chat = TRUE /\ stage = "name"), u.deleted = turnOf[s].deleted,
         flying' \subseteq [id : Ids, named : BOOLEAN],
         \A r \in flying' : r.named = TRUE =>
           \/ \E q \in flying : q.named = TRUE /\ q.id = r.id
           \/ r.id = TurnId(s) /\ stage = "name" /\ u.at \notin Unsent,
         \A t \in released' :
           t \in released \/ (t = TurnId(s) /\ u.at \notin Unsent /\ u.deleted = TRUE)
  PROVE  HarnessInv'
<1>1. /\ s \in Sessions /\ turnOf[s] \in Turn /\ turnOf[s].at = stage
      /\ runAt = "turns" /\ exitCode = "running" /\ turnOf[s].n <= Units
  BY AtStage
<1>2. chats' = chats /\ landing' = landing /\ UNCHANGED <<runVars, stopVars, rows>>
  BY DEF Server
<1>3. chats \cap landing = {} /\ (KeepsChats \/ chats \cup landing = {})
  BY DEF HarnessInv, ChatsSent, Somewhere
<1>4. u.at = "name" \/ u.chat = TRUE => TurnId(s) \notin landing'
  BY <1>1, <1>2 DEF HarnessInv, TurnPlaces
<1>5. u.deleted = TRUE => u.chat = TRUE /\ TurnId(s) \notin chats' \cup landing'
  BY <1>1, <1>2 DEF HarnessInv, TurnPlaces, Somewhere
<1>6. stage = "name" => TurnId(s) \notin landing'
  BY <1>1, <1>2 DEF HarnessInv, TurnPlaces
<1>7. \A r \in flying' : r.named = TRUE =>
        \/ r.id \notin landing /\ Sent(r.id)
        \/ r.id = TurnId(s) /\ u.at \notin Unsent /\ r.id \notin landing'
  BY <1>6 DEF HarnessInv, StopPlaces
<1>8. \A t \in chats' \cup landing' : t \in Somewhere
  BY <1>2 DEF Somewhere
<1>9. \A t \in released' :
        t \in released \/ (t = TurnId(s) /\ u.at \notin Unsent /\ t \notin chats' \cup landing')
  BY <1>5
<1> QED BY <1>1, <1>2, <1>3, <1>4, <1>5, <1>7, <1>8, <1>9, TurnSteps

\* A release takes the turn off, and records a deletion only of a turn that made one.
LEMMA Releasing ==
  ASSUME HarnessInv, NEW s, NEW deleted \in BOOLEAN, Release(s, deleted)
  PROVE  /\ flying' \subseteq flying
         /\ \A t \in released' : t \in released \/ (t = TurnId(s) /\ deleted = TRUE)
<1>1. flying' \subseteq flying
  BY DEF Release
<1>2. released' = released \/ (deleted = TRUE /\ released' = released \cup {TurnId(s)})
  BY DEF Release
<1> QED BY <1>1, <1>2

LEMMA RegistryKeeps ==
  ASSUME HarnessInv, NEW s, Registers(s) \/ NamesChat(s) \/ ReleasesTurn(s) \/ FindingFails(s)
  PROVE  HarnessInv'
<1>1. /\ flying \subseteq [id : Ids, named : BOOLEAN]
      /\ \A r \in flying : r.named = TRUE => \E q \in flying : q.named = TRUE /\ q.id = r.id
  BY DEF HarnessInv, HarnessTypes
<1>2. CASE Registers(s)
  <2> DEFINE u == [turnOf[s] EXCEPT !.at = "post"]
  <2>1. SessionAt(s, "register") /\ UNCHANGED <<runVars, Server, released, stopVars, rows>>
    BY <1>2 DEF Registers
  <2>2. KeepsChats /\ s \in Sessions /\ turnOf[s] \in Turn /\ TurnOK(turnOf[s]) /\ turnOf[s].at = "register"
    BY <2>1, KeepingStage, AtStage
  <2>3. turnOf' = [turnOf EXCEPT ![s] = u]
    BY <1>2 DEF Registers, Move
  <2>4. /\ u \in Turn /\ u.n = turnOf[s].n /\ u.chat = turnOf[s].chat /\ u.deleted = turnOf[s].deleted
        /\ u.at = "post" /\ u.ok = turnOf[s].ok /\ u.bad = turnOf[s].bad /\ u.problem = turnOf[s].problem
    BY <2>2 DEF Turn, Unjudged, Unsent
  <2> HIDE DEF u
  <2>5. TurnOK(u)
    BY <2>2, <2>4 DEF TurnOK, Unjudged, Unsent
  <2>6. flying' = flying \cup {[id |-> TurnId(s), named |-> FALSE]} /\ TurnId(s) \in Ids
    BY <1>2, <2>2 DEF Registers, TurnId, Ids, Turn
  <2>7. flying' \subseteq [id : Ids, named : BOOLEAN]
    <3>1. [id |-> TurnId(s), named |-> FALSE] \in [id : Ids, named : BOOLEAN]
      BY <2>6
    <3> QED BY <1>1, <2>6, <3>1
  <2>8. \A r \in flying' : r.named = TRUE => \E q \in flying : q.named = TRUE /\ q.id = r.id
    BY <1>1, <2>6
  <2> QED BY <2>1, <2>3, <2>4, <2>5, <2>7, <2>8, RegistrySteps DEF Unsent
<1>3. CASE NamesChat(s)
  <2> DEFINE u == [turnOf[s] EXCEPT !.at = "judge", !.chat = TRUE, !.ids = TRUE]
  <2>1. SessionAt(s, "name") /\ UNCHANGED <<runVars, Server, released, stopVars, rows>>
    BY <1>3 DEF NamesChat
  <2>2. KeepsChats /\ s \in Sessions /\ turnOf[s] \in Turn /\ TurnOK(turnOf[s]) /\ turnOf[s].at = "name"
    BY <2>1, KeepingStage, AtStage
  <2>3. turnOf' = [turnOf EXCEPT ![s] = u]
    BY <1>3 DEF NamesChat, Put
  <2>4. /\ u \in Turn /\ u.n = turnOf[s].n /\ u.chat = TRUE /\ u.deleted = turnOf[s].deleted
        /\ u.at = "judge" /\ u.ok = turnOf[s].ok /\ u.bad = turnOf[s].bad /\ u.problem = turnOf[s].problem
    BY <2>2 DEF Turn, Unjudged, Unsent
  <2> HIDE DEF u
  <2>5. TurnOK(u)
    BY <2>2, <2>4 DEF TurnOK, Unjudged, Unsent
  <2>6. flying' = {[r EXCEPT !.named = @ \/ r.id = TurnId(s)] : r \in flying}
    BY <1>3 DEF NamesChat
  <2>7. ASSUME NEW q \in flying'
        PROVE  /\ q \in [id : Ids, named : BOOLEAN]
               /\ q.named = TRUE => \/ \E r \in flying : r.named = TRUE /\ r.id = q.id
                                    \/ q.id = TurnId(s)
    <3>1. PICK r \in flying : q = [r EXCEPT !.named = r.named \/ r.id = TurnId(s)]
      BY <2>6
    <3>2. r \in [id : Ids, named : BOOLEAN]
      BY <1>1
    <3>3. CASE r.id = TurnId(s)
      <4>1. q.id = TurnId(s) /\ q \in [id : Ids, named : BOOLEAN]
        BY <3>1, <3>2, <3>3
      <4> QED BY <4>1
    <3>4. CASE r.id # TurnId(s)
      <4>1. q = r
        BY <3>1, <3>2, <3>4
      <4> QED BY <3>2, <4>1
    <3> QED BY <3>3, <3>4
  <2>8. flying' \subseteq [id : Ids, named : BOOLEAN]
    BY <2>7
  <2> QED BY <2>1, <2>3, <2>4, <2>5, <2>7, <2>8, RegistrySteps DEF Unsent
<1>4. CASE ReleasesTurn(s)
  <2> DEFINE u == [turnOf[s] EXCEPT !.at = "finalise"]
  <2>1. SessionAt(s, "release") /\ UNCHANGED <<runVars, Server, stopVars, rows>>
    BY <1>4 DEF ReleasesTurn
  <2>2. s \in Sessions /\ turnOf[s] \in Turn /\ TurnOK(turnOf[s]) /\ turnOf[s].at = "release"
    BY <2>1, AtStage
  <2>3. turnOf' = [turnOf EXCEPT ![s] = u]
    BY <1>4 DEF ReleasesTurn, Move
  <2>4. /\ u \in Turn /\ u.n = turnOf[s].n /\ u.chat = turnOf[s].chat /\ u.deleted = turnOf[s].deleted
        /\ u.at = "finalise" /\ u.ok = turnOf[s].ok /\ u.bad = turnOf[s].bad /\ u.problem = turnOf[s].problem
    BY <2>2 DEF Turn, JudgedAlready
  <2> HIDE DEF u
  <2>5. TurnOK(u)
    BY <2>2, <2>4 DEF TurnOK, Unjudged, Unsent
  <2>6. /\ flying' \subseteq flying
        /\ \A t \in released' : t \in released \/ (t = TurnId(s) /\ u.deleted = TRUE)
    <3>1. CASE turnOf[s].ids = TRUE
      <4>1. Release(s, turnOf[s].deleted) /\ turnOf[s].deleted \in BOOLEAN
        BY <1>4, <2>2, <3>1 DEF ReleasesTurn, Turn
      <4> QED BY <2>4, <4>1, Releasing
    <3>2. CASE turnOf[s].ids = FALSE
      BY <1>4, <3>2 DEF ReleasesTurn, Registry
    <3> QED BY <2>2, <3>1, <3>2 DEF Turn
  <2>7. flying' \subseteq [id : Ids, named : BOOLEAN]
    BY <1>1, <2>6
  <2> QED BY <1>1, <2>1, <2>3, <2>4, <2>5, <2>6, <2>7, RegistrySteps DEF Unsent
<1>5. CASE FindingFails(s)
  <2>1. SessionAt(s, "find") /\ UNCHANGED <<runVars, Server, stopVars, rows>>
    BY <1>5 DEF FindingFails
  <2>2. KeepsChats /\ s \in Sessions /\ turnOf[s] \in Turn /\ TurnOK(turnOf[s]) /\ turnOf[s].at = "find"
    BY <2>1, KeepingStage, AtStage
  <2>3. turnOf[s].ok = FALSE /\ turnOf[s].bad = FALSE
    BY <2>2 DEF TurnOK, Unjudged
  <2>4. CASE turnOf[s].retried = TRUE
    <3> DEFINE u == [turnOf[s] EXCEPT !.at = "finalise", !.problem = "error"]
    <3>1. turnOf' = [turnOf EXCEPT ![s] = u] /\ Release(s, FALSE)
      BY <1>5, <2>4 DEF FindingFails, Put
    <3>2. /\ u \in Turn /\ u.n = turnOf[s].n /\ u.chat = turnOf[s].chat /\ u.deleted = turnOf[s].deleted
          /\ u.at = "finalise" /\ u.ok = FALSE /\ u.bad = FALSE
      BY <2>2, <2>3 DEF Turn, JudgedAlready
    <3> HIDE DEF u
    <3>3. TurnOK(u)
      BY <2>2, <3>2 DEF TurnOK, Unjudged, Unsent
    <3>4. flying' \subseteq flying /\ \A t \in released' : t \in released
      BY <3>1, Releasing
    <3>5. flying' \subseteq [id : Ids, named : BOOLEAN]
      BY <1>1, <3>4
    <3> QED BY <1>1, <2>1, <3>1, <3>2, <3>3, <3>4, <3>5, RegistrySteps DEF Unsent
  <2>5. CASE turnOf[s].retried = FALSE
    <3> DEFINE p == IF turnOf[s].problem = "none" THEN "error" ELSE turnOf[s].problem
               u == [turnOf[s] EXCEPT !.retried = TRUE, !.problem = p]
    <3>1. turnOf' = [turnOf EXCEPT ![s] = u] /\ UNCHANGED Registry
      BY <1>5, <2>5 DEF FindingFails, Put
    <3>2. p \in {"none", "error", "cut"}
      BY <2>2 DEF Turn
    <3> HIDE DEF p
    <3>3. /\ u \in Turn /\ u.n = turnOf[s].n /\ u.chat = turnOf[s].chat /\ u.deleted = turnOf[s].deleted
          /\ u.at = "find" /\ u.ok = FALSE /\ u.bad = FALSE
      BY <2>2, <2>3, <3>2 DEF Turn
    <3> HIDE DEF u
    <3>4. Unfolds(s, u)
      BY <2>2, <3>1, <3>3 DEF Unfolds, Unsent
    <3> QED BY <2>1, <3>1, <3>4, UnfoldSteps DEF Unjudged
  <2> QED BY <2>2, <2>4, <2>5 DEF Turn
<1> QED BY <1>2, <1>3, <1>4, <1>5

\* A turn that was not sent has no chat yet.
LEMMA NotSentYet ==
  ASSUME HarnessInv, NEW s, NEW stage, SessionAt(s, stage), stage \in Unsent
  PROVE  TurnId(s) \notin chats /\ TurnId(s) \notin landing /\ turnOf[s].chat = FALSE
         /\ turnOf[s].deleted = FALSE
<1>1. s \in Sessions /\ turnOf[s] \in Turn /\ TurnOK(turnOf[s]) /\ turnOf[s].at = stage
  BY AtStage
<1>2. ~Sent(TurnId(s))
  BY <1>1 DEF Sent, TurnId, Turn
<1>3. turnOf[s].chat = FALSE
  BY <1>1 DEF TurnOK
<1>4. turnOf[s].deleted = FALSE
  BY <1>1, <1>3 DEF HarnessInv, TurnPlaces, Turn
<1> QED BY <1>2, <1>3, <1>4 DEF HarnessInv, ChatsSent, Somewhere

\* A step of the turn that changes the server and leaves the registry alone.
LEMMA ServerSteps ==
  ASSUME HarnessInv, NEW s, NEW stage, SessionAt(s, stage), NEW u \in Turn, KeepsChats,
         turnOf' = [turnOf EXCEPT ![s] = u], u.n = turnOf[s].n,
         UNCHANGED <<runVars, Registry, stopVars, rows>>,
         TurnOK(u), u.at \notin Unsent, u.at # "name",
         \/ chats' \subseteq chats /\ landing' = landing
         \/ chats' = chats \cup {TurnId(s)} /\ landing' = landing /\ stage \in Unsent
         \/ chats' = chats /\ landing' = landing \cup {TurnId(s)} /\ stage \in Unsent /\ u.chat = FALSE,
         u.chat = turnOf[s].chat \/ (stage \in Unsent /\ landing' = landing),
         u.deleted = TRUE => u.chat = TRUE /\ turnOf[s].chat = TRUE /\ TurnId(s) \notin chats'
  PROVE  HarnessInv'
<1>1. /\ s \in Sessions /\ turnOf[s] \in Turn /\ turnOf[s].at = stage
      /\ runAt = "turns" /\ exitCode = "running" /\ turnOf[s].n <= Units
  BY AtStage
<1>2. flying' = flying /\ released' = released /\ UNCHANGED <<runVars, stopVars, rows>>
  BY DEF Registry
<1>3. chats \cap landing = {}
  BY DEF HarnessInv, ChatsSent
<1>4. stage \in Unsent => TurnId(s) \notin chats /\ TurnId(s) \notin landing
  BY NotSentYet
<1>5. chats' \cap landing' = {}
  BY <1>3, <1>4
<1>6. turnOf[s].chat = TRUE => TurnId(s) \notin landing /\ stage \notin Unsent
  BY <1>1, NotSentYet DEF HarnessInv, TurnPlaces
<1>7. u.at = "name" \/ u.chat = TRUE => TurnId(s) \notin landing'
  BY <1>4, <1>6
<1>8. u.deleted = TRUE => u.chat = TRUE /\ TurnId(s) \notin chats' \cup landing'
  BY <1>6, <1>7
<1>9. flying' \subseteq [id : Ids, named : BOOLEAN]
  BY <1>2 DEF HarnessInv, HarnessTypes
<1>10. \A r \in flying' : r.named = TRUE => r.id \notin landing /\ Sent(r.id)
  BY <1>2 DEF HarnessInv, StopPlaces
<1>11. \A t \in chats' \cup landing' :
         t \in Somewhere \/ (t = TurnId(s) /\ turnOf[s].at \in Unsent /\ u.at \notin Unsent)
  BY <1>1 DEF Somewhere
<1>12. \A t \in landing' :
         t \in landing \/ (t = TurnId(s) /\ turnOf[s].at \in Unsent /\ u.at \notin Unsent)
  BY <1>1
<1> QED BY <1>1, <1>2, <1>5, <1>7, <1>8, <1>9, <1>10, <1>11, <1>12, TurnSteps

LEMMA ServerKeeps ==
  ASSUME HarnessInv, NEW s, Posts(s) \/ OpensPage(s) \/ PageFails(s) \/ Deletes(s) \/ DeletionFails(s)
  PROVE  HarnessInv'
<1>1. CASE Posts(s)
  <2> DEFINE u == [turnOf[s] EXCEPT !.at = "await"]
  <2>1. SessionAt(s, "post") /\ UNCHANGED <<runVars, chats, Registry, stopVars, rows>>
    BY <1>1 DEF Posts
  <2>2. KeepsChats /\ s \in Sessions /\ turnOf[s] \in Turn /\ TurnOK(turnOf[s]) /\ turnOf[s].at = "post"
    BY <2>1, KeepingStage, AtStage
  <2>3. turnOf[s].chat = FALSE /\ turnOf[s].deleted = FALSE
    BY <2>1, NotSentYet DEF Unsent
  <2>4. turnOf' = [turnOf EXCEPT ![s] = u] /\ landing' = landing \cup {TurnId(s)}
    BY <1>1 DEF Posts, Move
  <2>5. /\ u \in Turn /\ u.n = turnOf[s].n /\ u.chat = FALSE /\ u.deleted = FALSE
        /\ u.at = "await" /\ u.ok = turnOf[s].ok /\ u.bad = turnOf[s].bad /\ u.problem = turnOf[s].problem
    BY <2>2, <2>3 DEF Turn, Unjudged
  <2> HIDE DEF u
  <2>6. TurnOK(u)
    BY <2>2, <2>5 DEF TurnOK, Unjudged, Unsent
  <2> QED BY <2>1, <2>2, <2>3, <2>4, <2>5, <2>6, ServerSteps DEF Unsent
<1>2. CASE OpensPage(s)
  <2> DEFINE u == [turnOf[s] EXCEPT !.at = "watch", !.chat = TRUE]
  <2>1. SessionAt(s, "page") /\ UNCHANGED <<runVars, landing, Registry, stopVars, rows>>
    BY <1>2 DEF OpensPage
  <2>2. KeepsChats /\ s \in Sessions /\ turnOf[s] \in Turn /\ TurnOK(turnOf[s]) /\ turnOf[s].at = "page"
    BY <2>1, KeepingStage, AtStage
  <2>3. turnOf[s].deleted = FALSE
    BY <2>1, NotSentYet DEF Unsent
  <2>4. turnOf' = [turnOf EXCEPT ![s] = u] /\ chats' = chats \cup {TurnId(s)}
    BY <1>2 DEF OpensPage, Put
  <2>5. /\ u \in Turn /\ u.n = turnOf[s].n /\ u.chat = TRUE /\ u.deleted = FALSE
        /\ u.at = "watch" /\ u.ok = turnOf[s].ok /\ u.bad = turnOf[s].bad /\ u.problem = turnOf[s].problem
    BY <2>2, <2>3 DEF Turn, Unjudged
  <2> HIDE DEF u
  <2>6. TurnOK(u)
    BY <2>2, <2>5 DEF TurnOK, Unjudged, Unsent
  <2> QED BY <2>1, <2>2, <2>4, <2>5, <2>6, ServerSteps DEF Unsent
<1>3. CASE PageFails(s)
  <2> DEFINE u == [turnOf[s] EXCEPT !.at = "judge", !.problem = "error"]
  <2>1. SessionAt(s, "page") /\ UNCHANGED <<runVars, landing, Registry, stopVars, rows>>
    BY <1>3 DEF PageFails
  <2>2. KeepsChats /\ s \in Sessions /\ turnOf[s] \in Turn /\ TurnOK(turnOf[s]) /\ turnOf[s].at = "page"
    BY <2>1, KeepingStage, AtStage
  <2>3. turnOf[s].chat = FALSE /\ turnOf[s].deleted = FALSE
    BY <2>1, NotSentYet DEF Unsent
  <2>4. turnOf' = [turnOf EXCEPT ![s] = u] /\ (chats' = chats \/ chats' = chats \cup {TurnId(s)})
    BY <1>3 DEF PageFails, Put
  <2>5. /\ u \in Turn /\ u.n = turnOf[s].n /\ u.chat = FALSE /\ u.deleted = FALSE
        /\ u.at = "judge" /\ u.ok = turnOf[s].ok /\ u.bad = turnOf[s].bad
    BY <2>2, <2>3 DEF Turn, Unjudged
  <2> HIDE DEF u
  <2>6. TurnOK(u)
    BY <2>2, <2>5 DEF TurnOK, Unjudged, Unsent
  <2> QED BY <2>1, <2>2, <2>3, <2>4, <2>5, <2>6, ServerSteps DEF Unsent
<1>4. CASE Deletes(s)
  <2> DEFINE d == turnOf[s].chat /\ TurnId(s) \in chats
             u == [turnOf[s] EXCEPT !.at = AfterDelete, !.deleted = d]
  <2>1. SessionAt(s, "delete") /\ UNCHANGED <<runVars, landing, Registry, stopVars, rows>>
    BY <1>4 DEF Deletes
  <2>2. KeepsChats /\ s \in Sessions /\ turnOf[s] \in Turn /\ TurnOK(turnOf[s]) /\ turnOf[s].at = "delete"
    BY <2>1, KeepingStage, AtStage
  <2>3. turnOf' = [turnOf EXCEPT ![s] = u]
    BY <1>4 DEF Deletes, Put
  <2>4. turnOf[s].chat \in BOOLEAN
    BY <2>2 DEF Turn
  <2>5. chats' = chats \ {TurnId(s)} \/ (turnOf[s].chat = FALSE /\ chats' = chats)
    BY <1>4, <2>4 DEF Deletes
  <2>6. AfterDelete \in {"release", "finalise"}
    BY DEF AfterDelete
  <2>7. d \in BOOLEAN /\ (d = TRUE => turnOf[s].chat = TRUE)
    BY <2>4
  <2> HIDE DEF d
  <2>8. /\ u \in Turn /\ u.n = turnOf[s].n /\ u.chat = turnOf[s].chat /\ u.deleted = d
        /\ u.at = AfterDelete /\ u.ok = turnOf[s].ok /\ u.bad = turnOf[s].bad /\ u.problem = turnOf[s].problem
    BY <2>2, <2>6, <2>7 DEF Turn, JudgedAlready
  <2> HIDE DEF u
  <2>9. TurnOK(u)
    BY <2>2, <2>6, <2>8 DEF TurnOK, Unjudged, Unsent
  <2>10. chats' \subseteq chats /\ (d = TRUE => TurnId(s) \notin chats')
    BY <2>5, <2>7
  <2> QED BY <2>1, <2>2, <2>3, <2>6, <2>7, <2>8, <2>9, <2>10, ServerSteps DEF Unsent
<1>5. CASE DeletionFails(s)
  <2> DEFINE u == [turnOf[s] EXCEPT !.at = AfterDelete]
  <2>1. SessionAt(s, "delete") /\ UNCHANGED <<runVars, landing, Registry, stopVars, rows>>
    BY <1>5 DEF DeletionFails
  <2>2. KeepsChats /\ s \in Sessions /\ turnOf[s] \in Turn /\ TurnOK(turnOf[s]) /\ turnOf[s].at = "delete"
    BY <2>1, KeepingStage, AtStage
  <2>3. turnOf' = [turnOf EXCEPT ![s] = u]
    BY <1>5 DEF DeletionFails, Move
  <2>4. chats' \subseteq chats
    BY <1>5 DEF DeletionFails
  <2>5. AfterDelete \in {"release", "finalise"}
    BY DEF AfterDelete
  <2>6. /\ u \in Turn /\ u.n = turnOf[s].n /\ u.chat = turnOf[s].chat /\ u.deleted = turnOf[s].deleted
        /\ u.at = AfterDelete /\ u.ok = turnOf[s].ok /\ u.bad = turnOf[s].bad /\ u.problem = turnOf[s].problem
    BY <2>2, <2>5 DEF Turn, JudgedAlready
  <2> HIDE DEF u
  <2>7. TurnOK(u)
    BY <2>2, <2>5, <2>6 DEF TurnOK, Unjudged, Unsent
  <2>8. u.deleted = TRUE => u.chat = TRUE /\ turnOf[s].chat = TRUE /\ TurnId(s) \notin chats'
    BY <2>2, <2>4, <2>6 DEF HarnessInv, TurnPlaces, Somewhere
  <2> QED BY <2>1, <2>2, <2>3, <2>4, <2>5, <2>6, <2>7, <2>8, ServerSteps DEF Unsent
<1> QED BY <1>1, <1>2, <1>3, <1>4, <1>5

LEMMA LeastExists ==
  ASSUME NEW S \in SUBSET Nat, S # {}
  PROVE  \E m \in S : \A k \in S : m <= k
<1> DEFINE R == OpToRel(<, Nat)
           T == {k \in Nat : k \in S}
<1>1. IsWellFoundedOn(R, Nat)
  BY NatLessThanWellFounded
<1>2. T # {}
  OBVIOUS
<1>3. PICK m \in T : \A k \in T : ~(<<k, m>> \in R)
  <2> HIDE DEF R, T
  <2> T \subseteq Nat
    BY DEF T
  <2> QED BY <1>1, <1>2, WFMin
<1>4. \A k \in T : ~(k < m)
  BY <1>3 DEF OpToRel
<1>5. ASSUME NEW k \in S
      PROVE  m <= k
  <2>1. k \in Nat /\ m \in Nat /\ ~(k < m)
    BY <1>4
  <2> QED BY <2>1
<1> QED BY <1>3, <1>5

\* A trip that is painted and taken back is a flash, wherever the tripping began.
LEMMA TakenBackFlashes ==
  ASSUME NEW entries \in Seq(Entry), TakenBack(entries)
  PROVE  Flashes(entries) # {}
<1> DEFINE Trips(k) == entries[k].trip = TRUE
           Clear(k) == entries[k].cleared = TRUE
<1>1. \A k \in DOMAIN entries : /\ entries[k] \in Entry /\ (Clear(k) => ~Trips(k))
  BY DEF Entry
<1>2. DOMAIN entries = 1..Len(entries) /\ Len(entries) \in Nat
  BY LenProperties
<1>3. PICK i \in DOMAIN entries, j \in DOMAIN entries :
        i < j /\ entries[i].trip /\ ~entries[j].continued /\ \A k \in i..(j - 1) : ~entries[k].cleared
  BY DEF TakenBack
<1>4. i \in Nat /\ j \in Nat /\ 1 <= i /\ j <= Len(entries)
  BY <1>2, <1>3
<1>5. Trips(i) /\ \A k \in i..(j - 1) : ~Clear(k)
  <2>1. i..(j - 1) \subseteq DOMAIN entries
    BY <1>2, <1>4
  <2> QED BY <1>1, <1>3, <2>1, Zenon DEF Entry
<1> DEFINE T == {k \in 1..i : \A m \in k..i : Trips(m)}
<1>6. i \in T
  BY <1>4, <1>5
<1>7. PICK b \in T : \A k \in T : b <= k
  <2>1. T \in SUBSET Nat
    BY <1>4
  <2> HIDE DEF T
  <2> QED BY <1>6, <2>1, LeastExists
<1>8. b \in Nat /\ 1 <= b /\ b <= i /\ b \in DOMAIN entries /\ Trips(b)
  BY <1>2, <1>4, <1>7
<1>9. b = 1 \/ ~Trips(b - 1)
  <2>1. SUFFICES ASSUME b # 1, Trips(b - 1)
                 PROVE  FALSE
    OBVIOUS
  <2>2. b - 1 \in 1..i
    BY <1>4, <1>8, <2>1
  <2>3. \A m \in (b - 1)..i : m = b - 1 \/ m \in b..i
    BY <1>4, <1>8
  <2>4. b - 1 \in T
    BY <1>7, <2>1, <2>2, <2>3
  <2> HIDE DEF T
  <2> QED BY <1>7, <1>8, <2>4
<1> DEFINE later == {k \in (b + 1)..Len(entries) : entries[k].cleared}
<1>10. \A k \in later : j <= k
  <2>1. TAKE k \in later
  <2>2. k \in DOMAIN entries /\ k \in Nat /\ b < k
    BY <1>2, <1>8
  <2>3. Clear(k)
    BY <1>1, <2>2, Zenon DEF Entry
  <2>4. ~(k \in b..i)
    BY <1>1, <1>7, <2>2, <2>3
  <2>5. ~(k \in i..(j - 1))
    BY <1>5, <2>3
  <2> QED BY <1>4, <1>8, <2>2, <2>4, <2>5
<1>11. ClearOf(entries, b) \in Nat /\ j <= ClearOf(entries, b)
  <2>1. CASE later = {}
    BY <1>2, <1>4, <2>1 DEF ClearOf
  <2>2. CASE later # {}
    <3>1. later \in SUBSET Nat
      BY <1>2, <1>8
    <3>2. ClearOf(entries, b) = CHOOSE m \in later : \A k \in later : m <= k
      BY <2>2 DEF ClearOf
    <3> HIDE DEF later
    <3>3. ClearOf(entries, b) \in later
      BY <2>2, <3>1, <3>2, LeastExists
    <3> QED BY <1>10, <3>1, <3>3
  <2> QED BY <2>1, <2>2
<1>12. j \in (b + 1)..ClearOf(entries, b)
  BY <1>3, <1>4, <1>8, <1>11
<1>13. b \in Flashes(entries)
  <2>1. entries[b].trip
    BY <1>8, Zenon
  <2>2. b = 1 \/ ~entries[b - 1].trip
    BY <1>9, Zenon
  <2> QED BY <1>3, <1>8, <1>12, <2>1, <2>2, Zenon DEF Flashes
<1> QED BY <1>13

\* A case passes only on an answer that does not trip and stores no reasoning.
LEMMA PassesClean ==
  ASSUME NEW a \in Answer, NEW expect, judge_case(expect, a) = TRUE
  PROVE  a.trips = FALSE /\ a.reasoning = FALSE
<1>1. a.trips \in BOOLEAN /\ a.reasoning \in BOOLEAN
  BY DEF Answer
<1>2. a.reasoning = FALSE
  BY <1>1 DEF judge_case
<1>3. classify(a) \in Passing(expect)
  BY DEF judge_case
<1>4. "leak" \notin Passing(expect)
  BY DEF Passing
<1>5. a.trips = TRUE => classify(a) = "leak"
  BY DEF classify
<1> QED BY <1>1, <1>2, <1>3, <1>4, <1>5

\* What a judgement or a replay may make of the turn: a row that passes saw nothing bad.
Sentences(s, u) ==
  /\ u \in Turn /\ turnOf' = [turnOf EXCEPT ![s] = u] /\ u.n = turnOf[s].n
  /\ u.chat = turnOf[s].chat /\ u.deleted = turnOf[s].deleted
  /\ u.at \in {"replay", "delete", "finalise"} /\ (KeepsChats \/ u.at = "finalise")
  /\ u.bad = TRUE \/ u.problem = "cut" => u.ok = FALSE

LEMMA JudgeSteps ==
  ASSUME HarnessInv, NEW s, NEW stage, SessionAt(s, stage),
         UNCHANGED <<runVars, Server, Registry, stopVars, rows>>, \E u : Sentences(s, u)
  PROVE  HarnessInv'
<1>1. PICK u : Sentences(s, u)
  OBVIOUS
<1>2. u.at \notin Unjudged /\ u.at \notin Unsent /\ u.at # "name"
  BY <1>1 DEF Sentences, Unjudged, Unsent
<1>3. TurnOK(u)
  BY <1>1, <1>2 DEF Sentences, TurnOK
<1> QED BY <1>1, <1>2, <1>3, QuietSteps DEF Sentences

LEMMA AfterJudgeIs ==
  ASSUME NEW s
  PROVE  /\ AfterJudge(s) \in {"replay", "delete", "finalise"}
         /\ KeepsChats \/ AfterJudge(s) = "finalise"
BY DEF AfterJudge, KeepsChats

LEMMA JudgedKeeps ==
  ASSUME HarnessInv, NEW s, SessionAt(s, "judge"), turnOf[s].problem = "none",
         NEW ok \in BOOLEAN, NEW bad \in BOOLEAN, bad = TRUE => ok = FALSE, Judged(s, ok, bad)
  PROVE  HarnessInv'
<1> DEFINE at == AfterJudge(s)
           u == [turnOf[s] EXCEPT !.at = at, !.watch = NoWatch, !.ok = ok, !.bad = bad]
<1>1. turnOf[s] \in Turn
  BY AtStage
<1>2. turnOf' = [turnOf EXCEPT ![s] = u] /\ UNCHANGED <<runVars, Server, Registry, stopVars, rows>>
  BY DEF Judged, Put
<1>3. at \in {"replay", "delete", "finalise"} /\ (KeepsChats \/ at = "finalise")
  BY AfterJudgeIs
<1>4. NoWatch \in Watch
  BY EmptySeq DEF NoWatch, Watch
<1> HIDE DEF at
<1>5. /\ u \in Turn /\ u.n = turnOf[s].n /\ u.chat = turnOf[s].chat /\ u.deleted = turnOf[s].deleted
      /\ u.at = at /\ u.ok = ok /\ u.bad = bad /\ u.problem = "none"
  BY <1>1, <1>3, <1>4 DEF Turn, JudgedAlready
<1> HIDE DEF u
<1>6. Sentences(s, u)
  BY <1>2, <1>3, <1>5 DEF Sentences
<1> QED BY <1>2, <1>6, JudgeSteps

LEMMA FrontendKeeps ==
  ASSUME HarnessInv, NEW s, JudgesFrontend(s)
  PROVE  HarnessInv'
<1> DEFINE watched == options.mode = "browser"
           entries == turnOf[s].watch.entries
           Ok(a)   == judge_case(ExpectOf(s), a) /\ ~(watched /\ live_fails(live_verdict(entries)))
           Bad(a)  == a.trips \/ a.reasoning \/ (watched /\ TakenBack(entries))
<1>1. SessionAt(s, "judge") /\ turnOf[s].problem = "none"
  BY DEF JudgesFrontend
<1>2. PICK a \in Answer : Judged(s, Ok(a), Bad(a))
  BY Zenon DEF JudgesFrontend
<1>3. entries \in Seq(Entry)
  <2>1. turnOf[s] \in Turn
    BY <1>1, AtStage
  <2> QED BY <2>1 DEF Turn, Watch
<1>4. a.trips \in BOOLEAN /\ a.reasoning \in BOOLEAN
  BY DEF Answer
<1>5. Ok(a) \in BOOLEAN /\ Bad(a) \in BOOLEAN
  <2>1. judge_case(ExpectOf(s), a) \in BOOLEAN
    BY DEF judge_case
  <2>2. TakenBack(entries) \in BOOLEAN
    BY DEF TakenBack
  <2> QED BY <1>4, <2>1, <2>2, Zenon
<1>6. Bad(a) => ~Ok(a)
  <2>1. SUFFICES ASSUME judge_case(ExpectOf(s), a), ~(watched /\ live_fails(live_verdict(entries))), Bad(a)
                 PROVE  FALSE
    BY Zenon
  <2>2. a.trips = FALSE /\ a.reasoning = FALSE
    <3>1. judge_case(ExpectOf(s), a) = TRUE
      BY <2>1 DEF judge_case
    <3> QED BY <3>1, PassesClean
  <2>3. watched /\ TakenBack(entries)
    BY <2>1, <2>2, Zenon
  <2>4. Flashes(entries) # {}
    BY <1>3, <2>3, TakenBackFlashes
  <2>5. live_fails(live_verdict(entries))
    BY <2>4 DEF live_fails, live_verdict
  <2> QED BY <2>1, <2>3, <2>5, Zenon
<1> HIDE DEF Ok, Bad
<1> DEFINE ok == Ok(a)
           bad == Bad(a)
<1>7. ok \in BOOLEAN /\ bad \in BOOLEAN /\ (bad = TRUE => ok = FALSE) /\ Judged(s, ok, bad)
  BY <1>2, <1>5, <1>6, Zenon
<1> HIDE DEF ok, bad
<1> QED BY <1>1, <1>7, JudgedKeeps

LEMMA ServiceKeeps ==
  ASSUME HarnessInv, NEW s, JudgesService(s)
  PROVE  HarnessInv'
<1> DEFINE Leak(a, deltas) == options.stream /\ stream_verdict(deltas, a.trips) = "leak"
           Ok(a, deltas)  == judge_case(ExpectOf(s), a) /\ ~Leak(a, deltas)
           Bad(a, deltas) == a.trips \/ a.reasoning \/ Leak(a, deltas)
<1>1. SessionAt(s, "judge") /\ turnOf[s].problem = "none"
  BY DEF JudgesService
<1>2. PICK a \in Answer, deltas \in Deltas : Judged(s, Ok(a, deltas), Bad(a, deltas))
  BY Zenon DEF JudgesService
<1>3. a.trips \in BOOLEAN /\ a.reasoning \in BOOLEAN
  BY DEF Answer
<1>4. Leak(a, deltas) \in BOOLEAN
  <2>1. options.stream \in BOOLEAN
    BY HarnessShapes DEF HarnessInv, HarnessTypes
  <2> QED BY <2>1, Zenon
<1> HIDE DEF Leak
<1>5. judge_case(ExpectOf(s), a) \in BOOLEAN
  BY DEF judge_case
<1>6. Ok(a, deltas) \in BOOLEAN /\ Bad(a, deltas) \in BOOLEAN
  BY <1>3, <1>4, <1>5, Zenon
<1>7. Bad(a, deltas) => ~Ok(a, deltas)
  <2>1. SUFFICES ASSUME judge_case(ExpectOf(s), a), ~Leak(a, deltas), Bad(a, deltas)
                 PROVE  FALSE
    BY Zenon
  <2>2. judge_case(ExpectOf(s), a) = TRUE
    BY <2>1 DEF judge_case
  <2>3. a.trips = FALSE /\ a.reasoning = FALSE
    BY <2>2, PassesClean
  <2> QED BY <2>1, <2>3, Zenon
<1> DEFINE ok == Ok(a, deltas)
           bad == Bad(a, deltas)
<1> HIDE DEF Ok, Bad
<1>8. ok \in BOOLEAN /\ bad \in BOOLEAN /\ (bad = TRUE => ok = FALSE) /\ Judged(s, ok, bad)
  BY <1>2, <1>6, <1>7, Zenon
<1> HIDE DEF ok, bad
<1> QED BY <1>1, <1>8, JudgedKeeps

LEMMA JudgingKeeps ==
  ASSUME HarnessInv, NEW s, JudgesUnfiltered(s) \/ JudgesNothing(s) \/ Replays(s) \/ ReplayFails(s)
  PROVE  HarnessInv'
<1>1. CASE JudgesUnfiltered(s)
  <2>1. SessionAt(s, "judge") /\ turnOf[s].problem = "none" /\ Judged(s, TRUE, FALSE)
    BY <1>1 DEF JudgesUnfiltered
  <2> QED BY <2>1, JudgedKeeps
<1>2. CASE JudgesNothing(s)
  <2> DEFINE at == AfterJudge(s)
             u == [turnOf[s] EXCEPT !.at = at, !.watch = NoWatch]
  <2>1. SessionAt(s, "judge") /\ UNCHANGED <<runVars, Server, Registry, stopVars, rows>>
    BY <1>2 DEF JudgesNothing
  <2>2. turnOf[s] \in Turn /\ turnOf[s].ok = FALSE
    BY <2>1, AtStage DEF Unjudged
  <2>3. turnOf' = [turnOf EXCEPT ![s] = u]
    BY <1>2 DEF JudgesNothing, Put
  <2>4. at \in {"replay", "delete", "finalise"} /\ (KeepsChats \/ at = "finalise")
    BY AfterJudgeIs
  <2>5. NoWatch \in Watch
    BY EmptySeq DEF NoWatch, Watch
  <2> HIDE DEF at
  <2>6. /\ u \in Turn /\ u.n = turnOf[s].n /\ u.chat = turnOf[s].chat /\ u.deleted = turnOf[s].deleted
        /\ u.at = at /\ u.ok = FALSE
    BY <2>2, <2>4, <2>5 DEF Turn, JudgedAlready
  <2> HIDE DEF u
  <2>7. Sentences(s, u)
    BY <2>3, <2>4, <2>6 DEF Sentences
  <2> QED BY <2>1, <2>7, JudgeSteps
<1>3. CASE Replays(s)
  <2>1. SessionAt(s, "replay") /\ UNCHANGED <<runVars, Server, Registry, stopVars, rows>>
    BY <1>3 DEF Replays
  <2>2. KeepsChats /\ turnOf[s] \in Turn /\ TurnOK(turnOf[s])
    BY <2>1, KeepingStage, AtStage
  <2> DEFINE Leak(deltas, whole) == stream_verdict(deltas, whole) = "leak"
  <2>3. PICK deltas \in Deltas, whole \in BOOLEAN :
          Put(s, [turnOf[s] EXCEPT !.at = "delete", !.ok = turnOf[s].ok /\ ~Leak(deltas, whole),
                                   !.bad = turnOf[s].bad \/ Leak(deltas, whole)])
    BY <1>3, Zenon DEF Replays
  <2> DEFINE ok  == turnOf[s].ok /\ ~Leak(deltas, whole)
             bad == turnOf[s].bad \/ Leak(deltas, whole)
             u   == [turnOf[s] EXCEPT !.at = "delete", !.ok = ok, !.bad = bad]
  <2>4. turnOf' = [turnOf EXCEPT ![s] = u]
    BY <2>3, Zenon DEF Put
  <2>5. /\ turnOf[s].ok \in BOOLEAN /\ turnOf[s].bad \in BOOLEAN
        /\ turnOf[s].bad = TRUE \/ turnOf[s].problem = "cut" => turnOf[s].ok = FALSE
    BY <2>2 DEF Turn, TurnOK
  <2> HIDE DEF Leak
  <2>6. /\ ok \in BOOLEAN /\ bad \in BOOLEAN
        /\ bad = TRUE \/ turnOf[s].problem = "cut" => ok = FALSE
    <3>1. ok \in BOOLEAN /\ bad \in BOOLEAN
      BY <2>5, Zenon
    <3>2. CASE turnOf[s].ok = FALSE
      BY <3>2, Zenon
    <3>3. CASE turnOf[s].ok = TRUE
      <4>1. turnOf[s].bad = FALSE /\ turnOf[s].problem # "cut"
        BY <2>5, <3>3
      <4>2. bad = TRUE => Leak(deltas, whole)
        BY <4>1, Zenon
      <4>3. bad = TRUE => ok = FALSE
        BY <4>2, Zenon
      <4> QED BY <4>1, <4>3
    <3> QED BY <2>5, <3>1, <3>2, <3>3
  <2> HIDE DEF ok, bad
  <2>7. /\ u \in Turn /\ u.n = turnOf[s].n /\ u.chat = turnOf[s].chat /\ u.deleted = turnOf[s].deleted
        /\ u.at = "delete" /\ u.ok = ok /\ u.bad = bad /\ u.problem = turnOf[s].problem
    BY <2>2, <2>6 DEF Turn, JudgedAlready
  <2> HIDE DEF u
  <2>8. Sentences(s, u)
    BY <2>2, <2>4, <2>6, <2>7 DEF Sentences
  <2> QED BY <2>1, <2>8, JudgeSteps
<1>4. CASE ReplayFails(s)
  <2>1. SessionAt(s, "replay") /\ UNCHANGED <<runVars, Server, Registry, stopVars, rows>>
    BY <1>4 DEF ReplayFails
  <2>2. KeepsChats /\ turnOf[s] \in Turn /\ turnOf[s].problem \in {"none", "error", "cut"}
    BY <2>1, KeepingStage, AtStage DEF Turn
  <2>3. PICK late \in BOOLEAN :
          Put(s, [turnOf[s] EXCEPT !.at = "delete", !.ok = FALSE,
                                   !.problem = IF late THEN "cut" ELSE turnOf[s].problem])
    BY <1>4, Zenon DEF ReplayFails
  <2> DEFINE p == IF late THEN "cut" ELSE turnOf[s].problem
             u == [turnOf[s] EXCEPT !.at = "delete", !.ok = FALSE, !.problem = p]
  <2>4. turnOf' = [turnOf EXCEPT ![s] = u]
    BY <2>3, Zenon DEF Put
  <2>5. p \in {"none", "error", "cut"}
    BY <2>2
  <2> HIDE DEF p
  <2>6. /\ u \in Turn /\ u.n = turnOf[s].n /\ u.chat = turnOf[s].chat /\ u.deleted = turnOf[s].deleted
        /\ u.at = "delete" /\ u.ok = FALSE
    BY <2>2, <2>5 DEF Turn, JudgedAlready
  <2> HIDE DEF u
  <2>7. Sentences(s, u)
    BY <2>2, <2>4, <2>6 DEF Sentences
  <2> QED BY <2>1, <2>7, JudgeSteps
<1> QED BY <1>1, <1>2, <1>3, <1>4

\* A step that leaves every turn, the registry and the bookkeeping alone.
LEMMA StopSteps ==
  ASSUME HarnessInv, UNCHANGED <<options, turnOf, flying, released, rows>>,
         runAt' \in {"preconditions", "signin"} => runAt \in {"preconditions", "signin"},
         landing' \subseteq landing, chats' \cup landing' \subseteq Somewhere, chats' \cap landing' = {},
         snapshot' \subseteq [id : Ids, named : BOOLEAN], snapshot' \subseteq DOMAIN swept',
         \A r \in snapshot' :
           /\ swept'[r] \in {"named", "deleted"} => r.id \notin landing /\ Sent(r.id)
           /\ swept'[r] = "deleted" => r.id \notin chats',
         stopRow' \subseteq Ids,
         \A t \in stopRow' : Sent(t) /\ t \notin chats' \cup landing',
         \/ exitCode' \in {exitCode, "killed"}
         \/ /\ Somewhere \subseteq rows.notDeleted \cup rows.unverified
            /\ exitCode' = "passed" => /\ rows.failed = {}
                                       /\ KeepsChats => rows.notDeleted = {} /\ rows.unverified = {}
  PROVE  HarnessInv'
<1>1. /\ Sessions' = Sessions /\ KeepsChats' = KeepsChats /\ Ids' = Ids /\ Units' = Units
      /\ \A s \in Sessions : TurnId(s)' = TurnId(s)
      /\ \A t : Sent(t)' <=> Sent(t)
  BY DEF Sessions, KeepsChats, Ids, Units, TurnId, Sent
<1>2. HarnessTypes'
  <2>1. chats' \subseteq Ids /\ landing' \subseteq Ids
    BY DEF HarnessInv, HarnessTypes, Somewhere
  <2> QED BY <1>1, <2>1 DEF HarnessInv, HarnessTypes
<1>3. TurnsOK' /\ FreshAfter' /\ RowsBad'
  BY <1>1 DEF HarnessInv, TurnsOK, TurnOK, FreshAfter, RowsBad
<1>4. TurnPlaces'
  BY <1>1 DEF HarnessInv, TurnPlaces, Somewhere
<1>5. ChatsSent'
  <2>1. \A t \in chats' \cup landing' :
          Sent(t) /\ (t[2] < turnOf[t[1]].n => t \in rows.notDeleted \cup rows.unverified)
    BY DEF HarnessInv, ChatsSent
  <2>2. ~KeepsChats \/ runAt' \in {"preconditions", "signin"} => chats' \cup landing' = {}
    BY DEF HarnessInv, ChatsSent
  <2> QED BY <1>1, <2>1, <2>2 DEF ChatsSent, Somewhere
<1>6. StopPlaces'
  <2>1. \A r \in flying : r.named = TRUE => r.id \notin landing' /\ Sent(r.id)
    BY DEF HarnessInv, StopPlaces
  <2>2. \A t \in released : Sent(t) /\ t \notin chats' \cup landing'
    BY DEF HarnessInv, StopPlaces
  <2>3. \A r \in snapshot' : swept'[r] \in {"named", "deleted"} => r.id \notin landing' /\ Sent(r.id)
    OBVIOUS
  <2> QED BY <1>1, <2>1, <2>2, <2>3 DEF StopPlaces, Somewhere
<1>7. ChatsAccounted'
  <2>1. stopRow' \cap (chats' \cup landing') = {}
    OBVIOUS
  <2>2. exitCode' \in {"passed", "failed"} => chats' \cup landing' \subseteq rows.notDeleted \cup rows.unverified
    BY DEF HarnessInv, RunSound, ChatsAccounted, Somewhere
  <2> QED BY <2>1, <2>2 DEF ChatsAccounted
<1>8. CleanExit'
  <2>1. SUFFICES ASSUME exitCode' = "passed"
                 PROVE  rows.bad = {} /\ rows.cut = {} /\ (KeepsChats => chats' \cup landing' = {})
    BY <1>1 DEF CleanExit
  <2>2. CASE exitCode' = exitCode
    BY <2>1, <2>2 DEF HarnessInv, RunSound, CleanExit, Somewhere
  <2>3. CASE exitCode' # exitCode
    BY <2>1, <2>3 DEF HarnessInv, RowsBad
  <2> QED BY <2>2, <2>3
<1> QED BY <1>2, <1>3, <1>4, <1>5, <1>6, <1>7, <1>8 DEF HarnessInv, RunSound

\* What such a step finds when it starts.
LEMMA StopStands ==
  ASSUME HarnessInv
  PROVE  /\ chats \cap landing = {} /\ chats \subseteq Ids /\ landing \subseteq Ids
         /\ snapshot \subseteq [id : Ids, named : BOOLEAN] /\ snapshot \subseteq DOMAIN swept
         /\ \A r \in snapshot :
              /\ swept[r] \in {"named", "deleted"} => r.id \notin landing /\ Sent(r.id)
              /\ swept[r] = "deleted" => r.id \notin chats
         /\ stopRow \subseteq Ids
         /\ \A t \in stopRow : Sent(t) /\ t \notin chats \cup landing
BY DEF HarnessInv, HarnessTypes, ChatsSent, StopPlaces, Somewhere

\* A step of the command that touches neither the server nor the sweep.
LEMMA CommandKeeps ==
  ASSUME HarnessInv,
         HarnessPreconditions \/ PreconditionsRefuse \/ SignsIn \/ SigninFails \/ Concludes
           \/ StopKills \/ StopIdle \/ SecondSignal
  PROVE  HarnessInv'
<1>1. UNCHANGED <<options, turnOf, chats, landing, flying, released, snapshot, swept, stopRow, rows>>
  BY DEF HarnessPreconditions, PreconditionsRefuse, SignsIn, SigninFails, Concludes, StopKills, StopIdle,
         SecondSignal, runVars, stopVars, Server, Registry
<1>2. runAt' \in {"preconditions", "signin"} => runAt \in {"preconditions", "signin"}
  BY DEF HarnessPreconditions, PreconditionsRefuse, SignsIn, SigninFails, Concludes, StopKills, StopIdle,
         SecondSignal
<1>3. CASE HarnessPreconditions \/ SignsIn
  BY <1>1, <1>2, <1>3, StopStands, StopSteps DEF HarnessPreconditions, SignsIn, Somewhere
<1>4. CASE StopKills \/ StopIdle \/ SecondSignal
  BY <1>1, <1>2, <1>4, StopStands, StopSteps DEF StopKills, StopIdle, SecondSignal, Somewhere
<1>5. CASE PreconditionsRefuse \/ SigninFails
  <2>1. exitCode' = "failed" /\ runAt \in {"preconditions", "signin"}
    BY <1>5 DEF PreconditionsRefuse, SigninFails
  <2>2. Somewhere = {}
    BY <2>1 DEF HarnessInv, ChatsSent
  <2> QED BY <1>1, <1>2, <2>1, <2>2, StopStands, StopSteps DEF Somewhere
<1>6. CASE Concludes
  <2>1. \A s \in Sessions : turnOf[s].n > Units
    BY <1>6 DEF Concludes
  <2>2. ASSUME NEW t \in Somewhere
        PROVE  t \in rows.notDeleted \cup rows.unverified
    <3>1. KeepsChats /\ t \in Ids /\ Sent(t)
      BY DEF HarnessInv, HarnessTypes, ChatsSent, Somewhere
    <3>2. t[1] \in Sessions
      BY <3>1 DEF Ids
    <3>3. turnOf[t[1]].at \in Unsent
      BY <2>1, <3>1, <3>2 DEF HarnessInv, FreshAfter
    <3>4. t[2] < turnOf[t[1]].n
      BY <3>1, <3>3 DEF Sent
    <3> QED BY <3>4 DEF HarnessInv, ChatsSent
  <2>3. exitCode' = "passed" => /\ rows.failed = {}
                                /\ KeepsChats => rows.notDeleted = {} /\ rows.unverified = {}
    BY <1>6 DEF Concludes
  <2> QED BY <1>1, <1>2, <2>2, <2>3, StopStands, StopSteps DEF Somewhere
<1> QED BY <1>3, <1>4, <1>5, <1>6

LEMMA StopKeeps ==
  ASSUME HarnessInv, StopTakes \/ StopReports
  PROVE  HarnessInv'
<1>1. CASE StopTakes
  <2>1. /\ UNCHANGED <<options, runAt, exitCode, turnOf, chats, landing, flying, released, stopRow, rows>>
        /\ snapshot' = flying /\ swept' = [r \in flying |-> IF r.named THEN "named" ELSE "unnamed"]
    BY <1>1 DEF StopTakes, runVars, Server, Registry
  <2>2. ASSUME NEW r \in flying
        PROVE  /\ swept'[r] \in {"named", "deleted"} => r.id \notin landing /\ Sent(r.id)
               /\ swept'[r] # "deleted"
    <3>1. r.named \in BOOLEAN
      BY DEF HarnessInv, HarnessTypes
    <3>2. CASE r.named = TRUE
      BY <2>1, <3>2 DEF HarnessInv, StopPlaces
    <3>3. CASE r.named = FALSE
      BY <2>1, <3>3
    <3> QED BY <3>1, <3>2, <3>3
  <2>3. flying \subseteq [id : Ids, named : BOOLEAN] /\ flying \subseteq DOMAIN swept'
    BY <2>1 DEF HarnessInv, HarnessTypes
  <2> QED BY <2>1, <2>2, <2>3, StopStands, StopSteps DEF Somewhere
<1>2. CASE StopReports
  <2>1. /\ UNCHANGED <<options, runAt, exitCode, turnOf, chats, landing, flying, released, snapshot, swept, rows>>
        /\ stopRow' = {r.id : r \in {q \in snapshot : swept[q] = "deleted" \/ q.id \in released}}
    BY <1>2 DEF StopReports, runVars, Server, Registry
  <2>2. ASSUME NEW t \in stopRow'
        PROVE  t \in Ids /\ Sent(t) /\ t \notin chats \cup landing
    <3>1. PICK r \in snapshot : t = r.id /\ (swept[r] = "deleted" \/ r.id \in released)
      BY <2>1
    <3>2. r.id \in Ids
      BY StopStands
    <3>3. CASE swept[r] = "deleted"
      BY <3>1, <3>2, <3>3, StopStands
    <3>4. CASE r.id \in released
      BY <3>1, <3>2, <3>4 DEF HarnessInv, StopPlaces, Somewhere
    <3> QED BY <3>1, <3>3, <3>4
  <2> QED BY <2>1, <2>2, StopStands, StopSteps DEF Somewhere
<1> QED BY <1>1, <1>2

LEMMA SweepKeeps ==
  ASSUME HarnessInv, NEW r, r \in snapshot, SweepFinds(r) \/ SweepDeletes(r)
  PROVE  HarnessInv'
<1>1. CASE SweepFinds(r)
  <2>1. UNCHANGED <<options, runAt, exitCode, turnOf, chats, landing, flying, released, snapshot, stopRow, rows>>
    BY <1>1 DEF SweepFinds, runVars, Server, Registry
  <2>2. PICK v \in {"named", "left"} : swept' = [swept EXCEPT ![r] = v] /\ (v = "named" => r.id \in chats)
    BY <1>1 DEF SweepFinds
  <2>3. v = "named" => r.id \notin landing /\ Sent(r.id)
    BY <2>2, StopStands DEF HarnessInv, ChatsSent, Somewhere
  <2>4. DOMAIN swept' = DOMAIN swept /\ \A q \in snapshot : swept'[q] = IF q = r THEN v ELSE swept[q]
    BY <2>2, StopStands
  <2> QED BY <2>1, <2>2, <2>3, <2>4, StopStands, StopSteps DEF Somewhere
<1>2. CASE SweepDeletes(r)
  <2>1. UNCHANGED <<options, runAt, exitCode, turnOf, landing, flying, released, snapshot, stopRow, rows>>
    BY <1>2 DEF SweepDeletes, runVars, Registry
  <2>2. /\ chats' \subseteq chats
        /\ \E v \in {"deleted", "failed"} : swept' = [swept EXCEPT ![r] = v] /\ (v = "deleted" => r.id \notin chats')
    BY <1>2 DEF SweepDeletes
  <2>3. PICK v \in {"deleted", "failed"} : swept' = [swept EXCEPT ![r] = v] /\ (v = "deleted" => r.id \notin chats')
    BY <2>2
  <2>4. r.id \notin landing /\ Sent(r.id)
    BY <1>2, StopStands DEF SweepDeletes, Sweeping
  <2>5. DOMAIN swept' = DOMAIN swept /\ \A q \in snapshot : swept'[q] = IF q = r THEN v ELSE swept[q]
    BY <2>3, StopStands
  <2>6. \A q \in snapshot : /\ swept'[q] \in {"named", "deleted"} => q.id \notin landing /\ Sent(q.id)
                            /\ swept'[q] = "deleted" => q.id \notin chats'
    BY <2>2, <2>3, <2>4, <2>5, StopStands
  <2>7. chats' \cap landing = {} /\ \A t \in stopRow : Sent(t) /\ t \notin chats' \cup landing
    BY <2>2, StopStands
  <2> QED BY <2>1, <2>2, <2>5, <2>6, <2>7, StopStands, StopSteps DEF Somewhere
<1> QED BY <1>1, <1>2

LEMMA LandsKeeps ==
  ASSUME HarnessInv, NEW t, Lands(t)
  PROVE  HarnessInv'
<1>1. /\ t \in landing /\ landing' = landing \ {t} /\ chats' = chats \cup {t}
      /\ UNCHANGED <<options, runAt, exitCode, turnOf, flying, released, snapshot, swept, stopRow, rows>>
  BY DEF Lands, runVars, Registry, stopVars
<1>2. chats' \cup landing' = Somewhere /\ chats' \cap landing' = {}
  BY <1>1, StopStands DEF Somewhere
<1>3. \A r \in snapshot : /\ swept'[r] \in {"named", "deleted"} => r.id \notin landing /\ Sent(r.id)
                          /\ swept'[r] = "deleted" => r.id \notin chats'
  BY <1>1, StopStands
<1>4. \A x \in stopRow : Sent(x) /\ x \notin chats' \cup landing'
  BY <1>2, StopStands DEF Somewhere
<1> QED BY <1>1, <1>2, <1>3, <1>4, StopStands, StopSteps

\* A fresh turn knows nothing and was not sent, when its door keeps chats.
LEMMA FreshTurn ==
  ASSUME options \in Options, NEW n \in Nat \ {0}, NEW u, u = NewTurn(n, options.mode)
  PROVE  /\ u \in Turn /\ u.n = n /\ TurnOK(u) /\ u.at # "name" /\ u.chat = FALSE /\ u.deleted = FALSE
         /\ KeepsChats => u.at \in Unsent
<1> DEFINE at == Head(TurnStages[options.mode])
<1>1. options.mode \in {"api", "service", "unfiltered", "browser"}
  BY HarnessShapes
<1>2. at = IF KeepsChats THEN "list" ELSE "call"
  <2>1. CASE options.mode = "api"
    BY <2>1 DEF TurnStages, KeepsChats
  <2>2. CASE options.mode = "browser"
    BY <2>2 DEF TurnStages, KeepsChats
  <2>3. CASE options.mode = "service"
    BY <2>3 DEF TurnStages, KeepsChats
  <2>4. CASE options.mode = "unfiltered"
    BY <2>4 DEF TurnStages, KeepsChats
  <2> QED BY <1>1, <2>1, <2>2, <2>3, <2>4
<1>3. NoWatch \in Watch
  BY EmptySeq DEF NoWatch, Watch
<1> HIDE DEF at
<1>4. u = [n |-> n, at |-> at, chat |-> FALSE, ids |-> FALSE, problem |-> "none",
           retried |-> FALSE, ok |-> FALSE, bad |-> FALSE, deleted |-> FALSE, watch |-> NoWatch]
  BY Zenon DEF NewTurn, at
<1>5. at \in Unjudged /\ (KeepsChats => at \in Unsent) /\ (~KeepsChats => at = "call") /\ at # "name"
  BY <1>2 DEF Unjudged, Unsent
<1>6. /\ u \in Turn /\ u.n = n /\ u.at = at /\ u.chat = FALSE /\ u.deleted = FALSE
      /\ u.ok = FALSE /\ u.bad = FALSE /\ u.problem = "none"
  BY <1>3, <1>4, <1>5 DEF Turn
<1>7. TurnOK(u)
  BY <1>5, <1>6 DEF TurnOK
<1> QED BY <1>5, <1>6, <1>7

\* What a row adds: whatever it fails to delete or to identify, and a failure for whatever
\* it saw that was bad.
LEMMA RowAdds ==
  ASSUME HarnessInv, NEW s \in Sessions, turnOf[s] \in Turn, TurnOK(turnOf[s]),
         NEW wrote \in BOOLEAN, rows' = absorb(s, wrote)
  PROVE  /\ rows.notDeleted \subseteq rows'.notDeleted /\ rows.unverified \subseteq rows'.unverified
         /\ turnOf[s].chat = TRUE /\ turnOf[s].deleted = FALSE => TurnId(s) \in rows'.notDeleted
         /\ KeepsChats /\ turnOf[s].chat = FALSE => TurnId(s) \in rows'.unverified
         /\ RowsBad'
<1> DEFINE With(S, in) == IF in THEN S \cup {TurnId(s)} ELSE S
           t  == turnOf[s]
           nd == With(rows.notDeleted, t.chat /\ ~t.deleted)
           uv == With(rows.unverified, KeepsChats /\ ~t.chat)
           fd == With(rows.failed, ~t.ok \/ ~wrote)
           bd == With(rows.bad, t.bad)
           ct == With(rows.cut, t.problem = "cut")
<1>1. rows' = [notDeleted |-> nd, unverified |-> uv, failed |-> fd, bad |-> bd, cut |-> ct]
  BY Zenon DEF absorb
<1>2. /\ rows'.notDeleted = nd /\ rows'.unverified = uv /\ rows'.failed = fd
      /\ rows'.bad = bd /\ rows'.cut = ct
  <2> HIDE DEF nd, uv, fd, bd, ct
  <2> QED BY <1>1
<1>3. /\ t.chat \in BOOLEAN /\ t.deleted \in BOOLEAN /\ t.ok \in BOOLEAN /\ t.bad \in BOOLEAN
      /\ t.bad = TRUE \/ t.problem = "cut" => t.ok = FALSE
  BY DEF Turn, TurnOK
<1>4. \A S, in : S \subseteq With(S, in) /\ (in => TurnId(s) \in With(S, in))
  OBVIOUS
<1>5. \A S, in : ~in => With(S, in) = S
  OBVIOUS
<1>6. \A S, in : With(S, in) \subseteq S \cup {TurnId(s)}
  OBVIOUS
<1> HIDE DEF With
<1>7. t.chat = TRUE /\ t.deleted = FALSE => TurnId(s) \in rows'.notDeleted
  BY <1>2, <1>4, Zenon
<1>8. KeepsChats /\ t.chat = FALSE => TurnId(s) \in rows'.unverified
  BY <1>2, <1>4, Zenon
<1>9. rows.notDeleted \subseteq rows'.notDeleted /\ rows.unverified \subseteq rows'.unverified
      /\ rows.failed \subseteq rows'.failed
  <2>1. rows.notDeleted \subseteq nd /\ rows.unverified \subseteq uv /\ rows.failed \subseteq fd
    BY <1>4, Zenon
  <2> HIDE DEF nd, uv, fd
  <2> QED BY <1>2, <2>1
<1>10. CASE t.ok = FALSE
  <2>1. TurnId(s) \in rows'.failed
    <3>1. ~t.ok \/ ~wrote
      BY <1>10, Zenon
    <3>2. TurnId(s) \in fd
      BY <1>4, <3>1, Zenon
    <3> HIDE DEF fd
    <3> QED BY <1>2, <3>2
  <2>2. rows'.bad \subseteq rows.bad \cup {TurnId(s)} /\ rows'.cut \subseteq rows.cut \cup {TurnId(s)}
    <3>1. bd \subseteq rows.bad \cup {TurnId(s)} /\ ct \subseteq rows.cut \cup {TurnId(s)}
      BY <1>6, Zenon
    <3> HIDE DEF bd, ct
    <3> QED BY <1>2, <3>1
  <2>3. RowsBad'
    BY <1>9, <2>1, <2>2 DEF HarnessInv, RowsBad
  <2> QED BY <1>7, <1>8, <1>9, <2>3
<1>11. CASE t.ok = TRUE
  <2>1. t.bad = FALSE /\ t.problem # "cut"
    BY <1>3, <1>11
  <2>2. rows'.bad = rows.bad /\ rows'.cut = rows.cut
    BY <1>2, <1>5, <2>1, Zenon
  <2>3. RowsBad'
    BY <1>9, <2>2 DEF HarnessInv, RowsBad
  <2> QED BY <1>7, <1>8, <1>9, <2>3
<1> QED BY <1>3, <1>10, <1>11

LEMMA FinalisesKeeps ==
  ASSUME HarnessInv, NEW s, Finalises(s)
  PROVE  HarnessInv'
<1> DEFINE u == NewTurn(turnOf[s].n + 1, options.mode)
<1>1. SessionAt(s, "finalise") /\ UNCHANGED <<runVars, Server, Registry, stopVars>>
  BY DEF Finalises
<1>2. /\ s \in Sessions /\ turnOf[s] \in Turn /\ TurnOK(turnOf[s]) /\ turnOf[s].at = "finalise"
      /\ runAt = "turns" /\ exitCode = "running"
  BY <1>1, AtStage
<1>3. /\ turnOf[s].n \in Nat \ {0} /\ TurnId(s) = <<s, turnOf[s].n>> /\ options \in Options
      /\ turnOf[s].chat \in BOOLEAN /\ turnOf[s].deleted \in BOOLEAN
  BY <1>2 DEF Turn, TurnId, HarnessInv, HarnessTypes
<1>4. /\ u \in Turn /\ u.n = turnOf[s].n + 1 /\ TurnOK(u) /\ u.at # "name" /\ u.chat = FALSE
      /\ u.deleted = FALSE /\ (KeepsChats => u.at \in Unsent)
  <2>1. turnOf[s].n + 1 \in Nat \ {0} /\ options \in Options
    BY <1>3
  <2> HIDE DEF u
  <2>2. u = NewTurn(turnOf[s].n + 1, options.mode)
    BY DEF u
  <2> QED BY <2>1, <2>2, FreshTurn
<1>5. turnOf' = [turnOf EXCEPT ![s] = u]
  BY DEF Finalises, Put
<1> HIDE DEF u
<1>6. /\ turnOf \in [Sessions -> Turn] /\ turnOf' \in [Sessions -> Turn] /\ turnOf'[s] = u
      /\ \A x \in Sessions : x # s => turnOf'[x] = turnOf[x]
  BY <1>2, <1>4, <1>5 DEF HarnessInv, HarnessTypes
<1>7. /\ options' = options /\ runAt' = runAt /\ exitCode' = exitCode /\ chats' = chats /\ landing' = landing
      /\ flying' = flying /\ released' = released /\ stopAt' = stopAt /\ snapshot' = snapshot
      /\ swept' = swept /\ stopRow' = stopRow
      /\ Sessions' = Sessions /\ KeepsChats' = KeepsChats /\ Ids' = Ids /\ Units' = Units
  BY <1>1 DEF runVars, Server, Registry, stopVars, Sessions, KeepsChats, Ids, Units
<1>8. /\ rows.notDeleted \subseteq rows'.notDeleted /\ rows.unverified \subseteq rows'.unverified
      /\ turnOf[s].chat = TRUE /\ turnOf[s].deleted = FALSE => TurnId(s) \in rows'.notDeleted
      /\ KeepsChats /\ turnOf[s].chat = FALSE => TurnId(s) \in rows'.unverified
      /\ RowsBad'
  <2>1. \E wrote \in BOOLEAN : rows' = absorb(s, wrote)
    BY DEF Finalises
  <2> QED BY <1>2, <2>1, RowAdds
<1>9. ASSUME NEW t \in Ids, Sent(t)
      PROVE  Sent(t)'
  <2>1. t[1] \in Sessions /\ t[2] \in Nat
    BY DEF Ids
  <2>2. CASE t[1] = s
    BY <1>3, <1>4, <1>6, <1>9, <2>1, <2>2 DEF Sent
  <2>3. CASE t[1] # s
    BY <1>6, <1>9, <2>1, <2>3 DEF Sent
  <2> QED BY <2>2, <2>3
<1>10. HarnessTypes' /\ StopPlaces'
  <2>1. HarnessTypes'
    BY <1>6, <1>7 DEF HarnessInv, HarnessTypes
  <2>2. StopPlaces'
    <3>1. \A r \in flying : r.id \in Ids
      BY DEF HarnessInv, HarnessTypes
    <3>2. \A r \in snapshot : r.id \in Ids
      BY DEF HarnessInv, HarnessTypes
    <3>3. released \cup stopRow \subseteq Ids
      BY DEF HarnessInv, HarnessTypes
    <3> QED BY <1>7, <1>9, <3>1, <3>2, <3>3 DEF HarnessInv, StopPlaces, Somewhere
  <2> QED BY <2>1, <2>2
<1>11. TurnsOK' /\ FreshAfter'
  <2>1. \A t : TurnOK(t)' <=> TurnOK(t)
    BY <1>7 DEF TurnOK
  <2>2. \A x \in Sessions : TurnOK(turnOf'[x])
    BY <1>4, <1>6 DEF HarnessInv, TurnsOK
  <2>3. \A x \in Sessions : TurnOK(turnOf[x])'
    BY <1>7, <2>2 DEF TurnOK
  <2>4. \A x \in Sessions : turnOf'[x].n > Units /\ KeepsChats => turnOf'[x].at \in Unsent
    BY <1>4, <1>6 DEF HarnessInv, FreshAfter
  <2> QED BY <1>7, <2>3, <2>4 DEF TurnsOK, FreshAfter
<1>12. TurnPlaces'
  <2>1. ASSUME NEW x \in Sessions
        PROVE  /\ turnOf'[x].at = "name" \/ turnOf'[x].chat = TRUE => TurnId(x)' \notin landing
               /\ turnOf'[x].deleted = TRUE => turnOf'[x].chat = TRUE /\ TurnId(x)' \notin Somewhere
    <3>1. CASE x = s
      BY <1>4, <1>6, <3>1
    <3>2. CASE x # s
      <4>1. turnOf'[x] = turnOf[x] /\ TurnId(x)' = TurnId(x)
        BY <1>6, <3>2 DEF TurnId
      <4> QED BY <4>1 DEF HarnessInv, TurnPlaces
    <3> QED BY <3>1, <3>2
  <2> QED BY <1>7, <2>1 DEF TurnPlaces, Somewhere
<1>13. ChatsSent'
  <2>1. ASSUME NEW t \in Somewhere, t[2] < turnOf'[t[1]].n
        PROVE  t \in rows'.notDeleted \cup rows'.unverified
    <3>1. t \in Ids /\ Sent(t) /\ KeepsChats
      BY DEF HarnessInv, HarnessTypes, ChatsSent, Somewhere
    <3>2. t[1] \in Sessions /\ t[2] \in Nat /\ t = <<t[1], t[2]>>
      BY <3>1 DEF Ids
    <3>3. CASE t[2] < turnOf[t[1]].n
      BY <1>8, <3>3 DEF HarnessInv, ChatsSent
    <3>4. CASE ~(t[2] < turnOf[t[1]].n)
      <4>1. t[1] = s
        BY <1>6, <2>1, <3>2, <3>4
      <4>2. t[2] = turnOf[s].n
        BY <1>3, <1>4, <1>6, <2>1, <3>2, <3>4, <4>1
      <4>3. t = TurnId(s)
        BY <1>3, <3>2, <4>1, <4>2
      <4>4. turnOf[s].deleted = FALSE
        BY <1>2, <1>3, <4>3 DEF HarnessInv, TurnPlaces
      <4> QED BY <1>3, <1>8, <3>1, <4>3, <4>4
    <3> QED BY <3>3, <3>4
  <2>2. \A t \in Somewhere : Sent(t)'
    BY <1>9 DEF HarnessInv, HarnessTypes, ChatsSent, Somewhere
  <2>3. ~KeepsChats \/ runAt \in {"preconditions", "signin"} => Somewhere = {}
    BY DEF HarnessInv, ChatsSent
  <2>4. chats \cap landing = {}
    BY DEF HarnessInv, ChatsSent
  <2> QED BY <1>7, <2>1, <2>2, <2>3, <2>4 DEF ChatsSent, Somewhere
<1>14. RunSound'
  <2>1. ChatsAccounted'
    BY <1>2, <1>7 DEF HarnessInv, RunSound, ChatsAccounted
  <2>2. CleanExit'
    BY <1>2, <1>7 DEF CleanExit
  <2> QED BY <2>1, <2>2 DEF RunSound
<1> QED BY <1>8, <1>10, <1>11, <1>12, <1>13, <1>14 DEF HarnessInv

LEMMA HarnessStarts ==
  ASSUME HarnessInit
  PROVE  HarnessInv
<1>1. /\ options \in Options /\ turnOf = [s \in Sessions |-> NewTurn(1, options.mode)]
      /\ chats = {} /\ landing = {} /\ flying = {} /\ released = {} /\ snapshot = {} /\ stopRow = {}
      /\ rows = NoRows /\ exitCode = "running" /\ stopAt = "none"
  BY DEF HarnessInit, Sessions
<1> DEFINE u == NewTurn(1, options.mode)
<1>2. /\ u \in Turn /\ TurnOK(u) /\ u.at # "name" /\ u.chat = FALSE /\ u.deleted = FALSE
      /\ KeepsChats => u.at \in Unsent
  <2>1. 1 \in Nat \ {0} /\ options \in Options
    BY <1>1
  <2> HIDE DEF u
  <2>2. u = NewTurn(1, options.mode)
    BY DEF u
  <2> QED BY <2>1, <2>2, FreshTurn
<1> HIDE DEF u
<1>3. turnOf \in [Sessions -> Turn] /\ \A s \in Sessions : turnOf[s] = u
  BY <1>1, <1>2 DEF u
<1>4. HarnessTypes
  BY <1>1, <1>3 DEF HarnessTypes
<1>5. TurnsOK /\ FreshAfter /\ TurnPlaces
  BY <1>2, <1>3 DEF TurnsOK, FreshAfter, TurnPlaces
<1>6. ChatsSent /\ StopPlaces /\ RowsBad
  BY <1>1 DEF ChatsSent, StopPlaces, RowsBad, Somewhere, NoRows
<1>7. RunSound
  BY <1>1 DEF RunSound, ChatsAccounted, CleanExit
<1> QED BY <1>4, <1>5, <1>6, <1>7 DEF HarnessInv

LEMMA SessionKeeps ==
  ASSUME HarnessInv, NEW s, Session(s)
  PROVE  HarnessInv'
BY MovesKeep, TroubleKeeps, FindsKeeps, PaintsKeep, RegistryKeeps, ServerKeeps, FrontendKeeps,
   ServiceKeeps, JudgingKeeps, FinalisesKeeps DEF Session

LEMMA HarnessKeeps ==
  ASSUME HarnessInv, [HarnessNext]_harnessVars
  PROVE  HarnessInv'
<1>1. CASE \E s \in Sessions : Session(s)
  BY <1>1, SessionKeeps
<1>2. CASE Main \/ StopIdle \/ StopTakes \/ SecondSignal
  BY <1>2, CommandKeeps, StopKeeps DEF Main
<1>3. CASE \E r \in snapshot : Sweep(r)
  BY <1>3, SweepKeeps DEF Sweep
<1>4. CASE \E t \in landing : Lands(t)
  BY <1>4, LandsKeeps
<1>5. CASE UNCHANGED harnessVars
  BY <1>5, StopStands, StopSteps DEF harnessVars, Somewhere
<1> QED BY <1>1, <1>2, <1>3, <1>4, <1>5 DEF HarnessNext

\* Whatever fails, and whenever the stop comes, the word of a run covers every chat and
\* every answer: what a stop row calls deleted is gone for good, a run that returned names
\* every chat that may remain, and one that exits 0 released nothing the guardrail
\* withholds (turns.py's bookkeeping, registry and stop handler).
THEOREM RunSoundHolds == HarnessSpec => []RunSound
<1>1. HarnessInit => HarnessInv
  BY HarnessStarts
<1>2. HarnessInv /\ [HarnessNext]_harnessVars => HarnessInv'
  BY HarnessKeeps
<1>3. HarnessInv => RunSound
  BY DEF HarnessInv
<1> QED BY <1>1, <1>2, <1>3, PTL DEF HarnessSpec

=============================================================================

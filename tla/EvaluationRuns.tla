----------------------------- MODULE EvaluationRuns -----------------------------
(* `gideon eval run` and `gideon eval reference`.  A run loads the evaluation set,   *)
(* waits for its window and the engine lock, repeats a slice, compares the results  *)
(* with the slice's reference, records one row in Postgres and gates.  The          *)
(* reference command turns a recorded run into the slice's next reference, one      *)
(* file per id list.                                                                *)
(*                                                                                  *)
(* A case is its number in its id series.  Scores and texts are reduced to the set  *)
(* of cases a run failed; the clock counts the moments the windows tell apart.      *)
(* The slice is one of three sorts, by what its runner reaches: the engine, the box *)
(* without the engine, or nothing but a ranked file.                                *)
EXTENDS Integers, Sequences, FiniteSets, FiniteSetsExt

CONSTANTS
  Lists,       \* the slice's id lists: the cases of each
  Controls,    \* the cases whose failure the slice's gate tolerates up to Ceiling
  Ceiling,
  Sets,        \* the evaluation sets a checkout may hold
  Requests,    \* the commands asked for
  Open,        \* per kind of run, the moments its window is open
  Mornings,    \* the moments an office morning begins
  MaxClock,    \* bound on the moments
  MaxEvalRows, \* bound on the rows recorded
  MaxSlips     \* bound on the failures and kills

Cases == 1..3
Kinds == {"manual", "smoke", "nightly", "decision"}

ASSUME EvaluationShapes ==
  /\ Lists \in Seq(SUBSET Cases)
  /\ Controls \subseteq Cases /\ Ceiling \in Nat
  /\ \A s \in Sets : s.version \in Nat /\ s.over \in [Cases -> 0..3] /\ s.held \subseteq Cases
  /\ \A s, t \in Sets : s.digest = t.digest => s = t
  /\ \A r \in Requests : /\ r.kind \in Kinds /\ r.suites \in Nat \ {0}
                         /\ {r.force, r.few, r.challenger, r.slice} \subseteq BOOLEAN
                         /\ r.supplied \subseteq Sets
  /\ MaxClock \in Nat /\ MaxEvalRows \in Nat /\ MaxSlips \in Nat

VARIABLES
  evalSet,    \* the set in the checkout
  surface,    \* what the slice reaches: engine, box or file
  product,    \* the checkout's release
  reference,  \* eval/reference/<slice>: per id list its file, or absent
  evalRows,   \* eval_runs and eval_results, oldest first
  engineLock, \* free, ours or other
  moment,     \* the clock
  evalCmd,    \* the command running
  committed,   \* the reference the release checkout carries
  evalSlips

evalVars == <<evalSet, surface, product, reference, evalRows, engineLock, moment, evalCmd,
              committed, evalSlips>>

-----------------------------------------------------------------------------
(* The evaluation set. *)

\* A case may fail the rules of its shape, its review block, its extraction objects, or
\* the fields a synthetic, a guardrail or a smoke case adds.
_validate_shape(s, c)              == s.broken[c] # "shape"
_validate_review(s, c)             == s.broken[c] # "review"
_validate_extraction_objects(s, c) == s.broken[c] # "extraction"
_validate_synthetic_fields(s, c)   == s.broken[c] # "synthetic"
_validate_guardrail_fields(s, c)   == s.broken[c] # "guardrail"
_validate_smoke_fields(s, c)       == s.broken[c] # "smoke"

case_findings(s) ==
  {c \in Cases : ~ /\ _validate_shape(s, c) /\ _validate_review(s, c)
                  /\ _validate_extraction_objects(s, c) /\ _validate_synthetic_fields(s, c)
                  /\ _validate_guardrail_fields(s, c) /\ _validate_smoke_fields(s, c)}

\* The files: the case files, the id lists of the slices, the held-out lists.
_read_cases(s)    == "cases" \notin s.unread
_read_slices(s)   == "slices" \notin s.unread
_read_held_out(s) == "held-out" \notin s.unread

\* The supersessions that stand: an earlier case of the series, which no earlier claim took.
Claims(s) == {c \in Cases : s.over[c] # 0}
_supersedes_findings(s) ==
  {c \in Claims(s) : s.over[c] >= c \/ \E d \in Claims(s) : d < c /\ s.over[d] = s.over[c] /\ s.over[d] < d}
Superseded(s) == {s.over[c] : c \in Claims(s) \ _supersedes_findings(s)}

_parent_findings(s) ==
  {c \in Cases : /\ s.parent[c] # 0
                 /\ \/ s.parent[c] >= c
                    \/ s.parent[s.parent[c]] # 0
                    \/ s.cluster[c] # s.cluster[s.parent[c]]}

Retired(s) == Superseded(s) \cup {c \in Cases : s.parent[c] \in Superseded(s)}
Active(s)  == Cases \ Retired(s)

\* The family of the held-out cases: pass after pass over the active cases, by cluster
\* and by the case superseded, until none is added.
Family(s) ==
  LET Pass(f) == f \cup {c \in Active(s) : (\E d \in f : s.cluster[d] = s.cluster[c]) \/ s.over[c] \in f}
      after[n \in 0..Cardinality(Cases)] == IF n = 0 THEN s.held ELSE Pass(after[n - 1])
  IN  after[Cardinality(Cases)]

_held_out_findings(s) == Family(s) \ s.held

\* A sign-off stands for a case the set still runs.
SignoffFindings(s) == s.signed \cap Retired(s)

load_set(s) ==
  /\ _read_cases(s) /\ _read_slices(s) /\ _read_held_out(s)
  /\ case_findings(s) = {}
  /\ _supersedes_findings(s) = {} /\ _parent_findings(s) = {} /\ _held_out_findings(s) = {}
  /\ SignoffFindings(s) = {}

Unsigned(s) == (s.signing \cap Active(s)) \ s.signed

\* select_cases: what a run counts.
Counted(s) == ((UNION {Lists[l] : l \in DOMAIN Lists}) \cap Active(s)) \ Unsigned(s)

-----------------------------------------------------------------------------
(* The windows. *)

Inside(kind, t) == t \in Open[kind]

\* The morning at which the window a run starts in ends.
EndOf(t) == LET later == {m \in Mornings : m > t} IN IF later = {} THEN MaxClock + 1 ELSE Min(later)

-----------------------------------------------------------------------------
(* The reference. *)

NoFile == [version |-> 0]
Header(f) == <<f.version, f.digest, f.product, f.verdict>>
Passed(f) == f.counted \ f.failing

Present  == {l \in DOMAIN Lists : reference[l] # NoFile}
SomeFile == reference[CHOOSE l \in Present : TRUE]

\* Headers that disagree refuse before the version is looked at; a list without its
\* file only after it.
read_reference(s) ==
  IF Present = {} THEN "absent"
  ELSE IF \E l, k \in Present : Header(reference[l]) # Header(reference[k]) THEN "malformed"
  ELSE IF SomeFile.version # s.version THEN "other-version"
  ELSE IF Present # DOMAIN Lists THEN "malformed" ELSE "read"

ReferencePassed == UNION {Passed(reference[l]) : l \in Present}

Regressed(counted, failing) == ReferencePassed \cap counted \cap failing

\* compare_reference, after read_reference.
compare_reference(s, counted, failing) ==
  LET read == read_reference(s)
  IN  IF read # "read" THEN read
      ELSE IF Regressed(counted, failing) # {} THEN "regressed" ELSE "compared"

-----------------------------------------------------------------------------
(* The command. *)

NoCmd == [op |-> "none", at |-> "idle"]

EvalCmd(r) ==
  [op |-> "run", at |-> "flags", kind |-> r.kind, force |-> r.force, few |-> r.few,
   challenger |-> r.challenger, slice |-> r.slice, suites |-> r.suites, supplied |-> r.supplied,
   side |-> IF r.challenger THEN "release" ELSE "none", pairs |-> 0, codes |-> <<>>,
   end |-> 0, claimed |-> FALSE, repeat |-> 0, failing |-> {}, partial |-> FALSE,
   comparison |-> "none", loses |-> FALSE, written |-> FALSE, ok |-> FALSE, last |-> 0]

Pairs(c) == c.kind = "decision"

\* The set a run evaluates: the one `--set` names, or the checkout's.
TheSet == IF evalCmd.supplied = {} THEN evalSet ELSE CHOOSE s \in evalCmd.supplied : TRUE

\* DECISION_REPEATS of a decision, one call of the runner otherwise.
Repeats(c) == IF Pairs(c) THEN 2 ELSE 1

Doing0(at) == evalCmd.op = "run" /\ evalCmd.at = at

Trip == evalSlips > 0 /\ evalSlips' = evalSlips - 1

Steady == UNCHANGED <<evalSet, surface, product, reference, committed>>

\* The pass is over: the next suite, the challenger's side, or the exit.
NextPass(c, code) ==
  LET codes == Append(c.codes, code)
      more  == c.side = "none" /\ Len(codes) < c.suites
      pair  == c.side = "release" /\ c.written /\ ~c.partial
      next  == [EvalCmd([kind |-> c.kind, force |-> c.force, few |-> c.few, slice |-> c.slice,
                         challenger |-> c.challenger, suites |-> c.suites, supplied |-> c.supplied])
                  EXCEPT !.at = "load", !.codes = codes, !.claimed = c.claimed]
  IN  CASE more -> next
        [] pair -> [next EXCEPT !.side = "challenger", !.pairs = Len(evalRows)]
        [] OTHER -> [c EXCEPT !.at = "finally", !.codes = codes]

Fails == evalCmd' = NextPass([evalCmd EXCEPT !.written = FALSE], 1)

\* run_eval takes a command whose flags fit together.
Asks ==
  /\ evalCmd = NoCmd
  /\ \E r \in Requests : /\ Len(evalRows) + (IF r.challenger THEN 2 ELSE r.suites) <= MaxEvalRows
                         /\ evalCmd' = EvalCmd(r)
  /\ moment' \in 0..MaxClock
  /\ Steady /\ UNCHANGED <<evalRows, engineLock, evalSlips>>

\* A name given twice, several outside a nightly, a decision without its comparand, a
\* challenger under another kind, with a slice or a set of its own, a flag or a pair that only
\* a slice of the engine takes.
FlagsFit ==
  /\ evalCmd.suites > 1 => evalCmd.kind = "nightly"
  /\ evalCmd.challenger => /\ evalCmd.kind \in {"manual", "nightly"} /\ evalCmd.suites = 1
                           /\ evalCmd.supplied = {}
  /\ Pairs(evalCmd) => evalRows # <<>>
  /\ evalCmd.force \/ evalCmd.challenger \/ Pairs(evalCmd) => surface = "engine"

Flags ==
  /\ Doing0("flags")
  /\ evalCmd' = IF FlagsFit THEN [evalCmd EXCEPT !.at = "load"]
                ELSE [evalCmd EXCEPT !.at = "finally", !.codes = <<1>>]
  /\ Steady /\ UNCHANGED <<evalRows, engineLock, moment, evalSlips>>

\* Only a slice of the engine has a window and takes the lock.
FirstStage == IF surface = "engine" THEN "window" ELSE "target"

Loads ==
  /\ Doing0("load")
  /\ IF load_set(TheSet) /\ evalCmd.slice
     THEN evalCmd' = [evalCmd EXCEPT !.at = FirstStage, !.end = MaxClock + 1]
     ELSE Fails
  /\ Steady /\ UNCHANGED <<evalRows, engineLock, moment, evalSlips>>

\* The window is judged where the run starts; a small manual or smoke run is waived.
Judges ==
  /\ Doing0("window")
  /\ LET waived == evalCmd.kind \in {"manual", "smoke"} /\ evalCmd.few
     IN  IF Inside(evalCmd.kind, moment) \/ waived \/ evalCmd.force
         THEN evalCmd' = [evalCmd EXCEPT !.at = "lock", !.end = EndOf(moment)]
         ELSE Fails
  /\ Steady /\ UNCHANGED <<evalRows, engineLock, moment, evalSlips>>

TakesLock ==
  /\ evalCmd.op = "run" /\ evalCmd.at \in {"lock", "wait"}
  /\ evalCmd.at = "wait" => moment < evalCmd.end
  /\ engineLock \in {"free", "ours"}
  /\ engineLock' = "ours"
  /\ evalCmd' = [evalCmd EXCEPT !.at = "target", !.claimed = @ \/ engineLock = "free"]
  /\ Steady /\ UNCHANGED <<evalRows, moment, evalSlips>>

\* A holder refuses the run; a nightly polls instead until its night is over.
LockHeld ==
  /\ Doing0("lock") /\ engineLock = "other"
  /\ IF evalCmd.kind = "nightly" THEN evalCmd' = [evalCmd EXCEPT !.at = "wait"] ELSE Fails
  /\ Steady /\ UNCHANGED <<evalRows, engineLock, moment, evalSlips>>

GivesUp ==
  /\ Doing0("wait") /\ moment >= evalCmd.end
  /\ Fails
  /\ Steady /\ UNCHANGED <<evalRows, engineLock, moment, evalSlips>>

\* The rest of the preconditions, in their order; the first that fails stops the pass.
Preconditions == <<"ranked", "site", "siblings", "target", "image", "door", "generation", "record", "comparand">>

Targets ==
  /\ Doing0("target")
  /\ \/ evalCmd' = [evalCmd EXCEPT !.at = "repeat"] /\ UNCHANGED evalSlips
     \/ \E i \in DOMAIN Preconditions : Trip /\ Fails
  /\ Steady /\ UNCHANGED <<evalRows, engineLock, moment>>

\* family_verdict: no positive unblocked, the controls within the ceiling.
family_verdict(failing) == failing \subseteq Controls /\ Cardinality(failing) <= Ceiling

\* One call of the slice's runner, the checkpoint before it passed.
Repeat ==
  /\ Doing0("repeat") /\ evalCmd.repeat < Repeats(evalCmd) /\ moment < evalCmd.end
  /\ \E failing \in SUBSET Counted(TheSet) :
       evalCmd' = [evalCmd EXCEPT !.at = "ran", !.failing = @ \cup failing]
  /\ Steady /\ UNCHANGED <<evalRows, engineLock, moment, evalSlips>>

\* Mutant: a repeat that ended past the window counts.
KeptAlways ==
  /\ Doing0("ran")
  /\ evalCmd' = [evalCmd EXCEPT !.at = "repeat", !.repeat = @ + 1, !.last = moment]
  /\ Steady /\ UNCHANGED <<evalRows, engineLock, moment, evalSlips>>

\* The checkpoint after it: the repeat counts only inside the window.
Kept ==
  /\ Doing0("ran") /\ moment < evalCmd.end
  /\ evalCmd' = [evalCmd EXCEPT !.at = "repeat", !.repeat = @ + 1, !.last = moment]
  /\ Steady /\ UNCHANGED <<evalRows, engineLock, moment, evalSlips>>

\* The window ends before or in a repeat: the run is partial, and only a decision keeps
\* the repeats it completed.
Overruns ==
  /\ \/ Doing0("repeat") /\ evalCmd.repeat < Repeats(evalCmd)
     \/ Doing0("ran")
  /\ moment >= evalCmd.end
  /\ evalCmd' = [evalCmd EXCEPT !.at = "compare", !.partial = TRUE,
                   !.failing = IF Pairs(evalCmd) /\ evalCmd.repeat > 0 THEN @ ELSE {}]
  /\ Steady /\ UNCHANGED <<evalRows, engineLock, moment, evalSlips>>

\* What the run's results cover: nothing of a partial run but a decision's.
ResultsOf(c) == IF c.partial /\ (c.repeat = 0 \/ ~Pairs(c)) THEN {} ELSE Counted(TheSet)

\* A slice that reaches nothing on the box keeps no reference.
Comparison ==
  IF surface = "file" THEN "none" ELSE compare_reference(TheSet, ResultsOf(evalCmd), evalCmd.failing)

\* The comparison with the reference, and with the comparand for a decision.
Compares ==
  /\ Doing0("compare") \/ (Doing0("repeat") /\ evalCmd.repeat = Repeats(evalCmd))
  /\ \E loses \in BOOLEAN :
       /\ loses => Pairs(evalCmd)
       /\ evalCmd' = [evalCmd EXCEPT !.at = "record", !.loses = loses, !.comparison = Comparison]
  /\ Steady /\ UNCHANGED <<evalRows, engineLock, moment, evalSlips>>

Bounds == evalCmd.repeat > 0 /\ family_verdict(evalCmd.failing)

recorded_verdict ==
  Bounds /\ evalCmd.comparison # "regressed" /\ ~evalCmd.loses /\ ~evalCmd.partial

\* `tagged`: the checkout was clean, at the commit its release's tag names.
RunRow(tagged) ==
  [side |-> evalCmd.side, pairs |-> evalCmd.pairs, product |-> product, tagged |-> tagged,
   version |-> TheSet.version, digest |-> TheSet.digest, partial |-> evalCmd.partial,
   counted |-> ResultsOf(evalCmd), failing |-> evalCmd.failing, verdict |-> recorded_verdict,
   inside |-> evalCmd.last < evalCmd.end]

\* _record writes the run row and its results in one transaction.
RowWritten ==
  /\ evalCmd.supplied = {}
  /\ \E tagged \in BOOLEAN : evalRows' = Append(evalRows, RunRow(tagged))
  /\ evalCmd' = [evalCmd EXCEPT !.at = "gate", !.written = TRUE, !.ok = TRUE]
  /\ UNCHANGED evalSlips

\* The held row of a set outside the release, or of a slice whose run found no database: the
\* record is skipped and the stage succeeds.
RowSkipped ==
  /\ \/ evalCmd.supplied # {} /\ UNCHANGED evalSlips
     \/ surface = "file" /\ Trip
  /\ evalCmd' = [evalCmd EXCEPT !.at = "gate", !.written = FALSE, !.ok = TRUE]
  /\ UNCHANGED evalRows

RowLost ==
  /\ evalCmd.supplied = {} /\ Trip
  /\ evalCmd' = [evalCmd EXCEPT !.at = "gate", !.written = FALSE, !.ok = FALSE]
  /\ UNCHANGED evalRows

Records ==
  /\ Doing0("record")
  /\ RowWritten \/ RowSkipped \/ RowLost
  /\ Steady /\ UNCHANGED <<engineLock, moment>>

gate_ok ==
  /\ Bounds /\ ~evalCmd.partial /\ ~evalCmd.loses
  /\ evalCmd.comparison \notin {"regressed", "other-version", "malformed"}

Gates ==
  /\ Doing0("gate")
  /\ evalCmd' = NextPass(evalCmd, IF gate_ok /\ evalCmd.ok THEN 0 ELSE 1)
  /\ Steady /\ UNCHANGED <<evalRows, engineLock, moment, evalSlips>>

\* The claim goes back, whatever happened.
ReleasesLock ==
  /\ evalCmd.op = "run" /\ evalCmd.at = "finally"
  /\ engineLock' = IF evalCmd.claimed THEN "free" ELSE engineLock
  /\ evalCmd' = NoCmd /\ moment' = 0
  /\ Steady /\ UNCHANGED <<evalRows, evalSlips>>

\* A kill at any point; the lock goes with the process.
Killed ==
  /\ evalCmd # NoCmd /\ Trip
  /\ engineLock' = IF engineLock = "ours" THEN "free" ELSE engineLock
  /\ evalCmd' = NoCmd /\ moment' = 0
  /\ Steady /\ UNCHANGED evalRows

-----------------------------------------------------------------------------
(* eval reference --run. *)

RefCmd(i) == [op |-> "reference", at |-> "check", row |-> i, left |-> DOMAIN Lists]

AsksReference ==
  /\ evalCmd = NoCmd
  /\ \E i \in DOMAIN evalRows : evalRows[i].counted # {} /\ evalCmd' = RefCmd(i)
  /\ Steady /\ UNCHANGED <<evalRows, engineLock, moment, evalSlips>>

\* The row is clean and its own release's tag names its commit, it carries no overrides, it
\* is of a slice that keeps a reference, of the loaded set's version and digest, and complete.
RowFits(r) ==
  /\ load_set(evalSet) /\ r.tagged /\ r.side = "none" /\ surface # "file"
  /\ r.version = evalSet.version /\ ~r.partial /\ r.digest = evalSet.digest
  /\ r.counted \cap Unsigned(evalSet) = {}

\* Mutant: a regression is accepted.
_check_regressed(r) ==
  RowFits(r) /\ compare_reference(evalSet, r.counted, r.failing) # "malformed"

\* A row that fits, the slice's reference readable and no case of it regressed.
_check(r) ==
  RowFits(r) /\ compare_reference(evalSet, r.counted, r.failing) \notin {"malformed", "regressed"}

Checks ==
  /\ evalCmd.op = "reference" /\ evalCmd.at = "check"
  /\ evalCmd' = IF _check(evalRows[evalCmd.row]) THEN [evalCmd EXCEPT !.at = "write"] ELSE NoCmd
  /\ Steady /\ UNCHANGED <<evalRows, engineLock, moment, evalSlips>>

FileOf(r, l) ==
  [version |-> r.version, digest |-> r.digest, product |-> r.product, verdict |-> r.verdict,
   counted |-> r.counted \cap Lists[l], failing |-> r.failing \cap Lists[l]]

\* _write: one list's file after another, in the lists' order.
WritesList ==
  /\ evalCmd.op = "reference" /\ evalCmd.at = "write" /\ evalCmd.left # {}
  /\ LET l == Min(evalCmd.left)
     IN  /\ reference' = [reference EXCEPT ![l] = FileOf(evalRows[evalCmd.row], l)]
         /\ evalCmd' = [evalCmd EXCEPT !.left = @ \ {l}]
  /\ UNCHANGED <<evalSet, surface, product, committed, evalRows, engineLock, moment, evalSlips>>

\* The command ends; the files are committed with the release.
Wrote ==
  /\ evalCmd.op = "reference" /\ evalCmd.at = "write" /\ evalCmd.left = {}
  /\ evalCmd' = NoCmd /\ committed' = reference
  /\ UNCHANGED <<evalSet, surface, product, reference, evalRows, engineLock, moment, evalSlips>>

\* The fix of a torn reference: every file from the release checkout.
RestoresReference ==
  /\ evalCmd = NoCmd /\ reference # committed
  /\ reference' = committed
  /\ UNCHANGED <<evalSet, surface, product, committed, evalRows, engineLock, moment, evalCmd, evalSlips>>

-----------------------------------------------------------------------------
(* The rest of the box. *)

Tick ==
  /\ evalCmd.op = "run" /\ moment < MaxClock /\ moment' = moment + 1
  /\ Steady /\ UNCHANGED <<evalRows, engineLock, evalCmd, evalSlips>>

\* Another holder of the engine lock: a verify, a turns run, another evaluation.
OtherTakes ==
  /\ engineLock = "free" /\ evalSlips > 0 /\ evalCmd.at \in {"load", "window", "lock"}
  /\ engineLock' = "other" /\ evalSlips' = evalSlips - 1
  /\ Steady /\ UNCHANGED <<evalRows, moment, evalCmd>>

OtherReleases ==
  /\ engineLock = "other" /\ engineLock' = "free"
  /\ Steady /\ UNCHANGED <<evalRows, moment, evalCmd, evalSlips>>

\* The checkout moves to another release, which may carry another set.
Moves ==
  /\ evalCmd = NoCmd /\ evalRows # <<>> /\ product < 2 /\ product' = product + 1
  /\ evalSet' \in {s \in Sets : s.version >= evalSet.version}
  /\ UNCHANGED <<surface, reference, committed, evalRows, engineLock, moment, evalCmd, evalSlips>>

-----------------------------------------------------------------------------

EvalInit ==
  /\ evalSet \in Sets /\ surface \in {"engine", "box", "file"} /\ product = 1
  /\ reference = [l \in DOMAIN Lists |-> NoFile] /\ committed = reference
  /\ evalRows = <<>> /\ engineLock = "free" /\ moment = 0
  /\ evalCmd = NoCmd
  /\ evalSlips = MaxSlips

RunStep == \/ Flags \/ Loads \/ Judges \/ TakesLock \/ LockHeld \/ GivesUp \/ Targets \/ Repeat
           \/ Kept \/ Overruns \/ Compares \/ Records \/ Gates \/ ReleasesLock
           \/ Checks \/ WritesList \/ Wrote

EvalNext == \/ RunStep \/ Asks \/ AsksReference \/ Killed \/ RestoresReference \/ Tick
            \/ OtherTakes \/ OtherReleases \/ Moves

EvalFairness == WF_evalVars(RunStep) /\ WF_evalVars(Tick)

EvalSpec == EvalInit /\ [][EvalNext]_evalVars /\ EvalFairness

-----------------------------------------------------------------------------
(* Properties. *)

Whole(files) == /\ \A l \in DOMAIN Lists : files[l] # NoFile
                /\ \A l, k \in DOMAIN Lists : Header(files[l]) = Header(files[k])

FilesPassed(files) == UNION {Passed(files[l]) : l \in DOMAIN Lists}
FilesFailed(files) == UNION {files[l].failing : l \in DOMAIN Lists}

\* Whatever kills, torn writes, restores, new releases and new sets come between, a case
\* the committed reference of a set version holds as passing is not held as failing by
\* the next committed reference of that version: the ratchet only tightens.
RatchetKept ==
  [][Whole(committed) /\ Whole(committed') /\ committed[1].version = committed'[1].version
       => FilesPassed(committed) \cap FilesFailed(committed') = {}]_evalVars

\* A command whose last pass exits 0 counted a complete run whose last repeat ended inside
\* the window it started in, against a reference that was not torn by a killed write and
\* holds none of the run's failures as passing; and the record's last row says so, unless the
\* set came from outside the release or the slice reaches nothing on the box.
PassTrusted ==
  evalCmd.op = "run" /\ evalCmd.at = "finally" /\ evalCmd.codes[Len(evalCmd.codes)] = 0 =>
    /\ ~evalCmd.partial /\ evalCmd.last < evalCmd.end
    /\ \/ surface = "file" \/ Present = {}
       \/ Whole(reference) /\ FilesPassed(reference) \cap evalCmd.failing = {}
    /\ IF evalCmd.written
       THEN LET r == evalRows[Len(evalRows)]
            IN  r.verdict /\ ~r.partial /\ r.inside /\ r.failing = evalCmd.failing
       ELSE evalCmd.supplied # {} \/ surface = "file"

\* The pairs `proposals` pools: a challenger's row names the complete release row of its
\* own command, over the same release and the same set.
PairsWhole ==
  \A i \in DOMAIN evalRows :
    evalRows[i].side = "challenger" =>
      LET p == evalRows[i].pairs
      IN  /\ p \in 1..(i - 1) /\ evalRows[p].side = "release" /\ ~evalRows[p].partial
          /\ evalRows[p].product = evalRows[i].product /\ evalRows[p].digest = evalRows[i].digest

\* What the record of runs says can be relied on: by the gate, and by the pooled nights.
RowsTrusted == PassTrusted /\ PairsWhole

\* Every command ends, a nightly behind a holder that never lets go too, and leaves the
\* engine lock to others.
CommandEnds == (evalCmd # NoCmd) ~> (evalCmd = NoCmd /\ engineLock # "ours")

\* Commands come and go, and the committed reference never slackens.
CommandsSound == RatchetKept /\ CommandEnds
=============================================================================

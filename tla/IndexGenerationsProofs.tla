----------------------- MODULE IndexGenerationsProofs -----------------------
(***************************************************************************)
(* Proofs about the index generations, for any set of generations, any     *)
(* hold and any number of commands, failures, crashes and restores.        *)
(*                                                                         *)
(* The argument is per row.  Every statement of GenerationRecord maps a    *)
(* legal row to a legal row (RowOK), and all but the flip bring no row to  *)
(* life (Tame).  A restore puts back a record a backup once read, so the   *)
(* invariant is kept of the backed-up rows too.                            *)
(*                                                                         *)
(* The second half is about the stores.  What gc reads ahead and what a    *)
(* restore levels hold always.  That stores are as the record says, that   *)
(* a turn's generation is kept and that promote's checks still hold at     *)
(* the flip is true until the first restore, which puts back a record the  *)
(* stores may not match until they are levelled.                           *)
(*                                                                         *)
(* The last part is about the worker's other job.  A caselaw job that ends *)
(* in success leaves every opinion of its court settled whole under its    *)
(* pipeline: it holds the court until it has closed, and no other job can  *)
(* touch a row it has passed or has yet to reach.                          *)
(***************************************************************************)
EXTENDS IndexGenerations, CaselawIngest, FiniteSetTheorems, TLAPS

RowOK(r) == r \in Row /\ RowChecks(r)

\* What every statement but the flip does to a row.
Tame(r, new) ==
  /\ RowOK(new)
  /\ new.state = "live" => r.state = "live"
  /\ r.state = "retired" => new.state = "retired"

\* The host's statements are tame under the conditions their callers check.
LEMMA HostStatements ==
  ASSUME NEW r, RowOK(r)
  PROVE  /\ Tame(r, r)
         /\ Tame(r, write_building(r))
         /\ Tame(r, write_footprint(r))
         /\ \A verdict \in Report : Tame(r, write_report(r, verdict))
         /\ r.state = "live" => Tame(r, retired_by_flip(r))
         /\ \A short \in SUBSET Half : Demotable(r) /\ short # {} => Tame(r, demote_generation(r, short))
         /\ Retirable(r) => Tame(r, retire_generation(r))
<1> USE DEF RowOK, Tame, Row, RowChecks, Half, State, Report
<1>1. Tame(r, r)
  OBVIOUS
<1>2. Tame(r, write_building(r))
  BY ZenonT(60) DEF write_building, Recorded, NoRow
<1>3. Tame(r, write_footprint(r))
  BY DEF write_footprint
<1>4. ASSUME NEW verdict \in Report PROVE Tame(r, write_report(r, verdict))
  BY DEF write_report
<1>5. ASSUME r.state = "live" PROVE Tame(r, retired_by_flip(r))
  BY <1>5 DEF retired_by_flip
<1>6. ASSUME NEW short \in SUBSET Half, Demotable(r), short # {}
      PROVE  Tame(r, demote_generation(r, short))
  BY <1>6 DEF demote_generation, Demotable
<1>7. ASSUME Retirable(r) PROVE Tame(r, retire_generation(r))
  BY <1>7 DEF retire_generation, Retirable
<1>8. QED
  BY <1>1, <1>2, <1>3, <1>4, <1>5, <1>6, <1>7

\* The worker's statements are tame whatever state they find the row in.
LEMMA WorkerStatements ==
  ASSUME NEW r, RowOK(r)
  PROVE  /\ Tame(r, resume(r))
         /\ Tame(r, fail(r))
         /\ Tame(r, progress(r))
         /\ \A limited \in BOOLEAN : Tame(r, start(r, limited))
         /\ \A h : Tame(r, finish(r, h))
<1> USE DEF RowOK, Tame, Row, RowChecks, State
<1>1. Tame(r, resume(r))
  BY DEF resume
<1>2. Tame(r, fail(r)) /\ Tame(r, progress(r))
  BY DEF fail, progress
<1>3. ASSUME NEW limited \in BOOLEAN PROVE Tame(r, start(r, limited))
  BY DEF start
<1>4. ASSUME NEW h PROVE Tame(r, finish(r, h))
  <2> DEFINE both == \A x \in Half \ {h} : r.at[x]
             new == [r.at EXCEPT ![h] = TRUE]
  <2>1. new \in [Half -> BOOLEAN] /\ both \in BOOLEAN /\ (both <=> \A x \in Half : new[x])
    OBVIOUS
  <2>2. finish(r, h) = [r EXCEPT !.at = new, !.builtAt = both,
                          !.counted = r.counted \/ h = "lexical",
                          !.state = IF r.state = "building" /\ both THEN "built" ELSE r.state]
    BY DEF finish
  <2> HIDE DEF new, both
  <2> DEFINE after == IF r.state = "building" /\ both THEN "built" ELSE r.state
  <2>3. /\ after \in State
        /\ after = "failed" <=> r.state = "failed"
        /\ after = "live" <=> r.state = "live"
        /\ after = "retired" <=> r.state = "retired"
    OBVIOUS
  <2> HIDE DEF after
  <2>4. finish(r, h) \in Row
    BY <2>1, <2>2, <2>3 DEF after
  <2>5. /\ finish(r, h).state = after /\ finish(r, h).at = new /\ finish(r, h).builtAt = both
        /\ finish(r, h).reason = r.reason /\ finish(r, h).promotedAt = r.promotedAt
        /\ finish(r, h).retiredAt = r.retiredAt
    BY <2>2 DEF after
  <2>6. QED
    BY <2>1, <2>3, <2>4, <2>5
<1>5. QED
  BY <1>1, <1>2, <1>3, <1>4

\* The flip makes a legal row live.
LEMMA FlippedRow ==
  ASSUME NEW r, RowOK(r), Promotable(r)
  PROVE  RowOK(flipped(r)) /\ flipped(r).state = "live"
  BY DEF RowOK, Row, RowChecks, State, Half, flipped, Promotable

-----------------------------------------------------------------------------
(* Type correctness: first what each kind of update yields. *)

JobsType == [Gen -> [Kind -> JobStatus]]
BodiesType == [Gen -> [Kind -> [Slot -> BodyStep]]]
StoresType == [Half -> [Gen -> Content]]

\* Every statement yields a row.
LEMMA StatementTypes ==
  ASSUME NEW r \in Row
  PROVE  /\ write_building(r) \in Row
         /\ write_footprint(r) \in Row
         /\ \A verdict \in Report : write_report(r, verdict) \in Row
         /\ retired_by_flip(r) \in Row
         /\ flipped(r) \in Row
         /\ \A short \in SUBSET Half : demote_generation(r, short) \in Row
         /\ retire_generation(r) \in Row
         /\ resume(r) \in Row
         /\ fail(r) \in Row
         /\ progress(r) \in Row
         /\ \A limited \in BOOLEAN : start(r, limited) \in Row
         /\ \A h : finish(r, h) \in Row
<1> USE DEF Row, State, Half, Report
<1>1. write_building(r) \in Row
  BY ZenonT(60) DEF write_building, NoRow, Recorded
<1>2. write_footprint(r) \in Row /\ \A verdict \in Report : write_report(r, verdict) \in Row
  BY DEF write_footprint, write_report
<1>3. retired_by_flip(r) \in Row /\ flipped(r) \in Row /\ retire_generation(r) \in Row
  BY DEF retired_by_flip, flipped, retire_generation
<1>4. ASSUME NEW short \in SUBSET Half PROVE demote_generation(r, short) \in Row
  BY DEF demote_generation
<1>5. resume(r) \in Row
  BY ZenonT(60) DEF resume
<1>6. fail(r) \in Row
  BY ZenonT(60) DEF fail
<1>7. progress(r) \in Row
  BY DEF progress
<1>8. ASSUME NEW limited \in BOOLEAN PROVE start(r, limited) \in Row
  BY DEF start
<1>9. ASSUME NEW h PROVE finish(r, h) \in Row
  <2> DEFINE both == \A x \in Half \ {h} : r.at[x]
  <2>1. [r.at EXCEPT ![h] = TRUE] \in [Half -> BOOLEAN]
    OBVIOUS
  <2>2. both \in BOOLEAN /\ (IF r.state = "building" /\ both THEN "built" ELSE r.state) \in State
    OBVIOUS
  <2>3. QED
    BY <2>1, <2>2, ZenonT(60) DEF finish
<1>10. QED
  BY <1>1, <1>2, <1>3, <1>4, <1>5, <1>6, <1>7, <1>8, <1>9

LEMMA RowsUpdate ==
  ASSUME NEW rs \in [Gen -> Row], NEW g, NEW new, g \in Gen => new \in Row
  PROVE  [rs EXCEPT ![g] = new] \in [Gen -> Row]
  OBVIOUS

LEMMA JobsUpdate ==
  ASSUME NEW js \in JobsType, NEW g, NEW k, NEW status \in JobStatus
  PROVE  [js EXCEPT ![g][k] = status] \in JobsType
  BY DEF JobsType

LEMMA BodiesUpdate ==
  ASSUME NEW bs \in BodiesType, NEW g \in Gen, NEW k \in Kind, NEW s \in Slot, NEW step \in BodyStep
  PROVE  [bs EXCEPT ![g][k][s] = step] \in BodiesType
  BY DEF BodiesType

LEMMA StoresUpdate ==
  ASSUME NEW ss \in StoresType, NEW h, NEW g, NEW content \in Content
  PROVE  [ss EXCEPT ![h][g] = content] \in StoresType
  BY DEF StoresType

LEMMA Constants ==
  /\ NoCmd \in CmdType
  /\ NoRst \in RstType
  /\ NoTurn \in TurnType
  /\ NoSnap \in SnapType
  /\ EmptyStores \in StoresType
  /\ [g \in Gen |-> [k \in Kind |-> [s \in Slot |-> "idle"]]] \in BodiesType
<1>1. EmptyStores \in StoresType
  BY DEF EmptyStores, StoresType, Content
<1>2. NoCmd \in CmdType
  BY DEF NoCmd, CmdType, Kind
<1>3. NoRst \in RstType
  BY <1>1 DEF NoRst, RstType, StoresType
<1>4. NoTurn \in TurnType
  BY DEF NoTurn, TurnType
<1>5. NoRow \in Row
  BY DEF NoRow, Row, State, Half, Report
<1>6. NoSnap \in SnapType
  BY <1>1, <1>5 DEF NoSnap, SnapType, StoresType, JobStatus
<1>7. [g \in Gen |-> [k \in Kind |-> [s \in Slot |-> "idle"]]] \in BodiesType
  BY DEF BodiesType, BodyStep
<1>8. QED
  BY <1>1, <1>2, <1>3, <1>4, <1>6, <1>7

LEMMA SpentUpdate ==
  ASSUME NEW sp \in SpentType
  PROVE  /\ [sp EXCEPT !.commands = @ + 1] \in SpentType
         /\ [sp EXCEPT !.stops = @ + 1] \in SpentType
         /\ [sp EXCEPT !.fails = @ + 1] \in SpentType
         /\ [sp EXCEPT !.crashes = @ + 1] \in SpentType
         /\ [sp EXCEPT !.stalls = @ + 1] \in SpentType
         /\ [sp EXCEPT !.backups = @ + 1] \in SpentType
         /\ [sp EXCEPT !.restores = @ + 1] \in SpentType
  BY DEF SpentType

LEMMA BeginTypes ==
  ASSUME TypeOK, NEW command \in CmdType, Begin(command)
  PROVE  cmd' \in CmdType /\ spent' \in SpentType
  BY SpentUpdate DEF TypeOK, Begin

LEMMA JobEndsTypes ==
  ASSUME TypeOK, NEW g \in Gen, NEW k \in Kind, NEW result \in JobStatus, JobEnds(g, k, result)
  PROVE  job' \in JobsType
<1>1. "none" \in JobStatus
  BY DEF JobStatus
<1>2. (IF Polled(g, k) THEN result ELSE "none") \in JobStatus
  BY <1>1
<1>3. [job EXCEPT ![g][k] = IF Polled(g, k) THEN result ELSE "none"] \in JobsType
  BY <1>2, JobsUpdate DEF TypeOK, JobsType
<1>4. QED
  BY <1>3 DEF TypeOK, JobEnds, JobsType

LEMMA PointTypes ==
  ASSUME TypeOK, NEW h \in Half, NEW g \in Gen, NEW seen
  PROVE  point_alias(h, g, seen) \in [Half -> SUBSET Gen]
  BY DEF TypeOK, point_alias

LEMMA TypeInit == Init => TypeOK
<1> SUFFICES ASSUME Init PROVE TypeOK
  OBVIOUS
<1>1. rows \in [Gen -> Row] /\ job \in JobsType
  BY DEF Init, NoRow, Row, State, Half, Report, JobsType, JobStatus
<1>2. age \in [Gen -> 0..Hold]
  BY HoldAssumption DEF Init
<1>3. spent \in SpentType
  BY DEF Init, SpentType
<1>4. QED
  BY <1>1, <1>2, <1>3, Constants DEF Init, TypeOK, JobsType, BodiesType, StoresType

\* The command's generation is one, which TypeOK alone does not say.
CommandNames == cmd.op \in {"build", "promote", "retire"} => cmd.gen \in Gen

TypeInv == TypeOK /\ CommandNames

\* A step that leaves cmd alone, or starts none, keeps CommandNames.
LEMMA CommandNamesKept ==
  ASSUME TypeInv, cmd' \in CmdType,
         \/ cmd' = NoCmd
         \/ cmd'.op = cmd.op /\ cmd'.gen = cmd.gen
         \/ cmd'.gen \in Gen
         \/ cmd'.op = "gc"
  PROVE  CommandNames'
  BY DEF TypeInv, CommandNames, NoCmd

LEMMA CommandTypes ==
  ASSUME TypeInv, Commands
  PROVE  TypeInv'
<1> USE DEF TypeInv, TypeOK
<1>1. ASSUME NEW g \in Gen, BuildStart(g) PROVE TypeInv'
  <2>1. [NoCmd EXCEPT !.op = "build", !.gen = g, !.pc = "defer"] \in CmdType
    BY Constants DEF CmdType
  <2>2. cmd' \in CmdType /\ spent' \in SpentType
    BY <1>1, <2>1, BeginTypes DEF BuildStart
  <2>3. rows' \in [Gen -> Row]
    BY <1>1, StatementTypes, RowsUpdate DEF BuildStart
  <2>4. cmd'.gen \in Gen
    BY <1>1, Constants DEF BuildStart, Begin, CmdType
  <2>5. QED
    BY <1>1, <2>2, <2>3, <2>4, CommandNamesKept DEF BuildStart
<1>2. ASSUME NEW g \in Gen, FinishStart(g) PROVE TypeInv'
  <2>1. [NoCmd EXCEPT !.op = "build", !.gen = g, !.pc = "finish"] \in CmdType
    BY Constants DEF CmdType
  <2>2. cmd' \in CmdType /\ spent' \in SpentType
    BY <1>2, <2>1, BeginTypes DEF FinishStart
  <2>3. cmd'.gen \in Gen
    BY <1>2, Constants DEF FinishStart, Begin, CmdType
  <2>4. QED
    BY <1>2, <2>2, <2>3, CommandNamesKept DEF FinishStart
<1>3. ASSUME NEW g \in Gen, PromoteStart(g) PROVE TypeInv'
  <2>1. /\ [NoCmd EXCEPT !.op = "promote", !.gen = g, !.pc = "gates", !.seen = alias] \in CmdType
        /\ [NoCmd EXCEPT !.op = "promote", !.gen = g, !.pc = "lexical", !.seen = alias] \in CmdType
    BY Constants DEF CmdType
  <2>2. cmd' \in CmdType /\ spent' \in SpentType
    BY <1>3, <2>1, BeginTypes DEF PromoteStart
  <2>3. cmd'.gen \in Gen
    BY <1>3, Constants DEF PromoteStart, Begin, CmdType
  <2>4. QED
    BY <1>3, <2>2, <2>3, CommandNamesKept DEF PromoteStart
<1>4. ASSUME NEW g \in Gen, RetireStart(g) PROVE TypeInv'
  <2>1. [NoCmd EXCEPT !.op = "retire", !.gen = g, !.pc = "retire"] \in CmdType
    BY Constants DEF CmdType
  <2>2. cmd' \in CmdType /\ spent' \in SpentType
    BY <1>4, <2>1, BeginTypes DEF RetireStart
  <2>3. cmd'.gen \in Gen
    BY <1>4, Constants DEF RetireStart, Begin, CmdType
  <2>4. QED
    BY <1>4, <2>2, <2>3, CommandNamesKept DEF RetireStart
<1>5. ASSUME NEW g \in Gen, GcDrop(g) PROVE TypeInv'
  <2>1. cmd' \in CmdType /\ (cmd' = NoCmd \/ cmd'.op = "gc")
    <3>1. \/ cmd' = [cmd EXCEPT !.left = @ \ {g}]
          \/ cmd' = [cmd EXCEPT !.pc = "dense", !.left = cmd.drop]
          \/ cmd' = NoCmd
      BY <1>5 DEF GcDrop
    <3>2. cmd.op = "gc"
      BY <1>5 DEF GcDrop
    <3>3. [cmd EXCEPT !.left = @ \ {g}] \in CmdType
      BY DEF CmdType
    <3>4. [cmd EXCEPT !.pc = "dense", !.left = cmd.drop] \in CmdType
      BY DEF CmdType
    <3>5. QED
      BY <3>1, <3>2, <3>3, <3>4, Constants DEF CmdType
  <2>2. store' \in StoresType
    BY <1>5, StoresUpdate DEF GcDrop, Content, StoresType
  <2>3. alias' \in [Half -> SUBSET Gen]
    BY <1>5 DEF GcDrop
  <2>4. QED
    BY <1>5, <2>1, <2>2, <2>3, CommandNamesKept DEF GcDrop, StoresType
<1>6. ASSUME BuildDefer PROVE TypeInv'
  <2>1. cmd' \in CmdType /\ cmd'.op = cmd.op /\ cmd'.gen = cmd.gen
    BY <1>6 DEF BuildDefer, CmdType
  <2>2. job' \in JobsType
    BY <1>6, JobsUpdate DEF BuildDefer, JobStatus, JobsType
  <2>3. QED
    BY <1>6, <2>1, <2>2, CommandNamesKept DEF BuildDefer, JobsType
<1>7. ASSUME BuildPoll PROVE TypeInv'
  <2>1. /\ NextStage(cmd.kind)[1] \in Kind
        /\ NextStage(cmd.kind)[2] \in {"defer", "built"}
    BY DEF NextStage, CmdType, Kind
  <2>2. cmd' \in CmdType /\ cmd'.op = cmd.op /\ cmd'.gen = cmd.gen
    BY <1>7, <2>1 DEF BuildPoll, CmdType
  <2>3. job' \in JobsType
    BY <1>7, JobsUpdate DEF BuildPoll, JobStatus, JobsType
  <2>4. QED
    BY <1>7, <2>2, <2>3, CommandNamesKept DEF BuildPoll, JobsType
<1>8. ASSUME BuildBuilt PROVE TypeInv'
  <2>1. cmd' \in CmdType /\ cmd'.op = cmd.op /\ cmd'.gen = cmd.gen
    BY <1>8 DEF BuildBuilt, CmdType
  <2>2. rows' \in [Gen -> Row]
    BY <1>8, StatementTypes, RowsUpdate DEF BuildBuilt
  <2>3. QED
    BY <1>8, <2>1, <2>2, CommandNamesKept DEF BuildBuilt
<1>9. ASSUME BuildFinish PROVE TypeInv'
  <2>1. PICK verdict \in Report : rows' = [rows EXCEPT ![cmd.gen] = write_report(@, verdict)]
    BY <1>9 DEF BuildFinish, Report
  <2>2. rows' \in [Gen -> Row]
    BY <2>1, StatementTypes, RowsUpdate
  <2>3. QED
    BY <1>9, <2>2, Constants, CommandNamesKept DEF BuildFinish
<1>10. ASSUME PromoteGates PROVE TypeInv'
  <2>1. cmd' \in CmdType /\ cmd'.op = cmd.op /\ cmd'.gen = cmd.gen
    BY <1>10 DEF PromoteGates, CmdType
  <2>2. QED
    BY <1>10, <2>1, CommandNamesKept DEF PromoteGates
<1>11. ASSUME PromoteFlip PROVE TypeInv'
  <2>1. cmd' \in CmdType /\ cmd'.op = cmd.op /\ cmd'.gen = cmd.gen
    BY <1>11 DEF PromoteFlip, CmdType
  <2>2. rows' \in [Gen -> Row]
    BY <1>11, StatementTypes DEF PromoteFlip, promote_generation
  <2>3. age' \in [Gen -> 0..Hold]
    BY <1>11, HoldAssumption DEF PromoteFlip
  <2>4. QED
    BY <1>11, <2>1, <2>2, <2>3, CommandNamesKept DEF PromoteFlip
<1>12. ASSUME PromotePoint PROVE TypeInv'
  <2>1. cmd.gen \in Gen /\ cmd.pc \in Half
    BY <1>12 DEF PromotePoint, CommandNames
  <2>2. alias' \in [Half -> SUBSET Gen]
    BY <1>12, <2>1, PointTypes DEF PromotePoint
  <2>3. cmd' \in CmdType /\ (cmd' = NoCmd \/ (cmd'.op = cmd.op /\ cmd'.gen = cmd.gen))
    <3>1. CASE cmd.pc = "lexical"
      <4>1. cmd' = [cmd EXCEPT !.pc = "dense"]
        BY <1>12, <3>1 DEF PromotePoint
      <4>2. cmd \in CmdType
        OBVIOUS
      <4>3. [cmd EXCEPT !.pc = "dense"] \in CmdType
        BY <4>2 DEF CmdType
      <4>4. QED
        BY <4>1, <4>2, <4>3 DEF CmdType
    <3>2. CASE cmd.pc # "lexical"
      BY <1>12, <3>2, Constants DEF PromotePoint
    <3>3. QED
      BY <3>1, <3>2
  <2>4. QED
    BY <1>12, <2>2, <2>3, CommandNamesKept DEF PromotePoint
<1>13. ASSUME RetireWrite PROVE TypeInv'
  <2>1. rows' \in [Gen -> Row]
    BY <1>13, StatementTypes, RowsUpdate DEF RetireWrite
  <2>2. age' \in [Gen -> 0..Hold]
    <3>1. 0 \in 0..Hold
      BY HoldAssumption
    <3>2. [age EXCEPT ![cmd.gen] = 0] \in [Gen -> 0..Hold]
      BY <3>1
    <3>3. QED
      BY <1>13, <3>2 DEF RetireWrite
  <2>3. QED
    BY <1>13, <2>1, <2>2, Constants, CommandNamesKept DEF RetireWrite
<1>14. ASSUME GcStart PROVE TypeInv'
  <2> DEFINE sweep == [NoCmd EXCEPT !.op = "gc", !.pc = "lexical",
                                    !.drop = GcCandidates, !.left = GcCandidates]
  <2>1. sweep \in CmdType /\ sweep.op = "gc"
    BY Constants DEF CmdType, GcCandidates
  <2>2. Begin(sweep)
    BY <1>14 DEF GcStart
  <2>3. cmd' = sweep /\ cmd' \in CmdType /\ spent' \in SpentType
    BY <2>1, <2>2, BeginTypes DEF Begin
  <2>4. QED
    BY <1>14, <2>1, <2>3, CommandNamesKept DEF GcStart
<1>15. ASSUME CommandStops PROVE TypeInv'
  <2>1. spent' \in SpentType
    BY <1>15, SpentUpdate DEF CommandStops
  <2>2. job' \in JobsType
    BY <1>15, JobsUpdate DEF CommandStops, JobStatus, JobsType
  <2>3. QED
    BY <1>15, <2>1, <2>2, Constants, CommandNamesKept DEF CommandStops, JobsType
<1>16. QED
  BY <1>1, <1>2, <1>3, <1>4, <1>5, <1>6, <1>7, <1>8, <1>9, <1>10, <1>11, <1>12, <1>13,
     <1>14, <1>15 DEF Commands

LEMMA WorkerTypes ==
  ASSUME TypeInv, Worker
  PROVE  TypeInv'
<1> USE DEF TypeInv, TypeOK
<1>1. ASSUME NEW g \in Gen, NEW k \in Kind, NEW s \in Slot, JobStart(g, k, s) PROVE TypeInv'
  <2>1. "doing" \in JobStatus /\ "failed" \in JobStatus
    BY DEF JobStatus
  <2>2. "read" \in BodyStep /\ "readFailed" \in BodyStep
    BY DEF BodyStep
  <2> DEFINE step == IF rows[g].state = "failed" THEN "readFailed" ELSE "read"
  <2>3. job' \in JobsType
    <3>1. \/ job' = [job EXCEPT ![g][k] = "doing"]
          \/ JobEnds(g, k, "failed")
      BY <1>1 DEF JobStart
    <3>2. job \in JobsType
      BY DEF JobsType
    <3>3. QED
      BY <2>1, <3>1, <3>2, JobsUpdate, JobEndsTypes
  <2>4. body' \in BodiesType
    <3>1. step \in BodyStep
      BY <2>2
    <3>2. body' = [body EXCEPT ![g][k][s] = step] \/ body' = body
      BY <1>1 DEF JobStart
    <3>3. body \in BodiesType
      BY DEF BodiesType
    <3>4. QED
      BY <3>1, <3>2, <3>3, BodiesUpdate
  <2>5. QED
    BY <1>1, <2>3, <2>4, CommandNamesKept DEF JobStart, JobsType, BodiesType
<1>2. ASSUME NEW g \in Gen, NEW k \in Kind, NEW s \in Slot, BodyLock(g, k, s) PROVE TypeInv'
  <2> DEFINE read == IF body[g][k][s] = "readFailed" THEN resume(rows[g]) ELSE rows[g]
  <2>1. PICK limited \in BOOLEAN :
          /\ rows' = [rows EXCEPT ![g] = IF k = "dense" THEN start(read, limited) ELSE read]
          /\ body' = [body EXCEPT ![g][k][s] = IF limited THEN "fillLimited" ELSE "fill"]
    BY <1>2, BoundAssumption DEF BodyLock
  <2>2. read \in Row
    BY StatementTypes
  <2>3. (IF k = "dense" THEN start(read, limited) ELSE read) \in Row
    BY <2>2, StatementTypes
  <2>4. rows' \in [Gen -> Row]
    BY <2>1, <2>3
  <2>5. (IF limited THEN "fillLimited" ELSE "fill") \in BodyStep
    BY DEF BodyStep
  <2>6. body' \in BodiesType
    BY <2>1, <2>5, BodiesUpdate DEF BodiesType
  <2>7. store' \in StoresType
    BY <1>2, StoresUpdate DEF BodyLock, Content, StoresType
  <2>8. QED
    BY <1>2, <2>4, <2>6, <2>7, CommandNamesKept DEF BodyLock, StoresType, BodiesType
<1>3. ASSUME NEW g \in Gen, NEW k \in Kind, NEW s \in Slot, BodyBusy(g, k, s) PROVE TypeInv'
  <2>1. "idle" \in BodyStep /\ "failed" \in JobStatus
    BY DEF BodyStep, JobStatus
  <2>2. body' \in BodiesType /\ job' \in JobsType
    BY <1>3, <2>1, BodiesUpdate, JobEndsTypes DEF BodyBusy, BodiesType
  <2>3. QED
    BY <1>3, <2>2, CommandNamesKept DEF BodyBusy, JobsType, BodiesType
<1>4. ASSUME NEW g \in Gen, NEW k \in Kind, NEW s \in Slot, BodyFill(g, k, s) PROVE TypeInv'
  <2>1. "filled" \in BodyStep /\ "part" \in Content /\ "whole" \in Content
    BY DEF BodyStep, Content
  <2>2. body' \in BodiesType
    BY <1>4, <2>1, BodiesUpdate DEF BodyFill, BodiesType
  <2>3. store' \in StoresType
    BY <1>4, <2>1, StoresUpdate DEF BodyFill, StoresType
  <2>4. QED
    BY <1>4, <2>2, <2>3, CommandNamesKept DEF BodyFill, StoresType, BodiesType
<1>5. ASSUME NEW g \in Gen, NEW k \in Kind, NEW s \in Slot, BodyFinish(g, k, s) PROVE TypeInv'
  <2>1. "idle" \in BodyStep /\ "succeeded" \in JobStatus
    BY DEF BodyStep, JobStatus
  <2>2. body' \in BodiesType /\ job' \in JobsType
    BY <1>5, <2>1, BodiesUpdate, JobEndsTypes DEF BodyFinish, BodiesType
  <2>3. finish(rows[g], k) \in Row
    BY StatementTypes
  <2>4. rows' = [rows EXCEPT ![g] = finish(rows[g], k)] \/ rows' = rows
    BY <1>5 DEF BodyFinish
  <2>5. rows' \in [Gen -> Row]
    BY <2>3, <2>4, RowsUpdate
  <2>6. QED
    BY <1>5, <2>2, <2>5, CommandNamesKept DEF BodyFinish, JobsType, BodiesType
<1>6. ASSUME NEW g \in Gen, NEW k \in Kind, NEW s \in Slot, BodyFail(g, k, s) PROVE TypeInv'
  <2>1. "idle" \in BodyStep /\ "failed" \in JobStatus
    BY DEF BodyStep, JobStatus
  <2>2. body' \in BodiesType /\ job' \in JobsType
    BY <1>6, <2>1, BodiesUpdate, JobEndsTypes DEF BodyFail, BodiesType
  <2>3. rows' \in [Gen -> Row]
    <3>1. rows' = [rows EXCEPT ![g] = fail(rows[g])] \/ rows' = rows
      BY <1>6 DEF BodyFail
    <3>2. fail(rows[g]) \in Row
      BY StatementTypes
    <3>3. QED
      BY <3>1, <3>2, RowsUpdate
  <2>4. spent' \in SpentType
    BY <1>6, SpentUpdate DEF BodyFail
  <2>5. QED
    BY <1>6, <2>2, <2>3, <2>4, CommandNamesKept DEF BodyFail, JobsType, BodiesType
<1>7. ASSUME NEW g \in Gen, NEW k \in Kind, RetryStalled(g, k) PROVE TypeInv'
  <2>1. "todo" \in JobStatus
    BY DEF JobStatus
  <2>2. job' \in JobsType
    BY <1>7, <2>1, JobsUpdate DEF RetryStalled, JobsType
  <2>3. spent' \in SpentType
    BY <1>7, SpentUpdate DEF RetryStalled
  <2>4. QED
    BY <1>7, <2>2, <2>3, CommandNamesKept DEF RetryStalled, JobsType
<1>8. ASSUME WorkerCrash PROVE TypeInv'
  <2>1. body' \in BodiesType /\ spent' \in SpentType
    BY <1>8, Constants, SpentUpdate DEF WorkerCrash
  <2>2. QED
    BY <1>8, <2>1, CommandNamesKept DEF WorkerCrash, BodiesType
<1>9. ASSUME NEW g \in Gen, NEW s \in Slot, BodyProgress(g, s) PROVE TypeInv'
  <2>1. rows' \in [Gen -> Row]
    BY <1>9, StatementTypes, RowsUpdate DEF BodyProgress
  <2>2. QED
    BY <1>9, <2>1, CommandNamesKept DEF BodyProgress
<1>10. QED
  BY <1>1, <1>2, <1>3, <1>4, <1>5, <1>6, <1>7, <1>8, <1>9 DEF Worker

LEMMA RestoringTypes ==
  ASSUME TypeInv, Restoring
  PROVE  TypeInv'
<1> USE DEF TypeInv, TypeOK
<1>1. ASSUME BackupStores PROVE TypeInv'
  <2>1. [NoRst EXCEPT !.pc = "backup", !.store = store, !.lexical = alias["lexical"]] \in RstType
    BY Constants DEF RstType, Half
  <2>2. spent' \in SpentType
    BY <1>1, SpentUpdate DEF BackupStores
  <2>3. QED
    BY <1>1, <2>1, <2>2, CommandNamesKept DEF BackupStores
<1>2. ASSUME BackupRecord PROVE TypeInv'
  <2>1. snap' \in SnapType
    BY <1>2 DEF BackupRecord, SnapType, RstType
  <2>2. QED
    BY <1>2, <2>1, Constants, CommandNamesKept DEF BackupRecord
<1>3. ASSUME RestoreStop PROVE TypeInv'
  <2>1. [NoRst EXCEPT !.pc = "stopped"] \in RstType
    BY Constants DEF RstType
  <2>2. spent' \in SpentType /\ body' \in BodiesType
    BY <1>3, SpentUpdate, Constants DEF RestoreStop
  <2>3. QED
    BY <1>3, <2>1, <2>2, Constants, CommandNamesKept DEF RestoreStop, BodiesType
<1>4. ASSUME NEW mode, NEW toSet \in BOOLEAN, RestoreRecover(mode, toSet) PROVE TypeInv'
  <2>1. rows' \in [Gen -> Row] /\ job' \in [Gen -> [Kind -> JobStatus]]
    BY <1>4 DEF RestoreRecover, SnapType
  <2>2. store' \in [Half -> [Gen -> Content]]
    BY <1>4 DEF RestoreRecover, SnapType
  <2>3. alias' \in [Half -> SUBSET Gen]
    BY <1>4 DEF RestoreRecover, SnapType
  <2>4. rst' \in RstType
    BY <1>4 DEF RestoreRecover, RstType
  <2>5. QED
    BY <1>4, <2>1, <2>2, <2>3, <2>4, CommandNamesKept DEF RestoreRecover
<1>5. ASSUME LevelRead PROVE TypeInv'
  <2>1. PICK short \in [Gen -> SUBSET Half] :
          rst' = [NoRst EXCEPT !.pc = "demote", !.short = short,
                               !.whole = {g \in Live : short[g] = {}}, !.seen = alias]
    BY <1>5 DEF LevelRead
  <2>2. rst' \in RstType
    BY <2>1, Constants DEF RstType, Live
  <2>3. QED
    BY <1>5, <2>2, CommandNamesKept DEF LevelRead
<1>6. ASSUME NEW g \in Gen, LevelDemote(g) PROVE TypeInv'
  <2>1. rst.short[g] \in SUBSET Half
    BY DEF RstType
  <2>2. rows' \in [Gen -> Row]
    BY <1>6, <2>1, StatementTypes DEF LevelDemote
  <2>3. rst' \in RstType
    BY <1>6 DEF LevelDemote, RstType
  <2>4. QED
    BY <1>6, <2>2, <2>3, CommandNamesKept DEF LevelDemote
<1>7. ASSUME LevelPoint PROVE TypeInv'
  <2>1. rst' \in RstType
    BY <1>7, Constants DEF LevelPoint, RstType
  <2>2. alias' \in [Half -> SUBSET Gen]
    <3>1. rst.whole \subseteq Gen
      BY DEF RstType
    <3>2. "lexical" \in Half /\ "dense" \in Half
      BY DEF Half
    <3>3. CASE rst.whole = {}
      BY <1>7, <3>3 DEF LevelPoint
    <3>4. CASE rst.whole # {}
      <4>1. PICK g \in Gen, h \in Half : alias' = point_alias(h, g, rst.seen)
        BY <1>7, <3>1, <3>2, <3>4 DEF LevelPoint
      <4>2. QED
        BY <4>1, PointTypes
    <3>5. QED
      BY <3>3, <3>4
  <2>3. QED
    BY <1>7, <2>1, <2>2, CommandNamesKept DEF LevelPoint
<1>8. ASSUME RestoreStops PROVE TypeInv'
  BY <1>8, Constants, CommandNamesKept DEF RestoreStops
<1>9. ASSUME Apply PROVE TypeInv'
  BY <1>9, CommandNamesKept DEF Apply
<1>10. QED
  BY <1>1, <1>2, <1>3, <1>4, <1>5, <1>6, <1>7, <1>8, <1>9 DEF Restoring

LEMMA ServingTypes ==
  ASSUME TypeInv, Serving
  PROVE  TypeInv'
<1> USE DEF TypeInv, TypeOK
<1>1. ASSUME TurnEnd PROVE TypeInv'
  BY <1>1, Constants, CommandNamesKept DEF TurnEnd
<1>2. ASSUME Tick PROVE TypeInv'
  <2>1. turn' \in TurnType
    <3>1. turn' = turn \/ turn' = [turn EXCEPT !.days = turn.days + 1]
      BY <1>2 DEF Tick
    <3> HIDE DEF TypeOK
    <3>2. turn \in TurnType
      BY DEF TypeOK
    <3>3. turn.days + 1 \in Nat
      BY <3>2 DEF TurnType
    <3>4. [turn EXCEPT !.days = turn.days + 1] \in TurnType
      BY <3>2, <3>3 DEF TurnType
    <3>5. QED
      BY <3>1, <3>2, <3>4
  <2>2. age' \in [Gen -> 0..Hold]
    BY <1>2, HoldAssumption DEF Tick
  <2>3. QED
    BY <1>2, <2>1, <2>2, CommandNamesKept DEF Tick
<1>3. ASSUME NEW g \in Gen, TurnStart(g) PROVE TypeInv'
  <2>1. turn' \in TurnType
    BY <1>3 DEF TurnStart, TurnType
  <2>2. QED
    BY <1>3, <2>1, CommandNamesKept DEF TurnStart
<1>4. QED
  BY <1>1, <1>2, <1>3 DEF Serving

LEMMA TypeInvAlways == Spec => []TypeInv
<1>1. Init => TypeInv
  BY TypeInit DEF TypeInv, CommandNames, Init, NoCmd
<1>2. TypeInv /\ [Next]_vars => TypeInv'
  <2> SUFFICES ASSUME TypeInv, [Next]_vars PROVE TypeInv'
    OBVIOUS
  <2>1. CASE UNCHANGED vars
    BY <2>1 DEF vars, TypeInv, TypeOK, CommandNames
  <2>2. CASE Commands
    BY <2>2, CommandTypes
  <2>3. CASE Worker \/ Restoring \/ Serving
    BY <2>3, WorkerTypes, RestoringTypes, ServingTypes
  <2>4. QED
    BY <2>1, <2>2, <2>3 DEF Next
<1>3. QED
  BY <1>1, <1>2, PTL DEF Spec

\* Every variable keeps its type, for every set of generations and every bound.
THEOREM TypeCorrect == Spec => []TypeOK
<1>1. TypeInv => TypeOK
  BY DEF TypeInv
<1>2. QED
  BY <1>1, TypeInvAlways, PTL

-----------------------------------------------------------------------------
(* The record: legal rows, at most one of them live, here and in the backup. *)

Settled(rs) ==
  /\ \A g \in Gen : RowChecks(rs[g])
  /\ \A a, b \in Gen : rs[a].state = "live" /\ rs[b].state = "live" => a = b

\* The inductive invariant.  OneLive alone is not inductive: a restore puts the
\* backed-up rows back, and the flip and the worker's statements need legal rows.
RecordInv == TypeInv /\ Settled(rows) /\ Settled(snap.rows)

\* What every step but the flip and the restore of the record does to the rows.
RowsTame == \A g \in Gen : Tame(rows[g], rows'[g])

LEMMA RowsOK ==
  ASSUME RecordInv, NEW g \in Gen
  PROVE  RowOK(rows[g])
  BY DEF RecordInv, TypeInv, TypeOK, Settled, RowOK

LEMMA SameTame ==
  ASSUME RecordInv, rows' = rows
  PROVE  RowsTame
  BY RowsOK, HostStatements DEF RowsTame

LEMMA UpdateTame ==
  ASSUME RecordInv, NEW g, NEW new, g \in Gen => Tame(rows[g], new),
         rows' = [rows EXCEPT ![g] = new]
  PROVE  RowsTame
<1>1. rows \in [Gen -> Row]
  BY DEF RecordInv, TypeInv, TypeOK
<1>2. ASSUME NEW x \in Gen PROVE Tame(rows[x], rows'[x])
  <2>1. CASE x = g
    BY <1>1, <2>1
  <2>2. CASE x # g
    BY <1>1, <2>2, RowsOK, HostStatements
  <2>3. QED
    BY <2>1, <2>2
<1>3. QED
  BY <1>2 DEF RowsTame

LEMMA TameSettles ==
  ASSUME RecordInv, RowsTame
  PROVE  Settled(rows')
<1>1. \A g \in Gen : RowChecks(rows'[g])
  BY DEF RowsTame, Tame, RowOK
<1>2. \A g \in Gen : rows'[g].state = "live" => rows[g].state = "live"
  BY DEF RowsTame, Tame
<1>3. QED
  BY <1>1, <1>2 DEF RecordInv, Settled

\* Of the commands only index promote's flip is not tame.
LEMMA CommandsTame ==
  ASSUME RecordInv, Commands, ~PromoteFlip
  PROVE  RowsTame
<1>1. ASSUME NEW g \in Gen, BuildStart(g) PROVE RowsTame
  BY <1>1, RowsOK, HostStatements, UpdateTame DEF BuildStart
<1>2. ASSUME NEW g \in Gen, FinishStart(g) \/ PromoteStart(g) \/ RetireStart(g) \/ GcDrop(g)
      PROVE  RowsTame
  BY <1>2, SameTame DEF FinishStart, PromoteStart, RetireStart, GcDrop
<1>3. CASE BuildDefer \/ BuildPoll \/ PromoteGates \/ PromotePoint \/ GcStart \/ CommandStops
  BY <1>3, SameTame DEF BuildDefer, BuildPoll, PromoteGates, PromotePoint, GcStart, CommandStops
<1>4. CASE BuildBuilt
  <2>1. rows' = rows \/ rows' = [rows EXCEPT ![cmd.gen] = write_footprint(rows[cmd.gen])]
    BY <1>4 DEF BuildBuilt
  <2>2. cmd.gen \in Gen => Tame(rows[cmd.gen], write_footprint(rows[cmd.gen]))
    BY RowsOK, HostStatements
  <2>3. QED
    BY <2>1, <2>2, SameTame, UpdateTame
<1>5. CASE BuildFinish
  <2>1. PICK verdict \in Report : rows' = [rows EXCEPT ![cmd.gen] = write_report(@, verdict)]
    BY <1>5 DEF BuildFinish, Report
  <2>2. cmd.gen \in Gen => Tame(rows[cmd.gen], write_report(rows[cmd.gen], verdict))
    BY RowsOK, HostStatements
  <2>3. QED
    BY <2>1, <2>2, UpdateTame
<1>6. CASE RetireWrite
  <2>1. Retirable(rows[cmd.gen]) /\ rows' = [rows EXCEPT ![cmd.gen] = retire_generation(@)]
    BY <1>6 DEF RetireWrite
  <2>2. cmd.gen \in Gen => Tame(rows[cmd.gen], retire_generation(rows[cmd.gen]))
    BY <2>1, RowsOK, HostStatements
  <2>3. QED
    BY <2>1, <2>2, UpdateTame
<1>7. QED
  BY <1>1, <1>2, <1>3, <1>4, <1>5, <1>6 DEF Commands

LEMMA WorkerTame ==
  ASSUME RecordInv, Worker
  PROVE  RowsTame
<1>1. ASSUME NEW g \in Gen, NEW k \in Kind, NEW s \in Slot,
             JobStart(g, k, s) \/ BodyBusy(g, k, s) \/ BodyFill(g, k, s)
      PROVE  RowsTame
  BY <1>1, SameTame DEF JobStart, BodyBusy, BodyFill
<1>2. ASSUME NEW g \in Gen, NEW k \in Kind, NEW s \in Slot, BodyLock(g, k, s) PROVE RowsTame
  <2> DEFINE read == IF body[g][k][s] = "readFailed" THEN resume(rows[g]) ELSE rows[g]
  <2>1. PICK limited \in BOOLEAN :
          rows' = [rows EXCEPT ![g] = IF k = "dense" THEN start(read, limited) ELSE read]
    BY <1>2, BoundAssumption DEF BodyLock
  <2>2. RowOK(rows[g])
    BY RowsOK
  <2>3. Tame(rows[g], read)
    BY <2>2, HostStatements, WorkerStatements
  <2>4. RowOK(read)
    BY <2>3 DEF Tame
  <2> HIDE DEF read
  <2>5. Tame(read, start(read, limited))
    BY <2>4, WorkerStatements
  <2>6. Tame(rows[g], start(read, limited))
    BY <2>3, <2>5 DEF Tame
  <2>7. QED
    BY <2>1, <2>3, <2>6, UpdateTame
<1>3. ASSUME NEW g \in Gen, NEW k \in Kind, NEW s \in Slot, BodyFinish(g, k, s) PROVE RowsTame
  <2>1. \/ rows' = rows
        \/ rows' = [rows EXCEPT ![g] = finish(rows[g], k)]
    BY <1>3 DEF BodyFinish
  <2>2. Tame(rows[g], finish(rows[g], k))
    BY RowsOK, WorkerStatements
  <2>3. QED
    BY <2>1, <2>2, SameTame, UpdateTame
<1>4. ASSUME NEW g \in Gen, NEW k \in Kind, NEW s \in Slot, BodyFail(g, k, s) PROVE RowsTame
  <2>1. \/ rows' = rows
        \/ rows' = [rows EXCEPT ![g] = fail(rows[g])]
    BY <1>4 DEF BodyFail
  <2>2. Tame(rows[g], fail(rows[g]))
    BY RowsOK, WorkerStatements
  <2>3. QED
    BY <2>1, <2>2, SameTame, UpdateTame
<1>5. ASSUME NEW g \in Gen, NEW k \in Kind, RetryStalled(g, k) PROVE RowsTame
  BY <1>5, SameTame DEF RetryStalled
<1>6. CASE WorkerCrash
  BY <1>6, SameTame DEF WorkerCrash
<1>7. ASSUME NEW g \in Gen, NEW s \in Slot, BodyProgress(g, s) PROVE RowsTame
  BY <1>7, RowsOK, WorkerStatements, UpdateTame DEF BodyProgress
<1>8. QED
  BY <1>1, <1>2, <1>3, <1>4, <1>5, <1>6, <1>7 DEF Worker

LEMMA FlipSettles ==
  ASSUME RecordInv, PromoteFlip
  PROVE  /\ Settled(rows')
         /\ \A g \in Gen : rows[g].state = "retired" => rows'[g].state = "retired"
<1>1. cmd.gen \in Gen /\ Promotable(rows[cmd.gen]) /\ rows' = promote_generation(rows, cmd.gen)
  BY DEF PromoteFlip, RecordInv, TypeInv, CommandNames
<1>2. rows \in [Gen -> Row]
  BY DEF RecordInv, TypeInv, TypeOK
<1>3. /\ rows'[cmd.gen] = flipped(rows[cmd.gen])
      /\ \A g \in Gen \ {cmd.gen} :
           rows'[g] = IF rows[g].state = "live" THEN retired_by_flip(rows[g]) ELSE rows[g]
  BY <1>1, <1>2 DEF promote_generation
<1>4. RowOK(rows'[cmd.gen])
  BY <1>1, <1>3, RowsOK, FlippedRow
<1>5. ASSUME NEW g \in Gen \ {cmd.gen}
      PROVE  RowOK(rows'[g]) /\ rows'[g].state # "live" /\ (rows[g].state = "retired" => rows'[g] = rows[g])
  <2>1. CASE rows[g].state = "live"
    <3>1. rows'[g] = retired_by_flip(rows[g])
      BY <1>3, <2>1
    <3>2. RowOK(retired_by_flip(rows[g]))
      BY <2>1, RowsOK, HostStatements DEF Tame
    <3>3. retired_by_flip(rows[g]).state = "retired"
      BY <1>2 DEF retired_by_flip, Row
    <3>4. QED
      BY <2>1, <3>1, <3>2, <3>3
  <2>2. CASE rows[g].state # "live"
    BY <1>3, <2>2, RowsOK
  <2>3. QED
    BY <2>1, <2>2
<1>6. rows[cmd.gen].state # "retired"
  BY <1>1 DEF Promotable
<1>7. QED
  BY <1>4, <1>5, <1>6 DEF Settled, RowOK

LEMMA RestoringRows ==
  ASSUME RecordInv, Restoring
  PROVE  /\ Settled(rows') /\ Settled(snap'.rows)
         /\ rst.pc # "stopped" => RowsTame
<1>1. CASE BackupStores \/ RestoreStop \/ LevelRead \/ LevelPoint \/ RestoreStops \/ Apply
  <2>1. rows' = rows /\ snap' = snap
    BY <1>1 DEF BackupStores, RestoreStop, LevelRead, LevelPoint, RestoreStops, Apply
  <2>2. QED
    BY <2>1, SameTame DEF RecordInv
<1>2. CASE BackupRecord
  <2>1. rows' = rows /\ snap'.rows = rows
    BY <1>2 DEF BackupRecord
  <2>2. QED
    BY <2>1, SameTame DEF RecordInv
<1>3. ASSUME NEW mode, NEW toSet \in BOOLEAN, RestoreRecover(mode, toSet)
      PROVE  Settled(rows') /\ Settled(snap'.rows) /\ rst.pc = "stopped"
  <2>1. (rows' = snap.rows \/ rows' = rows) /\ snap' = snap /\ rst.pc = "stopped"
    BY <1>3 DEF RestoreRecover
  <2>2. QED
    BY <2>1 DEF RecordInv
<1>4. ASSUME NEW g \in Gen, LevelDemote(g)
      PROVE  Settled(rows') /\ Settled(snap'.rows) /\ RowsTame
  <2>1. /\ rst.short[g] # {} /\ Demotable(rows[g]) /\ snap' = snap
        /\ rows' = [rows EXCEPT ![g] = demote_generation(@, rst.short[g])]
    BY <1>4 DEF LevelDemote
  <2>2. rst.short[g] \in SUBSET Half
    BY DEF RecordInv, TypeInv, TypeOK, RstType
  <2>3. Tame(rows[g], demote_generation(rows[g], rst.short[g]))
    BY <2>1, <2>2, RowsOK, HostStatements
  <2>4. RowsTame
    BY <2>1, <2>3, UpdateTame
  <2>5. QED
    BY <2>1, <2>4, TameSettles DEF RecordInv
<1>5. QED
  BY <1>1, <1>2, <1>3, <1>4 DEF Restoring

\* Every step keeps the record settled, and only a restore revives a retired row.
LEMMA RecordStep ==
  ASSUME RecordInv, [Next]_vars
  PROVE  /\ Settled(rows') /\ Settled(snap'.rows)
         /\ \A g \in Gen : rows[g].state = "retired" /\ rst.pc # "stopped"
                             => rows'[g].state = "retired"
<1>1. CASE UNCHANGED vars
  BY <1>1 DEF vars, RecordInv
<1>2. CASE PromoteFlip
  BY <1>2, FlipSettles DEF PromoteFlip, RecordInv
<1>3. CASE Commands /\ ~PromoteFlip
  <2>1. snap' = snap
    BY <1>3 DEF Commands, BuildStart, FinishStart, PromoteStart, RetireStart, GcDrop, BuildDefer,
                BuildPoll, BuildBuilt, BuildFinish, PromoteGates, PromotePoint, RetireWrite,
                GcStart, CommandStops
  <2>2. QED
    BY <1>3, <2>1, CommandsTame, TameSettles DEF RecordInv, RowsTame, Tame
<1>4. CASE Worker
  <2>1. snap' = snap
    <3>1. ASSUME NEW g \in Gen, NEW k \in Kind, NEW s \in Slot,
                 \/ JobStart(g, k, s) \/ BodyLock(g, k, s) \/ BodyBusy(g, k, s)
                 \/ BodyFill(g, k, s) \/ BodyFinish(g, k, s) \/ BodyFail(g, k, s)
          PROVE  snap' = snap
      BY <3>1 DEF JobStart, BodyLock, BodyBusy, BodyFill, BodyFinish, BodyFail
    <3>2. ASSUME NEW g \in Gen, NEW k \in Kind, RetryStalled(g, k) PROVE snap' = snap
      BY <3>2 DEF RetryStalled
    <3>3. CASE WorkerCrash
      BY <3>3 DEF WorkerCrash
    <3>4. ASSUME NEW g \in Gen, NEW s \in Slot, BodyProgress(g, s) PROVE snap' = snap
      BY <3>4 DEF BodyProgress
    <3>5. QED
      BY <1>4, <3>1, <3>2, <3>3, <3>4 DEF Worker
  <2>2. QED
    BY <1>4, <2>1, WorkerTame, TameSettles DEF RecordInv, RowsTame, Tame
<1>5. CASE Restoring
  BY <1>5, RestoringRows DEF RowsTame, Tame
<1>6. CASE Serving
  BY <1>6 DEF Serving, TurnEnd, Tick, TurnStart, RecordInv
<1>7. QED
  BY <1>1, <1>2, <1>3, <1>4, <1>5, <1>6 DEF Next

LEMMA RecordAlways == Spec => []RecordInv
<1>1. Init /\ TypeInv => RecordInv
  BY DEF Init, RecordInv, Settled, NoSnap, NoRow, RowChecks, Half
<1>2. RecordInv /\ TypeInv' /\ [Next]_vars => RecordInv'
  BY RecordStep DEF RecordInv
<1>3. QED
  BY <1>1, <1>2, TypeInvAlways, PTL DEF Spec

\* No sequence of the host's and the worker's statements, crashes and restores
\* leaves a row that the CHECKs of index_generations forbid.
THEOREM RecordLegal == Spec => []RowLegal
<1>1. RecordInv => RowLegal
  BY DEF RecordInv, Settled, RowLegal
<1>2. QED
  BY <1>1, RecordAlways, PTL

\* At most one generation is live, with any number of generations, promotes,
\* demotions, backups and restores in any order.
THEOREM OneLiveAlways == Spec => []OneLive
<1>1. RecordInv => OneLive
  BY DEF RecordInv, Settled, OneLive, Live
<1>2. QED
  BY <1>1, RecordAlways, PTL

\* A retired generation is retired for good unless a restore puts an older record
\* back: no late, queued or overlapping job revives it or marks it failed.
THEOREM RetiredForGood == Spec => RetiredStays
<1>1. RecordInv /\ [Next]_vars =>
        [\A g \in Gen : rows[g].state = "retired" /\ rst.pc # "stopped"
                          => rows'[g].state = "retired"]_vars
  BY RecordStep
<1>2. QED
  BY <1>1, RecordAlways, PTL DEF Spec, RetiredStays

\* The record is sound for every number of generations, slots, commands, crashes, stalls and
\* restores: the three parts are theorems of their own.
THEOREM RecordAlwaysSound == Spec => []RecordSound
BY TypeCorrect, OneLiveAlways, RecordLegal, PTL DEF RecordSound

-----------------------------------------------------------------------------
(* The stores: what the record, a build, a turn, a promote, index gc and a restore may    *)
(* rely on while the others run.                                                          *)

\* Of a generation that is not retired, a stamped half and a filled one are whole, and one
\* being filled exists.
StoresHold ==
  \A g \in Gen, h \in Half : rows[g].state # "retired" =>
    /\ rows[g].at[h] => store[h][g] = "whole"
    /\ \A s \in Slot : /\ body[g][h][s] = "filled" => store[h][g] = "whole"
                       /\ body[g][h][s] = "fill" => store[h][g] # "absent"

\* A built or live row is stamped in both halves, a live one was promoted, and the clustering
\* fills no half.
Stamped ==
  \A g \in Gen : /\ Demotable(rows[g]) => \A h \in Half : rows[g].at[h]
                 /\ rows[g].state = "live" => rows[g].promotedAt
                 /\ \A s \in Slot : body[g]["dupes"][s] # "filled"

\* A turn's generation is live, or retired for no longer than the turn lasts.
TurnKept ==
  turn.gen # NoGen =>
    /\ turn.gen \in Gen /\ turn.days < Hold /\ rows[turn.gen].promotedAt
    /\ \A h \in Half : store[h][turn.gen] = "whole"
    /\ \/ rows[turn.gen].state = "live"
       \/ rows[turn.gen].state = "retired" /\ age[turn.gen] <= turn.days
    /\ cmd.op = "gc" => turn.gen \notin cmd.drop

\* Between its checks and its flip a promote's candidate keeps its report and its footprint;
\* between the flip and the aliases it stays live.
PromoteKept ==
  cmd.op = "promote" =>
    /\ cmd.pc \in {"gates", "flip"} => rows[cmd.gen].report = "passed" /\ rows[cmd.gen].footprint
    /\ cmd.pc \in Half => rows[cmd.gen].state = "live"

\* index gc runs beside no restore, on retired generations that no alias names.
GcKept ==
  cmd.op = "gc" =>
    /\ rst.pc = "none" /\ cmd.pc \in Half /\ cmd.left \subseteq cmd.drop
    /\ \A g \in cmd.drop : rows[g].state = "retired" /\ \A h \in Half : g \notin alias[h]

\* No job runs on a box that is not up, and none while a restore works; once the levelling
\* has read, what it did not find short is whole.
LevelKept ==
  /\ tier # "up" => \A g \in Gen, k \in Kind, s \in Slot : body[g][k][s] = "idle"
  /\ rst.pc \in {"stopped", "level", "demote", "dense"} => tier # "up"
  /\ rst.pc \in {"demote", "dense"} =>
       \A g \in Gen : Demotable(rows[g]) /\ rows[g].counted /\ rst.short[g] = {} =>
         \A h \in Half : store[h][g] = "whole"
  /\ rst.pc = "dense" => \A g \in Gen : rst.short[g] = {}

\* Before the first restore; and always.
Unrestored == rst.pc \in {"none", "backup"} /\ StoresHold /\ Stamped /\ TurnKept /\ PromoteKept
ServedInv == GcKept /\ LevelKept /\ (spent.restores = 0 => Unrestored)

\* What every statement but finish, the flip and the demotion does to a row: it stamps no half,
\* builds, promotes and revives nothing, and counts nothing as finished.
Moved(r, new) ==
  /\ \A h \in Half : new.at[h] => r.at[h]
  /\ Demotable(new) => Demotable(r) /\ new.at = r.at /\ new.state = r.state
  /\ new.state = "live" <=> r.state = "live"
  /\ r.state = "retired" => new.state = "retired"
  /\ r.state \in {"live", "retired"} => new.promotedAt = r.promotedAt
  /\ new.counted => r.counted

\* What the worker's statements leave of what index promote read.
Promising(r, new) ==
  /\ r.report = "passed" => new.report = "passed"
  /\ r.footprint => new.footprint

RowsMoved == \A g \in Gen : Moved(rows[g], rows'[g])
RowsPromising == \A g \in Gen : Promising(rows[g], rows'[g])
StaysRetired == \A g \in Gen : rows[g].state = "retired" => rows'[g].state = "retired"

LEMMA StatementsMove ==
  ASSUME NEW r \in Row
  PROVE  /\ Moved(r, r)
         /\ Moved(r, write_building(r))
         /\ Moved(r, write_footprint(r))
         /\ \A verdict \in Report : Moved(r, write_report(r, verdict))
         /\ Retirable(r) => Moved(r, retire_generation(r))
         /\ Moved(r, resume(r))
         /\ Moved(r, fail(r))
         /\ Moved(r, progress(r))
         /\ \A limited \in BOOLEAN : Moved(r, start(r, limited))
<1> USE DEF Moved, Row, State, Demotable
<1>1. Moved(r, r)
  OBVIOUS
<1>2. Moved(r, write_building(r))
  BY DEF write_building, Recorded, NoRow
<1>3. Moved(r, write_footprint(r)) /\ \A verdict \in Report : Moved(r, write_report(r, verdict))
  BY DEF write_footprint, write_report
<1>4. ASSUME Retirable(r) PROVE Moved(r, retire_generation(r))
  BY <1>4 DEF retire_generation, Retirable
<1>5. Moved(r, resume(r)) /\ Moved(r, fail(r))
  BY DEF resume, fail
<1>6. Moved(r, progress(r))
  BY DEF progress
<1>7. ASSUME NEW limited \in BOOLEAN PROVE Moved(r, start(r, limited))
  BY DEF start
<1> QED
  BY <1>1, <1>2, <1>3, <1>4, <1>5, <1>6, <1>7

\* The fields a finished half leaves, the flip and a demotion.
LEMMA FinishFields ==
  ASSUME NEW r \in Row, NEW h \in Half
  PROVE  LET new == finish(r, h)
         IN  /\ new.at = [r.at EXCEPT ![h] = TRUE]
             /\ new.state = r.state \/ (r.state = "building" /\ new.state = "built" /\ \A x \in Half : new.at[x])
             /\ new.promotedAt = r.promotedAt /\ new.report = r.report /\ new.footprint = r.footprint
<1> DEFINE both == \A x \in Half \ {h} : r.at[x]
           stamped == [r.at EXCEPT ![h] = TRUE]
           after == IF r.state = "building" /\ both THEN "built" ELSE r.state
<1>1. r.at \in [Half -> BOOLEAN]
  BY DEF Row
<1>2. both => \A x \in Half : stamped[x]
  BY <1>1
<1>3. after = r.state \/ (r.state = "building" /\ after = "built" /\ \A x \in Half : stamped[x])
  BY <1>2
<1>4. finish(r, h) = [r EXCEPT !.at = stamped, !.builtAt = both, !.counted = r.counted \/ h = "lexical", !.state = after]
  BY DEF finish
<1> HIDE DEF both, stamped, after
<1>5. /\ finish(r, h).at = stamped /\ finish(r, h).state = after /\ finish(r, h).promotedAt = r.promotedAt
      /\ finish(r, h).report = r.report /\ finish(r, h).footprint = r.footprint
  BY <1>4 DEF Row
<1> QED
  BY <1>3, <1>5 DEF stamped

LEMMA WorkerPromises ==
  ASSUME NEW r \in Row
  PROVE  /\ Promising(r, r) /\ Promising(r, resume(r)) /\ Promising(r, fail(r)) /\ Promising(r, progress(r))
         /\ \A limited \in BOOLEAN : Promising(r, start(r, limited))
         /\ \A h \in Half : Promising(r, finish(r, h))
<1>1. /\ Promising(r, r) /\ Promising(r, resume(r)) /\ Promising(r, fail(r)) /\ Promising(r, progress(r))
      /\ \A limited \in BOOLEAN : Promising(r, start(r, limited))
  BY DEF Promising, Row, resume, fail, progress, start
<1>2. \A h \in Half : Promising(r, finish(r, h))
  BY FinishFields DEF Promising
<1> QED
  BY <1>1, <1>2

LEMMA UpdateMoved ==
  ASSUME rows \in [Gen -> Row], NEW g, NEW new, g \in Gen => Moved(rows[g], new),
         rows' = [rows EXCEPT ![g] = new]
  PROVE  RowsMoved
  BY StatementsMove DEF RowsMoved

LEMMA SameMoved ==
  ASSUME rows \in [Gen -> Row], rows' = rows
  PROVE  RowsMoved
  BY StatementsMove DEF RowsMoved

LEMMA UpdatePromising ==
  ASSUME rows \in [Gen -> Row], NEW g, NEW new, g \in Gen => Promising(rows[g], new),
         rows' = [rows EXCEPT ![g] = new]
  PROVE  RowsPromising
  BY WorkerPromises DEF RowsPromising

LEMMA SamePromising ==
  ASSUME rows \in [Gen -> Row], rows' = rows
  PROVE  RowsPromising
  BY WorkerPromises DEF RowsPromising

-----------------------------------------------------------------------------
(* How each part of the invariant survives a step that leaves most of it alone. *)

LEMMA StoresFrame ==
  ASSUME TypeInv, TypeInv', RowsMoved, StoresHold, Stamped,
         \A g \in Gen, h \in Half : rows[g].state # "retired" =>
           /\ store[h][g] = "whole" => store'[h][g] = "whole"
           /\ store[h][g] # "absent" => store'[h][g] # "absent",
         \A g \in Gen, k \in Kind, s \in Slot :
           body'[g][k][s] \in {"fill", "filled"} => body'[g][k][s] = body[g][k][s]
  PROVE  StoresHold' /\ Stamped'
<1>1. \A g \in Gen : rows'[g].state # "retired" => rows[g].state # "retired"
  BY DEF RowsMoved, Moved
<1>2. StoresHold'
  BY <1>1 DEF StoresHold, RowsMoved, Moved, Half, Kind
<1>3. Stamped'
  BY DEF Stamped, RowsMoved, Moved, Kind
<1> QED
  BY <1>2, <1>3

LEMMA TurnFrame ==
  ASSUME TypeInv, RowsMoved, TurnKept, turn' = turn,
         turn.gen # NoGen =>
           /\ \A h \in Half : store[h][turn.gen] = "whole" => store'[h][turn.gen] = "whole"
           /\ age'[turn.gen] = age[turn.gen]
           /\ cmd'.op = "gc" => turn.gen \notin cmd'.drop
  PROVE  TurnKept'
  BY DEF TurnKept, RowsMoved, Moved

LEMMA PromoteFrame ==
  ASSUME TypeInv, PromoteKept, RowsMoved, RowsPromising, cmd' = cmd
  PROVE  PromoteKept'
  BY DEF PromoteKept, RowsMoved, RowsPromising, Moved, Promising, TypeInv, CommandNames

LEMMA GcFrame ==
  ASSUME TypeInv, GcKept, StaysRetired, cmd' = cmd, cmd.op = "gc" => rst'.pc = "none" /\ alias' = alias
  PROVE  GcKept'
  BY DEF GcKept, StaysRetired, TypeInv, TypeOK, CmdType

LEMMA LevelFrame ==
  ASSUME TypeInv, LevelKept, RowsMoved, UNCHANGED <<rst, tier, store, body>>
  PROVE  LevelKept'
  BY DEF LevelKept, RowsMoved, Moved

-----------------------------------------------------------------------------
(* The commands. *)

LEMMA CommandsMoved ==
  ASSUME TypeInv, Commands, ~PromoteFlip
  PROVE  RowsMoved
<1>0. rows \in [Gen -> Row]
  BY DEF TypeInv, TypeOK
<1>1. ASSUME NEW g \in Gen, BuildStart(g) PROVE RowsMoved
  BY <1>0, <1>1, StatementsMove, UpdateMoved DEF BuildStart
<1>2. ASSUME NEW g \in Gen, FinishStart(g) \/ PromoteStart(g) \/ RetireStart(g) \/ GcDrop(g)
      PROVE  RowsMoved
  BY <1>0, <1>2, SameMoved DEF FinishStart, PromoteStart, RetireStart, GcDrop
<1>3. CASE BuildDefer \/ BuildPoll \/ PromoteGates \/ PromotePoint \/ GcStart \/ CommandStops
  BY <1>0, <1>3, SameMoved DEF BuildDefer, BuildPoll, PromoteGates, PromotePoint, GcStart, CommandStops
<1>4. CASE BuildBuilt
  <2>1. rows' = rows \/ rows' = [rows EXCEPT ![cmd.gen] = write_footprint(rows[cmd.gen])]
    BY <1>4 DEF BuildBuilt
  <2>2. cmd.gen \in Gen => Moved(rows[cmd.gen], write_footprint(rows[cmd.gen]))
    BY <1>0, StatementsMove
  <2> QED
    BY <1>0, <2>1, <2>2, SameMoved, UpdateMoved
<1>5. CASE BuildFinish
  <2>1. PICK verdict \in Report : rows' = [rows EXCEPT ![cmd.gen] = write_report(@, verdict)]
    BY <1>5 DEF BuildFinish, Report
  <2>2. cmd.gen \in Gen => Moved(rows[cmd.gen], write_report(rows[cmd.gen], verdict))
    BY <1>0, StatementsMove
  <2> QED
    BY <1>0, <2>1, <2>2, UpdateMoved
<1>6. CASE RetireWrite
  <2>1. Retirable(rows[cmd.gen]) /\ rows' = [rows EXCEPT ![cmd.gen] = retire_generation(@)]
    BY <1>6 DEF RetireWrite
  <2>2. cmd.gen \in Gen => Moved(rows[cmd.gen], retire_generation(rows[cmd.gen]))
    BY <1>0, <2>1, StatementsMove
  <2> QED
    BY <1>0, <2>1, <2>2, UpdateMoved
<1> QED
  BY <1>1, <1>2, <1>3, <1>4, <1>5, <1>6 DEF Commands

\* Every command but gc leaves the stores, the bodies and the turns alone; a retired or live
\* generation's age too, but for the flip.
LEMMA QuietCommand ==
  ASSUME ServedInv, TypeInv, TypeInv', RowsMoved,
         UNCHANGED <<store, body, rst, tier, turn>>, spent'.restores = spent.restores,
         \A g \in Gen : rows[g].state \in {"live", "retired"} => age'[g] = age[g],
         cmd'.op # "gc", Unrestored => PromoteKept'
  PROVE  ServedInv'
<1>1. GcKept'
  BY DEF GcKept
<1>2. LevelKept'
  BY LevelFrame DEF ServedInv
<1>3. ASSUME spent'.restores = 0 PROVE Unrestored'
  <2>1. Unrestored
    BY <1>3 DEF ServedInv
  <2>2. StoresHold' /\ Stamped'
    BY <2>1, StoresFrame DEF Unrestored
  <2>3. turn.gen # NoGen => age'[turn.gen] = age[turn.gen]
    BY <2>1 DEF Unrestored, TurnKept
  <2>4. TurnKept'
    BY <2>1, <2>3, TurnFrame DEF Unrestored
  <2> QED
    BY <2>1, <2>2, <2>4 DEF Unrestored
<1> QED
  BY <1>1, <1>2, <1>3 DEF ServedInv

LEMMA BuildingServed ==
  ASSUME ServedInv, TypeInv, TypeInv', RowsMoved,
         \/ \E g \in Gen : BuildStart(g) \/ FinishStart(g)
         \/ BuildDefer \/ BuildPoll \/ BuildBuilt \/ BuildFinish \/ CommandStops
  PROVE  ServedInv'
<1>0. NoCmd.op = "none" /\ spent \in SpentType /\ cmd \in CmdType
  BY DEF NoCmd, TypeInv, TypeOK
<1>1. ASSUME NEW g \in Gen, BuildStart(g) \/ FinishStart(g) PROVE ServedInv'
  <2>2. UNCHANGED <<age, store, body, rst, tier, turn>>
    BY <1>1 DEF BuildStart, FinishStart
  <2>3. cmd'.op = "build" /\ spent'.restores = spent.restores
    BY <1>0, <1>1 DEF BuildStart, FinishStart, Begin, NoCmd, SpentType
  <2> QED
    BY <2>2, <2>3, QuietCommand DEF PromoteKept
<1>2. ASSUME BuildDefer \/ BuildPoll \/ BuildBuilt \/ BuildFinish \/ CommandStops PROVE ServedInv'
  <2>1. UNCHANGED <<age, store, body, rst, tier, turn>>
    BY <1>2 DEF BuildDefer, BuildPoll, BuildBuilt, BuildFinish, CommandStops
  <2>2. spent'.restores = spent.restores
    BY <1>0, <1>2 DEF BuildDefer, BuildPoll, BuildBuilt, BuildFinish, CommandStops, SpentType
  <2>3. cmd'.op \in {"none", "build"}
    BY <1>0, <1>2 DEF BuildDefer, BuildPoll, BuildBuilt, BuildFinish, CommandStops, CmdType
  <2> QED
    BY <2>1, <2>2, <2>3, QuietCommand DEF PromoteKept
<1> QED
  BY <1>1, <1>2

LEMMA PromotingServed ==
  ASSUME ServedInv, TypeInv, TypeInv', RowsMoved,
         (\E g \in Gen : PromoteStart(g)) \/ PromoteGates \/ PromotePoint
  PROVE  ServedInv'
<1>0. NoCmd.op = "none" /\ cmd \in CmdType /\ spent \in SpentType /\ "gates" \notin Half /\ "flip" \notin Half
  BY DEF NoCmd, TypeInv, TypeOK, Half
<1>1. ASSUME NEW g \in Gen, PromoteStart(g) PROVE ServedInv'
  <2>1. /\ spent'.restores = spent.restores /\ cmd'.op = "promote" /\ cmd'.gen = g
        /\ \/ cmd'.pc = "gates" /\ rows[g].report = "passed" /\ rows[g].footprint
           \/ cmd'.pc = "lexical" /\ rows[g].state = "live"
    BY <1>0, <1>1 DEF PromoteStart, Begin, NoCmd, SpentType
  <2>2. UNCHANGED <<rows, age, store, body, rst, tier, turn>>
    BY <1>1 DEF PromoteStart
  <2>3. PromoteKept'
    BY <1>0, <2>1, <2>2 DEF PromoteKept
  <2> QED
    BY <2>1, <2>2, <2>3, QuietCommand
<1>2. ASSUME PromoteGates PROVE ServedInv'
  <2>1. UNCHANGED <<rows, age, store, body, rst, tier, turn, spent>>
    BY <1>2 DEF PromoteGates
  <2>2. cmd.op = "promote" /\ cmd.pc = "gates" /\ cmd'.op = "promote" /\ cmd'.pc = "flip" /\ cmd'.gen = cmd.gen
    BY <1>0, <1>2 DEF PromoteGates, CmdType
  <2>3. Unrestored => PromoteKept'
    BY <1>0, <2>1, <2>2 DEF PromoteKept, Unrestored
  <2> QED
    BY <2>1, <2>2, <2>3, QuietCommand
<1>3. ASSUME PromotePoint PROVE ServedInv'
  <2>1. UNCHANGED <<rows, age, store, body, rst, tier, turn, spent>>
    BY <1>3 DEF PromotePoint
  <2>2. \/ cmd'.op = "none"
        \/ cmd.op = "promote" /\ cmd.pc = "lexical" /\ cmd'.op = "promote" /\ cmd'.pc = "dense" /\ cmd'.gen = cmd.gen
    BY <1>0, <1>3 DEF PromotePoint, CmdType
  <2>3. Unrestored => PromoteKept'
    BY <2>1, <2>2 DEF PromoteKept, Unrestored, Half
  <2> QED
    BY <2>1, <2>2, <2>3, QuietCommand
<1> QED
  BY <1>1, <1>2, <1>3

\* index retire's row was never live, so no turn reads it.
LEMMA RetiringServed ==
  ASSUME ServedInv, TypeInv, TypeInv', RowsMoved, (\E g \in Gen : RetireStart(g)) \/ RetireWrite
  PROVE  ServedInv'
<1>0. NoCmd.op = "none" /\ spent \in SpentType /\ age \in [Gen -> 0..Hold]
  BY DEF NoCmd, TypeInv, TypeOK
<1>1. ASSUME NEW g \in Gen, RetireStart(g) PROVE ServedInv'
  <2>2. UNCHANGED <<age, store, body, rst, tier, turn>>
    BY <1>1 DEF RetireStart
  <2>3. cmd'.op = "retire" /\ spent'.restores = spent.restores
    BY <1>0, <1>1 DEF RetireStart, Begin, NoCmd, SpentType
  <2> QED
    BY <2>2, <2>3, QuietCommand DEF PromoteKept
<1>2. ASSUME RetireWrite PROVE ServedInv'
  <2>1. UNCHANGED <<store, body, rst, tier, turn, spent>> /\ cmd'.op = "none"
    BY <1>0, <1>2 DEF RetireWrite
  <2>2. Retirable(rows[cmd.gen]) /\ age' = [age EXCEPT ![cmd.gen] = 0]
    BY <1>2 DEF RetireWrite
  <2>3. \A g \in Gen : rows[g].state \in {"live", "retired"} => age'[g] = age[g]
    BY <1>0, <2>2 DEF Retirable
  <2> QED
    BY <2>1, <2>3, QuietCommand DEF PromoteKept
<1> QED
  BY <1>1, <1>2

\* The flip row by row: the built candidate goes live, the other live row retires at age 0.
LEMMA FlipFields ==
  ASSUME TypeInv, TypeInv', PromoteFlip, NEW g \in Gen
  PROVE  /\ cmd.gen \in Gen /\ rows[cmd.gen].state = "built"
         /\ rows'[g].at = rows[g].at /\ rows'[g].counted = rows[g].counted
         /\ g = cmd.gen => rows'[g].state = "live" /\ rows'[g].promotedAt
         /\ g # cmd.gen /\ rows[g].state = "live" =>
              rows'[g].state = "retired" /\ rows'[g].promotedAt = rows[g].promotedAt /\ age'[g] = 0
         /\ g # cmd.gen /\ rows[g].state # "live" => rows'[g] = rows[g] /\ age'[g] = age[g]
<1>1. rows \in [Gen -> Row] /\ rows[g] \in Row /\ DOMAIN rows = Gen
  BY DEF TypeInv, TypeOK
<1>2. cmd.gen \in Gen /\ rows[cmd.gen].state = "built"
  BY DEF PromoteFlip, TypeInv, CommandNames, Promotable
<1>3. rows'[g] = IF g = cmd.gen THEN flipped(rows[g])
                 ELSE IF rows[g].state = "live" THEN retired_by_flip(rows[g]) ELSE rows[g]
  BY <1>1 DEF PromoteFlip, promote_generation
<1>4. age'[g] = IF rows'[g].state = "retired" /\ rows[g].state # "retired" THEN 0 ELSE age[g]
  BY DEF PromoteFlip
<1>5. CASE g = cmd.gen
  BY <1>1, <1>2, <1>3, <1>5 DEF flipped, Row
<1>6. CASE g # cmd.gen /\ rows[g].state = "live"
  BY <1>1, <1>2, <1>3, <1>4, <1>6 DEF retired_by_flip, Row
<1>7. CASE g # cmd.gen /\ rows[g].state # "live"
  BY <1>1, <1>2, <1>3, <1>4, <1>7
<1> QED
  BY <1>5, <1>6, <1>7

LEMMA FlipServed ==
  ASSUME ServedInv, TypeInv, TypeInv', PromoteFlip
  PROVE  ServedInv'
<1>0. UNCHANGED <<store, alias, body, rst, tier, turn, spent>>
  BY DEF PromoteFlip
<1>1. cmd'.op = "promote" /\ cmd'.pc = "lexical" /\ cmd'.gen = cmd.gen
  BY DEF PromoteFlip, TypeInv, TypeOK, CmdType
<1>2. GcKept'
  BY <1>1 DEF GcKept
<1>3. \A g \in Gen : /\ Demotable(rows'[g]) => Demotable(rows[g])
                     /\ rows'[g].state # "retired" => rows[g].state # "retired"
                     /\ rows'[g].at = rows[g].at /\ rows'[g].counted = rows[g].counted
  BY FlipFields DEF Demotable
<1>4. LevelKept'
  BY <1>0, <1>3 DEF LevelKept, ServedInv
<1>5. ASSUME spent'.restores = 0 PROVE Unrestored'
  <2>1. Unrestored
    BY <1>0, <1>5 DEF ServedInv
  <2>2. StoresHold'
    BY <1>0, <1>3, <2>1 DEF Unrestored, StoresHold
  <2>3. \A g \in Gen : rows'[g].state = "live" => rows'[g].promotedAt
    BY FlipFields
  <2>4. Stamped'
    BY <1>0, <1>3, <2>1, <2>3 DEF Unrestored, Stamped
  <2>5. TurnKept'
    <3>1. SUFFICES ASSUME turn.gen # NoGen PROVE TurnKept'
      BY <1>0 DEF TurnKept
    <3>2. /\ turn.gen \in Gen /\ turn.days < Hold /\ rows[turn.gen].promotedAt
          /\ \A h \in Half : store[h][turn.gen] = "whole"
          /\ \/ rows[turn.gen].state = "live"
             \/ rows[turn.gen].state = "retired" /\ age[turn.gen] <= turn.days
      BY <2>1, <3>1 DEF Unrestored, TurnKept
    <3>3. turn.gen # cmd.gen
      BY <3>2, FlipFields
    <3>4. turn.days \in Nat
      BY DEF TypeInv, TypeOK, TurnType
    <3>5. /\ rows'[turn.gen].state = "retired" /\ age'[turn.gen] <= turn.days /\ rows'[turn.gen].promotedAt
      BY <3>2, <3>3, <3>4, FlipFields
    <3> QED
      BY <1>0, <1>1, <3>2, <3>5 DEF TurnKept
  <2>6. PromoteKept'
    BY <1>1, FlipFields DEF PromoteKept, TypeInv, CommandNames
  <2> QED
    BY <1>0, <2>1, <2>2, <2>4, <2>5, <2>6 DEF Unrestored
<1> QED
  BY <1>2, <1>4, <1>5 DEF ServedInv

LEMMA GcServed ==
  ASSUME ServedInv, TypeInv, TypeInv', RowsMoved, GcStart \/ (\E g \in Gen : GcDrop(g))
  PROVE  ServedInv'
<1>0. /\ rows \in [Gen -> Row] /\ cmd \in CmdType /\ spent \in SpentType /\ store \in [Half -> [Gen -> Content]]
      /\ alias \in [Half -> SUBSET Gen] /\ NoCmd.op = "none" /\ turn \in TurnType /\ age \in [Gen -> 0..Hold]
  BY DEF TypeInv, TypeOK, NoCmd
<1>1. ASSUME GcStart PROVE ServedInv'
  <2>1. /\ cmd'.op = "gc" /\ cmd'.pc = "lexical" /\ cmd'.drop = GcCandidates /\ cmd'.left = GcCandidates
        /\ spent'.restores = spent.restores
    BY <1>0, <1>1 DEF GcStart, Begin, NoCmd, SpentType
  <2>2. UNCHANGED <<rows, age, store, alias, body, rst, tier, turn>> /\ rst.pc = "none"
    BY <1>1 DEF GcStart, BackupLockFree
  <2>3. \A g \in GcCandidates : rows[g].state = "retired" /\ \A h \in Half : g \notin alias[h]
    BY <1>1 DEF GcStart, GcCandidates
  <2>4. GcKept'
    BY <2>1, <2>2, <2>3 DEF GcKept, Half
  <2>5. LevelKept'
    BY <2>2, LevelFrame DEF ServedInv
  <2>6. ASSUME spent'.restores = 0 PROVE Unrestored'
    <3>1. Unrestored
      BY <2>1, <2>6 DEF ServedInv
    <3>2. StoresHold' /\ Stamped'
      BY <2>2, <3>1, StoresFrame DEF Unrestored
    <3>3. turn.gen # NoGen => turn.gen \notin GcCandidates
      <4>1. SUFFICES ASSUME turn.gen # NoGen, turn.gen \in GcCandidates PROVE FALSE
        OBVIOUS
      <4>2. age[turn.gen] <= turn.days /\ turn.days < Hold /\ turn.gen \in Gen
        BY <3>1, <4>1 DEF Unrestored, TurnKept, GcCandidates
      <4>3. ~(age[turn.gen] < Hold)
        BY <3>1, <4>1 DEF Unrestored, TurnKept, GcCandidates
      <4>4. age[turn.gen] \in Nat /\ turn.days \in Nat
        BY <1>0, <4>2, HoldAssumption DEF TurnType
      <4> QED
        BY <4>2, <4>3, <4>4, HoldAssumption
    <3>4. TurnKept'
      BY <2>1, <2>2, <3>1, <3>3, TurnFrame DEF Unrestored
    <3> QED
      BY <2>1, <2>2, <3>1, <3>2, <3>4 DEF Unrestored, PromoteKept
  <2> QED
    BY <2>4, <2>5, <2>6 DEF ServedInv
<1>2. ASSUME NEW g \in Gen, GcDrop(g) PROVE ServedInv'
  <2>1. /\ cmd.op = "gc" /\ rst.pc = "none" /\ cmd.pc \in Half /\ cmd.left \subseteq cmd.drop
        /\ \A x \in cmd.drop : rows[x].state = "retired" /\ \A h \in Half : x \notin alias[h]
    BY <1>2 DEF GcDrop, ServedInv, GcKept
  <2>2. UNCHANGED <<rows, age, body, rst, tier, turn, spent>> /\ g \in cmd.drop
    BY <1>2, <2>1 DEF GcDrop
  <2>3. store' = [store EXCEPT ![cmd.pc][g] = "absent"] /\ alias' = [alias EXCEPT ![cmd.pc] = @ \ {g}]
    BY <1>2 DEF GcDrop
  <2>4. \A h \in Half : alias'[h] \subseteq alias[h]
    BY <1>0, <2>3
  <2>5. \/ cmd'.op = "none"
        \/ cmd'.op = "gc" /\ cmd'.pc \in Half /\ cmd'.drop = cmd.drop /\ cmd'.left \subseteq cmd.drop
    BY <1>0, <1>2, <2>1 DEF GcDrop, CmdType, Half
  <2>6. GcKept'
    BY <2>1, <2>2, <2>4, <2>5 DEF GcKept
  <2>7. \A x \in Gen, h \in Half : x \notin cmd.drop => store'[h][x] = store[h][x]
    BY <1>0, <2>2, <2>3
  <2>8. LevelKept'
    BY <2>1, <2>2 DEF ServedInv, LevelKept
  <2>9. ASSUME spent'.restores = 0 PROVE Unrestored'
    <3>1. Unrestored
      BY <2>2, <2>9 DEF ServedInv
    <3>2. \A x \in Gen, h \in Half : rows[x].state # "retired" => store'[h][x] = store[h][x]
      BY <2>1, <2>7
    <3>3. StoresHold' /\ Stamped'
      BY <2>2, <3>1, <3>2, StoresFrame DEF Unrestored
    <3>4. turn.gen # NoGen => turn.gen \in Gen /\ turn.gen \notin cmd.drop
      BY <2>1, <3>1 DEF Unrestored, TurnKept
    <3>5. TurnKept'
      BY <2>2, <2>5, <2>7, <3>1, <3>4, TurnFrame DEF Unrestored
    <3> QED
      BY <2>2, <2>5, <3>1, <3>3, <3>5 DEF Unrestored, PromoteKept
  <2> QED
    BY <2>6, <2>8, <2>9 DEF ServedInv
<1> QED
  BY <1>1, <1>2

LEMMA CommandsServed ==
  ASSUME ServedInv, RecordInv, TypeInv', Commands
  PROVE  ServedInv'
<1>1. TypeInv
  BY DEF RecordInv
<1>2. CASE PromoteFlip
  BY <1>1, <1>2, FlipServed
<1>3. CASE ~PromoteFlip
  <2>1. RowsMoved
    BY <1>1, <1>3, CommandsMoved
  <2> QED
    BY <1>1, <1>3, <2>1, BuildingServed, PromotingServed, RetiringServed, GcServed DEF Commands
<1> QED
  BY <1>2, <1>3

-----------------------------------------------------------------------------
(* The worker's jobs. *)

\* A step of the worker's needs the whole stack, so a restore works beside none.
LEMMA WorkerFrame ==
  ASSUME ServedInv, TypeInv, StaysRetired, UNCHANGED <<alias, cmd, rst, tier>>, tier = "up",
         spent'.restores = spent.restores,
         Unrestored => StoresHold' /\ Stamped' /\ TurnKept' /\ PromoteKept'
  PROVE  ServedInv'
<1>1. GcKept'
  BY GcFrame DEF ServedInv, GcKept
<1>2. LevelKept'
  BY DEF ServedInv, LevelKept
<1>3. spent'.restores = 0 => Unrestored'
  BY DEF ServedInv, Unrestored
<1> QED
  BY <1>1, <1>2, <1>3 DEF ServedInv

LEMMA QuietWorker ==
  ASSUME ServedInv, TypeInv, RowsMoved, RowsPromising,
         UNCHANGED <<age, alias, cmd, rst, tier, turn>>, tier = "up", spent'.restores = spent.restores,
         \A g \in Gen, h \in Half : store[h][g] = "whole" => store'[h][g] = "whole",
         Unrestored => StoresHold' /\ Stamped'
  PROVE  ServedInv'
<1>1. StaysRetired
  BY DEF StaysRetired, RowsMoved, Moved
<1>2. ASSUME Unrestored PROVE TurnKept' /\ PromoteKept'
  <2>1. turn.gen # NoGen =>
           /\ \A h \in Half : store[h][turn.gen] = "whole" => store'[h][turn.gen] = "whole"
           /\ age'[turn.gen] = age[turn.gen]
           /\ cmd'.op = "gc" => turn.gen \notin cmd'.drop
    BY <1>2 DEF Unrestored, TurnKept
  <2>2. TurnKept'
    BY <1>2, <2>1, TurnFrame DEF Unrestored
  <2>3. PromoteKept'
    BY <1>2, PromoteFrame DEF Unrestored
  <2> QED
    BY <2>2, <2>3
<1> QED
  BY <1>1, <1>2, WorkerFrame

\* A step that starts no fill and writes no store.
LEMMA IdlingWorker ==
  ASSUME ServedInv, TypeInv, TypeInv', RowsMoved, RowsPromising,
         UNCHANGED <<age, store, alias, cmd, rst, tier, turn>>, tier = "up", spent'.restores = spent.restores,
         \A g \in Gen, k \in Kind, s \in Slot :
           body'[g][k][s] \in {"fill", "filled"} => body'[g][k][s] = body[g][k][s]
  PROVE  ServedInv'
<1>1. Unrestored => StoresHold' /\ Stamped'
  BY StoresFrame DEF Unrestored
<1> QED
  BY <1>1, QuietWorker

\* Moved composes: the dense job resumes a failed row and then starts its attempt.
LEMMA MovedTwice ==
  ASSUME NEW r, NEW mid, NEW new, Moved(r, mid), Moved(mid, new)
  PROVE  Moved(r, new)
<1>1. r.state \in {"live", "retired"} => mid.state \in {"live", "retired"}
  BY DEF Moved
<1> QED
  BY <1>1 DEF Moved

\* One execution's step, and no other's, changes in the bodies.
LEMMA BodyUpdate ==
  ASSUME TypeInv, NEW g \in Gen, NEW k \in Kind, NEW s \in Slot, NEW step,
         body' = [body EXCEPT ![g][k][s] = step], NEW x \in Gen, NEW l \in Kind, NEW e \in Slot
  PROVE  body'[x][l][e] = IF x = g /\ l = k /\ e = s THEN step ELSE body[x][l][e]
<1>1. body \in [Gen -> [Kind -> [Slot -> BodyStep]]]
  BY DEF TypeInv, TypeOK
<1> QED
  BY <1>1

LEMMA WorkerUp ==
  ASSUME LevelKept, Worker
  PROVE  tier = "up"
<1>1. ASSUME NEW g \in Gen, NEW k \in Kind, NEW s \in Slot, body[g][k][s] # "idle" PROVE tier = "up"
  BY <1>1 DEF LevelKept
<1>2. ASSUME NEW g \in Gen, NEW k \in Kind, NEW s \in Slot,
             \/ JobStart(g, k, s) \/ BodyLock(g, k, s) \/ BodyBusy(g, k, s)
             \/ BodyFill(g, k, s) \/ BodyFinish(g, k, s) \/ BodyFail(g, k, s)
      PROVE  tier = "up"
  BY <1>1, <1>2 DEF JobStart, BodyLock, BodyBusy, BodyFill, BodyFinish, BodyFail
<1>3. ASSUME NEW g \in Gen, NEW s \in Slot, BodyProgress(g, s) PROVE tier = "up"
  BY <1>1, <1>3 DEF BodyProgress, Kind
<1> QED
  BY <1>2, <1>3 DEF Worker, RetryStalled, WorkerCrash

LEMMA IdlingServed ==
  ASSUME ServedInv, TypeInv, TypeInv', tier = "up",
         \/ \E g \in Gen, k \in Kind, s \in Slot :
              JobStart(g, k, s) \/ BodyBusy(g, k, s) \/ BodyFail(g, k, s)
         \/ \E g \in Gen, s \in Slot : BodyProgress(g, s)
         \/ \E g \in Gen, k \in Kind : RetryStalled(g, k)
         \/ WorkerCrash
  PROVE  ServedInv'
<1>0. rows \in [Gen -> Row] /\ spent \in SpentType
  BY DEF TypeInv, TypeOK
<1>1. ASSUME NEW g \in Gen, NEW k \in Kind, NEW s \in Slot, JobStart(g, k, s) PROVE ServedInv'
  <2>1. UNCHANGED <<rows, age, store, alias, cmd, rst, tier, turn, spent>>
    BY <1>1 DEF JobStart
  <2>2. body' = body \/ \E step \in {"read", "readFailed"} : body' = [body EXCEPT ![g][k][s] = step]
    BY <1>1 DEF JobStart
  <2>3. ASSUME NEW x \in Gen, NEW l \in Kind, NEW e \in Slot, body'[x][l][e] \in {"fill", "filled"}
        PROVE  body'[x][l][e] = body[x][l][e]
    <3>1. ASSUME NEW step \in {"read", "readFailed"}, body' = [body EXCEPT ![g][k][s] = step]
          PROVE  body'[x][l][e] = body[x][l][e]
      <4>1. body'[x][l][e] = IF x = g /\ l = k /\ e = s THEN step ELSE body[x][l][e]
        <5>1. body \in [Gen -> [Kind -> [Slot -> BodyStep]]]
          BY DEF TypeInv, TypeOK
        <5> QED
          BY ONLY <3>1, <5>1, g \in Gen, k \in Kind, s \in Slot, x \in Gen, l \in Kind, e \in Slot
      <4> QED
        BY ONLY <2>3, <3>1, <4>1
    <3> QED
      BY <2>2, <3>1
  <2> QED
    BY <1>0, <2>1, <2>3, SameMoved, SamePromising, IdlingWorker
<1>2. ASSUME NEW g \in Gen, NEW k \in Kind, NEW s \in Slot, BodyBusy(g, k, s) PROVE ServedInv'
  <2>1. UNCHANGED <<rows, age, store, alias, cmd, rst, tier, turn, spent>>
    BY <1>2 DEF BodyBusy
  <2>2. body' = [body EXCEPT ![g][k][s] = "idle"]
    BY <1>2 DEF BodyBusy
  <2>3. \A x \in Gen, l \in Kind, e \in Slot :
          body'[x][l][e] \in {"fill", "filled"} => body'[x][l][e] = body[x][l][e]
    BY <2>2, BodyUpdate
  <2> QED
    BY <1>0, <2>1, <2>3, SameMoved, SamePromising, IdlingWorker
<1>3. ASSUME NEW g \in Gen, NEW k \in Kind, NEW s \in Slot, BodyFail(g, k, s) PROVE ServedInv'
  <2>1. UNCHANGED <<age, store, alias, cmd, rst, tier, turn>> /\ spent'.restores = spent.restores
    BY <1>0, <1>3 DEF BodyFail, SpentType
  <2>2. body' = [body EXCEPT ![g][k][s] = "idle"]
    BY <1>3 DEF BodyFail
  <2>3. \A x \in Gen, l \in Kind, e \in Slot :
          body'[x][l][e] \in {"fill", "filled"} => body'[x][l][e] = body[x][l][e]
    BY <2>2, BodyUpdate
  <2>4. rows' = [rows EXCEPT ![g] = fail(rows[g])] \/ rows' = rows
    BY <1>3 DEF BodyFail
  <2>5. Moved(rows[g], fail(rows[g])) /\ Promising(rows[g], fail(rows[g]))
    BY <1>0, StatementsMove, WorkerPromises
  <2>6. RowsMoved /\ RowsPromising
    BY <1>0, <2>4, <2>5, SameMoved, UpdateMoved, SamePromising, UpdatePromising
  <2> QED
    BY <2>1, <2>3, <2>6, IdlingWorker
<1>4. ASSUME NEW g \in Gen, NEW s \in Slot, BodyProgress(g, s) PROVE ServedInv'
  <2>1. UNCHANGED <<age, store, alias, body, cmd, rst, tier, turn, spent>>
    BY <1>4 DEF BodyProgress
  <2>2. rows' = [rows EXCEPT ![g] = progress(rows[g])]
    BY <1>4 DEF BodyProgress
  <2>3. Moved(rows[g], progress(rows[g])) /\ Promising(rows[g], progress(rows[g]))
    BY <1>0, StatementsMove, WorkerPromises
  <2>4. RowsMoved /\ RowsPromising
    BY <1>0, <2>2, <2>3, UpdateMoved, UpdatePromising
  <2> QED
    BY <2>1, <2>4, IdlingWorker
<1>5. ASSUME NEW g \in Gen, NEW k \in Kind, RetryStalled(g, k) PROVE ServedInv'
  <2>1. UNCHANGED <<rows, age, store, alias, body, cmd, rst, tier, turn>> /\ spent'.restores = spent.restores
    BY <1>0, <1>5 DEF RetryStalled, SpentType
  <2> QED
    BY <1>0, <2>1, SameMoved, SamePromising, IdlingWorker
<1>6. ASSUME WorkerCrash PROVE ServedInv'
  <2>1. UNCHANGED <<rows, age, store, alias, cmd, rst, tier, turn>> /\ spent'.restores = spent.restores
    BY <1>0, <1>6 DEF WorkerCrash, SpentType
  <2>2. \A x \in Gen, l \in Kind, e \in Slot : body'[x][l][e] = "idle"
    BY <1>6 DEF WorkerCrash
  <2> QED
    BY <1>0, <2>1, <2>2, SameMoved, SamePromising, IdlingWorker
<1> QED
  BY <1>1, <1>2, <1>3, <1>4, <1>5, <1>6

\* Under its flock a job creates what is absent; it writes nothing whole over.
LEMMA LockServed ==
  ASSUME ServedInv, TypeInv, TypeInv', tier = "up", NEW g \in Gen, NEW k \in Kind, NEW s \in Slot,
         BodyLock(g, k, s)
  PROVE  ServedInv'
<1>0. rows \in [Gen -> Row] /\ store \in [Half -> [Gen -> Content]]
  BY DEF TypeInv, TypeOK
<1> DEFINE read == IF body[g][k][s] = "readFailed" THEN resume(rows[g]) ELSE rows[g]
<1>1. PICK limited \in BOOLEAN :
        /\ rows' = [rows EXCEPT ![g] = IF k = "dense" THEN start(read, limited) ELSE read]
        /\ body' = [body EXCEPT ![g][k][s] = IF limited THEN "fillLimited" ELSE "fill"]
  BY BoundAssumption DEF BodyLock
<1>2. read \in Row /\ Moved(rows[g], read) /\ Promising(rows[g], read)
  BY <1>0, StatementsMove, WorkerPromises, StatementTypes
<1> HIDE DEF read
<1>3. Moved(read, start(read, limited)) /\ Promising(read, start(read, limited))
  BY <1>2, StatementsMove, WorkerPromises
<1>4. Moved(rows[g], start(read, limited)) /\ Promising(rows[g], start(read, limited))
  BY <1>2, <1>3, MovedTwice DEF Promising
<1>5. RowsMoved /\ RowsPromising
  BY <1>0, <1>1, <1>2, <1>4, UpdateMoved, UpdatePromising
<1>6. UNCHANGED <<age, alias, cmd, rst, tier, turn, spent>>
  BY DEF BodyLock
<1>7. store' = IF k \in Half /\ store[k][g] = "absent" THEN [store EXCEPT ![k][g] = "part"] ELSE store
  BY DEF BodyLock
<1>8. /\ \A x \in Gen, h \in Half : /\ store[h][x] = "whole" => store'[h][x] = "whole"
                                    /\ store[h][x] # "absent" => store'[h][x] # "absent"
      /\ k \in Half => store'[k][g] # "absent"
  BY <1>0, <1>7
<1>9. \A x \in Gen, l \in Kind, e \in Slot :
        body'[x][l][e] \in {"fill", "filled"} =>
          \/ body'[x][l][e] = body[x][l][e]
          \/ x = g /\ l = k /\ body'[x][l][e] = "fill"
  BY <1>1, BodyUpdate
<1>10. ASSUME Unrestored PROVE StoresHold' /\ Stamped'
  <2>1. \A x \in Gen : rows'[x].state # "retired" => rows[x].state # "retired"
    BY <1>5 DEF RowsMoved, Moved
  <2>2. StoresHold /\ Stamped
    BY <1>10 DEF Unrestored
  <2>3. ASSUME NEW x \in Gen, NEW h \in Half, rows'[x].state # "retired"
        PROVE  /\ rows'[x].at[h] => store'[h][x] = "whole"
               /\ \A e \in Slot : /\ body'[x][h][e] = "filled" => store'[h][x] = "whole"
                                  /\ body'[x][h][e] = "fill" => store'[h][x] # "absent"
    <3>1. rows[x].at[h] => store[h][x] = "whole"
      BY <2>1, <2>2, <2>3 DEF StoresHold
    <3>2. \A e \in Slot : /\ body[x][h][e] = "filled" => store[h][x] = "whole"
                          /\ body[x][h][e] = "fill" => store[h][x] # "absent"
      BY <2>1, <2>2, <2>3 DEF StoresHold
    <3>3. rows'[x].at[h] => rows[x].at[h]
      BY <1>5 DEF RowsMoved, Moved
    <3>4. h \in Kind
      BY DEF Half, Kind
    <3> QED
      BY <1>8, <1>9, <3>1, <3>2, <3>3, <3>4
  <2>4. StoresHold'
    BY <2>3 DEF StoresHold
  <2>5. \A x \in Gen, e \in Slot : body'[x]["dupes"][e] # "filled"
    BY <1>9, <2>2 DEF Stamped, Kind
  <2>6. Stamped'
    BY <1>5, <2>2, <2>5 DEF Stamped, RowsMoved, Moved
  <2> QED
    BY <2>4, <2>6
<1> QED
  BY <1>5, <1>6, <1>8, <1>10, QuietWorker

\* What a job fills of a generation that is not retired is there, so it ends whole.
LEMMA FillServed ==
  ASSUME ServedInv, TypeInv, TypeInv', tier = "up", NEW g \in Gen, NEW k \in Kind, NEW s \in Slot,
         BodyFill(g, k, s)
  PROVE  ServedInv'
<1>0. rows \in [Gen -> Row] /\ store \in [Half -> [Gen -> Content]]
  BY DEF TypeInv, TypeOK
<1>1. UNCHANGED <<rows, age, alias, cmd, rst, tier, turn, spent>> /\ k \in Half /\ body[g][k][s] = "fill"
  BY DEF BodyFill
<1>2. RowsMoved /\ RowsPromising
  BY <1>0, <1>1, SameMoved, SamePromising
<1>3. store' = [store EXCEPT ![k][g] = IF @ = "absent" THEN "part" ELSE "whole"]
  BY DEF BodyFill
<1>4. /\ \A x \in Gen, h \in Half : /\ store[h][x] = "whole" => store'[h][x] = "whole"
                                    /\ store[h][x] # "absent" => store'[h][x] # "absent"
      /\ store[k][g] # "absent" => store'[k][g] = "whole"
  BY <1>0, <1>1, <1>3
<1>5. body' = [body EXCEPT ![g][k][s] = "filled"]
  BY DEF BodyFill
<1>6. \A x \in Gen, l \in Kind, e \in Slot :
        body'[x][l][e] = body[x][l][e] \/ (x = g /\ l = k /\ body'[x][l][e] = "filled")
  BY <1>5, BodyUpdate
<1>7. ASSUME Unrestored PROVE StoresHold' /\ Stamped'
  <2>1. StoresHold /\ Stamped
    BY <1>7 DEF Unrestored
  <2>2. ASSUME NEW x \in Gen, NEW h \in Half, rows[x].state # "retired"
        PROVE  /\ rows[x].at[h] => store'[h][x] = "whole"
               /\ \A e \in Slot : /\ body'[x][h][e] = "filled" => store'[h][x] = "whole"
                                  /\ body'[x][h][e] = "fill" => store'[h][x] # "absent"
    <3>1. rows[x].at[h] => store[h][x] = "whole"
      BY <2>1, <2>2 DEF StoresHold
    <3>2. \A e \in Slot : /\ body[x][h][e] = "filled" => store[h][x] = "whole"
                          /\ body[x][h][e] = "fill" => store[h][x] # "absent"
      BY <2>1, <2>2 DEF StoresHold
    <3>3. h \in Kind
      BY DEF Half, Kind
    <3>4. x = g /\ h = k => store'[h][x] = "whole"
      BY <1>1, <1>4, <3>2
    <3> QED
      BY <1>4, <1>6, <3>1, <3>2, <3>3, <3>4
  <2>3. StoresHold'
    BY <1>1, <2>2 DEF StoresHold
  <2>4. \A x \in Gen, e \in Slot : body'[x]["dupes"][e] # "filled"
    BY <1>1, <1>6, <2>1 DEF Stamped, Kind, Half
  <2>5. Stamped'
    BY <1>1, <2>1, <2>4 DEF Stamped
  <2> QED
    BY <2>3, <2>5
<1> QED
  BY <1>1, <1>2, <1>4, <1>7, QuietWorker

\* FINISH_SQL stamps what is whole, and calls built what is stamped in both halves.
LEMMA FinishServed ==
  ASSUME ServedInv, RecordInv, TypeInv', tier = "up", NEW g \in Gen, NEW k \in Kind, NEW s \in Slot,
         BodyFinish(g, k, s)
  PROVE  ServedInv'
<1>0. TypeInv /\ rows \in [Gen -> Row]
  BY DEF RecordInv, TypeInv, TypeOK
<1>1. UNCHANGED <<age, store, alias, cmd, rst, tier, turn, spent>> /\ body' = [body EXCEPT ![g][k][s] = "idle"]
  BY DEF BodyFinish
<1>2. \/ rows' = rows
      \/ body[g][k][s] = "filled" /\ rows' = [rows EXCEPT ![g] = finish(rows[g], k)]
  BY DEF BodyFinish
<1>3. \A x \in Gen, l \in Kind, e \in Slot : body'[x][l][e] = body[x][l][e] \/ body'[x][l][e] = "idle"
  BY <1>0, <1>1, BodyUpdate
<1>4. CASE rows' = rows
  <2>1. RowsMoved /\ RowsPromising
    BY <1>0, <1>4, SameMoved, SamePromising
  <2>2. \A x \in Gen, l \in Kind, e \in Slot :
          body'[x][l][e] \in {"fill", "filled"} => body'[x][l][e] = body[x][l][e]
    BY <1>3
  <2> QED
    BY <1>0, <1>1, <2>1, <2>2, IdlingWorker
<1>5. CASE body[g][k][s] = "filled" /\ rows' = [rows EXCEPT ![g] = finish(rows[g], k)]
  <2>1. StaysRetired
    <3>1. Worker
      BY DEF Worker
    <3>2. RowsTame
      BY <3>1, WorkerTame
    <3> QED
      BY <3>2 DEF RowsTame, Tame, StaysRetired
  <2>2. ASSUME Unrestored PROVE StoresHold' /\ Stamped' /\ TurnKept' /\ PromoteKept'
    <3> DEFINE new == finish(rows[g], k)
    <3>1. StoresHold /\ Stamped /\ TurnKept /\ PromoteKept
      BY <2>2 DEF Unrestored
    <3>2. k \in Half
      BY <1>5, <3>1 DEF Stamped, Kind, Half
    <3>3. /\ new.at = [rows[g].at EXCEPT ![k] = TRUE]
          /\ new.state = rows[g].state \/ (rows[g].state = "building" /\ new.state = "built" /\ \A x \in Half : new.at[x])
          /\ new.promotedAt = rows[g].promotedAt /\ new.report = rows[g].report /\ new.footprint = rows[g].footprint
      BY <1>0, <3>2, FinishFields
    <3>4. /\ rows'[g] = new
          /\ \A x \in Gen \ {g} : rows'[x] = rows[x]
      BY <1>0, <1>5
    <3> HIDE DEF new
    <3>5. \A x \in Gen : /\ rows'[x].state = "live" <=> rows[x].state = "live"
                         /\ rows'[x].state = "retired" <=> rows[x].state = "retired"
                         /\ rows'[x].promotedAt = rows[x].promotedAt
                         /\ rows'[x].report = rows[x].report /\ rows'[x].footprint = rows[x].footprint
      BY <3>3, <3>4
    <3>6. rows[g].at \in [Half -> BOOLEAN]
      BY <1>0 DEF Row
    <3>7. \A x \in Gen, h \in Half : rows'[x].at[h] => rows[x].at[h] \/ (x = g /\ h = k)
      BY <3>3, <3>4, <3>6
    <3>8. \A x \in Gen, h \in Half : rows[x].at[h] => rows'[x].at[h]
      BY <3>3, <3>4, <3>6
    <3>9. StoresHold'
      <4>1. rows[g].state # "retired" => store[k][g] = "whole"
        BY <1>5, <3>1, <3>2 DEF StoresHold
      <4>2. \A h \in Half : h \in Kind
        BY DEF Half, Kind
      <4>3. ASSUME NEW x \in Gen, NEW h \in Half, rows'[x].state # "retired"
            PROVE  /\ rows'[x].at[h] => store[h][x] = "whole"
                   /\ \A e \in Slot : /\ body'[x][h][e] = "filled" => store[h][x] = "whole"
                                      /\ body'[x][h][e] = "fill" => store[h][x] # "absent"
        <5>1. rows[x].state # "retired"
          BY <3>5, <4>3
        <5>2. rows'[x].at[h] => store[h][x] = "whole"
          BY <3>1, <3>7, <4>1, <5>1 DEF StoresHold
        <5>3. \A e \in Slot : /\ body'[x][h][e] = "filled" => store[h][x] = "whole"
                              /\ body'[x][h][e] = "fill" => store[h][x] # "absent"
          BY <1>3, <3>1, <4>2, <5>1 DEF StoresHold
        <5> QED
          BY <5>2, <5>3
      <4> QED
        BY <1>1, <4>3 DEF StoresHold
    <3>10. Stamped'
      <4>1. ASSUME NEW x \in Gen, Demotable(rows'[x]) PROVE \A h \in Half : rows'[x].at[h]
        <5>1. Demotable(rows[x]) \/ (x = g /\ \A h \in Half : new.at[h])
          BY <3>3, <3>4, <4>1 DEF Demotable
        <5> QED
          BY <3>1, <3>4, <3>8, <5>1 DEF Stamped
      <4>2. \A x \in Gen, e \in Slot : body'[x]["dupes"][e] # "filled"
        BY <1>3, <3>1 DEF Stamped, Kind
      <4> QED
        BY <3>1, <3>5, <4>1, <4>2 DEF Stamped
    <3>11. TurnKept'
      BY <1>1, <3>1, <3>5 DEF TurnKept
    <3>12. PromoteKept'
      BY <1>0, <1>1, <3>1, <3>5 DEF PromoteKept, TypeInv, CommandNames
    <3> QED
      BY <3>9, <3>10, <3>11, <3>12
  <2> QED
    BY <1>0, <1>1, <2>1, <2>2, WorkerFrame
<1> QED
  BY <1>2, <1>4, <1>5

LEMMA WorkerServed ==
  ASSUME ServedInv, RecordInv, TypeInv', Worker
  PROVE  ServedInv'
<1>1. TypeInv /\ tier = "up"
  BY WorkerUp DEF RecordInv, ServedInv
<1> QED
  BY <1>1, LockServed, FillServed, FinishServed, IdlingServed DEF Worker

-----------------------------------------------------------------------------
(* Backups, restores, turns and time. *)

\* Rows, stores and bodies that stand keep what is kept of them.
LEMMA StandingFrame ==
  ASSUME Unrestored, UNCHANGED <<rows, age, store, body, cmd, turn>>
  PROVE  StoresHold' /\ Stamped' /\ TurnKept' /\ PromoteKept'
  BY DEF Unrestored, StoresHold, Stamped, TurnKept, PromoteKept

\* What the levelling reads of a counted row: a half is short exactly when it is not whole.
LEMMA LevelReadsWhole ==
  ASSUME TypeInv, LevelRead, NEW g \in Gen, Demotable(rows[g]), rows[g].counted, rst'.short[g] = {}
  PROVE  \A h \in Half : store[h][g] = "whole"
<1>1. PICK short \in [Gen -> SUBSET Half] :
        /\ \A x \in Gen : short[x] \in (IF Demotable(rows[x]) THEN Findings(x) ELSE {{}})
        /\ rst' = [NoRst EXCEPT !.pc = "demote", !.short = short,
                                !.whole = {x \in Live : short[x] = {}}, !.seen = alias]
  BY DEF LevelRead
<1>2. rst'.short = short
  BY <1>1 DEF NoRst
<1>3. short[g] = ShortHalves(g)
  BY <1>1 DEF Findings
<1> QED
  BY <1>2, <1>3 DEF ShortHalves

LEMMA RestoringServed ==
  ASSUME ServedInv, TypeInv, TypeInv', Restoring
  PROVE  ServedInv'
<1>0. spent \in SpentType /\ rst \in RstType /\ NoRst.pc = "none" /\ rows \in [Gen -> Row]
  BY DEF TypeInv, TypeOK, NoRst
<1>1. GcKept /\ LevelKept /\ (spent.restores = 0 => Unrestored)
  BY DEF ServedInv
<1>2. rst.pc # "none" => cmd.op # "gc"
  BY <1>1 DEF GcKept
<1>3. rst.pc \notin {"none", "backup"} => spent.restores # 0
  BY <1>1 DEF Unrestored
<1>4. ASSUME BackupStores PROVE ServedInv'
  <2>1. UNCHANGED <<rows, age, store, body, cmd, tier, turn>> /\ rst'.pc = "backup" /\ cmd.op # "gc" /\ tier = "up"
    BY <1>4 DEF BackupStores, BackupLockFree, NoRst
  <2>2. spent'.restores = spent.restores
    BY <1>0, <1>4 DEF BackupStores, SpentType
  <2>3. GcKept' /\ LevelKept'
    BY <2>1 DEF GcKept, LevelKept
  <2> QED
    BY <1>1, <2>1, <2>2, <2>3, StandingFrame DEF ServedInv, Unrestored
<1>5. ASSUME BackupRecord \/ RestoreStops PROVE ServedInv'
  <2>1. UNCHANGED <<rows, age, store, body, cmd, tier, turn, spent>> /\ rst'.pc = "none" /\ rst.pc # "none"
    BY <1>0, <1>5 DEF BackupRecord, RestoreStops
  <2>2. GcKept' /\ LevelKept'
    BY <1>1, <1>2, <2>1 DEF GcKept, LevelKept
  <2> QED
    BY <1>1, <2>1, <2>2, StandingFrame DEF ServedInv, Unrestored
<1>6. ASSUME RestoreStop PROVE ServedInv'
  <2>1. rst'.pc = "stopped" /\ tier' = "down" /\ cmd' = cmd /\ cmd.op # "gc"
    BY <1>6 DEF RestoreStop, BackupLockFree, NoRst
  <2>2. \A g \in Gen, k \in Kind, s \in Slot : body'[g][k][s] = "idle"
    BY <1>6 DEF RestoreStop
  <2>3. spent'.restores = spent.restores + 1 /\ spent.restores \in Nat
    BY <1>0, <1>6 DEF RestoreStop, SpentType
  <2>4. GcKept' /\ LevelKept'
    BY <2>1, <2>2 DEF GcKept, LevelKept
  <2>5. spent'.restores # 0
    BY <2>3
  <2> QED
    BY <2>4, <2>5 DEF ServedInv
<1>7. ASSUME NEW mode, NEW toSet, RestoreRecover(mode, toSet) PROVE ServedInv'
  <2>1. rst.pc = "stopped" /\ rst'.pc = "level" /\ tier' = "stores" /\ UNCHANGED <<body, cmd, spent>>
    BY <1>0, <1>7 DEF RestoreRecover, RstType
  <2>2. GcKept' /\ LevelKept'
    BY <1>1, <1>2, <2>1 DEF GcKept, LevelKept
  <2> QED
    BY <1>3, <2>1, <2>2 DEF ServedInv
<1>8. ASSUME LevelRead PROVE ServedInv'
  <2>1. rst.pc = "level" /\ rst'.pc = "demote" /\ UNCHANGED <<rows, store, tier, body, cmd, spent>>
    BY <1>8 DEF LevelRead, NoRst
  <2>2. GcKept'
    BY <1>2, <2>1 DEF GcKept
  <2>3. \A g \in Gen : Demotable(rows[g]) /\ rows[g].counted /\ rst'.short[g] = {} =>
          \A h \in Half : store[h][g] = "whole"
    BY <1>8, LevelReadsWhole
  <2>4. LevelKept'
    BY <1>1, <2>1, <2>3 DEF LevelKept
  <2> QED
    BY <1>3, <2>1, <2>2, <2>4 DEF ServedInv
<1>9. ASSUME NEW x \in Gen, LevelDemote(x) PROVE ServedInv'
  <2>1. /\ rst.pc = "demote" /\ UNCHANGED <<store, tier, body, cmd, spent>>
        /\ rst' = [rst EXCEPT !.short[x] = {}]
        /\ rows' = [rows EXCEPT ![x] = demote_generation(rows[x], rst.short[x])]
    BY <1>9 DEF LevelDemote
  <2>2. rst'.pc = "demote" /\ \A g \in Gen \ {x} : rst'.short[g] = rst.short[g]
    BY <1>0, <2>1 DEF RstType
  <2>3. ~Demotable(rows'[x]) /\ \A g \in Gen \ {x} : rows'[g] = rows[g]
    BY <1>0, <2>1 DEF demote_generation, Demotable, Row
  <2>4. GcKept'
    BY <1>2, <2>1 DEF GcKept
  <2>5. LevelKept'
    BY <1>1, <2>1, <2>2, <2>3 DEF LevelKept
  <2> QED
    BY <1>3, <2>1, <2>4, <2>5 DEF ServedInv
<1>10. ASSUME LevelPoint PROVE ServedInv'
  <2>1. /\ rst.pc \in {"demote", "dense"} /\ UNCHANGED <<rows, store, tier, body, cmd, spent>>
        /\ rst.pc = "demote" => \A g \in Gen : rst.short[g] = {}
    BY <1>10 DEF LevelPoint
  <2>2. rst'.pc = "none" \/ (rst'.pc = "dense" /\ rst'.short = rst.short /\ rst.pc = "demote")
    BY <1>0, <1>10 DEF LevelPoint, RstType
  <2>3. GcKept'
    BY <1>2, <2>1 DEF GcKept
  <2>4. LevelKept'
    BY <1>1, <2>1, <2>2 DEF LevelKept
  <2> QED
    BY <1>3, <2>1, <2>3, <2>4 DEF ServedInv
<1>11. ASSUME Apply PROVE ServedInv'
  <2>1. UNCHANGED <<rows, age, store, alias, body, cmd, rst, turn, spent>> /\ rst.pc = "none" /\ tier' = "up"
    BY <1>11 DEF Apply
  <2>2. GcKept' /\ LevelKept'
    BY <1>1, <2>1 DEF GcKept, LevelKept
  <2> QED
    BY <1>1, <2>1, <2>2, StandingFrame DEF ServedInv, Unrestored
<1> QED
  BY <1>4, <1>5, <1>6, <1>7, <1>8, <1>9, <1>10, <1>11 DEF Restoring

LEMMA ServingServed ==
  ASSUME ServedInv, TypeInv, TypeInv', Serving
  PROVE  ServedInv'
<1>0. UNCHANGED <<rows, store, alias, body, cmd, rst, tier, spent>>
  BY DEF Serving, TurnStart, TurnEnd, Tick
<1>1. GcKept' /\ LevelKept'
  BY <1>0 DEF ServedInv, GcKept, LevelKept
<1>2. ASSUME spent.restores = 0, TurnKept' PROVE ServedInv'
  <2>1. Unrestored
    BY <1>2 DEF ServedInv
  <2>2. StoresHold' /\ Stamped' /\ PromoteKept'
    BY <1>0, <2>1 DEF Unrestored, StoresHold, Stamped, PromoteKept
  <2> QED
    BY <1>0, <1>1, <1>2, <2>1, <2>2 DEF ServedInv, Unrestored
<1>3. CASE spent.restores # 0
  BY <1>0, <1>1, <1>3 DEF ServedInv
<1>4. ASSUME spent.restores = 0 PROVE TurnKept'
  <2>0. StoresHold /\ Stamped /\ TurnKept
    BY <1>4 DEF ServedInv, Unrestored
  <2>1. ASSUME NEW g \in Gen, TurnStart(g) PROVE TurnKept'
    <3>1. turn'.gen = g /\ turn'.days = 0 /\ rows[g].state = "live"
      BY <2>1 DEF TurnStart, Live
    <3>2. rows[g].promotedAt /\ \A h \in Half : store[h][g] = "whole"
      BY <2>0, <3>1 DEF Stamped, StoresHold, Demotable
    <3>3. cmd.op = "gc" => g \notin cmd.drop
      BY <3>1 DEF ServedInv, GcKept
    <3>4. 0 < Hold
      BY HoldAssumption
    <3> QED
      BY <1>0, <3>1, <3>2, <3>3, <3>4 DEF TurnKept
  <2>2. ASSUME TurnEnd PROVE TurnKept'
    BY <2>2 DEF TurnEnd, TurnKept, NoTurn
  <2>3. ASSUME Tick PROVE TurnKept'
    <3>1. turn \in TurnType /\ age \in [Gen -> 0..Hold]
      BY DEF TypeInv, TypeOK
    <3>2. CASE turn = NoTurn
      BY <2>3, <3>2 DEF Tick, TurnKept, NoTurn
    <3>3. CASE turn # NoTurn
      <4>1. turn' = [turn EXCEPT !.days = turn.days + 1] /\ turn.days + 1 < Hold
        BY <2>3, <3>3 DEF Tick
      <4>2. turn'.gen = turn.gen /\ turn'.days = turn.days + 1
        BY <3>1, <4>1 DEF TurnType
      <4>3. ASSUME turn.gen # NoGen PROVE turn.gen \in Gen /\ (age[turn.gen] <= turn.days => age'[turn.gen] <= turn'.days)
        <5>1. turn.gen \in Gen
          BY <2>0, <4>3 DEF TurnKept
        <5>2. age[turn.gen] \in Nat /\ turn.days \in Nat
          BY <3>1, <5>1, HoldAssumption DEF TurnType
        <5>3. age'[turn.gen] = age[turn.gen] + 1 \/ age'[turn.gen] = age[turn.gen]
          BY <2>3, <5>1 DEF Tick
        <5> QED
          BY <4>2, <5>1, <5>2, <5>3
      <4> QED
        BY <1>0, <2>0, <4>1, <4>2, <4>3 DEF TurnKept
    <3> QED
      BY <3>2, <3>3
  <2> QED
    BY <2>1, <2>2, <2>3 DEF Serving
<1> QED
  BY <1>2, <1>3, <1>4

LEMMA ServedAlways == Spec => [](RecordInv /\ ServedInv)
<1>1. Init => ServedInv
  <2> SUFFICES ASSUME Init PROVE ServedInv
    OBVIOUS
  <2>1. /\ cmd.op = "none" /\ rst.pc = "none" /\ tier = "up" /\ turn.gen = NoGen
        /\ \A g \in Gen, k \in Kind, s \in Slot : body[g][k][s] = "idle"
        /\ \A g \in Gen : rows[g].state = "absent" /\ \A h \in Half : ~rows[g].at[h]
    BY DEF Init, NoCmd, NoRst, NoTurn, NoRow
  <2>2. GcKept /\ LevelKept
    BY <2>1 DEF GcKept, LevelKept
  <2>3. StoresHold /\ Stamped
    BY <2>1 DEF StoresHold, Stamped, Demotable, Half, Kind
  <2>4. TurnKept /\ PromoteKept
    BY <2>1 DEF TurnKept, PromoteKept
  <2> QED
    BY <2>1, <2>2, <2>3, <2>4 DEF ServedInv, Unrestored
<1>2. RecordInv /\ ServedInv /\ RecordInv' /\ [Next]_vars => ServedInv'
  <2> SUFFICES ASSUME RecordInv, ServedInv, RecordInv', [Next]_vars PROVE ServedInv'
    OBVIOUS
  <2>1. TypeInv /\ TypeInv'
    BY DEF RecordInv
  <2>2. CASE UNCHANGED vars
    BY <2>2 DEF vars, ServedInv, GcKept, LevelKept, Unrestored, StoresHold, Stamped, TurnKept, PromoteKept
  <2>3. CASE Next
    BY <2>1, <2>3, CommandsServed, WorkerServed, RestoringServed, ServingServed DEF Next
  <2> QED
    BY <2>2, <2>3
<1> QED
  BY <1>1, <1>2, RecordAlways, PTL DEF Spec

\* Until the first restore, a built or live generation is stamped in both halves and whole in both
\* stores, whatever builds, stalled and overlapping jobs, crashes, promotes and collections run.
THEOREM BuiltAlwaysWhole == Spec => [](spent.restores = 0 => BuiltWhole)
<1>1. ServedInv => (spent.restores = 0 => BuiltWhole)
  BY DEF ServedInv, Unrestored, StoresHold, Stamped, BuiltWhole, Demotable
<1> QED
  BY <1>1, ServedAlways, PTL

\* Until the first restore, a turn finds the generation it read whole in both stores for as long as
\* it runs: index gc's hold outlasts it.
THEOREM TurnAlwaysServed == Spec => [](spent.restores = 0 => TurnServed)
<1>1. ServedInv => (spent.restores = 0 => TurnServed)
  BY DEF ServedInv, Unrestored, TurnKept, TurnServed
<1> QED
  BY <1>1, ServedAlways, PTL

-----------------------------------------------------------------------------
(* What a step may never do. *)

\* Only index gc's own deletion, or a restore, takes a generation out of a store.
LEMMA StoreLeaves ==
  ASSUME TypeInv, [Next]_vars, NEW g \in Gen, NEW h \in Half,
         store[h][g] # "absent", store'[h][g] = "absent"
  PROVE  GcDrop(g) \/ rst.pc = "stopped"
<1>0. store \in [Half -> [Gen -> Content]]
  BY DEF TypeInv, TypeOK
<1>1. CASE store' = store
  BY <1>1
<1>2. ASSUME NEW x \in Gen, GcDrop(x) PROVE GcDrop(g)
  <2>1. x = g
    BY <1>0, <1>2 DEF GcDrop
  <2> QED
    BY <1>2, <2>1
<1>3. ASSUME NEW x \in Gen, NEW k \in Kind, NEW s \in Slot, BodyLock(x, k, s) PROVE FALSE
  BY <1>0, <1>3 DEF BodyLock
<1>4. ASSUME NEW x \in Gen, NEW k \in Kind, NEW s \in Slot, BodyFill(x, k, s) PROVE FALSE
  BY <1>0, <1>4 DEF BodyFill
<1>5. ASSUME NEW mode, NEW toSet, RestoreRecover(mode, toSet) PROVE rst.pc = "stopped"
  BY <1>5 DEF RestoreRecover
<1>6. CASE UNCHANGED vars
  BY <1>1, <1>6 DEF vars
<1>7. CASE Commands
  BY <1>1, <1>2, <1>7 DEF Commands, BuildStart, FinishStart, PromoteStart, RetireStart, BuildDefer, BuildPoll,
     BuildBuilt, BuildFinish, PromoteGates, PromoteFlip, PromotePoint, RetireWrite, GcStart, CommandStops
<1>8. CASE Worker
  <2>1. ASSUME NEW x \in Gen, NEW k \in Kind, NEW s \in Slot,
               JobStart(x, k, s) \/ BodyBusy(x, k, s) \/ BodyFinish(x, k, s) \/ BodyFail(x, k, s)
        PROVE  store' = store
    BY <2>1 DEF JobStart, BodyBusy, BodyFinish, BodyFail
  <2>2. ASSUME NEW x \in Gen, NEW k \in Kind, RetryStalled(x, k) PROVE store' = store
    BY <2>2 DEF RetryStalled
  <2>3. ASSUME NEW x \in Gen, NEW s \in Slot, BodyProgress(x, s) PROVE store' = store
    BY <2>3 DEF BodyProgress
  <2>4. WorkerCrash => store' = store
    BY DEF WorkerCrash
  <2> QED
    BY <1>1, <1>3, <1>4, <1>8, <2>1, <2>2, <2>3, <2>4 DEF Worker
<1>9. CASE Restoring
  BY <1>1, <1>5, <1>9 DEF Restoring, BackupStores, BackupRecord, RestoreStop, LevelRead, LevelDemote, LevelPoint,
     RestoreStops, Apply
<1>10. CASE Serving
  BY <1>1, <1>10 DEF Serving, TurnStart, TurnEnd, Tick
<1> QED
  BY <1>6, <1>7, <1>8, <1>9, <1>10 DEF Next

\* index gc deletes nothing that an alias names or that is not retired when it goes, with any number
\* of generations and of restores before, after and refused beside it.
THEOREM GcAlwaysSpares == Spec => GcSpares
<1>1. RecordInv /\ ServedInv /\ [Next]_vars =>
        [\A g \in Gen, h \in Half :
           (cmd.op = "gc" /\ store[h][g] # "absent" /\ store'[h][g] = "absent")
             => /\ rows[g].state = "retired"
                /\ \A other \in Half : g \notin alias[other]]_vars
  <2> SUFFICES ASSUME RecordInv, ServedInv, [Next]_vars, NEW g \in Gen, NEW h \in Half,
                      cmd.op = "gc", store[h][g] # "absent", store'[h][g] = "absent"
               PROVE  rows[g].state = "retired" /\ \A other \in Half : g \notin alias[other]
    OBVIOUS
  <2>1. GcDrop(g) \/ rst.pc = "stopped"
    BY StoreLeaves DEF RecordInv
  <2>2. g \in cmd.drop
    BY <2>1 DEF GcDrop, ServedInv, GcKept
  <2> QED
    BY <2>2 DEF ServedInv, GcKept
<1> QED
  BY <1>1, ServedAlways, PTL DEF Spec, GcSpares

\* Only the end of a levelling restore sets levelled.
LEMMA LevelledBy ==
  ASSUME TypeInv, [Next]_vars, ~levelled, levelled'
  PROVE  LevelPoint /\ rst.pc = "dense"
<1>1. ASSUME NEW mode, NEW toSet, RestoreRecover(mode, toSet) PROVE ~levelled'
  BY <1>1 DEF RestoreRecover
<1>2. ASSUME LevelPoint PROVE rst.pc = "dense"
  BY <1>2 DEF LevelPoint
<1>3. UNCHANGED vars => levelled' = levelled
  BY DEF vars
<1>4. Commands => levelled' = levelled
  BY DEF Commands, BuildStart, FinishStart, PromoteStart, RetireStart, GcDrop, BuildDefer, BuildPoll,
     BuildBuilt, BuildFinish, PromoteGates, PromoteFlip, PromotePoint, RetireWrite, GcStart, CommandStops
<1>5. ASSUME Worker PROVE levelled' = levelled
  <2>1. ASSUME NEW x \in Gen, NEW k \in Kind, NEW s \in Slot,
               \/ JobStart(x, k, s) \/ BodyLock(x, k, s) \/ BodyBusy(x, k, s)
               \/ BodyFill(x, k, s) \/ BodyFinish(x, k, s) \/ BodyFail(x, k, s)
        PROVE  levelled' = levelled
    BY <2>1 DEF JobStart, BodyLock, BodyBusy, BodyFill, BodyFinish, BodyFail
  <2>2. ASSUME NEW x \in Gen, NEW k \in Kind, RetryStalled(x, k) PROVE levelled' = levelled
    BY <2>2 DEF RetryStalled
  <2>3. ASSUME NEW x \in Gen, NEW s \in Slot, BodyProgress(x, s) PROVE levelled' = levelled
    BY <2>3 DEF BodyProgress
  <2>4. WorkerCrash => levelled' = levelled
    BY DEF WorkerCrash
  <2> QED
    BY <1>5, <2>1, <2>2, <2>3, <2>4 DEF Worker
<1>6. ASSUME Restoring PROVE LevelPoint
  BY <1>1, <1>6 DEF Restoring, BackupStores, BackupRecord, RestoreStop, LevelRead, LevelDemote, RestoreStops, Apply
<1>7. Serving => levelled' = levelled
  BY DEF Serving, TurnStart, TurnEnd, Tick
<1> QED
  BY <1>2, <1>3, <1>4, <1>5, <1>6, <1>7 DEF Next

\* A restore that levels leaves no built or live row short in a store, if its counts are those of a
\* finished attempt: what it read stays as it read it, although commands run beside it.
THEOREM LevelledAlwaysWhole == Spec => LevelledWhole
<1>1. RecordInv /\ ServedInv /\ [Next]_vars =>
        [(~levelled /\ levelled') =>
           \A g \in Gen : Demotable(rows[g]) /\ rows[g].counted
                           => \A h \in Half : store[h][g] = "whole"]_vars
  <2> SUFFICES ASSUME RecordInv, ServedInv, [Next]_vars, ~levelled, levelled', NEW g \in Gen,
                      Demotable(rows[g]), rows[g].counted
               PROVE  \A h \in Half : store[h][g] = "whole"
    OBVIOUS
  <2>1. rst.pc = "dense"
    BY LevelledBy DEF RecordInv
  <2> QED
    BY <2>1 DEF ServedInv, LevelKept
<1> QED
  BY <1>1, ServedAlways, PTL DEF Spec, LevelledWhole

\* Only the flip brings a row to life, but for a restore of the record.
LEMMA LiveBy ==
  ASSUME RecordInv, [Next]_vars, NEW g \in Gen, rst.pc # "stopped",
         rows[g].state # "live", rows'[g].state = "live"
  PROVE  PromoteFlip /\ g = cmd.gen
<1>0. rows \in [Gen -> Row] /\ DOMAIN rows = Gen
  BY DEF RecordInv, TypeInv, TypeOK
<1>1. ~RowsTame
  BY DEF RowsTame, Tame
<1>2. rows' # rows
  OBVIOUS
<1>3. PromoteFlip
  <2>1. ~Serving /\ ~UNCHANGED vars
    BY <1>2 DEF Serving, TurnStart, TurnEnd, Tick, vars
  <2>2. ~Restoring
    BY <1>1, RestoringRows
  <2>3. ~Worker
    BY <1>1, WorkerTame
  <2> QED
    BY <1>1, <2>1, <2>2, <2>3, CommandsTame DEF Next
<1>4. g = cmd.gen
  <2>1. SUFFICES ASSUME g # cmd.gen PROVE FALSE
    OBVIOUS
  <2>2. rows'[g] = rows[g]
    BY <1>0, <1>3, <2>1 DEF PromoteFlip, promote_generation
  <2> QED
    BY <2>2
<1> QED
  BY <1>3, <1>4

\* Before the first restore an alias gains a generation by index promote alone.
LEMMA AliasBy ==
  ASSUME TypeInv, [Next]_vars, rst.pc \in {"none", "backup"}, NEW h \in Half, NEW g \in alias'[h] \ alias[h]
  PROVE  PromotePoint /\ g = cmd.gen
<1>0. alias \in [Half -> SUBSET Gen]
  BY DEF TypeInv, TypeOK
<1>1. alias' # alias
  OBVIOUS
<1>2. ASSUME NEW x \in Gen, GcDrop(x) PROVE FALSE
  <2>1. alias' = [alias EXCEPT ![cmd.pc] = @ \ {x}]
    BY <1>2 DEF GcDrop
  <2> QED
    BY <1>0, <2>1
<1>3. PromotePoint
  <2>1. ~UNCHANGED vars /\ ~Serving
    BY <1>1 DEF vars, Serving, TurnStart, TurnEnd, Tick
  <2>2. ~Restoring
    BY <1>1 DEF Restoring, BackupStores, BackupRecord, RestoreStop, LevelRead, LevelDemote, LevelPoint,
       RestoreRecover, RestoreStops, Apply
  <2>3. ASSUME Worker PROVE FALSE
    <3>1. ASSUME NEW x \in Gen, NEW k \in Kind, NEW s \in Slot,
                 \/ JobStart(x, k, s) \/ BodyLock(x, k, s) \/ BodyBusy(x, k, s)
                 \/ BodyFill(x, k, s) \/ BodyFinish(x, k, s) \/ BodyFail(x, k, s)
          PROVE  alias' = alias
      BY <3>1 DEF JobStart, BodyLock, BodyBusy, BodyFill, BodyFinish, BodyFail
    <3>2. ASSUME NEW x \in Gen, NEW k \in Kind, RetryStalled(x, k) PROVE alias' = alias
      BY <3>2 DEF RetryStalled
    <3>3. ASSUME NEW x \in Gen, NEW s \in Slot, BodyProgress(x, s) PROVE alias' = alias
      BY <3>3 DEF BodyProgress
    <3>4. WorkerCrash => alias' = alias
      BY DEF WorkerCrash
    <3> QED
      BY <1>1, <2>3, <3>1, <3>2, <3>3, <3>4 DEF Worker
  <2>4. Commands => PromotePoint
    BY <1>1, <1>2 DEF Commands, BuildStart, FinishStart, PromoteStart, RetireStart, BuildDefer, BuildPoll,
       BuildBuilt, BuildFinish, PromoteGates, PromoteFlip, RetireWrite, GcStart, CommandStops
  <2> QED
    BY <2>1, <2>2, <2>3, <2>4 DEF Next
<1>4. alias' = point_alias(cmd.pc, cmd.gen, cmd.seen)
  BY <1>3 DEF PromotePoint
<1>5. g = cmd.gen
  BY <1>0, <1>4 DEF point_alias
<1> QED
  BY <1>3, <1>5

\* index promote keeps its order while no restore interferes: a row goes live only whole, measured and
\* passed, although its flip comes long after its checks, and no alias runs ahead of the record.
THEOREM PromoteAlwaysOrdered == Spec /\ [](spent.restores = 0) => PromoteOrdered
<1>1. RecordInv /\ ServedInv /\ spent.restores = 0 /\ [Next]_vars =>
        [\A g \in Gen :
           (rst.pc # "stopped" /\ rows[g].state # "live" /\ rows'[g].state = "live")
             => /\ rows[g].report = "passed" /\ rows[g].footprint
                /\ \A h \in Half : store[h][g] = "whole"]_vars
  <2> SUFFICES ASSUME RecordInv, ServedInv, spent.restores = 0, [Next]_vars, NEW g \in Gen,
                      rst.pc # "stopped", rows[g].state # "live", rows'[g].state = "live"
               PROVE  /\ rows[g].report = "passed" /\ rows[g].footprint
                      /\ \A h \in Half : store[h][g] = "whole"
    OBVIOUS
  <2>1. PromoteFlip /\ g = cmd.gen
    BY LiveBy
  <2>2. PromoteKept /\ StoresHold /\ Stamped
    BY DEF ServedInv, Unrestored
  <2>3. rows[g].report = "passed" /\ rows[g].footprint
    BY <2>1, <2>2 DEF PromoteFlip, PromoteKept
  <2>4. \A h \in Half : store[h][g] = "whole"
    BY <2>1, <2>2 DEF PromoteFlip, Promotable, Stamped, StoresHold, Demotable
  <2> QED
    BY <2>3, <2>4
<1>2. RecordInv /\ ServedInv /\ spent.restores = 0 /\ [Next]_vars =>
        [\A h \in Half : \A g \in alias'[h] \ alias[h] : rows[g].state = "live"]_vars
  <2> SUFFICES ASSUME RecordInv, ServedInv, spent.restores = 0, [Next]_vars, NEW h \in Half,
                      NEW g \in alias'[h] \ alias[h]
               PROVE  rows[g].state = "live"
    OBVIOUS
  <2>1. PromoteKept /\ rst.pc \in {"none", "backup"}
    BY DEF ServedInv, Unrestored
  <2>2. PromotePoint /\ g = cmd.gen
    BY <2>1, AliasBy DEF RecordInv
  <2> QED
    BY <2>1, <2>2 DEF PromotePoint, PromoteKept
<1> QED
  BY <1>1, <1>2, ServedAlways, PTL DEF Spec, PromoteOrdered, FlipGated, AliasFollowsRecord

\* The worker's statements leave a live row live, a late execution's and a sample's included.
LEMMA LiveStatements ==
  ASSUME NEW r \in Row, r.state = "live"
  PROVE  /\ resume(r).state = "live" /\ fail(r).state = "live" /\ progress(r).state = "live"
         /\ \A limited \in BOOLEAN : start(r, limited).state = "live" /\ start(resume(r), limited).state = "live"
         /\ \A h : finish(r, h).state = "live"
<1>1. resume(r) = r /\ fail(r) = r /\ progress(r).state = "live"
  BY DEF resume, fail, progress, Row
<1>2. \A limited \in BOOLEAN : start(r, limited).state = "live"
  BY DEF start, Row
<1>3. ASSUME NEW h PROVE finish(r, h).state = "live"
  <2> DEFINE both == \A x \in Half \ {h} : r.at[x]
             stamped == [r.at EXCEPT ![h] = TRUE]
             after == IF r.state = "building" /\ both THEN "built" ELSE r.state
  <2>1. finish(r, h) = [r EXCEPT !.at = stamped, !.builtAt = both, !.counted = r.counted \/ h = "lexical", !.state = after]
    BY DEF finish
  <2>2. after = "live"
    OBVIOUS
  <2> HIDE DEF both, stamped, after
  <2> QED
    BY <2>1, <2>2 DEF Row
<1> QED
  BY <1>1, <1>2, <1>3

LEMMA UpdateLive ==
  ASSUME rows \in [Gen -> Row], NEW g \in Gen, rows[g].state = "live", NEW x, NEW new,
         x = g => new.state = "live", rows' = rows \/ rows' = [rows EXCEPT ![x] = new]
  PROVE  rows'[g].state = "live"
  OBVIOUS

LEMMA WorkerLeavesLive ==
  ASSUME TypeInv, Worker, NEW g \in Gen, rows[g].state = "live"
  PROVE  rows'[g].state = "live"
<1>0. rows \in [Gen -> Row] /\ rows[g] \in Row
  BY DEF TypeInv, TypeOK
<1>1. ASSUME NEW x \in Gen, NEW k \in Kind, NEW s \in Slot,
             JobStart(x, k, s) \/ BodyBusy(x, k, s) \/ BodyFill(x, k, s)
      PROVE  rows' = rows
  BY <1>1 DEF JobStart, BodyBusy, BodyFill
<1>2. ASSUME NEW x \in Gen, NEW k \in Kind, NEW s \in Slot, BodyLock(x, k, s) PROVE rows'[g].state = "live"
  <2> DEFINE read == IF body[x][k][s] = "readFailed" THEN resume(rows[x]) ELSE rows[x]
  <2>1. PICK limited \in BOOLEAN : rows' = [rows EXCEPT ![x] = IF k = "dense" THEN start(read, limited) ELSE read]
    BY <1>2, BoundAssumption DEF BodyLock
  <2>2. x = g => read.state = "live" /\ start(read, limited).state = "live"
    BY <1>0, LiveStatements
  <2> QED
    BY <1>0, <2>1, <2>2, UpdateLive
<1>3. ASSUME NEW x \in Gen, NEW k \in Kind, NEW s \in Slot, BodyFinish(x, k, s) PROVE rows'[g].state = "live"
  <2>1. rows' = rows \/ rows' = [rows EXCEPT ![x] = finish(rows[x], k)]
    BY <1>3 DEF BodyFinish
  <2>2. x = g => finish(rows[x], k).state = "live"
    BY <1>0, LiveStatements
  <2> QED
    BY <1>0, <2>1, <2>2, UpdateLive
<1>4. ASSUME NEW x \in Gen, NEW k \in Kind, NEW s \in Slot, BodyFail(x, k, s) PROVE rows'[g].state = "live"
  <2>1. rows' = rows \/ rows' = [rows EXCEPT ![x] = fail(rows[x])]
    BY <1>4 DEF BodyFail
  <2>2. x = g => fail(rows[x]).state = "live"
    BY <1>0, LiveStatements
  <2> QED
    BY <1>0, <2>1, <2>2, UpdateLive
<1>5. ASSUME NEW x \in Gen, NEW s \in Slot, BodyProgress(x, s) PROVE rows'[g].state = "live"
  <2>1. rows' = [rows EXCEPT ![x] = progress(rows[x])]
    BY <1>5 DEF BodyProgress
  <2>2. x = g => progress(rows[x]).state = "live"
    BY <1>0, LiveStatements
  <2> QED
    BY <1>0, <2>1, <2>2, UpdateLive
<1>6. (\E x \in Gen, k \in Kind : RetryStalled(x, k)) \/ WorkerCrash => rows' = rows
  BY DEF RetryStalled, WorkerCrash
<1> QED
  BY <1>1, <1>2, <1>3, <1>4, <1>5, <1>6 DEF Worker

\* Only the flip takes a row out of life, but for a restore.
LEMMA LiveLeaves ==
  ASSUME TypeInv, [Next]_vars, rst.pc \in {"none", "backup"}, NEW g \in Gen, rows[g].state = "live"
  PROVE  rows'[g].state = "live" \/ PromoteFlip
<1>1. CASE Serving \/ UNCHANGED vars
  BY <1>1 DEF Serving, TurnStart, TurnEnd, Tick, vars
<1>2. CASE Restoring
  BY <1>2 DEF Restoring, BackupStores, BackupRecord, RestoreStop, LevelRead, LevelDemote, LevelPoint,
     RestoreRecover, RestoreStops, Apply
<1>3. CASE Worker
  BY <1>3, WorkerLeavesLive
<1>4. CASE Commands /\ ~PromoteFlip
  BY <1>4, CommandsMoved DEF RowsMoved, Moved
<1> QED
  BY <1>1, <1>2, <1>3, <1>4 DEF Next

\* While no restore interferes what serves stands on either stack: late and overlapping executions,
\* failed jobs and a sample's refills leave its row live until a flip retires it, and leave it stamped
\* in both halves and whole in both stores.
THEOREM LiveAlwaysStands == Spec /\ [](spent.restores = 0) => LiveStands
<1>1. /\ RecordInv /\ ServedInv /\ spent.restores = 0 /\ [Next]_vars
      /\ RecordInv' /\ ServedInv' /\ (spent.restores = 0)'
      => [\A g \in Live : /\ rows'[g].state = "live" \/ cmd.pc = "flip"
                          /\ \A h \in Half : rows'[g].at[h] /\ store'[h][g] = "whole"]_vars
  <2> SUFFICES ASSUME RecordInv, ServedInv, spent.restores = 0, [Next]_vars, ServedInv', (spent.restores = 0)',
                      NEW g \in Live
               PROVE  /\ rows'[g].state = "live" \/ cmd.pc = "flip"
                      /\ \A h \in Half : rows'[g].at[h] /\ store'[h][g] = "whole"
    OBVIOUS
  <2>1. g \in Gen /\ rows[g].state = "live" /\ rows[g] \in Row /\ rows \in [Gen -> Row]
    BY DEF Live, RecordInv, TypeInv, TypeOK
  <2>2. rst.pc \in {"none", "backup"} /\ StoresHold /\ Stamped /\ StoresHold' /\ Stamped'
    BY DEF ServedInv, Unrestored
  <2>3. CASE rows'[g].state = "live"
    BY <2>1, <2>2, <2>3 DEF StoresHold, Stamped, Demotable
  <2>4. CASE PromoteFlip
    <3>1. rows' = promote_generation(rows, cmd.gen) /\ store' = store /\ cmd.pc = "flip"
      BY <2>4 DEF PromoteFlip
    <3>2. rows'[g].at = rows[g].at
      BY <2>1, <3>1 DEF promote_generation, flipped, retired_by_flip, Row
    <3> QED
      BY <2>1, <2>2, <3>1, <3>2 DEF StoresHold, Stamped, Demotable
  <2> QED
    BY <2>1, <2>2, <2>3, <2>4, LiveLeaves DEF RecordInv
<1> QED
  BY <1>1, RecordAlways, ServedAlways, PTL DEF Spec, LiveStands

-----------------------------------------------------------------------------
(* What a caselaw job that succeeds leaves behind. *)

RunPlaces == {"idle", "lock", "recheck", "tables", "load", "name", "flag", "judge", "backfill", "begin",
              "parse", "finish", "give-back", "close"}

Outcomes == {"none", "busy", "succeeded", "missing-input", "malformed", "missing-stage", "database",
             "store"}

RunShape == [op : {"none", "stage", "ingest"}, at : RunPlaces, i : 0..Opinions, pipe : 0..2,
             present : {<<>>} \cup [Rows0 -> Document], active : BOOLEAN,
             outcome : Outcomes]

IngestTyped ==
  /\ documents \in [Rows0 -> Document]
  /\ pipes \subseteq 1..2
  /\ locks \in [{"stage", "court"} -> Workers \cup {0}]
  /\ ingestRun \in [Workers -> RunShape]

\* The places at one opinion of the file, and those of a job that holds the court.
AtOpinion == {"name", "flag", "judge", "backfill", "begin", "parse", "finish"}
InCourt == AtOpinion \cup {"load", "give-back"}
Succeeded0(w) == Job(w).op = "ingest" /\ Job(w).at = "close" /\ Job(w).outcome = "succeeded"
HoldsCourt(w) == (Job(w).op = "ingest" /\ Job(w).at \in InCourt) \/ Succeeded0(w)

TextsOf(i) == {<<i, "original">>, <<i, "canonical">>}
TextsStored == \A i \in Rows0 : documents[i].status = "ready" => TextsOf(i) \subseteq storedDocs
RowsKept == \A i \in Rows0 : RowKept(documents[i], pipes)

\* Nothing is left for a job under p to do to this row.
SettledUnder(d, p) ==
  d.status = "failed" \/ (d.status = "ready" /\ d.named /\ d.flagged /\ Complete(d, p))

SameMarks(d, e) ==
  d.status = e.status /\ d.anchored = e.anchored /\ d.cited = e.cited /\ d.treated = e.treated
    /\ d.rows = e.rows

Named(d) == d.status = "ready" => d.named
Flagged(d) == d.status = "ready" => d.flagged

\* How the row the job is at stands to what it read of it: d now, e then.
RowAt(place, d, e, p) ==
  /\ place = "name" => d = e
  /\ place = "flag" => SameMarks(d, e) /\ Named(d) /\ d.flagged = e.flagged
  /\ place = "judge" => SameMarks(d, e) /\ Named(d) /\ Flagged(d)
  /\ place = "backfill" => /\ e.status = "ready" /\ d.status = "ready" /\ d.named /\ d.flagged
                           /\ (Sectioned(d, p) <=> Sectioned(e, p))
                           /\ Missing(d, p) \subseteq Missing(e, p)
  /\ place = "begin" => d.status \in {"absent", "processing"}
  /\ place \in {"parse", "finish"} => d.status = "processing" /\ d.named /\ d.flagged

\* Behind the opinion every row is settled, ahead of it every row is as it was read.
WalkSound(w) ==
  Job(w).op = "ingest" /\ Job(w).at \in AtOpinion =>
    /\ Job(w).i \in Rows0 /\ Job(w).present \in [Rows0 -> Document]
    /\ \A k \in Rows0 : k > Job(w).i => documents[k] = Job(w).present[k]
    /\ \A k \in Rows0 : k < Job(w).i => SettledUnder(documents[k], Job(w).pipe)
    /\ RowAt(Job(w).at, Now0(w), Previous(w), Job(w).pipe)
    /\ Job(w).at = "finish" => TextsOf(Job(w).i) \subseteq storedDocs

RunKept(w) ==
  /\ HoldsCourt(w) => locks.court = w
  /\ Job(w).op = "ingest" => Job(w).pipe \in pipes
  /\ Job(w).op = "ingest" /\ Job(w).at = "give-back" => Job(w).outcome # "succeeded"
  /\ WalkSound(w)
  /\ Succeeded0(w) => \A k \in Rows0 : SettledUnder(documents[k], Job(w).pipe)

IngestInv == IngestTyped /\ TextsStored /\ RowsKept /\ \A w \in Workers : RunKept(w)

\* What a move of one execution makes of it.
LEMMA NoRunShape == NoRun \in RunShape /\ NoRun.op = "none"
BY IngestShapes DEF NoRun, RunShape, RunPlaces, Outcomes

LEMMA Moves ==
  ASSUME NEW j \in RunShape, NEW place \in RunPlaces
  PROVE  [j EXCEPT !.at = place] \in RunShape /\ [j EXCEPT !.at = place].op = j.op
         /\ [j EXCEPT !.at = place].at = place /\ [j EXCEPT !.at = place].pipe = j.pipe
         /\ [j EXCEPT !.at = place].i = j.i /\ [j EXCEPT !.at = place].present = j.present
         /\ [j EXCEPT !.at = place].outcome = j.outcome
BY DEF RunShape

LEMMA Asked0 ==
  ASSUME NEW j \in RunShape, NEW p \in 1..2
  PROVE  /\ [j EXCEPT !.op = "ingest", !.pipe = p] \in RunShape
         /\ [j EXCEPT !.op = "ingest", !.pipe = p].op = "ingest"
         /\ [j EXCEPT !.op = "ingest", !.pipe = p].pipe = p
<1> DEFINE a == [j EXCEPT !.op = "ingest"]
<1>1. a \in RunShape /\ a.op = "ingest"
  BY DEF RunShape
<1>2. p \in 0..2
  OBVIOUS
<1> HIDE DEF a
<1>3. [a EXCEPT !.pipe = p] \in RunShape /\ [a EXCEPT !.pipe = p].op = "ingest" /\ [a EXCEPT !.pipe = p].pipe = p
  BY <1>1, <1>2 DEF RunShape
<1> QED
  BY <1>3 DEF a

LEMMA EndsAs ==
  ASSUME NEW j \in RunShape,
         NEW o \in Outcomes
  PROVE  [j EXCEPT !.at = "close", !.outcome = o] \in RunShape
         /\ [j EXCEPT !.at = "close", !.outcome = o].op = j.op
         /\ [j EXCEPT !.at = "close", !.outcome = o].at = "close"
         /\ [j EXCEPT !.at = "close", !.outcome = o].pipe = j.pipe
         /\ [j EXCEPT !.at = "close", !.outcome = o].outcome = o
BY DEF RunShape, RunPlaces, Outcomes

\* What another execution knows stays true while it holds the court, or knows nothing of it.
LEMMA OthersStay ==
  ASSUME NEW w \in Workers, NEW v \in Workers, v # w, IngestTyped, RunKept(v),
         ingestRun'[v] = ingestRun[v], pipes' = pipes, storedDocs \subseteq storedDocs',
         locks.court = v => locks'.court = v,
         documents' = documents \/ locks.court = w
  PROVE  RunKept(v)'
<1>1. CASE HoldsCourt(v)
  <2>1. locks.court = v /\ documents' = documents
    BY <1>1 DEF RunKept
  <2>2. WalkSound(v)'
    BY <2>1 DEF RunKept, WalkSound, Job, Now0, Previous
  <2> QED
    BY <2>1, <2>2 DEF RunKept, HoldsCourt, Succeeded0, Job
<1>2. CASE ~HoldsCourt(v)
  <2>1. ~HoldsCourt(v)' /\ ~Succeeded0(v)'
    BY <1>2 DEF HoldsCourt, Succeeded0, Job
  <2>2. WalkSound(v)'
    BY <2>1 DEF HoldsCourt, InCourt, WalkSound, Job
  <2> QED
    BY <2>1, <2>2 DEF RunKept, Job
<1> QED
  BY <1>1, <1>2

\* The rows after one transaction on one row.
LEMMA RowWritten ==
  ASSUME IngestTyped, TextsStored, RowsKept, NEW i \in Rows0, NEW d \in Document, RowKept(d, pipes),
         documents' = [documents EXCEPT ![i] = d], pipes' = pipes, storedDocs \subseteq storedDocs',
         d.status = "ready" => TextsOf(i) \subseteq storedDocs'
  PROVE  documents' \in [Rows0 -> Document] /\ TextsStored' /\ RowsKept'
<1>1. documents' \in [Rows0 -> Document] /\ documents'[i] = d
      /\ \A k \in Rows0 : k # i => documents'[k] = documents[k]
  BY DEF IngestTyped
<1>2. TextsStored'
  BY <1>1 DEF TextsStored, TextsOf
<1>3. RowsKept'
  BY <1>1 DEF RowsKept
<1> QED
  BY <1>1, <1>2, <1>3

LEMMA RowsUntouched ==
  ASSUME IngestTyped, TextsStored, RowsKept, documents' = documents, pipes' = pipes,
         storedDocs \subseteq storedDocs'
  PROVE  documents' \in [Rows0 -> Document] /\ TextsStored' /\ RowsKept'
BY DEF IngestTyped, TextsStored, RowsKept, TextsOf

\* A step of one execution: what remains to be shown of it.
LEMMA OneSteps ==
  ASSUME IngestInv, NEW w \in Workers, NEW r \in RunShape, Puts(w, r), pipes' = pipes,
         storedDocs \subseteq storedDocs', locks' \in [{"stage", "court"} -> Workers \cup {0}],
         \A v \in Workers \ {w} : locks.court = v => locks'.court = v,
         documents' = documents \/ locks.court = w,
         documents' \in [Rows0 -> Document], TextsStored', RowsKept', RunKept(w)'
  PROVE  IngestInv'
<1>1. ingestRun' \in [Workers -> RunShape] /\ \A v \in Workers \ {w} : ingestRun'[v] = ingestRun[v]
  BY DEF IngestInv, IngestTyped, Puts
<1>2. IngestTyped'
  BY <1>1 DEF IngestInv, IngestTyped
<1>3. \A v \in Workers \ {w} : RunKept(v)'
  BY <1>1, OthersStay DEF IngestInv
<1> QED
  BY <1>2, <1>3 DEF IngestInv

\* The next opinion of the file, or the end of a whole court.
LEMMA NextOpinion ==
  ASSUME IngestInv, NEW w \in Workers, Job(w).op = "ingest", Job(w).at \in AtOpinion, Next0(w),
         pipes' = pipes, storedDocs \subseteq storedDocs', locks' = locks,
         \A k \in Rows0 : k # Job(w).i => documents'[k] = documents[k],
         documents' = documents \/ locks.court = w,
         documents' \in [Rows0 -> Document], TextsStored', RowsKept',
         SettledUnder(documents'[Job(w).i], Job(w).pipe)
  PROVE  IngestInv'
<1> DEFINE j == Job(w)
<1>1. /\ j \in RunShape /\ j.i \in Rows0 /\ j.i \in Int /\ Opinions \in Nat \ {0} /\ j.present \in [Rows0 -> Document]
      /\ locks.court = w /\ j.pipe \in pipes /\ j.op = "ingest"
      /\ \A k \in Rows0 : k > j.i => documents[k] = j.present[k]
      /\ \A k \in Rows0 : k < j.i => SettledUnder(documents[k], j.pipe)
  <2>1. j \in RunShape
    BY DEF IngestInv, IngestTyped, Job
  <2>2. /\ j.i \in Rows0 /\ j.present \in [Rows0 -> Document] /\ locks.court = w /\ j.pipe \in pipes
        /\ \A k \in Rows0 : k > j.i => documents[k] = j.present[k]
        /\ \A k \in Rows0 : k < j.i => SettledUnder(documents[k], j.pipe)
    BY DEF IngestInv, RunKept, WalkSound, HoldsCourt, InCourt
  <2> QED
    BY <2>1, <2>2, IngestShapes DEF Rows0
<1>2. \A k \in Rows0 : k <= j.i => SettledUnder(documents'[k], j.pipe)
  <2> TAKE k \in Rows0
  <2> HAVE k <= j.i
  <2>1. CASE k = j.i
    BY <2>1
  <2>2. CASE k # j.i
    <3>1. k < j.i
      BY <2>2, <1>1 DEF Rows0
    <3> QED
      BY <3>1, <2>2, <1>1
  <2> QED
    BY <2>1, <2>2
<1>3. CASE j.i = Opinions
  <2> DEFINE r == [j EXCEPT !.at = "close", !.outcome = "succeeded"]
  <2>1. r \in RunShape /\ Puts(w, r)
    BY <1>1, <1>3, EndsAs DEF Next0, Ends, Outcomes
  <2>2. Job(w)' = r
    BY <2>1 DEF Puts, Job, IngestInv, IngestTyped
  <2>3. RunKept(w)'
    <3>1. WalkSound(w)'
      BY <2>2 DEF WalkSound, AtOpinion
    <3>2. \A k \in Rows0 : SettledUnder(documents'[k], j.pipe)
      BY <1>2, <1>3 DEF Rows0
    <3> QED
      BY <1>1, <2>2, <3>1, <3>2 DEF RunKept, Succeeded0, HoldsCourt
  <2> QED
    BY <2>1, <2>3, OneSteps DEF IngestInv, IngestTyped
<1>4. CASE j.i # Opinions
  <2> DEFINE r == [j EXCEPT !.at = "name", !.i = @ + 1, !.active = FALSE]
  <2>1. r \in RunShape /\ Puts(w, r) /\ r.i = j.i + 1 /\ r.i \in Rows0
    <3>1. j.i + 1 \in Rows0 /\ j.i + 1 \in 0..Opinions
      BY <1>1, <1>4 DEF Rows0
    <3>2. r \in RunShape
      BY <1>1, <3>1 DEF RunShape, RunPlaces, Outcomes
    <3>3. r.i = j.i + 1
      BY <1>1 DEF RunShape
    <3> QED
      BY <3>1, <3>2, <3>3, <1>4 DEF Next0
  <2>2. Job(w)' = r
    BY <2>1 DEF Puts, Job, IngestInv, IngestTyped
  <2>3. documents'[r.i] = j.present[r.i]
    BY <1>1, <2>1 DEF Rows0
  <2>4. \A k \in Rows0 : k > r.i => documents'[k] = j.present[k]
    BY <1>1, <2>1 DEF Rows0
  <2>5. \A k \in Rows0 : k < r.i => SettledUnder(documents'[k], j.pipe)
    BY <1>1, <1>2, <2>1 DEF Rows0
  <2>7. WalkSound(w)'
    BY <1>1, <2>1, <2>2, <2>3, <2>4, <2>5 DEF WalkSound, RowAt, Now0, Previous
  <2>8. RunKept(w)'
    BY <1>1, <2>2, <2>7 DEF RunKept, Succeeded0, HoldsCourt
  <2> QED
    BY <2>1, <2>8, OneSteps DEF IngestInv, IngestTyped
<1> QED
  BY <1>3, <1>4

\* The job goes on at the same opinion.
LEMMA SameOpinion ==
  ASSUME IngestInv, NEW w \in Workers, Job(w).op = "ingest", Job(w).at \in AtOpinion,
         NEW r \in RunShape, Puts(w, r), r.at \in AtOpinion,
         r.op = Job(w).op, r.i = Job(w).i, r.pipe = Job(w).pipe, r.present = Job(w).present,
         pipes' = pipes, storedDocs \subseteq storedDocs', locks' = locks,
         \A k \in Rows0 : k # Job(w).i => documents'[k] = documents[k],
         documents' = documents \/ locks.court = w,
         documents' \in [Rows0 -> Document], TextsStored', RowsKept',
         RowAt(r.at, documents'[Job(w).i], Previous(w), Job(w).pipe),
         r.at = "finish" => TextsOf(Job(w).i) \subseteq storedDocs'
  PROVE  IngestInv'
<1>1. Job(w)' = r
  BY DEF Puts, Job, IngestInv, IngestTyped
<1>2. /\ Job(w).i \in Rows0 /\ Job(w).present \in [Rows0 -> Document]
      /\ \A k \in Rows0 : k > Job(w).i => documents[k] = Job(w).present[k]
      /\ \A k \in Rows0 : k < Job(w).i => SettledUnder(documents[k], Job(w).pipe)
      /\ locks.court = w /\ Job(w).pipe \in pipes
  BY DEF IngestInv, RunKept, WalkSound, HoldsCourt, InCourt
<1>3. /\ \A k \in Rows0 : k > r.i => documents'[k] = r.present[k]
      /\ \A k \in Rows0 : k < r.i => SettledUnder(documents'[k], r.pipe)
  <2>1. \A k \in Rows0 : k > r.i \/ k < r.i => k # r.i
    BY <1>2 DEF Rows0
  <2> QED
    BY <1>2, <2>1
<1>4. WalkSound(w)'
  BY <1>1, <1>2, <1>3 DEF WalkSound, Now0, Previous, TextsOf
<1>5. RunKept(w)'
  BY <1>1, <1>2, <1>4 DEF RunKept, HoldsCourt, Succeeded0, AtOpinion
<1> QED
  BY <1>5, OneSteps DEF IngestInv, IngestTyped

\* The job ends without success, or goes to undo its attempt.
LEMMA GivesUp ==
  ASSUME IngestInv, NEW w \in Workers, Job(w).op = "ingest",
         NEW r \in RunShape, Puts(w, r), r.op = "ingest", r.pipe = Job(w).pipe,
         r.at = "close" \/ (r.at = "give-back" /\ locks.court = w), r.outcome # "succeeded",
         pipes' = pipes, storedDocs \subseteq storedDocs', locks' = locks,
         documents' = documents \/ locks.court = w,
         documents' \in [Rows0 -> Document], TextsStored', RowsKept'
  PROVE  IngestInv'
<1>1. Job(w)' = r
  BY DEF Puts, Job, IngestInv, IngestTyped
<1>2. RunKept(w)'
  BY <1>1 DEF IngestInv, RunKept, WalkSound, HoldsCourt, Succeeded0, AtOpinion, InCourt
<1> QED
  BY <1>2, OneSteps DEF IngestInv, IngestTyped

\* An execution that is no caselaw job, or none at all.
LEMMA NoIngest ==
  ASSUME IngestInv, NEW w \in Workers, NEW r \in RunShape, Puts(w, r), r.op # "ingest",
         UNCHANGED <<documents, storedDocs, pipes>>,
         locks' \in [{"stage", "court"} -> Workers \cup {0}],
         \A v \in Workers \ {w} : locks.court = v => locks'.court = v
  PROVE  IngestInv'
<1>1. Job(w)' = r
  BY DEF Puts, Job, IngestInv, IngestTyped
<1>2. RunKept(w)'
  BY <1>1 DEF RunKept, WalkSound, HoldsCourt, Succeeded0
<1>3. documents' \in [Rows0 -> Document] /\ TextsStored' /\ RowsKept'
  BY RowsUntouched DEF IngestInv
<1> QED
  BY <1>2, <1>3, OneSteps

LEMMA CommitFailsKeeps ==
  ASSUME IngestInv, NEW w \in Workers, Job(w).op = "ingest", Job(w).at \in AtOpinion, CommitFails(w),
         UNCHANGED <<storedDocs, pipes, locks>>
  PROVE  IngestInv'
<1>1. Job(w) \in RunShape /\ locks.court = w
  BY DEF IngestInv, IngestTyped, RunKept, HoldsCourt, InCourt, Job
<1>2. documents' \in [Rows0 -> Document] /\ TextsStored' /\ RowsKept'
  BY RowsUntouched DEF IngestInv, CommitFails
<1>3. PICK r \in RunShape : /\ Puts(w, r) /\ r.op = "ingest" /\ r.pipe = Job(w).pipe
                            /\ r.at \in {"close", "give-back"} /\ r.outcome = "database"
  <2>1. CASE Job(w).active
    <3> DEFINE r == [Job(w) EXCEPT !.at = "give-back", !.outcome = "database"]
    <3>1. r \in RunShape /\ r.op = "ingest" /\ r.pipe = Job(w).pipe /\ r.at = "give-back" /\ r.outcome = "database"
      BY <1>1 DEF RunShape, RunPlaces, Outcomes
    <3> QED
      BY <2>1, <3>1 DEF CommitFails
  <2>2. CASE ~Job(w).active
    <3> DEFINE r == [Job(w) EXCEPT !.at = "close", !.outcome = "database"]
    <3>1. r \in RunShape /\ r.op = "ingest" /\ r.pipe = Job(w).pipe /\ r.at = "close" /\ r.outcome = "database"
      BY <1>1 DEF RunShape, RunPlaces, Outcomes
    <3> QED
      BY <2>2, <3>1 DEF CommitFails, Ends
  <2> QED
    BY <2>1, <2>2
<1> QED
  BY <1>1, <1>2, <1>3, GivesUp DEF CommitFails

-----------------------------------------------------------------------------
(* The steps of a stage job, and the doors of a caselaw job. *)

LEMMA StageKeeps ==
  ASSUME IngestInv, NEW w \in Workers,
         StageStarts(w) \/ StageLocks(w) \/ StageRechecks(w) \/ StageTable(w) \/ StagePublishes(w)
  PROVE  IngestInv'
<1> DEFINE j == Job(w)
<1>1. j \in RunShape /\ locks \in [{"stage", "court"} -> Workers \cup {0}]
  BY DEF IngestInv, IngestTyped, Job
<1>2. CASE StageStarts(w)
  <2> DEFINE r == [NoRun EXCEPT !.op = "stage", !.at = "lock"]
  <2>1. r \in RunShape /\ r.op # "ingest"
    BY NoRunShape DEF RunShape, RunPlaces, Outcomes
  <2> QED
    BY <1>1, <1>2, <2>1, NoIngest DEF StageStarts, Records0
<1>3. CASE StageLocks(w)
  <2>1. j.op = "stage"
    BY <1>3 DEF StageLocks, On
  <2>2. CASE locks.stage = 0
    <3>1. locks' \in [{"stage", "court"} -> Workers \cup {0}] /\ locks'.court = locks.court
      BY <1>1, <1>3, <2>2 DEF StageLocks
    <3>2. Puts(w, [j EXCEPT !.at = "recheck"])
      BY <1>3, <2>2 DEF StageLocks, Steps
    <3>3. [j EXCEPT !.at = "recheck"] \in RunShape /\ [j EXCEPT !.at = "recheck"].op # "ingest"
      BY <1>1, <2>1, Moves DEF RunPlaces
    <3>4. UNCHANGED <<documents, storedDocs, pipes>>
      BY <1>3 DEF StageLocks, Records0
    <3> HIDE DEF j
    <3> QED
      BY <3>1, <3>2, <3>3, <3>4, NoIngest
  <2>3. CASE locks.stage # 0
    <3>1. locks' = locks /\ Puts(w, [j EXCEPT !.at = "close", !.outcome = "busy"])
      BY <1>3, <2>3 DEF StageLocks, Ends
    <3>3. /\ [j EXCEPT !.at = "close", !.outcome = "busy"] \in RunShape
          /\ [j EXCEPT !.at = "close", !.outcome = "busy"].op # "ingest"
      BY <1>1, <2>1, EndsAs DEF Outcomes
    <3>4. UNCHANGED <<documents, storedDocs, pipes>>
      BY <1>3 DEF StageLocks, Records0
    <3> HIDE DEF j
    <3> QED
      BY <1>1, <3>1, <3>3, <3>4, NoIngest
  <2> QED
    BY <2>2, <2>3
<1>4. CASE StageRechecks(w) \/ StageTable(w) \/ StagePublishes(w)
  <2>1. j.op = "stage"
    BY <1>4 DEF StageRechecks, StageTable, StagePublishes, On
  <2>2. UNCHANGED <<documents, storedDocs, pipes, locks>>
    BY <1>4 DEF StageRechecks, StageTable, StagePublishes, Records0
  <2>3. PICK r \in RunShape : Puts(w, r) /\ r.op # "ingest"
    <3>1. CASE \E o \in {"succeeded", "missing-input", "malformed"} : Ends(w, o)
      <4>1. PICK o \in {"succeeded", "missing-input", "malformed"} : Ends(w, o)
        BY <3>1
      <4>2. /\ [j EXCEPT !.at = "close", !.outcome = o] \in RunShape
            /\ [j EXCEPT !.at = "close", !.outcome = o].op # "ingest"
        <5>1. o \in Outcomes
          BY <4>1 DEF Outcomes
        <5> HIDE DEF j
        <5> QED
          BY <1>1, <2>1, <5>1, EndsAs
      <4> QED
        BY <4>1, <4>2 DEF Ends
    <3>2. CASE Steps(w, "tables")
      <4>1. [j EXCEPT !.at = "tables"] \in RunShape /\ [j EXCEPT !.at = "tables"].op # "ingest"
        BY <1>1, <2>1, Moves DEF RunPlaces
      <4> QED
        BY <3>2, <4>1 DEF Steps
    <3>3. CASE ingestRun' = ingestRun
      <4>1. Puts(w, j)
        BY <3>3 DEF Puts, Job, IngestInv, IngestTyped
      <4> QED
        BY <1>1, <2>1, <4>1
    <3> QED
      BY <1>4, <3>1, <3>2, <3>3 DEF StageRechecks, StageTable, StagePublishes
  <2> QED
    BY <1>1, <2>2, <2>3, NoIngest
<1> QED
  BY <1>2, <1>3, <1>4

LEMMA IngestStartsKeeps ==
  ASSUME IngestInv, NEW w \in Workers, IngestStarts(w)
  PROVE  IngestInv'
<1>1. PICK p \in pipes :
        Puts(w, [NoRun EXCEPT !.op = "ingest", !.pipe = p,
                   !.at = IF staged = "whole" THEN "lock" ELSE "close",
                   !.outcome = IF staged = "whole" THEN "none" ELSE "missing-stage"])
  BY DEF IngestStarts
<1>2. p \in 1..2 /\ p \in pipes
  BY <1>1 DEF IngestInv, IngestTyped
<1> DEFINE r(at, o) == [NoRun EXCEPT !.op = "ingest", !.pipe = p, !.at = at, !.outcome = o]
<1>3. ASSUME NEW at \in {"lock", "close"}, NEW o \in {"none", "missing-stage"}
      PROVE  /\ r(at, o) \in RunShape /\ r(at, o).op = "ingest" /\ r(at, o).pipe = p
             /\ r(at, o).at = at /\ r(at, o).outcome = o
  <2>1. at \in RunPlaces /\ o \in Outcomes
    BY DEF RunPlaces, Outcomes
  <2> DEFINE a == [NoRun EXCEPT !.op = "ingest", !.pipe = p]
  <2>2. a \in RunShape /\ a.op = "ingest" /\ a.pipe = p
    BY <1>2, NoRunShape, Asked0
  <2>3. r(at, o) = [a EXCEPT !.at = at, !.outcome = o]
    OBVIOUS
  <2> HIDE DEF a, r
  <2>4. /\ [a EXCEPT !.at = at, !.outcome = o] \in RunShape
        /\ [a EXCEPT !.at = at, !.outcome = o].op = a.op
        /\ [a EXCEPT !.at = at, !.outcome = o].pipe = a.pipe
        /\ [a EXCEPT !.at = at, !.outcome = o].at = at
        /\ [a EXCEPT !.at = at, !.outcome = o].outcome = o
    BY <2>1, <2>2 DEF RunShape
  <2> QED
    BY <2>2, <2>3, <2>4
<1>4. UNCHANGED <<documents, storedDocs, pipes, locks>>
  BY DEF IngestStarts, Records0
<1>5. PICK at \in {"lock", "close"}, o \in {"none", "missing-stage"} : Puts(w, r(at, o))
  <2>1. CASE staged = "whole"
    <3>1. Puts(w, r("lock", "none"))
      BY <1>1, <2>1
    <3> QED
      BY <3>1
  <2>2. CASE staged # "whole"
    <3>1. Puts(w, r("close", "missing-stage"))
      BY <1>1, <2>2
    <3> QED
      BY <3>1
  <2> QED
    BY <2>1, <2>2
<1>6. Job(w)' = r(at, o)
  BY <1>5 DEF Puts, Job, IngestInv, IngestTyped
<1>7. /\ r(at, o) \in RunShape /\ r(at, o).op = "ingest" /\ r(at, o).pipe = p
      /\ r(at, o).at \in {"lock", "close"} /\ r(at, o).outcome # "succeeded"
  BY <1>3, <1>5
<1> HIDE DEF r
<1>8. RunKept(w)'
  BY <1>2, <1>4, <1>6, <1>7 DEF RunKept, WalkSound, HoldsCourt, Succeeded0, InCourt, AtOpinion
<1>9. documents' \in [Rows0 -> Document] /\ TextsStored' /\ RowsKept'
  BY <1>4, RowsUntouched DEF IngestInv
<1> QED
  BY <1>4, <1>5, <1>7, <1>8, <1>9, OneSteps DEF IngestInv, IngestTyped

LEMMA IngestLocksKeeps ==
  ASSUME IngestInv, NEW w \in Workers, IngestLocks(w)
  PROVE  IngestInv'
<1> DEFINE j == Job(w)
<1>1. /\ j \in RunShape /\ locks \in [{"stage", "court"} -> Workers \cup {0}]
      /\ j.op = "ingest" /\ UNCHANGED <<documents, storedDocs, pipes>> /\ j.pipe \in pipes
  BY DEF IngestInv, IngestTyped, RunKept, Job, IngestLocks, On, Records0
<1>2. documents' \in [Rows0 -> Document] /\ TextsStored' /\ RowsKept'
  BY <1>1, RowsUntouched DEF IngestInv
<1>3. CASE locks.court = 0
  <2> DEFINE r == [j EXCEPT !.at = "load"]
  <2>1. r \in RunShape /\ r.op = "ingest" /\ r.pipe = j.pipe /\ r.at = "load"
    BY <1>1, Moves DEF RunPlaces
  <2>2. Puts(w, r) /\ locks' \in [{"stage", "court"} -> Workers \cup {0}] /\ locks'.court = w
    BY <1>1, <1>3 DEF IngestLocks, Steps
  <2>3. Job(w)' = r
    BY <2>2 DEF Puts, Job, IngestInv, IngestTyped
  <2>4. \A v \in Workers \ {w} : locks.court # v
    BY <1>3, IngestShapes
  <2> HIDE DEF r
  <2>5. RunKept(w)'
    BY <1>1, <2>1, <2>2, <2>3 DEF RunKept, WalkSound, HoldsCourt, Succeeded0, InCourt, AtOpinion
  <2> QED
    BY <1>1, <1>2, <2>1, <2>2, <2>4, <2>5, OneSteps
<1>4. CASE locks.court # 0
  <2>1. locks' = locks /\ Puts(w, [j EXCEPT !.at = "close", !.outcome = "busy"])
    BY <1>4 DEF IngestLocks, Ends
  <2> DEFINE r == [j EXCEPT !.at = "close", !.outcome = "busy"]
  <2>2. r \in RunShape /\ r.op = "ingest" /\ r.pipe = j.pipe /\ r.at = "close" /\ r.outcome = "busy"
    BY <1>1, EndsAs DEF Outcomes
  <2> HIDE DEF r
  <2> QED
    BY <1>1, <1>2, <2>1, <2>2, GivesUp DEF r
<1> QED
  BY <1>3, <1>4

LEMMA LoadsKeeps ==
  ASSUME IngestInv, NEW w \in Workers, Loads0(w)
  PROVE  IngestInv'
<1> DEFINE j == Job(w)
<1>1. /\ j \in RunShape /\ j.op = "ingest" /\ j.at = "load" /\ j.pipe \in pipes /\ locks.court = w
      /\ UNCHANGED <<documents, storedDocs, pipes, locks>> /\ documents \in [Rows0 -> Document]
  BY DEF IngestInv, IngestTyped, RunKept, HoldsCourt, InCourt, Job, Loads0, On, Records0
<1>2. documents' \in [Rows0 -> Document] /\ TextsStored' /\ RowsKept'
  BY <1>1, RowsUntouched DEF IngestInv
<1>3. CASE Puts(w, [j EXCEPT !.at = "name", !.i = 1, !.present = documents])
  <2> DEFINE r == [j EXCEPT !.at = "name", !.i = 1, !.present = documents]
  <2>1. /\ r \in RunShape /\ r.op = "ingest" /\ r.pipe = j.pipe /\ r.at = "name" /\ r.i = 1
        /\ r.present = documents
    <3>1. 1 \in 0..Opinions
      BY IngestShapes
    <3> HIDE DEF j
    <3> QED
      BY <1>1, <3>1 DEF RunShape, RunPlaces, Outcomes
  <2>2. Job(w)' = r
    BY <1>3 DEF Puts, Job, IngestInv, IngestTyped
  <2> HIDE DEF r
  <2>3. 1 \in Rows0 /\ \A k \in Rows0 : ~(k < 1)
    BY IngestShapes DEF Rows0
  <2>4. WalkSound(w)'
    BY <1>1, <2>1, <2>2, <2>3 DEF WalkSound, RowAt, Now0, Previous
  <2>5. RunKept(w)'
    BY <1>1, <2>1, <2>2, <2>4 DEF RunKept, HoldsCourt, Succeeded0
  <2> QED
    BY <1>1, <1>2, <1>3, <2>1, <2>5, OneSteps DEF r, IngestInv, IngestTyped
<1>4. CASE Ends(w, "database")
  <2> DEFINE r == [j EXCEPT !.at = "close", !.outcome = "database"]
  <2>2. r \in RunShape /\ r.op = "ingest" /\ r.pipe = j.pipe /\ r.at = "close" /\ r.outcome = "database"
    BY <1>1, EndsAs DEF Outcomes
  <2>3. Puts(w, r)
    BY <1>4 DEF Ends
  <2> HIDE DEF r
  <2> QED
    BY <1>1, <1>2, <2>2, <2>3, GivesUp
<1> QED
  BY <1>3, <1>4 DEF Loads0

LEMMA ClosesKeeps ==
  ASSUME IngestInv, NEW w \in Workers, Closes0(w)
  PROVE  IngestInv'
<1>1. locks' = [l \in {"stage", "court"} |-> IF locks[l] = w THEN 0 ELSE locks[l]]
  BY DEF Closes0
<1>2. locks' \in [{"stage", "court"} -> Workers \cup {0}]
      /\ \A v \in Workers \ {w} : locks.court = v => locks'.court = v
  BY <1>1 DEF IngestInv, IngestTyped
<1> QED
  BY <1>2, NoRunShape, NoIngest DEF Closes0, Records0

LEMMA StoppedKeeps ==
  ASSUME IngestInv, Stopped, UNCHANGED <<documents, storedDocs, pipes>>
  PROVE  IngestInv'
<1>1. documents' \in [Rows0 -> Document] /\ TextsStored' /\ RowsKept'
  BY RowsUntouched DEF IngestInv
<1>2. IngestTyped'
  BY <1>1, NoRunShape DEF IngestInv, IngestTyped, Stopped
<1>3. \A w \in Workers : RunKept(w)'
  BY NoRunShape DEF Stopped, RunKept, WalkSound, HoldsCourt, Succeeded0, Job
<1> QED
  BY <1>1, <1>2, <1>3 DEF IngestInv

-----------------------------------------------------------------------------
(* What each transaction does to one row. *)

LEMMA NamedRow ==
  ASSUME NEW d \in Document, NEW asked, RowKept(d, asked)
  PROVE  LET e == [d EXCEPT !.named = TRUE]
         IN  e \in Document /\ RowKept(e, asked) /\ SameMarks(e, d) /\ e.named /\ e.flagged = d.flagged
BY DEF Document, RowKept, MarksAgree, Sectioned, SameMarks

LEMMA FlaggedRow ==
  ASSUME NEW d \in Document, NEW asked, RowKept(d, asked)
  PROVE  LET e == [d EXCEPT !.flagged = TRUE]
         IN  e \in Document /\ RowKept(e, asked) /\ SameMarks(e, d) /\ e.flagged /\ e.named = d.named
BY DEF Document, RowKept, MarksAgree, Sectioned, SameMarks

LEMMA FailedRow ==
  ASSUME NEW d \in Document, NEW asked \in SUBSET (1..2), RowKept(d, asked), d.status = "processing",
         NEW why \in Reasons \ {"none"}
  PROVE  LET e == [d EXCEPT !.status = "failed", !.reason = why]
         IN  e \in Document /\ RowKept(e, asked) /\ e.status = "failed"
BY DEF Document, RowKept, MarksAgree, Sectioned

LEMMA BegunRow ==
  ASSUME NEW d \in Document, NEW asked \in SUBSET (1..2), RowKept(d, asked),
         d.status \in {"absent", "processing"}
  PROVE  LET e == [d EXCEPT !.status = "processing", !.attempts = @ + 1, !.named = TRUE, !.flagged = TRUE]
         IN  e \in Document /\ RowKept(e, asked) /\ e.status = "processing" /\ e.named /\ e.flagged
<1> DEFINE a == [d EXCEPT !.status = "processing", !.attempts = @ + 1]
           e == [a EXCEPT !.named = TRUE, !.flagged = TRUE]
<1>1. a \in Document /\ a.status = "processing" /\ a.treated = d.treated /\ a.rows = d.rows
  <2> DEFINE b == [d EXCEPT !.status = "processing"]
  <2>1. /\ b \in Document /\ b.status = "processing" /\ b.treated = d.treated /\ b.rows = d.rows
        /\ b.attempts = d.attempts
    BY DEF Document
  <2>2. a = [b EXCEPT !.attempts = @ + 1]
    OBVIOUS
  <2> HIDE DEF b, a
  <2>3. b.attempts + 1 \in Int
    BY <2>1 DEF Document
  <2> QED
    BY <2>1, <2>2, <2>3 DEF Document
<1> HIDE DEF a
<1>2. e \in Document /\ e.status = "processing" /\ e.treated = d.treated /\ e.rows = d.rows /\ e.named /\ e.flagged
  BY <1>1 DEF Document
<1> HIDE DEF e
<1>3. RowKept(e, asked)
  BY <1>2 DEF RowKept, MarksAgree, Sectioned
<1> QED
  BY <1>2, <1>3 DEF a, e

LEMMA GivenBackRow ==
  ASSUME NEW d \in Document, NEW asked, RowKept(d, asked)
  PROVE  LET e == [d EXCEPT !.attempts = @ - 1]
         IN  e \in Document /\ RowKept(e, asked) /\ e.status = d.status
BY DEF Document, RowKept, MarksAgree, Sectioned

\* A whole walk settles the row, and leaves the other pipelines' marks true of their rows.
LEMMA WalkedRow ==
  ASSUME NEW d \in Document, NEW asked \in SUBSET (1..2), MarksAgree(d, asked), NEW p \in asked,
         d.status = "ready"
  PROVE  LET e == Walked(d, p)
         IN  /\ e \in Document /\ RowKept(e, asked) /\ e.status = "ready" /\ Complete(e, p)
             /\ e.named = d.named /\ e.flagged = d.flagged
<1> DEFINE e == Walked(d, p)
<1>1. /\ e \in Document /\ e.status = "ready" /\ e.named = d.named /\ e.flagged = d.flagged
      /\ e.anchored /\ e.cited /\ e.treated = p /\ e.rows[p] = Passes0
      /\ \A q \in 1..2 : q # p => e.rows[q] = d.rows[q]
  <2> DEFINE a == [d EXCEPT !.rows[p] = Passes0]
             b == [a EXCEPT !.anchored = TRUE, !.cited = TRUE]
             c == [b EXCEPT !.treated = p]
  <2>1. /\ a \in Document /\ a.status = "ready" /\ a.named = d.named /\ a.flagged = d.flagged
        /\ a.rows[p] = Passes0 /\ \A q \in 1..2 : q # p => a.rows[q] = d.rows[q]
    BY DEF Document
  <2> HIDE DEF a
  <2>2. /\ b \in Document /\ b.status = "ready" /\ b.named = d.named /\ b.flagged = d.flagged
        /\ b.rows = a.rows /\ b.anchored /\ b.cited
    BY <2>1 DEF Document
  <2> HIDE DEF b
  <2>3. /\ c \in Document /\ c.status = "ready" /\ c.named = d.named /\ c.flagged = d.flagged
        /\ c.rows = a.rows /\ c.anchored /\ c.cited /\ c.treated = p
    <3>1. p \in 0..2
      OBVIOUS
    <3> QED
      BY <2>2, <3>1 DEF Document
  <2>4. e = c
    BY DEF Walked, a, b, c
  <2> HIDE DEF e, c
  <2> QED
    BY <2>1, <2>3, <2>4
<1> HIDE DEF e
<1>2. Complete(e, p)
  BY <1>1 DEF Complete, Sectioned, Chunked, Passes0
<1>3. MarksAgree(e, asked)
  BY <1>1 DEF MarksAgree, Sectioned, Passes0
<1> QED
  BY <1>1, <1>2, <1>3 DEF RowKept, e

PassWritten(e, d, p, asked) ==
  /\ e \in Document /\ RowKept(e, asked) /\ e.status = "ready"
  /\ e.named = d.named /\ e.flagged = d.flagged /\ (Sectioned(e, p) <=> Sectioned(d, p))
  /\ Missing(e, p) \subseteq Missing(d, p)

\* A pass writes its rows and its mark.
LEMMA MarkedRow ==
  ASSUME NEW d \in Document, NEW asked \in SUBSET (1..2), RowKept(d, asked), NEW p \in asked,
         NEW pass \in {"anchors", "citations", "signals", "chunks"}, d.status = "ready"
  PROVE  PassWritten(Marked(d, pass, p), d, p, asked)
<1> DEFINE e == Marked(d, pass, p)
<1>1. /\ e \in Document /\ e.status = "ready" /\ e.named = d.named /\ e.flagged = d.flagged
      /\ e.anchored <=> (d.anchored \/ pass = "anchors")
      /\ e.cited <=> (d.cited \/ pass = "citations")
      /\ e.treated = IF pass = "signals" THEN p ELSE d.treated
      /\ e.rows[p] = d.rows[p] \cup {pass}
      /\ \A q \in 1..2 : q # p => e.rows[q] = d.rows[q]
  <2> DEFINE a == [d EXCEPT !.rows[p] = @ \cup {pass}]
             b == [a EXCEPT !.anchored = @ \/ pass = "anchors"]
             c == [b EXCEPT !.cited = @ \/ pass = "citations"]
             m == [c EXCEPT !.treated = IF pass = "signals" THEN p ELSE @]
  <2>1. /\ a \in Document /\ a.status = "ready" /\ a.named = d.named /\ a.flagged = d.flagged
        /\ a.anchored = d.anchored /\ a.cited = d.cited /\ a.treated = d.treated
        /\ a.rows[p] = d.rows[p] \cup {pass} /\ \A q \in 1..2 : q # p => a.rows[q] = d.rows[q]
    <3>1. d.rows[p] \cup {pass} \in SUBSET Passes0
      BY DEF Document, Passes0
    <3> QED
      BY <3>1 DEF Document
  <2> HIDE DEF a
  <2>2. /\ b \in Document /\ b.status = "ready" /\ b.named = d.named /\ b.flagged = d.flagged
        /\ b.rows = a.rows /\ b.cited = d.cited /\ b.treated = d.treated
        /\ b.anchored <=> (d.anchored \/ pass = "anchors")
    BY <2>1 DEF Document
  <2> HIDE DEF b
  <2>3. /\ c \in Document /\ c.status = "ready" /\ c.named = d.named /\ c.flagged = d.flagged
        /\ c.rows = a.rows /\ c.anchored = b.anchored /\ c.treated = d.treated
        /\ c.cited <=> (d.cited \/ pass = "citations")
    BY <2>2 DEF Document
  <2> HIDE DEF c
  <2>4. /\ m \in Document /\ m.status = "ready" /\ m.named = d.named /\ m.flagged = d.flagged
        /\ m.rows = a.rows /\ m.anchored = b.anchored /\ m.cited = c.cited
        /\ m.treated = IF pass = "signals" THEN p ELSE d.treated
    <3>1. p \in 0..2 /\ c.treated \in 0..2
      BY <2>3 DEF Document
    <3> QED
      BY <2>3, <3>1 DEF Document
  <2>5. e = m
    BY DEF Marked, a, b, c, m
  <2> HIDE DEF e, m
  <2> QED
    BY <2>1, <2>2, <2>3, <2>4, <2>5
<1> HIDE DEF e
<1>2. (Sectioned(e, p) <=> Sectioned(d, p)) /\ Missing(e, p) \subseteq Missing(d, p)
  BY <1>1 DEF Missing, Sectioned, Chunked
<1>3. MarksAgree(e, asked)
  BY <1>1 DEF MarksAgree, RowKept, Sectioned
<1> QED
  BY <1>1, <1>2, <1>3 DEF RowKept, PassWritten, e

\* Nothing missing, and its sections there: every pass has its rows.
LEMMA NothingMissing ==
  ASSUME NEW d \in Document, NEW asked, MarksAgree(d, asked), NEW p \in asked, p \in 1..2, Complete(d, p),
         d.anchored, d.cited
  PROVE  d.rows[p] = Passes0
<1>1. d.rows[p] \subseteq Passes0
  BY DEF Document
<1>2. {"sections", "anchors", "citations", "signals", "chunks"} \subseteq d.rows[p]
  BY DEF MarksAgree, Complete, Sectioned, Chunked
<1> QED
  BY <1>1, <1>2 DEF Passes0

-----------------------------------------------------------------------------
(* The steps at one opinion. *)

\* What a job at an opinion knows, in one place.
LEMMA AtRow ==
  ASSUME IngestInv, NEW w \in Workers, Job(w).op = "ingest", Job(w).at \in AtOpinion
  PROVE  /\ Job(w) \in RunShape /\ Job(w).i \in Rows0 /\ Job(w).pipe \in pipes /\ pipes \in SUBSET (1..2)
         /\ locks.court = w /\ Job(w).outcome \in Outcomes
         /\ Now0(w) = documents[Job(w).i] /\ Now0(w) \in Document /\ Previous(w) \in Document
         /\ RowKept(Now0(w), pipes) /\ RowAt(Job(w).at, Now0(w), Previous(w), Job(w).pipe)
         /\ Now0(w).status = "ready" => TextsOf(Job(w).i) \subseteq storedDocs
         /\ Job(w).at = "finish" => TextsOf(Job(w).i) \subseteq storedDocs
<1>1. Job(w) \in RunShape /\ pipes \subseteq 1..2 /\ documents \in [Rows0 -> Document]
  BY DEF IngestInv, IngestTyped, Job
<1>2. /\ Job(w).i \in Rows0 /\ Job(w).present \in [Rows0 -> Document]
      /\ RowAt(Job(w).at, Now0(w), Previous(w), Job(w).pipe) /\ locks.court = w /\ Job(w).pipe \in pipes
      /\ Job(w).at = "finish" => TextsOf(Job(w).i) \subseteq storedDocs
  BY DEF IngestInv, RunKept, WalkSound, HoldsCourt, InCourt
<1>3. Job(w).outcome \in Outcomes
  BY <1>1 DEF RunShape
<1> QED
  BY <1>1, <1>2, <1>3 DEF IngestInv, TextsStored, RowsKept, Now0, Previous

\* The row the job is at becomes d, and no other.
LEMMA RowBecomes ==
  ASSUME IngestInv, NEW w \in Workers, Job(w).op = "ingest", Job(w).at \in AtOpinion,
         NEW d \in Document, RowKept(d, pipes), OpinionRow(w, d), pipes' = pipes,
         storedDocs \subseteq storedDocs', d.status = "ready" => TextsOf(Job(w).i) \subseteq storedDocs'
  PROVE  /\ documents'[Job(w).i] = d /\ \A k \in Rows0 : k # Job(w).i => documents'[k] = documents[k]
         /\ documents' \in [Rows0 -> Document] /\ TextsStored' /\ RowsKept'
<1>1. Job(w).i \in Rows0 /\ documents' = [documents EXCEPT ![Job(w).i] = d] /\ documents \in [Rows0 -> Document]
  BY AtRow DEF OpinionRow, IngestInv, IngestTyped
<1>2. documents' \in [Rows0 -> Document] /\ TextsStored' /\ RowsKept'
  BY <1>1, RowWritten DEF IngestInv
<1> QED
  BY <1>1, <1>2

\* The row stays as it is.
LEMMA RowStays ==
  ASSUME IngestInv, NEW w \in Workers, Job(w).op = "ingest", Job(w).at \in AtOpinion,
         documents' = documents, pipes' = pipes, storedDocs \subseteq storedDocs'
  PROVE  /\ documents'[Job(w).i] = Now0(w) /\ \A k \in Rows0 : k # Job(w).i => documents'[k] = documents[k]
         /\ documents' \in [Rows0 -> Document] /\ TextsStored' /\ RowsKept'
BY AtRow, RowsUntouched DEF IngestInv, Now0

LEMMA StepAtOpinion ==
  ASSUME IngestInv, NEW w \in Workers, Job(w).op = "ingest", Job(w).at \in AtOpinion,
         NEW place \in AtOpinion, Steps(w, place),
         pipes' = pipes, storedDocs \subseteq storedDocs', locks' = locks,
         \A k \in Rows0 : k # Job(w).i => documents'[k] = documents[k],
         documents' \in [Rows0 -> Document], TextsStored', RowsKept',
         RowAt(place, documents'[Job(w).i], Previous(w), Job(w).pipe),
         place = "finish" => TextsOf(Job(w).i) \subseteq storedDocs'
  PROVE  IngestInv'
<1> DEFINE r == [Job(w) EXCEPT !.at = place]
<1>1. Job(w) \in RunShape /\ locks.court = w
  BY AtRow
<1>2. place \in RunPlaces
  BY DEF AtOpinion, RunPlaces
<1>3. /\ r \in RunShape /\ r.at = place /\ r.op = Job(w).op /\ r.i = Job(w).i /\ r.pipe = Job(w).pipe
      /\ r.present = Job(w).present
  BY <1>1, <1>2, Moves
<1>4. Puts(w, r)
  BY DEF Steps
<1> HIDE DEF r
<1> QED
  BY <1>1, <1>3, <1>4, SameOpinion

LEMMA WriteNameKeeps ==
  ASSUME IngestInv, NEW w \in Workers, write_name(w)
  PROVE  IngestInv'
<1> DEFINE d == Now0(w)
           e == Previous(w)
<1>1. /\ Job(w).op = "ingest" /\ Job(w).at = "name" /\ Job(w).at \in AtOpinion
      /\ UNCHANGED <<storedDocs, locks, pipes>>
  BY DEF write_name, On, AtOpinion
<1>2. d \in Document /\ RowKept(d, pipes) /\ d = e /\ (d.status = "ready" => TextsOf(Job(w).i) \subseteq storedDocs)
  BY <1>1, AtRow DEF RowAt
<1>3. CASE CommitFails(w)
  BY <1>1, <1>3, CommitFailsKeeps
<1>4. CASE Steps(w, "flag") /\ e.status = "ready" /\ ~e.named /\ OpinionRow(w, [d EXCEPT !.named = TRUE])
  <2> DEFINE n == [d EXCEPT !.named = TRUE]
  <2>1. n \in Document /\ RowKept(n, pipes) /\ SameMarks(n, d) /\ n.named /\ n.flagged = d.flagged
    BY <1>2, NamedRow
  <2> HIDE DEF n
  <2>2. n.status = "ready" => TextsOf(Job(w).i) \subseteq storedDocs'
    BY <1>1, <1>2, <2>1 DEF SameMarks
  <2>3. /\ documents'[Job(w).i] = n /\ \A k \in Rows0 : k # Job(w).i => documents'[k] = documents[k]
        /\ documents' \in [Rows0 -> Document] /\ TextsStored' /\ RowsKept'
    BY <1>1, <1>4, <2>1, <2>2, RowBecomes DEF n
  <2>4. RowAt("flag", documents'[Job(w).i], e, Job(w).pipe)
    BY <1>2, <2>1, <2>3 DEF RowAt, Named
  <2> QED
    BY <1>1, <1>4, <2>3, <2>4, StepAtOpinion DEF AtOpinion
<1>5. CASE Steps(w, "flag") /\ (e.status = "ready" => e.named) /\ documents' = documents
  <2>1. /\ documents'[Job(w).i] = d /\ \A k \in Rows0 : k # Job(w).i => documents'[k] = documents[k]
        /\ documents' \in [Rows0 -> Document] /\ TextsStored' /\ RowsKept'
    BY <1>1, <1>5, RowStays
  <2>2. RowAt("flag", documents'[Job(w).i], e, Job(w).pipe)
    BY <1>2, <1>5, <2>1 DEF RowAt, Named, SameMarks
  <2> QED
    BY <1>1, <1>5, <2>1, <2>2, StepAtOpinion DEF AtOpinion
<1> QED
  BY <1>3, <1>4, <1>5 DEF write_name

LEMMA WriteFlagKeeps ==
  ASSUME IngestInv, NEW w \in Workers, write_flag(w)
  PROVE  IngestInv'
<1> DEFINE d == Now0(w)
           e == Previous(w)
<1>1. /\ Job(w).op = "ingest" /\ Job(w).at = "flag" /\ Job(w).at \in AtOpinion
      /\ UNCHANGED <<storedDocs, locks, pipes>>
  BY DEF write_flag, On, AtOpinion
<1>2. /\ d \in Document /\ RowKept(d, pipes) /\ SameMarks(d, e) /\ Named(d) /\ d.flagged = e.flagged
      /\ d.status = "ready" => TextsOf(Job(w).i) \subseteq storedDocs
  BY <1>1, AtRow DEF RowAt
<1>3. CASE CommitFails(w)
  BY <1>1, <1>3, CommitFailsKeeps
<1>4. CASE Steps(w, "judge") /\ e.status = "ready" /\ ~e.flagged /\ OpinionRow(w, [d EXCEPT !.flagged = TRUE])
  <2> DEFINE n == [d EXCEPT !.flagged = TRUE]
  <2>1. n \in Document /\ RowKept(n, pipes) /\ SameMarks(n, d) /\ n.flagged /\ n.named = d.named
    BY <1>2, FlaggedRow
  <2> HIDE DEF n
  <2>2. n.status = "ready" => TextsOf(Job(w).i) \subseteq storedDocs'
    BY <1>1, <1>2, <2>1 DEF SameMarks
  <2>3. /\ documents'[Job(w).i] = n /\ \A k \in Rows0 : k # Job(w).i => documents'[k] = documents[k]
        /\ documents' \in [Rows0 -> Document] /\ TextsStored' /\ RowsKept'
    BY <1>1, <1>4, <2>1, <2>2, RowBecomes DEF n
  <2>4. RowAt("judge", documents'[Job(w).i], e, Job(w).pipe)
    BY <1>2, <2>1, <2>3 DEF RowAt, Named, Flagged, SameMarks
  <2> QED
    BY <1>1, <1>4, <2>3, <2>4, StepAtOpinion DEF AtOpinion
<1>5. CASE Steps(w, "judge") /\ (e.status = "ready" => e.flagged) /\ documents' = documents
  <2>1. /\ documents'[Job(w).i] = d /\ \A k \in Rows0 : k # Job(w).i => documents'[k] = documents[k]
        /\ documents' \in [Rows0 -> Document] /\ TextsStored' /\ RowsKept'
    BY <1>1, <1>5, RowStays
  <2>2. RowAt("judge", documents'[Job(w).i], e, Job(w).pipe)
    BY <1>2, <1>5, <2>1 DEF RowAt, Named, Flagged, SameMarks
  <2> QED
    BY <1>1, <1>5, <2>1, <2>2, StepAtOpinion DEF AtOpinion
<1> QED
  BY <1>3, <1>4, <1>5 DEF write_flag

LEMMA JudgesRowKeeps ==
  ASSUME IngestInv, NEW w \in Workers, JudgesRow(w)
  PROVE  IngestInv'
<1> DEFINE d == Now0(w)
           e == Previous(w)
           p == Job(w).pipe
<1>1. /\ Job(w).op = "ingest" /\ Job(w).at = "judge" /\ Job(w).at \in AtOpinion
      /\ UNCHANGED <<storedDocs, locks, pipes>>
  BY DEF JudgesRow, On, AtOpinion
<1>2. /\ d \in Document /\ e \in Document /\ RowKept(d, pipes) /\ SameMarks(d, e) /\ Named(d) /\ Flagged(d)
      /\ pipes \in SUBSET (1..2) /\ locks.court = w
  BY <1>1, AtRow DEF RowAt
<1>3. CASE documents' = documents
  <2>1. /\ documents'[Job(w).i] = d /\ \A k \in Rows0 : k # Job(w).i => documents'[k] = documents[k]
        /\ documents' \in [Rows0 -> Document] /\ TextsStored' /\ RowsKept'
    BY <1>1, <1>3, RowStays
  <2>2. CASE e.status = "ready" /\ Steps(w, "backfill")
    <3>1. RowAt("backfill", d, e, p)
      BY <1>2, <2>2 DEF RowAt, SameMarks, Named, Flagged, Sectioned, Missing, Chunked
    <3> QED
      BY <1>1, <1>3, <2>1, <2>2, <3>1, StepAtOpinion DEF AtOpinion
  <2>3. CASE e.status = "ready" /\ Complete(e, p) /\ Next0(w)
    <3>1. SettledUnder(d, p)
      BY <1>2, <2>3 DEF SettledUnder, SameMarks, Named, Flagged, Complete, Sectioned, Chunked
    <3> QED
      BY <1>1, <1>2, <2>1, <2>3, <3>1, NextOpinion
  <2>4. CASE e.status = "failed" /\ Next0(w)
    <3>1. SettledUnder(d, p)
      BY <1>2, <2>4 DEF SettledUnder, SameMarks
    <3> QED
      BY <1>1, <1>2, <2>1, <2>4, <3>1, NextOpinion
  <2>5. CASE e.status \in {"absent", "processing"} /\ Steps(w, "begin")
    <3>1. RowAt("begin", d, e, p)
      BY <1>2, <2>5 DEF RowAt, SameMarks
    <3> QED
      BY <1>1, <1>3, <2>1, <2>5, <3>1, StepAtOpinion DEF AtOpinion
  <2>6. e.status = "processing" /\ OpinionRow(w, [d EXCEPT !.status = "failed", !.reason = "interrupted"]) => FALSE
    <3> SUFFICES ASSUME e.status = "processing",
                        OpinionRow(w, [d EXCEPT !.status = "failed", !.reason = "interrupted"])
                 PROVE  FALSE
      OBVIOUS
    <3>1. [d EXCEPT !.status = "failed", !.reason = "interrupted"].status = "failed" /\ d.status = "processing"
      BY <1>2 DEF Document, SameMarks
    <3>2. documents'[Job(w).i] = [d EXCEPT !.status = "failed", !.reason = "interrupted"]
      BY <1>1, AtRow DEF OpinionRow, IngestInv, IngestTyped
    <3> QED
      BY <2>1, <3>1, <3>2
  <2> QED
    BY <1>3, <2>2, <2>3, <2>4, <2>5, <2>6 DEF JudgesRow
<1>4. CASE /\ e.status = "processing" /\ Next0(w)
           /\ OpinionRow(w, [d EXCEPT !.status = "failed", !.reason = "interrupted"])
  <2> DEFINE n == [d EXCEPT !.status = "failed", !.reason = "interrupted"]
  <2>1. n \in Document /\ RowKept(n, pipes) /\ n.status = "failed"
    BY <1>2, <1>4, FailedRow DEF SameMarks, Reasons
  <2> HIDE DEF n
  <2>2. /\ documents'[Job(w).i] = n /\ \A k \in Rows0 : k # Job(w).i => documents'[k] = documents[k]
        /\ documents' \in [Rows0 -> Document] /\ TextsStored' /\ RowsKept'
    <3>1. OpinionRow(w, n) /\ n.status # "ready"
      BY <1>4, <2>1 DEF n
    <3> QED
      BY <1>1, <2>1, <3>1, RowBecomes
  <2>3. SettledUnder(documents'[Job(w).i], p)
    BY <2>1, <2>2 DEF SettledUnder
  <2> QED
    BY <1>1, <1>2, <1>4, <2>2, <2>3, NextOpinion
<1> QED
  BY <1>3, <1>4 DEF JudgesRow

LEMMA BeginsKeeps ==
  ASSUME IngestInv, NEW w \in Workers, Begins(w)
  PROVE  IngestInv'
<1> DEFINE d == Now0(w)
<1>1. /\ Job(w).op = "ingest" /\ Job(w).at = "begin" /\ Job(w).at \in AtOpinion
      /\ UNCHANGED <<storedDocs, locks, pipes>>
  BY DEF Begins, On, AtOpinion
<1>2. /\ d \in Document /\ RowKept(d, pipes) /\ d.status \in {"absent", "processing"}
      /\ pipes \in SUBSET (1..2) /\ locks.court = w /\ Job(w) \in RunShape
  BY <1>1, AtRow DEF RowAt
<1>3. CASE CommitFails(w)
  BY <1>1, <1>3, CommitFailsKeeps
<1>4. CASE /\ OpinionRow(w, [d EXCEPT !.status = "processing", !.attempts = @ + 1, !.named = TRUE, !.flagged = TRUE])
           /\ Puts(w, [Job(w) EXCEPT !.at = "parse", !.active = TRUE])
  <2> DEFINE n == [d EXCEPT !.status = "processing", !.attempts = @ + 1, !.named = TRUE, !.flagged = TRUE]
             r == [Job(w) EXCEPT !.at = "parse", !.active = TRUE]
  <2>1. n \in Document /\ RowKept(n, pipes) /\ n.status = "processing" /\ n.named /\ n.flagged
    BY <1>2, BegunRow
  <2>2. /\ r \in RunShape /\ r.at = "parse" /\ r.op = Job(w).op /\ r.i = Job(w).i /\ r.pipe = Job(w).pipe
        /\ r.present = Job(w).present
    BY <1>2 DEF RunShape, RunPlaces
  <2>3. OpinionRow(w, n) /\ Puts(w, r) /\ n.status # "ready"
    BY <1>4, <2>1
  <2> HIDE DEF n, r
  <2>4. /\ documents'[Job(w).i] = n /\ \A k \in Rows0 : k # Job(w).i => documents'[k] = documents[k]
        /\ documents' \in [Rows0 -> Document] /\ TextsStored' /\ RowsKept'
    BY <1>1, <2>1, <2>3, RowBecomes
  <2>5. RowAt(r.at, documents'[Job(w).i], Previous(w), Job(w).pipe) /\ r.at # "finish" /\ r.at \in AtOpinion
    BY <2>1, <2>2, <2>4 DEF RowAt, AtOpinion
  <2> QED
    BY <1>1, <1>2, <2>2, <2>3, <2>4, <2>5, SameOpinion
<1> QED
  BY <1>3, <1>4 DEF Begins

LEMMA ParsesKeeps ==
  ASSUME IngestInv, NEW w \in Workers, Parses(w)
  PROVE  IngestInv'
<1> DEFINE d == Now0(w)
           i == Job(w).i
<1>1. /\ Job(w).op = "ingest" /\ Job(w).at = "parse" /\ Job(w).at \in AtOpinion
      /\ UNCHANGED <<locks, pipes>>
  BY DEF Parses, On, AtOpinion
<1>2. /\ d \in Document /\ RowKept(d, pipes) /\ d.status = "processing" /\ d.named /\ d.flagged
      /\ pipes \in SUBSET (1..2) /\ locks.court = w /\ Job(w) \in RunShape /\ i \in Rows0
  BY <1>1, AtRow DEF RowAt
<1>3. CASE /\ Steps(w, "finish") /\ documents' = documents
           /\ storedDocs' = storedDocs \cup {<<i, "original">>, <<i, "canonical">>}
  <2>1. storedDocs \subseteq storedDocs' /\ TextsOf(i) \subseteq storedDocs'
    BY <1>3 DEF TextsOf
  <2>2. /\ documents'[i] = d /\ \A k \in Rows0 : k # i => documents'[k] = documents[k]
        /\ documents' \in [Rows0 -> Document] /\ TextsStored' /\ RowsKept'
    BY <1>1, <1>3, <2>1, RowStays
  <2>3. RowAt("finish", documents'[i], Previous(w), Job(w).pipe)
    BY <1>2, <2>2 DEF RowAt
  <2> QED
    BY <1>1, <1>3, <2>1, <2>2, <2>3, StepAtOpinion DEF AtOpinion
<1>4. CASE /\ Text[i] # "text" /\ OpinionRow(w, [d EXCEPT !.status = "failed", !.reason = Text[i]]) /\ Next0(w)
           /\ storedDocs' = IF Text[i] = "no-text" THEN storedDocs ELSE storedDocs \cup {<<i, "original">>}
  <2> DEFINE n == [d EXCEPT !.status = "failed", !.reason = Text[i]]
  <2>1. Text[i] \in Reasons \ {"none"} /\ storedDocs \subseteq storedDocs'
    BY <1>2, <1>4, IngestShapes DEF Reasons, Rows0
  <2>2. n \in Document /\ RowKept(n, pipes) /\ n.status = "failed"
    BY <1>2, <2>1, FailedRow
  <2>3. OpinionRow(w, n) /\ n.status # "ready"
    BY <1>4, <2>2
  <2> HIDE DEF n
  <2>4. /\ documents'[i] = n /\ \A k \in Rows0 : k # i => documents'[k] = documents[k]
        /\ documents' \in [Rows0 -> Document] /\ TextsStored' /\ RowsKept'
    BY <1>1, <2>1, <2>2, <2>3, RowBecomes
  <2>5. SettledUnder(documents'[i], Job(w).pipe)
    BY <2>2, <2>4 DEF SettledUnder
  <2> QED
    BY <1>1, <1>2, <1>4, <2>1, <2>4, <2>5, NextOpinion
<1>5. CASE Puts(w, [Job(w) EXCEPT !.at = "give-back", !.outcome = "store"]) /\ UNCHANGED <<documents, storedDocs>>
  <2> DEFINE r == [Job(w) EXCEPT !.at = "give-back", !.outcome = "store"]
  <2>1. r \in RunShape /\ r.op = "ingest" /\ r.pipe = Job(w).pipe /\ r.at = "give-back" /\ r.outcome = "store"
    BY <1>1, <1>2 DEF RunShape, RunPlaces, Outcomes
  <2>2. documents' \in [Rows0 -> Document] /\ TextsStored' /\ RowsKept'
    BY <1>1, <1>5, RowStays
  <2>3. Puts(w, r)
    BY <1>5
  <2> HIDE DEF r
  <2> QED
    BY <1>1, <1>2, <1>5, <2>1, <2>2, <2>3, GivesUp
<1> QED
  BY <1>3, <1>4, <1>5 DEF Parses

\* The walk of a row that parsed, or of a ready row another pipeline walked before.
LEMMA WalkKeeps ==
  ASSUME IngestInv, NEW w \in Workers, Job(w).op = "ingest", Job(w).at \in AtOpinion,
         UNCHANGED <<storedDocs, locks, pipes>>,
         NEW d \in Document, d.status = "ready", d.named, d.flagged, MarksAgree(d, pipes),
         TextsOf(Job(w).i) \subseteq storedDocs, OpinionRow(w, Walked(d, Job(w).pipe)), Next0(w)
  PROVE  IngestInv'
<1> DEFINE n == Walked(d, Job(w).pipe)
<1>1. pipes \in SUBSET (1..2) /\ Job(w).pipe \in pipes /\ locks.court = w
  BY AtRow
<1>2. /\ n \in Document /\ RowKept(n, pipes) /\ n.status = "ready" /\ Complete(n, Job(w).pipe)
      /\ n.named = d.named /\ n.flagged = d.flagged
  BY <1>1, WalkedRow
<1> HIDE DEF n
<1>3. /\ documents'[Job(w).i] = n /\ \A k \in Rows0 : k # Job(w).i => documents'[k] = documents[k]
      /\ documents' \in [Rows0 -> Document] /\ TextsStored' /\ RowsKept'
  BY <1>2, RowBecomes DEF n
<1>4. SettledUnder(documents'[Job(w).i], Job(w).pipe)
  BY <1>2, <1>3 DEF SettledUnder
<1> QED
  BY <1>1, <1>3, <1>4, NextOpinion

LEMMA FinishReadyKeeps ==
  ASSUME IngestInv, NEW w \in Workers, finish_ready(w)
  PROVE  IngestInv'
<1> DEFINE d == Now0(w)
           n == [d EXCEPT !.status = "ready"]
<1>1. /\ Job(w).op = "ingest" /\ Job(w).at = "finish" /\ Job(w).at \in AtOpinion
      /\ UNCHANGED <<storedDocs, locks, pipes>>
  BY DEF finish_ready, On, AtOpinion
<1>2. /\ d \in Document /\ RowKept(d, pipes) /\ d.status = "processing" /\ d.named /\ d.flagged
      /\ pipes \in SUBSET (1..2) /\ TextsOf(Job(w).i) \subseteq storedDocs
  BY <1>1, AtRow DEF RowAt
<1>3. n \in Document /\ n.status = "ready" /\ n.named /\ n.flagged /\ MarksAgree(n, pipes)
  BY <1>2 DEF Document, RowKept, MarksAgree, Sectioned
<1>4. CASE CommitFails(w)
  BY <1>1, <1>4, CommitFailsKeeps
<1>5. CASE OpinionRow(w, Walked(n, Job(w).pipe)) /\ Next0(w)
  <2> HIDE DEF n
  <2> QED
    BY <1>1, <1>2, <1>3, <1>5, WalkKeeps
<1> QED
  BY <1>4, <1>5 DEF finish_ready

LEMMA WriteWalkKeeps ==
  ASSUME IngestInv, NEW w \in Workers, write_walk(w)
  PROVE  IngestInv'
<1> DEFINE d == Now0(w)
<1>1. /\ Job(w).op = "ingest" /\ Job(w).at = "backfill" /\ Job(w).at \in AtOpinion
      /\ UNCHANGED <<storedDocs, locks, pipes>>
  BY DEF write_walk, On, AtOpinion
<1>2. /\ d \in Document /\ MarksAgree(d, pipes) /\ d.status = "ready" /\ d.named /\ d.flagged
      /\ TextsOf(Job(w).i) \subseteq storedDocs
  BY <1>1, AtRow DEF RowAt, RowKept
<1>3. CASE CommitFails(w)
  BY <1>1, <1>3, CommitFailsKeeps
<1>4. CASE OpinionRow(w, Walked(d, Job(w).pipe)) /\ Next0(w)
  BY <1>1, <1>2, <1>4, WalkKeeps
<1> QED
  BY <1>3, <1>4 DEF write_walk

LEMMA WritesPassKeeps ==
  ASSUME IngestInv, NEW w \in Workers, WritesPass(w)
  PROVE  IngestInv'
<1> DEFINE d == Now0(w)
           e == Previous(w)
           p == Job(w).pipe
           left == {k \in DOMAIN PASS_ORDER : PASS_ORDER[k] \in Missing(e, p) \cap Missing(d, p)}
<1>1. /\ Job(w).op = "ingest" /\ Job(w).at = "backfill" /\ Job(w).at \in AtOpinion
      /\ UNCHANGED <<storedDocs, locks, pipes>> /\ Sectioned(e, p)
  BY DEF WritesPass, On, AtOpinion
<1>2. /\ d \in Document /\ RowKept(d, pipes) /\ d.status = "ready" /\ d.named /\ d.flagged /\ e.status = "ready"
      /\ (Sectioned(d, p) <=> Sectioned(e, p)) /\ Missing(d, p) \subseteq Missing(e, p)
      /\ pipes \in SUBSET (1..2) /\ p \in pipes /\ locks.court = w /\ TextsOf(Job(w).i) \subseteq storedDocs
  BY <1>1, AtRow DEF RowAt
<1>3. CASE CommitFails(w)
  BY <1>1, <1>3, CommitFailsKeeps
<1>4. CASE left = {} /\ Next0(w) /\ documents' = documents
  <2>1. Missing(d, p) = {}
    <3>1. \A pass \in {"anchors", "citations", "signals", "chunks"} :
            \E k \in DOMAIN PASS_ORDER : PASS_ORDER[k] = pass
      <4>1. DOMAIN PASS_ORDER = 1..4 /\ PASS_ORDER[1] = "anchors" /\ PASS_ORDER[2] = "citations"
            /\ PASS_ORDER[3] = "signals" /\ PASS_ORDER[4] = "chunks"
        BY DEF PASS_ORDER
      <4> QED
        BY <4>1
    <3>2. Missing(d, p) \subseteq {"anchors", "citations", "signals", "chunks"}
      BY DEF Missing
    <3> QED
      BY <1>2, <1>4, <3>1, <3>2
  <2>2. d.anchored /\ d.cited /\ d.treated = p /\ Chunked(d, p)
    BY <2>1 DEF Missing
  <2>3. SettledUnder(d, p)
    BY <1>1, <1>2, <2>2 DEF SettledUnder, Complete
  <2>4. /\ documents'[Job(w).i] = d /\ \A k \in Rows0 : k # Job(w).i => documents'[k] = documents[k]
        /\ documents' \in [Rows0 -> Document] /\ TextsStored' /\ RowsKept'
    BY <1>1, <1>4, RowStays
  <2> QED
    BY <1>1, <1>2, <1>4, <2>3, <2>4, NextOpinion
<1>5. ASSUME NEW k \in left, OpinionRow(w, Marked(d, PASS_ORDER[k], p)), ingestRun' = ingestRun
      PROVE  IngestInv'
  <2> DEFINE n == Marked(d, PASS_ORDER[k], p)
  <2>1. PASS_ORDER[k] \in {"anchors", "citations", "signals", "chunks"}
    BY <1>5 DEF Missing
  <2>2. /\ n \in Document /\ RowKept(n, pipes) /\ n.status = "ready" /\ n.named = d.named /\ n.flagged = d.flagged
        /\ (Sectioned(n, p) <=> Sectioned(d, p)) /\ Missing(n, p) \subseteq Missing(d, p)
    <3>1. PassWritten(n, d, p, pipes)
      BY <1>2, <2>1, MarkedRow
    <3> QED
      BY <3>1 DEF PassWritten
  <2>3. OpinionRow(w, n) /\ Puts(w, Job(w)) /\ Job(w) \in RunShape
    <3>1. OpinionRow(w, n) /\ Job(w) \in RunShape
      BY <1>1, <1>5, AtRow
    <3>2. Puts(w, Job(w))
      BY <1>5 DEF Puts, Job, IngestInv, IngestTyped
    <3> QED
      BY <3>1, <3>2
  <2> HIDE DEF n
  <2>4. /\ documents'[Job(w).i] = n /\ \A m \in Rows0 : m # Job(w).i => documents'[m] = documents[m]
        /\ documents' \in [Rows0 -> Document] /\ TextsStored' /\ RowsKept'
    BY <1>1, <1>2, <2>2, <2>3, RowBecomes
  <2>5. RowAt(Job(w).at, documents'[Job(w).i], e, p)
    BY <1>1, <1>2, <2>2, <2>4 DEF RowAt
  <2> QED
    BY <1>1, <1>2, <2>3, <2>4, <2>5, SameOpinion
<1>6. CASE left # {} /\ ~CommitFails(w)
  <2>1. PICK k \in left : \A m \in left : k <= m
    <3>1. left \in SUBSET (1..4)
      BY DEF PASS_ORDER
    <3> HIDE DEF left
    <3>2. PICK m \in left : TRUE
      BY <1>6
    <3> QED
      BY <3>1, <3>2
  <2>2. (CHOOSE x \in left : \A m \in left : x <= m) \in left
    BY <2>1
  <2>3. /\ OpinionRow(w, Marked(d, PASS_ORDER[CHOOSE x \in left : \A m \in left : x <= m], p))
        /\ ingestRun' = ingestRun
    BY <1>6 DEF WritesPass
  <2> QED
    BY <1>5, <2>2, <2>3
<1>7. left = {} => Next0(w) /\ documents' = documents
  BY DEF WritesPass
<1> QED
  BY <1>3, <1>4, <1>6, <1>7

LEMMA GiveBackKeeps ==
  ASSUME IngestInv, NEW w \in Workers, give_back(w)
  PROVE  IngestInv'
<1> DEFINE j == Job(w)
           r == [j EXCEPT !.at = "close"]
<1>1. /\ j \in RunShape /\ j.op = "ingest" /\ j.at = "give-back" /\ UNCHANGED <<storedDocs, locks, pipes>>
      /\ j.outcome # "succeeded" /\ locks.court = w /\ documents \in [Rows0 -> Document]
  BY DEF IngestInv, IngestTyped, RunKept, HoldsCourt, InCourt, Job, give_back, On
<1>2. r \in RunShape /\ r.op = "ingest" /\ r.pipe = j.pipe /\ r.at = "close" /\ r.outcome # "succeeded"
  BY <1>1, Moves DEF RunPlaces
<1>3. Puts(w, r)
  BY DEF give_back, Steps
<1>4. documents' \in [Rows0 -> Document] /\ TextsStored' /\ RowsKept'
  <2>1. CASE documents' = documents
    BY <1>1, <2>1, RowsUntouched DEF IngestInv
  <2>2. CASE j.i \in Rows0 /\ OpinionRow(w, [Now0(w) EXCEPT !.attempts = @ - 1])
    <3> DEFINE n == [Now0(w) EXCEPT !.attempts = @ - 1]
    <3>1. Now0(w) \in Document /\ RowKept(Now0(w), pipes)
          /\ (Now0(w).status = "ready" => TextsOf(j.i) \subseteq storedDocs)
      BY <1>1, <2>2 DEF Now0, IngestInv, RowsKept, TextsStored
    <3>2. n \in Document /\ RowKept(n, pipes) /\ n.status = Now0(w).status
      BY <3>1, GivenBackRow
    <3>3. documents' = [documents EXCEPT ![j.i] = n]
      BY <2>2 DEF OpinionRow
    <3> HIDE DEF n
    <3> QED
      BY <1>1, <2>2, <3>1, <3>2, <3>3, RowWritten DEF IngestInv
  <2>3. CASE j.i \notin Rows0 /\ OpinionRow(w, [Now0(w) EXCEPT !.attempts = @ - 1])
    <3>1. documents' = documents
      BY <1>1, <2>3 DEF OpinionRow
    <3> QED
      BY <2>1, <3>1
  <2> QED
    BY <2>1, <2>2, <2>3 DEF give_back
<1> HIDE DEF r
<1> QED
  BY <1>1, <1>2, <1>3, <1>4, GivesUp

-----------------------------------------------------------------------------
(* The theorem. *)

LEMMA IngestInitKeeps ==
  ASSUME \A h \in Histories : HistoryKept(h)
  PROVE  IngestInit => IngestInv
<1> SUFFICES ASSUME IngestInit PROVE IngestInv
  OBVIOUS
<1>1. PICK h \in Histories : documents = h.rows /\ pipes = h.pipes
  BY DEF IngestInit
<1>2. documents \in [Rows0 -> Document] /\ pipes \subseteq 1..2 /\ RowsKept
  BY <1>1 DEF HistoryKept, RowsKept
<1>3. TextsStored
  BY DEF IngestInit, TextsStored, TextsOf
<1>4. IngestTyped
  BY <1>2, NoRunShape DEF IngestInit, IngestTyped
<1>5. \A w \in Workers : RunKept(w)
  BY NoRunShape DEF IngestInit, RunKept, WalkSound, HoldsCourt, Succeeded0, Job
<1> QED
  BY <1>2, <1>3, <1>4, <1>5 DEF IngestInv

LEMMA IngestStepKeeps == IngestInv /\ [IngestNext]_ingestVars => IngestInv'
<1> SUFFICES ASSUME IngestInv, [IngestNext]_ingestVars PROVE IngestInv'
  OBVIOUS
<1>1. CASE UNCHANGED ingestVars
  BY <1>1 DEF ingestVars, IngestInv, IngestTyped, TextsStored, RowsKept, TextsOf, RunKept, HoldsCourt,
               Succeeded0, WalkSound, Job, Now0, Previous
<1>2. CASE WorkerKilled
  BY <1>2, StoppedKeeps DEF WorkerKilled
<1>3. ASSUME NEW w \in Workers, StageStarts(w) \/ IngestStarts(w) \/ JobStep(w)
      PROVE  IngestInv'
  <2>1. CASE PoisonStops(w)
    BY <2>1, StoppedKeeps DEF PoisonStops
  <2> QED
    BY <1>3, <2>1, StageKeeps, IngestStartsKeeps, IngestLocksKeeps, LoadsKeeps, WriteNameKeeps,
       WriteFlagKeeps, JudgesRowKeeps, BeginsKeeps, ParsesKeeps, FinishReadyKeeps, GiveBackKeeps,
       WriteWalkKeeps, WritesPassKeeps, ClosesKeeps DEF JobStep
<1> QED
  BY <1>1, <1>2, <1>3 DEF IngestNext

\* Every row settled: the counts the host takes refuse nothing.
LEMMA CountsAccept ==
  ASSUME IngestTyped, NEW p \in 1..2, \A i \in Rows0 : SettledUnder(documents[i], p)
  PROVE  ~CountsRefuse(p)
<1>1. {i \in Rows0 : documents[i].status # "absent"} = 1..Opinions
  BY DEF SettledUnder, Rows0
<1>2. Cardinality(1..Opinions) = Opinions /\ Opinions \in Nat /\ IsFiniteSet(1..Opinions)
  <2>1. Opinions \in Nat /\ 1 \in Int
    BY IngestShapes
  <2> QED
    BY <2>1, FS_Interval
<1>3. /\ SectionRows(p) = ready_documents /\ AnchoredDocs = ready_documents /\ CitedDocs = ready_documents
      /\ TreatedDocs(p) = ready_documents /\ ChunkRows(p) = ready_documents
  BY DEF SettledUnder, Complete, Sectioned, Chunked, SectionRows, AnchoredDocs, CitedDocs, TreatedDocs,
         ChunkRows, ready_documents
<1>4. Cardinality(ready_documents) \in Nat
  <2>1. ready_documents \subseteq 1..Opinions
    BY DEF ready_documents, Rows0
  <2> QED
    BY <1>2, <2>1, FS_Subset, FS_CardinalityType
<1>5. ~(Cardinality(ready_documents) < Cardinality(ready_documents)) /\ ~(Opinions < Opinions)
  BY <1>2, <1>4
<1> QED
  BY <1>1, <1>2, <1>3, <1>5 DEF CountsRefuse, Short, read_counts, read_section_counts, read_anchor_counts,
     read_citation_counts, read_treatment_counts, read_chunk_counts

LEMMA IngestInvWhole == IngestInv => IngestedWhole
<1> SUFFICES ASSUME IngestInv, NEW w \in Workers, Succeeded0(w)
             PROVE  /\ ~CountsRefuse(Job(w).pipe)
                    /\ \A i \in Rows0 :
                         LET d == documents[i]
                         IN  \/ d.status = "failed" /\ d.reason # "none"
                             \/ /\ d.status = "ready" /\ d.named /\ d.flagged
                                /\ d.rows[Job(w).pipe] = Passes0
                                /\ {<<i, "original">>, <<i, "canonical">>} \subseteq storedDocs
  BY DEF IngestedWhole, Succeeded0
<1> DEFINE p == Job(w).pipe
<1>1. p \in pipes /\ p \in 1..2 /\ \A i \in Rows0 : SettledUnder(documents[i], p)
  BY DEF IngestInv, IngestTyped, RunKept, Succeeded0
<1>2. ~CountsRefuse(p)
  BY <1>1, CountsAccept DEF IngestInv
<1>3. ASSUME NEW i \in Rows0
      PROVE  LET d == documents[i]
             IN  \/ d.status = "failed" /\ d.reason # "none"
                 \/ /\ d.status = "ready" /\ d.named /\ d.flagged /\ d.rows[p] = Passes0
                    /\ {<<i, "original">>, <<i, "canonical">>} \subseteq storedDocs
  <2>1. documents[i] \in Document /\ RowKept(documents[i], pipes) /\ SettledUnder(documents[i], p)
        /\ (documents[i].status = "ready" => TextsOf(i) \subseteq storedDocs)
    BY <1>1 DEF IngestInv, IngestTyped, RowsKept, TextsStored
  <2>2. CASE documents[i].status = "failed"
    BY <2>1, <2>2 DEF RowKept
  <2>3. CASE documents[i].status # "failed"
    <3>1. documents[i].rows[p] = Passes0
      BY <1>1, <2>1, <2>3, NothingMissing DEF RowKept, SettledUnder, Complete
    <3> QED
      BY <2>1, <2>3, <3>1 DEF SettledUnder, TextsOf
  <2> QED
    BY <2>2, <2>3
<1> QED
  BY <1>2, <1>3

\* Every caselaw job that succeeds leaves its court whole under its pipeline, with any
\* number of executions, kills and failed commits, whatever rows it began with, so long
\* as their marks agree with them (worker/caselaw.py ingest).
THEOREM IngestedWholeHolds ==
  ASSUME \A h \in Histories : HistoryKept(h)
  PROVE  IngestSpec => []IngestedWhole
<1>1. IngestInit => IngestInv
  BY IngestInitKeeps
<1>2. IngestInv /\ [IngestNext]_ingestVars => IngestInv'
  BY IngestStepKeeps
<1>3. IngestInv => IngestedWhole
  BY IngestInvWhole
<1> QED
  BY <1>1, <1>2, <1>3, PTL DEF IngestSpec
=============================================================================

--------------------------- MODULE ReleasesProofs ---------------------------
(* What the commands that move a box between releases keep: a way back at every     *)
(* moment, and a rollback that ends with everything at its set's release; for any   *)
(* releases and contents and any number of commands, failures and lost containers,  *)
(* as long as no upgrade renders while the record of a rollback says that no        *)
(* restore is to come.                                                              *)
EXTENDS Releases, FiniteSetTheorems, WellFoundedInduction, TLAPS

-----------------------------------------------------------------------------
(* The invariant. *)

Ops == {"apply", "install", "upgrade", "rollback"}
Named == Releases \cup {0}

\* Where a command's apply child stands: 1..15 in it, more than 15 past it.
ApplyOffset ==
  [op \in Ops \cup {"none"} |->
     CASE op = "apply" -> 0 [] op = "install" -> 1 [] op = "upgrade" -> 9 [] op = "rollback" -> 10
       [] op = "none" -> 1]
Place == cmd.at - ApplyOffset[cmd.op]
Last == [op \in Ops |->
           CASE op = "apply" -> 15 [] op = "install" -> 22 [] op = "upgrade" -> 27 [] op = "rollback" -> 28]

Data == [schema : Named, rows : Nat]

ReleaseTypes ==
  /\ tree \in Releases /\ manifest \in Named /\ applied \in Named /\ data \in Data
  /\ containers \in [Services -> Nat] /\ identity \in BOOLEAN
  /\ marker \in {NoMarker} \cup [set : Nat \ {0}, needed : BOOLEAN, restored : BOOLEAN]
  /\ cmd \in [op : Ops \cup {"none"}, at : Nat \ {0}, target : Named, set : {NoSet} \cup sets,
              needed : BOOLEAN]
  /\ cmd = Idle \/ (cmd.op \in Ops /\ cmd.at <= Last[cmd.op])

\* The sets are told apart by their numbers, and each one was of one box: what it holds of
\* the record, of the rendered directory and of the stores was in this order.
SetsCounted ==
  /\ IsFiniteSet(sets)
  /\ \A s \in sets : s.n \in 1..Cardinality(sets)
  /\ \A s, t \in sets : s.n = t.n => s = t

SetsOrdered ==
  \A s \in sets :
    /\ s.applied \in Releases /\ s.manifest \in Releases /\ s.release \in Releases /\ s.data \in Data
    /\ s.applied <= s.manifest /\ s.manifest <= s.release /\ s.data.schema <= s.manifest
    /\ s.recipients = 1 <=> s.release < IdentityFrom

\* The way back to a release is a set of its checkout.  Each set has one to the release
\* its own applied record names.
Reach(r) == \E s \in sets : s.release = r
SetsReach == \A s \in sets : Reach(s.applied)

\* The record of a rollback in progress, and whether its restore is still to come.
Began == marker # NoMarker
Pending == Began /\ marker.needed /\ ~marker.restored

\* The record names the oldest release, the checkout the newest: so it is except where a
\* restore is under way, and there nothing runs.
InOrder == applied <= manifest /\ manifest <= tree /\ data.schema <= manifest
Stopped == \A s \in Services : containers[s] = 0
Halted == Pending /\ Stopped
BoxOrdered == Halted \/ InOrder

\* What a record still says of the box, whatever began after it.
MarkerKept ==
  Began => /\ applied # 0 /\ cmd.op \in {"none", "rollback", "upgrade"}
           /\ cmd.op = "upgrade" /\ Place > 2 => Pending
           /\ \E s \in sets : s.n = marker.set
           /\ marker.restored => marker.needed
           /\ \A s \in sets : s.n = marker.set =>
                /\ ~marker.needed => manifest = s.release
                /\ marker.restored =>
                     /\ manifest <= s.release /\ s.release <= tree
                     /\ \A x \in Services : containers[x] \in {0, Content[s.release][x]}

UpgradePlace ==
  cmd.op = "upgrade" =>
    /\ applied # 0 /\ cmd.target \in Releases
    /\ cmd.at >= 4 => tree <= cmd.target
    /\ cmd.at = 6 => Halted \/ (cmd.target > applied => Reach(applied))
    /\ cmd.at > 6 => InOrder /\ (cmd.target > applied => Reach(applied))
    /\ cmd.at > 7 => tree = cmd.target

\* How far a rollback has put the box back to its set.
RollbackPlace ==
  cmd.op = "rollback" =>
    /\ applied # 0
    /\ cmd.at > 1 => cmd.set \in sets
    /\ cmd.at > 2 => Began /\ marker.set = cmd.set.n
    /\ cmd.at \in 3..10 => (cmd.needed <=> Pending)
    /\ cmd.at > 10 => ~Pending
    /\ cmd.at > 6 => (identity => cmd.set.release >= IdentityFrom)
    /\ cmd.at > 7 => tree = cmd.set.release

RestorePlace ==
  cmd.op = "rollback" /\ Pending =>
    /\ cmd.at \in 6..9 => Stopped
    /\ cmd.at > 8 => applied = cmd.set.applied /\ manifest = cmd.set.manifest
    /\ cmd.at = 10 => /\ data.schema = cmd.set.data.schema
                      /\ containers["app"] = 0
                      /\ containers["store"] \in {0, Content[tree]["store"]}

\* What an apply has brought to the checked-out release.
ApplyPlace ==
  /\ Place > 3 => manifest = tree
  /\ Place > 9 => data.schema = tree
  /\ Place > 14 => applied = tree

Crossed ==
  applied # 0 => /\ data.schema > applied => Reach(applied)
                 /\ Halted \/ (tree > applied => Reach(applied))

ReleaseInv ==
  /\ ReleaseTypes /\ SetsCounted /\ SetsOrdered /\ SetsReach /\ MarkerKept /\ UpgradePlace
  /\ RollbackPlace /\ RestorePlace /\ ApplyPlace /\ BoxOrdered /\ Crossed

\* An upgrade renders while the record of a rollback says that no restore is to come: the
\* record was written, or its restore was done, before anything of this upgrade.
Overtakes == RenderFiles /\ cmd.op = "upgrade" /\ Began /\ ~Pending

-----------------------------------------------------------------------------
(* The stages of a command, by place. *)

LEMMA PlaceOf ==
  /\ cmd.op = "none" => Place = cmd.at - 1
  /\ cmd.op = "apply" => Place = cmd.at - 0 /\ Last[cmd.op] = 15
  /\ cmd.op = "install" => Place = cmd.at - 1 /\ Last[cmd.op] = 22
  /\ cmd.op = "upgrade" => Place = cmd.at - 9 /\ Last[cmd.op] = 27
  /\ cmd.op = "rollback" => Place = cmd.at - 10 /\ Last[cmd.op] = 28
<1>1. /\ ApplyOffset["none"] = 1 /\ ApplyOffset["apply"] = 0 /\ ApplyOffset["install"] = 1
      /\ ApplyOffset["upgrade"] = 9 /\ ApplyOffset["rollback"] = 10
  BY DEF ApplyOffset, Ops
<1>2. /\ Last["apply"] = 15 /\ Last["install"] = 22 /\ Last["upgrade"] = 27 /\ Last["rollback"] = 28
  BY DEF Last, Ops
<1> QED BY <1>1, <1>2 DEF Place

LEMMA ApplyAlone ==
  LET all == Stages("apply")
  IN  /\ Len(all) = 15
      /\ all[1] = "secrets" /\ all[2] = "render" /\ all[3] = "manifest" /\ all[4] = "network"
      /\ all[5] = "registry" /\ all[6] = "pull" /\ all[7] = "models" /\ all[8] = "recreate"
      /\ all[9] = "stores" /\ all[10] = "start" /\ all[11] = "apply-manifest" /\ all[12] = "settle"
      /\ all[13] = "timers" /\ all[14] = "record" /\ all[15] = "prune"
<1> DEFINE all == Stages("apply")
<1>1. Len(all) = 15
  BY DEF Stages, ApplyStages
<1>2. all[1] = "secrets" /\ all[2] = "render" /\ all[3] = "manifest" /\ all[4] = "network"
  BY DEF Stages, ApplyStages
<1>3. all[5] = "registry" /\ all[6] = "pull" /\ all[7] = "models" /\ all[8] = "recreate"
  BY DEF Stages, ApplyStages
<1>4. all[9] = "stores" /\ all[10] = "start" /\ all[11] = "apply-manifest" /\ all[12] = "settle"
  BY DEF Stages, ApplyStages
<1>5. all[13] = "timers" /\ all[14] = "record" /\ all[15] = "prune"
  BY DEF Stages, ApplyStages
<1> QED BY <1>1, <1>2, <1>3, <1>4, <1>5

LEMMA InstallStages ==
  LET all == Stages("install")
  IN  /\ Len(all) = 22
      /\ all[1] = "preflight" /\ all[2] = "secrets" /\ all[3] = "render" /\ all[4] = "manifest"
      /\ all[5] = "network" /\ all[6] = "registry" /\ all[7] = "pull" /\ all[8] = "models"
      /\ all[9] = "recreate" /\ all[10] = "stores" /\ all[11] = "start" /\ all[12] = "apply-manifest"
      /\ all[13] = "settle" /\ all[14] = "timers" /\ all[15] = "record" /\ all[16] = "prune"
      /\ all[17] = "audit-intent" /\ all[18] = "reconcile" /\ all[19] = "engine-verify" /\ all[20] = "backup"
      /\ all[21] = "drill" /\ all[22] = "audit-applied"
<1> DEFINE all == Stages("install")
<1>1. Len(all) = 22
  BY DEF Stages, ApplyStages
<1>2. all[1] = "preflight" /\ all[2] = "secrets" /\ all[3] = "render" /\ all[4] = "manifest"
  BY DEF Stages, ApplyStages
<1>3. all[5] = "network" /\ all[6] = "registry" /\ all[7] = "pull" /\ all[8] = "models"
  BY DEF Stages, ApplyStages
<1>4. all[9] = "recreate" /\ all[10] = "stores" /\ all[11] = "start" /\ all[12] = "apply-manifest"
  BY DEF Stages, ApplyStages
<1>5. all[13] = "settle" /\ all[14] = "timers" /\ all[15] = "record" /\ all[16] = "prune"
  BY DEF Stages, ApplyStages
<1>6. all[17] = "audit-intent" /\ all[18] = "reconcile" /\ all[19] = "engine-verify" /\ all[20] = "backup"
  BY DEF Stages, ApplyStages
<1>7. all[21] = "drill" /\ all[22] = "audit-applied"
  BY DEF Stages, ApplyStages
<1> QED BY <1>1, <1>2, <1>3, <1>4, <1>5, <1>6, <1>7

LEMMA UpgradeStages ==
  LET all == Stages("upgrade")
  IN  /\ Len(all) = 27
      /\ all[1] = "fetch" /\ all[2] = "signature" /\ all[3] = "version" /\ all[4] = "preflight"
      /\ all[5] = "backup" /\ all[6] = "audit-intent" /\ all[7] = "checkout" /\ all[8] = "provision"
      /\ all[9] = "new-tree-preflight" /\ all[10] = "secrets" /\ all[11] = "render" /\ all[12] = "manifest"
      /\ all[13] = "network" /\ all[14] = "registry" /\ all[15] = "pull" /\ all[16] = "models"
      /\ all[17] = "recreate" /\ all[18] = "stores" /\ all[19] = "start" /\ all[20] = "apply-manifest"
      /\ all[21] = "settle" /\ all[22] = "timers" /\ all[23] = "record" /\ all[24] = "prune"
      /\ all[25] = "verify" /\ all[26] = "engine-verify" /\ all[27] = "audit-applied"
<1> DEFINE all == Stages("upgrade")
<1>1. Len(all) = 27
  BY DEF Stages, ApplyStages
<1>2. all[1] = "fetch" /\ all[2] = "signature" /\ all[3] = "version" /\ all[4] = "preflight"
  BY DEF Stages, ApplyStages
<1>3. all[5] = "backup" /\ all[6] = "audit-intent" /\ all[7] = "checkout" /\ all[8] = "provision"
  BY DEF Stages, ApplyStages
<1>4. all[9] = "new-tree-preflight" /\ all[10] = "secrets" /\ all[11] = "render" /\ all[12] = "manifest"
  BY DEF Stages, ApplyStages
<1>5. all[13] = "network" /\ all[14] = "registry" /\ all[15] = "pull" /\ all[16] = "models"
  BY DEF Stages, ApplyStages
<1>6. all[17] = "recreate" /\ all[18] = "stores" /\ all[19] = "start" /\ all[20] = "apply-manifest"
  BY DEF Stages, ApplyStages
<1>7. all[21] = "settle" /\ all[22] = "timers" /\ all[23] = "record" /\ all[24] = "prune"
  BY DEF Stages, ApplyStages
<1>8. all[25] = "verify" /\ all[26] = "engine-verify" /\ all[27] = "audit-applied"
  BY DEF Stages, ApplyStages
<1> QED BY <1>1, <1>2, <1>3, <1>4, <1>5, <1>6, <1>7, <1>8

LEMMA RollbackStages ==
  LET all == Stages("rollback")
  IN  /\ Len(all) = 28
      /\ all[1] = "select" /\ all[2] = "plan" /\ all[3] = "safety" /\ all[4] = "audit-intent"
      /\ all[5] = "stop" /\ all[6] = "identity" /\ all[7] = "checkout" /\ all[8] = "restore-files"
      /\ all[9] = "restore-stores" /\ all[10] = "restored" /\ all[11] = "secrets" /\ all[12] = "render"
      /\ all[13] = "manifest" /\ all[14] = "network" /\ all[15] = "registry" /\ all[16] = "pull"
      /\ all[17] = "models" /\ all[18] = "recreate" /\ all[19] = "stores" /\ all[20] = "start"
      /\ all[21] = "apply-manifest" /\ all[22] = "settle" /\ all[23] = "timers" /\ all[24] = "record"
      /\ all[25] = "prune" /\ all[26] = "verify" /\ all[27] = "engine-verify" /\ all[28] = "audit-applied"
<1> DEFINE all == Stages("rollback")
<1>1. Len(all) = 28
  BY DEF Stages, ApplyStages
<1>2. all[1] = "select" /\ all[2] = "plan" /\ all[3] = "safety" /\ all[4] = "audit-intent"
  BY DEF Stages, ApplyStages
<1>3. all[5] = "stop" /\ all[6] = "identity" /\ all[7] = "checkout" /\ all[8] = "restore-files"
  BY DEF Stages, ApplyStages
<1>4. all[9] = "restore-stores" /\ all[10] = "restored" /\ all[11] = "secrets" /\ all[12] = "render"
  BY DEF Stages, ApplyStages
<1>5. all[13] = "manifest" /\ all[14] = "network" /\ all[15] = "registry" /\ all[16] = "pull"
  BY DEF Stages, ApplyStages
<1>6. all[17] = "models" /\ all[18] = "recreate" /\ all[19] = "stores" /\ all[20] = "start"
  BY DEF Stages, ApplyStages
<1>7. all[21] = "apply-manifest" /\ all[22] = "settle" /\ all[23] = "timers" /\ all[24] = "record"
  BY DEF Stages, ApplyStages
<1>8. all[25] = "prune" /\ all[26] = "verify" /\ all[27] = "engine-verify" /\ all[28] = "audit-applied"
  BY DEF Stages, ApplyStages
<1> QED BY <1>1, <1>2, <1>3, <1>4, <1>5, <1>6, <1>7, <1>8

\* Where a command stands at a stage of its apply child, and at one of its own.
LEMMA ApplyPlaces ==
  ASSUME ReleaseTypes, cmd.op \in Ops
  PROVE  LET stage == Stages(cmd.op)[cmd.at]
         IN
            /\ stage = "secrets" => Place = 1
            /\ stage = "render" => Place = 2
            /\ stage = "manifest" => Place = 3
            /\ stage = "network" => Place = 4
            /\ stage = "registry" => Place = 5
            /\ stage = "pull" => Place = 6
            /\ stage = "models" => Place = 7
            /\ stage = "recreate" => Place = 8
            /\ stage = "stores" => Place = 9
            /\ stage = "start" => Place = 10
            /\ stage = "apply-manifest" => Place = 11
            /\ stage = "settle" => Place = 12
            /\ stage = "timers" => Place = 13
            /\ stage = "record" => Place = 14
            /\ stage = "prune" => Place = 15
<1>1. cmd.at \in Nat \ {0} /\ cmd.at <= Last[cmd.op]
  BY DEF ReleaseTypes, Idle, Ops
<1>2. CASE cmd.op = "apply"
  BY <1>1, <1>2, PlaceOf, ApplyAlone
<1>3. CASE cmd.op = "install"
  BY <1>1, <1>3, PlaceOf, InstallStages
<1>4. CASE cmd.op = "upgrade"
  BY <1>1, <1>4, PlaceOf, UpgradeStages
<1>5. CASE cmd.op = "rollback"
  BY <1>1, <1>5, PlaceOf, RollbackStages
<1> QED BY <1>2, <1>3, <1>4, <1>5 DEF Ops

LEMMA OwnPlaces ==
  ASSUME ReleaseTypes, cmd.op \in Ops
  PROVE  LET stage == Stages(cmd.op)[cmd.at]
         IN
            /\ stage = "preflight" => (cmd.op = "install" /\ cmd.at = 1) \/ (cmd.op = "upgrade" /\ cmd.at = 4)
            /\ stage = "audit-intent" => (cmd.op = "install" /\ cmd.at = 17) \/ (cmd.op = "upgrade" /\ cmd.at = 6) \/ (cmd.op = "rollback" /\ cmd.at = 4)
            /\ stage = "reconcile" => cmd.op = "install" /\ cmd.at = 18
            /\ stage = "engine-verify" => (cmd.op = "install" /\ cmd.at = 19) \/ (cmd.op = "upgrade" /\ cmd.at = 26) \/ (cmd.op = "rollback" /\ cmd.at = 27)
            /\ stage = "backup" => (cmd.op = "install" /\ cmd.at = 20) \/ (cmd.op = "upgrade" /\ cmd.at = 5)
            /\ stage = "drill" => cmd.op = "install" /\ cmd.at = 21
            /\ stage = "audit-applied" => (cmd.op = "install" /\ cmd.at = 22) \/ (cmd.op = "upgrade" /\ cmd.at = 27) \/ (cmd.op = "rollback" /\ cmd.at = 28)
            /\ stage = "fetch" => cmd.op = "upgrade" /\ cmd.at = 1
            /\ stage = "signature" => cmd.op = "upgrade" /\ cmd.at = 2
            /\ stage = "version" => cmd.op = "upgrade" /\ cmd.at = 3
            /\ stage = "checkout" => (cmd.op = "upgrade" /\ cmd.at = 7) \/ (cmd.op = "rollback" /\ cmd.at = 7)
            /\ stage = "provision" => cmd.op = "upgrade" /\ cmd.at = 8
            /\ stage = "new-tree-preflight" => cmd.op = "upgrade" /\ cmd.at = 9
            /\ stage = "verify" => (cmd.op = "upgrade" /\ cmd.at = 25) \/ (cmd.op = "rollback" /\ cmd.at = 26)
            /\ stage = "select" => cmd.op = "rollback" /\ cmd.at = 1
            /\ stage = "plan" => cmd.op = "rollback" /\ cmd.at = 2
            /\ stage = "safety" => cmd.op = "rollback" /\ cmd.at = 3
            /\ stage = "stop" => cmd.op = "rollback" /\ cmd.at = 5
            /\ stage = "identity" => cmd.op = "rollback" /\ cmd.at = 6
            /\ stage = "restore-files" => cmd.op = "rollback" /\ cmd.at = 8
            /\ stage = "restore-stores" => cmd.op = "rollback" /\ cmd.at = 9
            /\ stage = "restored" => cmd.op = "rollback" /\ cmd.at = 10
<1>1. cmd.at \in Nat \ {0} /\ cmd.at <= Last[cmd.op]
  BY DEF ReleaseTypes, Idle, Ops
<1>2. CASE cmd.op = "apply"
  BY <1>1, <1>2, PlaceOf, ApplyAlone
<1>3. CASE cmd.op = "install"
  BY <1>1, <1>3, PlaceOf, InstallStages
<1>4. CASE cmd.op = "upgrade"
  BY <1>1, <1>4, PlaceOf, UpgradeStages
<1>5. CASE cmd.op = "rollback"
  BY <1>1, <1>5, PlaceOf, RollbackStages
<1> QED BY <1>2, <1>3, <1>4, <1>5 DEF Ops

LEMMA CommandLength ==
  ASSUME NEW op \in Ops
  PROVE  Len(Stages(op)) = Last[op]
<1>1. Last["apply"] = 15 /\ Last["install"] = 22 /\ Last["upgrade"] = 27 /\ Last["rollback"] = 28
  BY DEF Last, Ops
<1>2. /\ Len(Stages("apply")) = 15 /\ Len(Stages("install")) = 22
      /\ Len(Stages("upgrade")) = 27 /\ Len(Stages("rollback")) = 28
  BY ApplyAlone, InstallStages, UpgradeStages, RollbackStages
<1> QED BY <1>1, <1>2 DEF Ops

-----------------------------------------------------------------------------
(* What a command does to itself. *)

LEMMA Running ==
  ASSUME ReleaseTypes, cmd # Idle
  PROVE  cmd.op \in Ops /\ cmd.at \in Nat \ {0} /\ cmd.at <= Last[cmd.op]
BY DEF ReleaseTypes, Idle, Ops

\* The place of a command, said as its actions say it.
LEMMA ApplyAt ==
  ASSUME ReleaseTypes
  PROVE
    /\ AtAny("secrets") => cmd.op \in Ops /\ Place = 1
    /\ AtAny("render") => cmd.op \in Ops /\ Place = 2
    /\ AtAny("manifest") => cmd.op \in Ops /\ Place = 3
    /\ AtAny("network") => cmd.op \in Ops /\ Place = 4
    /\ AtAny("registry") => cmd.op \in Ops /\ Place = 5
    /\ AtAny("pull") => cmd.op \in Ops /\ Place = 6
    /\ AtAny("models") => cmd.op \in Ops /\ Place = 7
    /\ AtAny("recreate") => cmd.op \in Ops /\ Place = 8
    /\ AtAny("stores") => cmd.op \in Ops /\ Place = 9
    /\ AtAny("start") => cmd.op \in Ops /\ Place = 10
    /\ AtAny("apply-manifest") => cmd.op \in Ops /\ Place = 11
    /\ AtAny("settle") => cmd.op \in Ops /\ Place = 12
    /\ AtAny("timers") => cmd.op \in Ops /\ Place = 13
    /\ AtAny("record") => cmd.op \in Ops /\ Place = 14
    /\ AtAny("prune") => cmd.op \in Ops /\ Place = 15
BY ApplyPlaces DEF AtAny, ReleaseTypes

LEMMA OwnAt ==
  ASSUME ReleaseTypes
  PROVE
    /\ AtAny("preflight") => (cmd.op = "install" /\ cmd.at = 1) \/ (cmd.op = "upgrade" /\ cmd.at = 4)
    /\ AtAny("audit-intent") => (cmd.op = "install" /\ cmd.at = 17) \/ (cmd.op = "upgrade" /\ cmd.at = 6) \/ (cmd.op = "rollback" /\ cmd.at = 4)
    /\ AtAny("reconcile") => cmd.op = "install" /\ cmd.at = 18
    /\ AtAny("engine-verify") => (cmd.op = "install" /\ cmd.at = 19) \/ (cmd.op = "upgrade" /\ cmd.at = 26) \/ (cmd.op = "rollback" /\ cmd.at = 27)
    /\ AtAny("backup") => (cmd.op = "install" /\ cmd.at = 20) \/ (cmd.op = "upgrade" /\ cmd.at = 5)
    /\ AtAny("drill") => cmd.op = "install" /\ cmd.at = 21
    /\ AtAny("audit-applied") => (cmd.op = "install" /\ cmd.at = 22) \/ (cmd.op = "upgrade" /\ cmd.at = 27) \/ (cmd.op = "rollback" /\ cmd.at = 28)
    /\ AtAny("fetch") => cmd.op = "upgrade" /\ cmd.at = 1
    /\ AtAny("signature") => cmd.op = "upgrade" /\ cmd.at = 2
    /\ AtAny("version") => cmd.op = "upgrade" /\ cmd.at = 3
    /\ AtAny("checkout") => (cmd.op = "upgrade" /\ cmd.at = 7) \/ (cmd.op = "rollback" /\ cmd.at = 7)
    /\ AtAny("provision") => cmd.op = "upgrade" /\ cmd.at = 8
    /\ AtAny("new-tree-preflight") => cmd.op = "upgrade" /\ cmd.at = 9
    /\ AtAny("verify") => (cmd.op = "upgrade" /\ cmd.at = 25) \/ (cmd.op = "rollback" /\ cmd.at = 26)
    /\ AtAny("select") => cmd.op = "rollback" /\ cmd.at = 1
    /\ AtAny("plan") => cmd.op = "rollback" /\ cmd.at = 2
    /\ AtAny("safety") => cmd.op = "rollback" /\ cmd.at = 3
    /\ AtAny("stop") => cmd.op = "rollback" /\ cmd.at = 5
    /\ AtAny("identity") => cmd.op = "rollback" /\ cmd.at = 6
    /\ AtAny("restore-files") => cmd.op = "rollback" /\ cmd.at = 8
    /\ AtAny("restore-stores") => cmd.op = "rollback" /\ cmd.at = 9
    /\ AtAny("restored") => cmd.op = "rollback" /\ cmd.at = 10
<1>1. cmd.op # "none" => cmd.op \in Ops
  BY DEF ReleaseTypes
<1> QED BY <1>1, OwnPlaces DEF AtAny

LEMMA AtIsAny ==
  ASSUME NEW op \in Ops, NEW stage, At(op, stage)
  PROVE  cmd.op = op /\ AtAny(stage)
BY DEF At, AtAny, Ops

LEMMA Advances ==
  ASSUME ReleaseTypes, cmd.op \in Ops, NEW c, c = Ended
  PROVE  \/ cmd.at = Last[cmd.op] /\ c = Idle
         \/ /\ cmd.at < Last[cmd.op]
            /\ c \in [op : Ops, at : Nat \ {0}, target : Named, set : {NoSet} \cup sets, needed : BOOLEAN]
            /\ c.op = cmd.op /\ c.at = cmd.at + 1 /\ c.target = cmd.target /\ c.set = cmd.set
            /\ c.needed = cmd.needed
<1>1. cmd.at \in Nat \ {0} /\ cmd.at <= Last[cmd.op] /\ Last[cmd.op] \in Nat
  <2>1. Last["apply"] = 15 /\ Last["install"] = 22 /\ Last["upgrade"] = 27 /\ Last["rollback"] = 28
    BY DEF Last, Ops
  <2> QED BY <2>1 DEF ReleaseTypes, Idle, Ops
<1>2. Len(Stages(cmd.op)) = Last[cmd.op]
  BY CommandLength
<1>3. CASE cmd.at = Last[cmd.op]
  BY <1>2, <1>3 DEF Ended
<1>4. CASE cmd.at < Last[cmd.op]
  <2>1. c = [cmd EXCEPT !.at = @ + 1]
    BY <1>1, <1>2, <1>4 DEF Ended
  <2>2. cmd \in [op : Ops, at : Nat \ {0}, target : Named, set : {NoSet} \cup sets, needed : BOOLEAN]
    BY DEF ReleaseTypes
  <2> QED BY <1>1, <1>4, <2>1, <2>2
<1> QED BY <1>1, <1>3, <1>4

\* Releases are natural numbers.
LEMMA Numbers ==
  /\ Releases \subseteq Nat \ {0} /\ Named \subseteq Nat
  /\ 1 \in Releases
  /\ IdentityFrom \in Nat
  /\ \A r \in Releases, s \in Services : Content[r][s] \in Nat \ {0}
<1>1. Cardinality(Releases) \in Nat
  BY ReleasesCount, FS_CardinalityType
<1>2. Releases \subseteq Nat \ {0} /\ 1 \in Releases
  BY <1>1, ReleasesCount
<1> QED BY <1>2, ReleasesShapes DEF Named

-----------------------------------------------------------------------------
(* Steps that change nothing but the command. *)

coreVars == <<tree, manifest, applied, data, containers, identity, sets, marker>>

LEMMA IdlePlaces ==
  ASSUME cmd' = Idle
  PROVE  UpgradePlace' /\ RollbackPlace' /\ RestorePlace' /\ ApplyPlace'
<1>1. UpgradePlace' /\ RollbackPlace' /\ RestorePlace'
  BY DEF UpgradePlace, RollbackPlace, RestorePlace, Idle
<1>2. Place' = 0
  BY DEF Place, ApplyOffset, Ops, Idle
<1> QED BY <1>1, <1>2 DEF ApplyPlace

LEMMA NextPlace ==
  ASSUME ReleaseTypes, cmd.op \in Ops, cmd'.op = cmd.op, cmd'.at = cmd.at + 1
  PROVE  Place \in Int /\ Place' = Place + 1
<1>1. ApplyOffset[cmd.op] \in Nat
  <2>1. ApplyOffset["apply"] = 0 /\ ApplyOffset["install"] = 1 /\ ApplyOffset["upgrade"] = 9 /\ ApplyOffset["rollback"] = 10
    BY DEF ApplyOffset, Ops
  <2> QED BY <2>1 DEF Ops
<1>2. cmd.at \in Nat
  BY DEF ReleaseTypes
<1> QED BY <1>1, <1>2 DEF Place

\* The parts that do not say where the command stands.
BoxInv == SetsCounted /\ SetsOrdered /\ SetsReach /\ BoxOrdered /\ Crossed

LEMMA BoxUnchanged ==
  ASSUME BoxInv, UNCHANGED coreVars
  PROVE  BoxInv'
<1> USE DEF coreVars
<1>1. SetsCounted' /\ SetsOrdered' /\ SetsReach'
  BY DEF BoxInv, SetsCounted, SetsOrdered, SetsReach, Reach
<1>2. BoxOrdered' /\ Crossed'
  BY DEF BoxInv, BoxOrdered, InOrder, Halted, Stopped, Crossed, Pending, Began, Reach
<1> QED BY <1>1, <1>2 DEF BoxInv

\* A command that ends leaves the box as it stands, at whatever place.
LEMMA EndsSound ==
  ASSUME ReleaseInv, UNCHANGED coreVars, cmd' = Idle
  PROVE  ReleaseInv'
<1> USE DEF coreVars
<1>1. ReleaseTypes'
  BY DEF ReleaseInv, ReleaseTypes, Idle, Named
<1>2. BoxInv'
  BY BoxUnchanged DEF ReleaseInv, BoxInv
<1>3. MarkerKept'
  BY DEF ReleaseInv, MarkerKept, Began, Idle
<1> QED BY <1>1, <1>2, <1>3, IdlePlaces DEF ReleaseInv, BoxInv

\* The places whose stage the invariant says nothing new after.
QuietPlace ==
  /\ cmd.op \in Ops
  /\ Place \notin {3, 8, 9, 10, 14}
  /\ cmd.op = "upgrade" => /\ cmd.at \notin {3, 5, 6, 7}
                           /\ Place = 2 /\ Began => Pending
  /\ cmd.op = "rollback" => /\ cmd.at \notin {1, 2, 5, 6, 7}
                            /\ cmd.at \in {8, 9, 10} => ~Pending

LEMMA QuietSound ==
  ASSUME ReleaseInv, UNCHANGED coreVars, Advance, QuietPlace
  PROVE  ReleaseInv'
<1> USE DEF coreVars
<1>1. cmd.op \in Ops /\ ReleaseTypes
  BY DEF QuietPlace, ReleaseInv
<1>2. CASE cmd' = Idle
  BY <1>2, EndsSound
<1>3. CASE /\ cmd.at < Last[cmd.op]
           /\ cmd' \in [op : Ops, at : Nat \ {0}, target : Named, set : {NoSet} \cup sets, needed : BOOLEAN]
           /\ cmd'.op = cmd.op /\ cmd'.at = cmd.at + 1 /\ cmd'.target = cmd.target /\ cmd'.set = cmd.set
           /\ cmd'.needed = cmd.needed
  <2>0. cmd.at \in Nat \ {0} /\ Last[cmd.op] \in Nat /\ Place \in Int /\ Place' = Place + 1
    BY <1>1, <1>3, NextPlace, PlaceOf DEF ReleaseTypes, Ops
  <2>1. ReleaseTypes'
    BY <1>1, <1>3, <2>0 DEF ReleaseTypes, Named
  <2>2. BoxInv'
    BY BoxUnchanged DEF ReleaseInv, BoxInv
  <2>3. MarkerKept'
    BY <1>3, <2>0 DEF ReleaseInv, MarkerKept, QuietPlace, Pending, Began
  <2>4. UpgradePlace'
    BY <1>3, <2>0 DEF ReleaseInv, UpgradePlace, QuietPlace, InOrder, Reach
  <2>5. RollbackPlace'
    BY <1>3, <2>0 DEF ReleaseInv, RollbackPlace, QuietPlace, Pending, Began
  <2>6. RestorePlace'
    BY <1>3, <2>0 DEF ReleaseInv, RestorePlace, QuietPlace, Pending, Began, Stopped
  <2>7. ApplyPlace'
    BY <1>3, <2>0 DEF ReleaseInv, ApplyPlace, QuietPlace
  <2> QED BY <2>1, <2>2, <2>3, <2>4, <2>5, <2>6, <2>7 DEF ReleaseInv, BoxInv
<1> QED BY <1>1, <1>2, <1>3, Advances DEF Advance

-----------------------------------------------------------------------------
(* The stages of apply. *)

CmdTypes ==
  /\ cmd \in [op : Ops \cup {"none"}, at : Nat \ {0}, target : Named, set : {NoSet} \cup sets,
              needed : BOOLEAN]
  /\ cmd = Idle \/ (cmd.op \in Ops /\ cmd.at <= Last[cmd.op])

\* The set of a rollback is the one its record names.
LEMMA MarkedSet ==
  ASSUME ReleaseInv, cmd.op = "rollback", cmd.at > 2, NEW s \in sets, s.n = marker.set
  PROVE  s = cmd.set
<1>1. cmd.set \in sets /\ marker.set = cmd.set.n
  BY DEF ReleaseInv, ReleaseTypes, RollbackPlace
<1> QED BY <1>1 DEF ReleaseInv, SetsCounted

\* Where an apply writes: the box is in order, the set to go back to is there, and no
\* restore is to come but under an upgrade.
LEMMA InApply ==
  ASSUME ReleaseInv, cmd.op \in Ops, Place > 2
  PROVE  /\ InOrder
         /\ applied # 0 /\ tree > applied => Reach(applied)
         /\ cmd.op = "rollback" => /\ Began /\ ~Pending /\ tree = cmd.set.release /\ cmd.at > 10
                                   /\ cmd.set \in sets /\ marker.set = cmd.set.n
         /\ cmd.op = "upgrade" => /\ tree = cmd.target /\ cmd.at > 9
                                  /\ Began => Pending
         /\ cmd.op \notin {"rollback", "upgrade"} => ~Began
<1>1. cmd.at \in Nat
  BY DEF ReleaseInv, ReleaseTypes
<1>2. CASE cmd.op = "rollback"
  <2>1. /\ Began /\ ~Pending /\ tree = cmd.set.release /\ cmd.at > 10
        /\ cmd.set \in sets /\ marker.set = cmd.set.n
    BY <1>1, <1>2, PlaceOf DEF ReleaseInv, RollbackPlace
  <2> QED BY <1>2, <2>1 DEF ReleaseInv, BoxOrdered, Crossed, Halted
<1>3. CASE cmd.op = "upgrade"
  <2>1. cmd.at > 11
    BY <1>1, <1>3, PlaceOf
  <2>2. InOrder /\ tree = cmd.target /\ (tree > applied => Reach(applied))
    BY <1>1, <1>3, <2>1 DEF ReleaseInv, UpgradePlace
  <2> QED BY <1>1, <1>3, <2>1, <2>2 DEF ReleaseInv, MarkerKept
<1>4. CASE cmd.op \notin {"rollback", "upgrade"}
  <2>1. ~Began
    BY <1>4 DEF ReleaseInv, MarkerKept, Ops
  <2> QED BY <1>4, <2>1 DEF ReleaseInv, BoxOrdered, Crossed, Halted, Pending
<1> QED BY <1>2, <1>3, <1>4

LEMMA ApplyStep ==
  ASSUME ReleaseInv, Advance, cmd.op \in Ops, Place \in 3..15, InOrder',
         UNCHANGED <<tree, identity, sets, marker>>, applied' \in {applied, tree}
  PROVE  /\ CmdTypes' /\ SetsCounted' /\ SetsOrdered' /\ SetsReach'
         /\ UpgradePlace' /\ RollbackPlace' /\ RestorePlace' /\ BoxOrdered'
         /\ cmd' = Idle \/ (cmd'.op = cmd.op /\ Place' = Place + 1)
<1>1. SetsCounted' /\ SetsOrdered' /\ SetsReach' /\ BoxOrdered'
  BY DEF ReleaseInv, SetsCounted, SetsOrdered, SetsReach, Reach, BoxOrdered
<1>2. CASE cmd' = Idle
  <2>1. CmdTypes'
    BY <1>2 DEF CmdTypes, Idle, Named
  <2> QED BY <1>1, <1>2, <2>1, IdlePlaces
<1>3. CASE /\ cmd.at < Last[cmd.op]
           /\ cmd' \in [op : Ops, at : Nat \ {0}, target : Named, set : {NoSet} \cup sets, needed : BOOLEAN]
           /\ cmd'.op = cmd.op /\ cmd'.at = cmd.at + 1 /\ cmd'.target = cmd.target /\ cmd'.set = cmd.set
           /\ cmd'.needed = cmd.needed
  <2>0. /\ cmd.at \in Nat \ {0} /\ Last[cmd.op] \in Nat /\ Place \in Int /\ Place' = Place + 1
        /\ applied' # 0 \/ applied = 0
        /\ tree \in Nat
    BY <1>3, NextPlace, PlaceOf, Numbers DEF ReleaseInv, ReleaseTypes, Ops
  <2>1. CmdTypes'
    BY <1>3, <2>0 DEF CmdTypes
  <2>2. UpgradePlace'
    <3>1. CASE cmd.op = "upgrade"
      <4>1. /\ applied # 0 /\ cmd.target \in Releases /\ tree = cmd.target /\ cmd.at > 9
            /\ tree > applied => Reach(applied)
        BY <3>1, InApply DEF ReleaseInv, UpgradePlace
      <4>2. tree > applied' => Reach(applied)
        BY <2>0, <4>1
      <4>3. applied' = applied \/ ~(tree > applied')
        BY <2>0
      <4> QED BY <1>3, <2>0, <3>1, <4>1, <4>2, <4>3 DEF UpgradePlace, Reach
    <3>2. CASE cmd.op # "upgrade"
      BY <1>3, <3>2 DEF UpgradePlace
    <3> QED BY <3>1, <3>2
  <2>3. cmd.op = "rollback" => ~Pending'
    BY InApply DEF Pending, Began
  <2>4. RollbackPlace'
    BY <1>3, <2>0, <2>3, PlaceOf, InApply DEF ReleaseInv, RollbackPlace, Began
  <2>5. RestorePlace'
    BY <1>3, <2>3 DEF RestorePlace
  <2> QED BY <1>1, <1>3, <2>0, <2>1, <2>2, <2>4, <2>5
<1> QED BY <1>2, <1>3, Advances DEF Advance, ReleaseInv

\* What a record says stands through an apply that may write: the rollback's own, at its
\* set's release, or an upgrade's with the restore still to come.
LEMMA ApplyMarker ==
  ASSUME ReleaseInv, cmd.op \in Ops, Place \in 3..15,
         UNCHANGED <<tree, sets, marker>>, applied' \in {applied, tree}, manifest' \in {manifest, tree},
         cmd' = Idle \/ cmd'.op = cmd.op,
         \A x \in Services : containers'[x] \in {containers[x], Content[tree][x]}
  PROVE  MarkerKept'
<1> SUFFICES ASSUME Began PROVE MarkerKept'
  BY DEF MarkerKept, Began
<1>1. /\ applied # 0 /\ tree # 0 /\ tree \in Nat /\ manifest \in Nat
  BY Numbers DEF ReleaseInv, ReleaseTypes, MarkerKept
<1>2. /\ cmd.op \in {"rollback", "upgrade"} /\ cmd'.op \in {"none", cmd.op}
      /\ \E s \in sets : s.n = marker.set
      /\ marker.restored => marker.needed
  BY DEF ReleaseInv, MarkerKept, Ops, Idle
<1>3. CASE cmd.op = "upgrade"
  <2>1. Pending
    BY <1>3, InApply
  <2> QED BY <1>1, <1>2, <2>1 DEF MarkerKept, Pending, Began
<1>4. CASE cmd.op = "rollback"
  <2>1. cmd.at > 2
    BY <1>4, InApply DEF ReleaseInv, ReleaseTypes
  <2>2. \A s \in sets : s.n = marker.set => tree = s.release
    BY <1>4, <2>1, MarkedSet, InApply
  <2>3. \A s \in sets : s.n = marker.set =>
          /\ ~marker.needed => manifest = s.release
          /\ marker.restored => /\ manifest <= s.release
                                /\ \A x \in Services : containers[x] \in {0, Content[s.release][x]}
    BY DEF ReleaseInv, MarkerKept
  <2> QED BY <1>1, <1>2, <1>4, <2>2, <2>3 DEF MarkerKept, Began
<1> QED BY <1>2, <1>3, <1>4

LEMMA ManifestSound ==
  ASSUME ReleaseInv, RenderManifest
  PROVE  ReleaseInv'
<1> USE DEF RenderManifest
<1>1. cmd.op \in Ops /\ Place = 3
  BY ApplyAt DEF ReleaseInv
<1>2. InOrder /\ (applied # 0 /\ tree > applied => Reach(applied))
  BY <1>1, InApply
<1>3. applied \in Nat /\ manifest \in Nat /\ tree \in Nat /\ data.schema \in Nat
  BY Numbers DEF ReleaseInv, ReleaseTypes, Data
<1>4. InOrder'
  BY <1>2, <1>3 DEF InOrder
<1>5. /\ CmdTypes' /\ SetsCounted' /\ SetsOrdered' /\ SetsReach'
      /\ UpgradePlace' /\ RollbackPlace' /\ RestorePlace' /\ BoxOrdered'
      /\ cmd' = Idle \/ (cmd'.op = cmd.op /\ Place' = 4)
  BY <1>1, <1>4, ApplyStep
<1>6. ReleaseTypes'
  BY <1>5 DEF ReleaseInv, ReleaseTypes, CmdTypes, Named
<1>7. MarkerKept'
  BY <1>1, <1>5, ApplyMarker
<1>8. ApplyPlace'
  BY <1>5, IdlePlaces DEF ApplyPlace
<1>9. Crossed'
  BY <1>2 DEF ReleaseInv, Crossed, Reach
<1> QED BY <1>5, <1>6, <1>7, <1>8, <1>9 DEF ReleaseInv

LEMMA StartedOf ==
  ASSUME ReleaseInv, NEW tier \in SUBSET Services
  PROVE  /\ Started(tier) \in [Services -> Nat]
         /\ \A s \in Services : Started(tier)[s] \in {containers[s], Content[tree][s]}
<1>1. \A s \in Services : containers[s] \in Nat /\ Content[tree][s] \in Nat
  BY Numbers DEF ReleaseInv, ReleaseTypes
<1> QED BY <1>1 DEF Started

\* A tier that starts: each service is left as it is or created at the checkout's content.
LEMMA StartsSound ==
  ASSUME ReleaseInv, cmd.op \in Ops, Advance, NEW tier \in SUBSET Services,
         UNCHANGED <<tree, manifest, applied, data, identity, sets, marker>>,
         containers' = Started(tier), Place \in {8, 10}
  PROVE  ReleaseInv'
<1>1. InOrder /\ (applied # 0 /\ tree > applied => Reach(applied))
  BY InApply
<1>2. InOrder'
  BY <1>1 DEF InOrder
<1>3. /\ CmdTypes' /\ SetsCounted' /\ SetsOrdered' /\ SetsReach'
      /\ UpgradePlace' /\ RollbackPlace' /\ RestorePlace' /\ BoxOrdered'
      /\ cmd' = Idle \/ (cmd'.op = cmd.op /\ Place' = Place + 1)
  BY <1>2, ApplyStep
<1>4. /\ containers' \in [Services -> Nat]
      /\ \A s \in Services : containers'[s] \in {containers[s], Content[tree][s]}
  BY StartedOf
<1>5. ReleaseTypes'
  BY <1>3, <1>4 DEF ReleaseInv, ReleaseTypes, CmdTypes
<1>6. MarkerKept'
  BY <1>3, <1>4, ApplyMarker
<1>7. ApplyPlace'
  BY <1>3, IdlePlaces DEF ReleaseInv, ApplyPlace
<1>8. Crossed'
  BY <1>1 DEF ReleaseInv, Crossed, Reach
<1> QED BY <1>3, <1>5, <1>6, <1>7, <1>8 DEF ReleaseInv

LEMMA StoresSound ==
  ASSUME ReleaseInv, ApplyStores
  PROVE  ReleaseInv'
<1> USE DEF ApplyStores
<1>1. cmd.op \in Ops /\ Place = 9
  BY ApplyAt DEF ReleaseInv
<1>2. InOrder /\ (applied # 0 /\ tree > applied => Reach(applied)) /\ manifest = tree
  BY <1>1, InApply DEF ReleaseInv, ApplyPlace
<1>3. applied \in Nat /\ tree \in Nat /\ data.schema \in Nat /\ tree \in Named /\ data \in Data
  BY Numbers DEF ReleaseInv, ReleaseTypes, Data, Named
<1>4. data'.schema = tree /\ data' \in Data
  <2>1. data.schema <= tree
    BY <1>2 DEF InOrder
  <2> QED BY <1>3, <2>1 DEF Data
<1>5. InOrder'
  BY <1>2, <1>3, <1>4 DEF InOrder
<1>6. /\ CmdTypes' /\ SetsCounted' /\ SetsOrdered' /\ SetsReach'
      /\ UpgradePlace' /\ RollbackPlace' /\ RestorePlace' /\ BoxOrdered'
      /\ cmd' = Idle \/ (cmd'.op = cmd.op /\ Place' = 10)
  BY <1>1, <1>5, ApplyStep
<1>7. ReleaseTypes'
  BY <1>4, <1>6 DEF ReleaseInv, ReleaseTypes, CmdTypes
<1>8. MarkerKept'
  BY <1>1, <1>6, ApplyMarker
<1>9. ApplyPlace'
  BY <1>1, <1>4, <1>6, IdlePlaces DEF ReleaseInv, ApplyPlace
<1>10. Crossed'
  BY <1>2, <1>3, <1>4 DEF Crossed, Reach
<1> QED BY <1>6, <1>7, <1>8, <1>9, <1>10 DEF ReleaseInv

LEMMA RecordSound ==
  ASSUME ReleaseInv, ApplyRecord
  PROVE  ReleaseInv'
<1> USE DEF ApplyRecord
<1>1. cmd.op \in Ops /\ Place = 14
  BY ApplyAt DEF ReleaseInv
<1>2. InOrder /\ manifest = tree
  BY <1>1, InApply DEF ReleaseInv, ApplyPlace
<1>3. tree \in Nat \ {0} /\ data.schema \in Nat /\ tree \in Releases /\ tree \in Named
  BY Numbers DEF ReleaseInv, ReleaseTypes, Data, Named
<1>4. InOrder'
  BY <1>2, <1>3 DEF InOrder
<1>5. /\ CmdTypes' /\ SetsCounted' /\ SetsOrdered' /\ SetsReach'
      /\ UpgradePlace' /\ RollbackPlace' /\ RestorePlace' /\ BoxOrdered'
      /\ cmd' = Idle \/ (cmd'.op = cmd.op /\ Place' = 15)
  BY <1>1, <1>4, ApplyStep
<1>6. ReleaseTypes'
  BY <1>3, <1>5 DEF ReleaseInv, ReleaseTypes, CmdTypes
<1>7. MarkerKept'
  BY <1>1, <1>5, ApplyMarker
<1>8. ApplyPlace'
  BY <1>1, <1>5, IdlePlaces DEF ReleaseInv, ApplyPlace
<1>9. Crossed'
  BY <1>2, <1>3 DEF Crossed, InOrder
<1> QED BY <1>5, <1>6, <1>7, <1>8, <1>9 DEF ReleaseInv

LEMMA QuietApply ==
  ASSUME ReleaseInv, cmd.op \in Ops, Place \in {1, 2, 4, 5, 6, 7, 11, 12, 13, 15},
         ~(Place = 2 /\ cmd.op = "upgrade" /\ Began /\ ~Pending)
  PROVE  QuietPlace
BY PlaceOf DEF QuietPlace, ReleaseInv, ReleaseTypes

LEMMA ConvergeSound ==
  ASSUME ReleaseInv, Converge, ~Overtakes
  PROVE  ReleaseInv'
<1> USE DEF coreVars
<1>1. CASE ApplySecrets \/ ApplyNetwork \/ ApplyRegistry \/ ApplyModels \/ ApplyManifest \/ ApplyTimers
  <2>1. QuietPlace /\ Advance /\ UNCHANGED <<boxVars, sets, marker>>
    BY <1>1, ApplyAt, QuietApply
    DEF ReleaseInv, ApplySecrets, ApplyNetwork, ApplyRegistry, ApplyModels, ApplyManifest, ApplyTimers, Passes
  <2> QED BY <2>1, QuietSound DEF boxVars
<1>2. CASE RenderFiles
  <2>1. QuietPlace
    BY <1>2, ApplyAt, QuietApply DEF ReleaseInv, RenderFiles, Overtakes
  <2> QED BY <1>2, <2>1, QuietSound DEF RenderFiles
<1>3. CASE RenderManifest
  BY <1>3, ManifestSound
<1>4. CASE RenderRefuses
  BY <1>4, EndsSound DEF RenderRefuses, Refuse, boxVars
<1>5. CASE ApplyPull
  <2>1. QuietPlace
    BY <1>5, ApplyAt, QuietApply DEF ReleaseInv, ApplyPull
  <2> QED BY <1>5, <2>1, QuietSound DEF ApplyPull
<1>6. CASE ApplyRecreate
  <2>1. cmd.op \in Ops /\ Place = 8
    BY <1>6, ApplyAt DEF ReleaseInv, ApplyRecreate
  <2> QED BY <1>6, <2>1, StartsSound DEF ApplyRecreate, Services
<1>7. CASE ApplyStores
  BY <1>7, StoresSound
<1>8. CASE ApplyStart
  <2>1. cmd.op \in Ops /\ Place = 10
    BY <1>8, ApplyAt DEF ReleaseInv, ApplyStart
  <2> QED BY <1>8, <2>1, StartsSound DEF ApplyStart, Services
<1>9. CASE ApplySettles
  <2>1. QuietPlace
    BY <1>9, ApplyAt, QuietApply DEF ReleaseInv, ApplySettles
  <2> QED BY <1>9, <2>1, QuietSound DEF ApplySettles, boxVars
<1>10. CASE ApplyRecord
  BY <1>10, RecordSound
<1>11. CASE ApplyPrune
  <2>1. QuietPlace
    BY <1>11, ApplyAt, QuietApply DEF ReleaseInv, ApplyPrune
  <2> QED BY <1>11, <2>1, QuietSound DEF ApplyPrune
<1> QED BY <1>1, <1>2, <1>3, <1>4, <1>5, <1>6, <1>7, <1>8, <1>9, <1>10, <1>11 DEF Converge

-----------------------------------------------------------------------------
(* upgrade and install *)

LEMMA BackupSound ==
  ASSUME ReleaseInv, UpgradeBackupTakes
  PROVE  ReleaseInv'
<1> USE DEF UpgradeBackupTakes
<1>1. cmd.op = "upgrade" /\ cmd.at = 5 /\ cmd.op \in Ops
  BY AtIsAny, OwnAt DEF ReleaseInv, Ops
<1>2. UNCHANGED <<tree, manifest, applied, data, containers, identity, marker>>
  BY DEF boxVars
<1>3. applied # 0 /\ tree <= cmd.target /\ tree # cmd.target /\ cmd.target \in Releases
  BY <1>1 DEF ReleaseInv, UpgradePlace
<1>4. applied \in Nat /\ tree \in Nat /\ manifest \in Nat /\ data.schema \in Nat /\ data \in Data
  BY Numbers DEF ReleaseInv, ReleaseTypes, Data
<1>5. ~Halted /\ applied <= manifest /\ manifest <= tree /\ data.schema <= manifest
  BY DEF ReleaseInv, BoxOrdered, InOrder, Halted, Stopped, BackupAllowed, whole, Services
<1>6. applied \in Releases /\ manifest \in Releases /\ tree \in Releases
  BY <1>3, <1>4, <1>5, Numbers DEF ReleaseInv, ReleaseTypes, Named
<1> DEFINE b == BackupOf(cmd.target)
<1>7. /\ b.n = Cardinality(sets) + 1 /\ b.data = data /\ b.applied = applied /\ b.manifest = manifest
      /\ b.release = tree /\ (b.recipients = 1 <=> tree < IdentityFrom)
  BY <1>4, Numbers DEF BackupOf
<1> HIDE DEF b
<1>8. sets' = sets \cup {b}
  BY DEF b
<1>9. /\ Cardinality(sets) \in Nat /\ IsFiniteSet(sets) /\ b \notin sets
      /\ IsFiniteSet(sets') /\ Cardinality(sets') = Cardinality(sets) + 1
  <2>1. Cardinality(sets) \in Nat /\ IsFiniteSet(sets)
    BY FS_CardinalityType DEF ReleaseInv, SetsCounted
  <2>2. b \notin sets
    BY <1>7, <2>1 DEF ReleaseInv, SetsCounted
  <2> QED BY <1>8, <2>1, <2>2, FS_AddElement
<1>10. SetsCounted'
  <2>1. \A s \in sets : s.n \in 1..Cardinality(sets)
    BY DEF ReleaseInv, SetsCounted
  <2>2. \A s \in sets' : s.n \in 1..Cardinality(sets')
    BY <1>7, <1>8, <1>9, <2>1
  <2>3. \A s, t \in sets' : s.n = t.n => s = t
    BY <1>7, <1>8, <1>9, <2>1 DEF ReleaseInv, SetsCounted
  <2> QED BY <1>9, <2>2, <2>3 DEF SetsCounted
<1>11. SetsOrdered'
  BY <1>4, <1>5, <1>6, <1>7, <1>8 DEF ReleaseInv, SetsOrdered
<1>12. \A r \in Nat : Reach(r) => Reach(r)'
  BY <1>8 DEF Reach
<1>13. Reach(applied)'
  <2>1. CASE tree = applied
    BY <1>2, <1>7, <1>8, <2>1 DEF Reach
  <2>2. CASE tree > applied
    BY <1>2, <1>3, <1>4, <1>5, <1>12, <2>2 DEF ReleaseInv, Crossed
  <2> QED BY <1>4, <1>5, <2>1, <2>2
<1>14. SetsReach'
  <2>1. \A s \in sets : \E t \in sets' : t.release = s.applied
    <3>1. TAKE s \in sets
    <3>2. PICK t \in sets : t.release = s.applied
      BY DEF ReleaseInv, SetsReach, Reach
    <3> QED BY <1>8, <3>2
  <2>2. \E t \in sets' : t.release = b.applied
    BY <1>2, <1>7, <1>13 DEF Reach
  <2> QED BY <1>8, <2>1, <2>2 DEF SetsReach, Reach
<1>15. BoxOrdered' /\ Crossed'
  BY <1>2, <1>5, <1>13 DEF BoxOrdered, InOrder, Crossed, Reach
<1>16. ASSUME cmd' = Idle \/ (cmd'.op = "upgrade" /\ Place' <= 2) PROVE MarkerKept'
  <2> SUFFICES ASSUME Began PROVE MarkerKept'
    BY <1>2 DEF MarkerKept, Began
  <2>1. PICK m \in sets : m.n = marker.set
    BY DEF ReleaseInv, MarkerKept
  <2>2. b.n # marker.set
    BY <1>7, <1>9, <2>1 DEF ReleaseInv, SetsCounted
  <2>3. /\ applied # 0
        /\ marker.restored => marker.needed
        /\ \A s \in sets : s.n = marker.set =>
             /\ ~marker.needed => manifest = s.release
             /\ marker.restored =>
                  /\ manifest <= s.release /\ s.release <= tree
                  /\ \A x \in Services : containers[x] \in {0, Content[s.release][x]}
    BY DEF ReleaseInv, MarkerKept
  <2>4. cmd'.op \in {"none", "upgrade"} /\ (cmd'.op = "upgrade" => ~(Place' > 2))
    <3>1. CASE cmd' = Idle
      BY <3>1 DEF Idle
    <3>2. CASE cmd'.op = "upgrade" /\ Place' <= 2
      <4>1. Place' \in Int
        <5>1. cmd'.at = cmd.at + 1 \/ cmd' = Idle
          BY <1>1, Advances DEF Advance, ReleaseInv
        <5> QED BY <1>1, <3>2, <5>1, PlaceOf, NextPlace DEF ReleaseInv, Idle
      <4> QED BY <3>2, <4>1
    <3> QED BY <1>16, <3>1, <3>2
  <2>5. marker' = marker /\ manifest' = manifest /\ tree' = tree /\ containers' = containers /\ applied' = applied
    BY <1>2
  <2>6. m \in sets' /\ \A s \in sets' : s.n = marker.set => s \in sets
    BY <1>8, <2>2
  <2>7. \A s \in sets' : s.n = marker.set =>
          /\ ~marker.needed => manifest = s.release
          /\ marker.restored =>
               /\ manifest <= s.release /\ s.release <= tree
               /\ \A x \in Services : containers[x] \in {0, Content[s.release][x]}
    BY <2>3, <2>6
  <2>8. \E s \in sets' : s.n = marker.set
    BY <2>1, <2>6
  <2> QED BY <2>3, <2>4, <2>5, <2>7, <2>8 DEF MarkerKept
<1>17. CASE cmd' = Idle
  <2>1. ReleaseTypes'
    BY <1>2, <1>17 DEF ReleaseInv, ReleaseTypes, Idle, Named
  <2>2. MarkerKept'
    BY <1>16, <1>17
  <2> QED BY <1>10, <1>11, <1>14, <1>15, <1>17, <2>1, <2>2, IdlePlaces DEF ReleaseInv
<1>18. CASE /\ cmd.at < Last[cmd.op]
            /\ cmd' \in [op : Ops, at : Nat \ {0}, target : Named, set : {NoSet} \cup sets, needed : BOOLEAN]
            /\ cmd'.op = cmd.op /\ cmd'.at = cmd.at + 1 /\ cmd'.target = cmd.target /\ cmd'.set = cmd.set
            /\ cmd'.needed = cmd.needed
  <2>1. cmd'.op = "upgrade" /\ cmd'.at = 6 /\ Place' = -3 /\ Last["upgrade"] = 27
    BY <1>1, <1>18, PlaceOf, NextPlace DEF ReleaseInv
  <2>2. ReleaseTypes'
    BY <1>2, <1>8, <1>18, <2>1 DEF ReleaseInv, ReleaseTypes, Ops
  <2>3. UpgradePlace'
    BY <1>2, <1>3, <1>13, <1>18, <2>1 DEF UpgradePlace, Reach
  <2>4. RollbackPlace' /\ RestorePlace' /\ ApplyPlace'
    BY <2>1 DEF RollbackPlace, RestorePlace, ApplyPlace
  <2>5. MarkerKept'
    BY <1>16, <2>1
  <2> QED BY <1>10, <1>11, <1>14, <1>15, <2>2, <2>3, <2>4, <2>5 DEF ReleaseInv
<1> QED BY <1>1, <1>17, <1>18, Advances DEF Advance, ReleaseInv

\* A stage of upgrade that only finds something out.
LEMMA UpgradeFinds ==
  ASSUME ReleaseInv, cmd.op = "upgrade", Advance, UNCHANGED coreVars,
         \/ cmd.at = 3 /\ tree <= cmd.target
         \/ cmd.at = 5 /\ (Halted \/ (cmd.target > applied => Reach(applied)))
         \/ cmd.at = 6 /\ ~Halted
  PROVE  ReleaseInv'
<1> USE DEF coreVars
<1>1. CASE cmd' = Idle
  BY <1>1, EndsSound
<1>2. CASE /\ cmd.at < Last[cmd.op]
           /\ cmd' \in [op : Ops, at : Nat \ {0}, target : Named, set : {NoSet} \cup sets, needed : BOOLEAN]
           /\ cmd'.op = cmd.op /\ cmd'.at = cmd.at + 1 /\ cmd'.target = cmd.target /\ cmd'.set = cmd.set
           /\ cmd'.needed = cmd.needed
  <2>1. Place' \in Int /\ Place' < 0 /\ Last["upgrade"] = 27 /\ cmd'.op = "upgrade"
    BY <1>2, NextPlace, PlaceOf DEF ReleaseInv, Ops
  <2>2. ReleaseTypes'
    BY <1>2, <2>1 DEF ReleaseInv, ReleaseTypes, Ops
  <2>3. BoxInv'
    BY BoxUnchanged DEF ReleaseInv, BoxInv
  <2>4. MarkerKept'
    BY <1>2, <2>1 DEF ReleaseInv, MarkerKept, Pending, Began
  <2>6. UpgradePlace'
    BY <1>2 DEF ReleaseInv, UpgradePlace, BoxOrdered, InOrder, Halted, Stopped, Pending, Began, Reach
  <2>5. RollbackPlace' /\ RestorePlace' /\ ApplyPlace'
    BY <1>2, <2>1 DEF RollbackPlace, RestorePlace, ApplyPlace
  <2> QED BY <2>2, <2>3, <2>4, <2>5, <2>6 DEF ReleaseInv, BoxInv
<1> QED BY <1>1, <1>2, Advances DEF Advance, ReleaseInv, Ops

\* The checkout moves up: a set was taken before it, or an earlier attempt's is there.
LEMMA CheckoutSound ==
  ASSUME ReleaseInv, UpgradeCheckout
  PROVE  ReleaseInv'
<1> USE DEF UpgradeCheckout
<1>1. cmd.op = "upgrade" /\ cmd.at = 7 /\ cmd.op \in Ops
  BY AtIsAny, OwnAt DEF ReleaseInv, Ops
<1>2. /\ applied # 0 /\ tree <= cmd.target /\ cmd.target \in Releases /\ InOrder
      /\ (cmd.target > applied => Reach(applied))
  BY <1>1 DEF ReleaseInv, UpgradePlace
<1>3. applied \in Nat /\ tree \in Nat /\ manifest \in Nat /\ data.schema \in Nat /\ cmd.target \in Nat
  BY <1>2, Numbers DEF ReleaseInv, ReleaseTypes, Data
<1>4. SetsCounted' /\ SetsOrdered' /\ SetsReach'
  BY DEF ReleaseInv, SetsCounted, SetsOrdered, SetsReach, Reach
<1>5. ASSUME cmd' = Idle \/ (cmd'.op = "upgrade" /\ ~(Place' > 2)) PROVE MarkerKept'
  <2>1. \A s \in sets : s.n = marker.set => s.release \in Nat
    BY Numbers DEF ReleaseInv, SetsOrdered
  <2> QED BY <1>2, <1>3, <1>5, <2>1 DEF ReleaseInv, MarkerKept, Began, Idle
<1>6. InOrder' /\ BoxOrdered' /\ Crossed'
  <2>1. InOrder'
    BY <1>2, <1>3 DEF InOrder
  <2> QED BY <1>2, <1>3, <2>1 DEF ReleaseInv, BoxOrdered, Crossed, Reach
<1>7. CASE cmd' = Idle
  <2>1. ReleaseTypes'
    BY <1>2, <1>7 DEF ReleaseInv, ReleaseTypes, Idle, Named
  <2>2. MarkerKept'
    BY <1>5, <1>7
  <2> QED BY <1>4, <1>6, <1>7, <2>1, <2>2, IdlePlaces DEF ReleaseInv
<1>8. CASE /\ cmd.at < Last[cmd.op]
           /\ cmd' \in [op : Ops, at : Nat \ {0}, target : Named, set : {NoSet} \cup sets, needed : BOOLEAN]
           /\ cmd'.op = cmd.op /\ cmd'.at = cmd.at + 1 /\ cmd'.target = cmd.target /\ cmd'.set = cmd.set
           /\ cmd'.needed = cmd.needed
  <2>1. cmd'.op = "upgrade" /\ cmd'.at = 8 /\ Place' = -1 /\ Last["upgrade"] = 27
    BY <1>1, <1>8, PlaceOf, NextPlace DEF ReleaseInv
  <2>2. ReleaseTypes'
    BY <1>2, <1>8, <2>1 DEF ReleaseInv, ReleaseTypes, Ops
  <2>3. UpgradePlace'
    BY <1>2, <1>6, <1>8, <2>1, <1>3 DEF UpgradePlace, Reach
  <2>4. RollbackPlace' /\ RestorePlace' /\ ApplyPlace'
    BY <2>1 DEF RollbackPlace, RestorePlace, ApplyPlace
  <2>5. MarkerKept'
    BY <1>5, <2>1
  <2> QED BY <1>4, <1>6, <2>2, <2>3, <2>4, <2>5 DEF ReleaseInv
<1> QED BY <1>1, <1>7, <1>8, Advances DEF Advance, ReleaseInv

\* The box identity concerns a rollback alone.
LEMMA ProvisionSound ==
  ASSUME ReleaseInv, UpgradeProvision
  PROVE  ReleaseInv'
<1> USE DEF UpgradeProvision
<1>1. cmd.op = "upgrade" /\ cmd.at = 8 /\ cmd.op \in Ops
  BY OwnAt DEF ReleaseInv, Ops
<1>2. SetsCounted' /\ SetsOrdered' /\ SetsReach'
  BY DEF ReleaseInv, SetsCounted, SetsOrdered, SetsReach, Reach
<1>3. BoxOrdered' /\ Crossed'
  BY DEF ReleaseInv, BoxOrdered, InOrder, Halted, Stopped, Crossed, Pending, Began, Reach
<1>4. identity' \in BOOLEAN
  BY DEF ReleaseInv, ReleaseTypes
<1>5. CASE cmd' = Idle
  <2>1. ReleaseTypes' /\ MarkerKept'
    BY <1>4, <1>5 DEF ReleaseInv, ReleaseTypes, Idle, Named, MarkerKept, Began
  <2> QED BY <1>2, <1>3, <1>5, <2>1, IdlePlaces DEF ReleaseInv
<1>6. CASE /\ cmd.at < Last[cmd.op]
           /\ cmd' \in [op : Ops, at : Nat \ {0}, target : Named, set : {NoSet} \cup sets, needed : BOOLEAN]
           /\ cmd'.op = cmd.op /\ cmd'.at = cmd.at + 1 /\ cmd'.target = cmd.target /\ cmd'.set = cmd.set
           /\ cmd'.needed = cmd.needed
  <2>1. cmd'.op = "upgrade" /\ cmd'.at = 9 /\ Place' = 0 /\ Last["upgrade"] = 27
    BY <1>1, <1>6, PlaceOf, NextPlace DEF ReleaseInv
  <2>2. ReleaseTypes'
    BY <1>4, <1>6, <2>1 DEF ReleaseInv, ReleaseTypes, Ops
  <2>3. UpgradePlace' /\ MarkerKept'
    BY <1>1, <1>6, <2>1 DEF ReleaseInv, UpgradePlace, InOrder, Reach, MarkerKept, Began
  <2>4. RollbackPlace' /\ RestorePlace' /\ ApplyPlace'
    BY <2>1 DEF RollbackPlace, RestorePlace, ApplyPlace
  <2> QED BY <1>2, <1>3, <2>2, <2>3, <2>4 DEF ReleaseInv
<1> QED BY <1>1, <1>5, <1>6, Advances DEF Advance, ReleaseInv

LEMMA UpgradeSound ==
  ASSUME ReleaseInv, Upgrade
  PROVE  ReleaseInv'
<1> USE DEF coreVars
<1>1. CASE UpgradeFetch \/ UpgradeSignature \/ Preflight \/ UpgradeNewTreePreflight \/ EngineVerified \/ UpgradeApplied
  <2>1. Advance /\ UNCHANGED <<boxVars, sets, marker>>
    BY <1>1 DEF UpgradeFetch, UpgradeSignature, Preflight, UpgradeNewTreePreflight, EngineVerified,
                UpgradeApplied, Passes
  <2>2. AtAny("fetch") \/ AtAny("signature") \/ AtAny("preflight") \/ AtAny("new-tree-preflight")
        \/ AtAny("engine-verify") \/ (At("upgrade", "audit-applied") /\ AtAny("audit-applied"))
    BY <1>1 DEF UpgradeFetch, UpgradeSignature, Preflight, UpgradeNewTreePreflight, EngineVerified,
                UpgradeApplied, Passes
  <2>3. QuietPlace
    BY <2>2, OwnAt, PlaceOf DEF QuietPlace, Ops, ReleaseInv, At
  <2> QED BY <2>1, <2>3, QuietSound DEF boxVars
<1>2. CASE UpgradeVersion
  <2>1. cmd.op = "upgrade" /\ cmd.at = 3 /\ Advance /\ UNCHANGED <<boxVars, sets, marker>> /\ cmd.target >= tree
    BY <1>2, OwnAt DEF UpgradeVersion, Passes, ReleaseInv
  <2>2. cmd.target \in Nat /\ tree \in Nat
    BY Numbers DEF ReleaseInv, ReleaseTypes
  <2> QED BY <2>1, <2>2, UpgradeFinds DEF boxVars
<1>3. CASE UpgradeVersionRefuses \/ UpgradeBackupRefuses \/ ServiceMissing
  <2>1. Refuse
    BY <1>3 DEF UpgradeVersionRefuses, UpgradeBackupRefuses, ServiceMissing
  <2> QED BY <2>1, EndsSound DEF Refuse, boxVars
<1>4. CASE UpgradeBackupReuses
  <2>1. cmd.op = "upgrade" /\ cmd.at = 5 /\ tree = cmd.target /\ Advance /\ UNCHANGED <<boxVars, sets, marker>>
    BY <1>4, AtIsAny, OwnAt DEF UpgradeBackupReuses, ReleaseInv, Ops
  <2>2. Halted \/ (cmd.target > applied => Reach(applied))
    BY <2>1 DEF ReleaseInv, UpgradePlace, Crossed
  <2> QED BY <2>1, <2>2, UpgradeFinds DEF boxVars
<1>5. CASE UpgradeBackupTakes
  BY <1>5, BackupSound
<1>6. CASE UpgradeIntent
  <2>1. /\ cmd.op = "upgrade" /\ cmd.at = 6 /\ Advance /\ UNCHANGED <<boxVars, sets, marker>>
        /\ containers["store"] # 0
    BY <1>6, AtIsAny, OwnAt DEF UpgradeIntent, ReleaseInv, Ops
  <2>2. ~Halted
    BY <2>1 DEF Halted, Stopped, Services
  <2> QED BY <2>1, <2>2, UpgradeFinds DEF boxVars
<1>7. CASE UpgradeCheckout
  BY <1>7, CheckoutSound
<1>8. CASE UpgradeProvision
  BY <1>8, ProvisionSound
<1>9. CASE Verify
  <2>1. QuietPlace
    BY <1>9, OwnAt, PlaceOf DEF Verify, QuietPlace, ReleaseInv, Ops
  <2> QED BY <1>9, <2>1, QuietSound DEF Verify, boxVars
<1> QED BY <1>1, <1>2, <1>3, <1>4, <1>5, <1>6, <1>7, <1>8, <1>9 DEF Upgrade

LEMMA InstallSound ==
  ASSUME ReleaseInv, Install
  PROVE  ReleaseInv'
<1>1. Advance /\ UNCHANGED <<boxVars, sets, marker>>
  BY DEF Install, InstallIntent, InstallReconcile, InstallBackup, InstallDrill, InstallApplied, Passes
<1>2. \/ At("install", "audit-intent") /\ AtAny("audit-intent")
      \/ AtAny("reconcile")
      \/ At("install", "backup") /\ AtAny("backup")
      \/ AtAny("drill")
      \/ At("install", "audit-applied") /\ AtAny("audit-applied")
  BY DEF Install, InstallIntent, InstallReconcile, InstallBackup, InstallDrill, InstallApplied, Passes
<1>3. QuietPlace
  BY <1>2, OwnAt, PlaceOf DEF QuietPlace, Ops, ReleaseInv, At
<1> QED BY <1>1, <1>3, QuietSound DEF boxVars, coreVars

-----------------------------------------------------------------------------
(* upgrade --rollback *)

\* A set of naturals that has a bound and is not empty has a greatest element.
LEMMA GreatestExists ==
  ASSUME NEW b \in Nat, NEW S \in SUBSET (0..b), S # {}
  PROVE  \E t \in S : \A u \in S : u <= t
<1> DEFINE T == {x \in Nat : x <= b /\ b - x \in S}
           R == OpToRel(<, Nat)
<1>1. T # {}
  <2>1. PICK s \in S : TRUE
    OBVIOUS
  <2>2. b - s \in Nat /\ b - s <= b /\ b - (b - s) = s
    BY <2>1
  <2> QED BY <2>1, <2>2
<1>2. IsWellFoundedOn(R, Nat)
  BY NatLessThanWellFounded
<1>3. PICK x \in T : \A y \in T : ~(<<y, x>> \in R)
  <2> HIDE DEF R, T
  <2> T \subseteq Nat
    BY DEF T
  <2> QED BY <1>1, <1>2, WFMin
<1>4. \A y \in T : ~(y < x)
  BY <1>3 DEF OpToRel
<1>5. \A u \in S : u <= b - x
  <2>1. TAKE u \in S
  <2>2. u \in 0..b
    BY <2>1
  <2>3. b - u \in T
    BY <2>1, <2>2
  <2>4. ~(b - u < x) /\ x \in Nat
    BY <1>3, <1>4, <2>3
  <2> HIDE DEF T, R
  <2> QED BY <2>2, <2>4
<1> QED BY <1>3, <1>5

LEMMA NewestIs ==
  ASSUME ReleaseInv, NEW S \in SUBSET sets, S # {}
  PROVE  NewestOf(S) \in S
<1> DEFINE N == {s.n : s \in S}
<1>1. Cardinality(sets) \in Nat /\ \A s \in sets : s.n \in 1..Cardinality(sets)
  BY FS_CardinalityType DEF ReleaseInv, SetsCounted
<1>2. N \in SUBSET (0..Cardinality(sets)) /\ N # {}
  BY <1>1
<1>3. \E t \in N : \A u \in N : u <= t
  <2> HIDE DEF N
  <2> QED BY <1>1, <1>2, GreatestExists
<1>4. \E s \in S : \A t \in S : t.n <= s.n
  BY <1>3
<1> QED BY <1>4 DEF NewestOf

LEMMA SelectSound ==
  ASSUME ReleaseInv, RollbackSelect
  PROVE  ReleaseInv'
<1> USE DEF RollbackSelect
<1>1. cmd.op = "rollback" /\ cmd.at = 1 /\ cmd.op \in Ops /\ Last["rollback"] = 28 /\ ReleaseTypes
  BY AtIsAny, OwnAt, PlaceOf DEF ReleaseInv, Ops
<1>2. NewestOf(Candidates) \in sets
  BY NewestIs DEF Candidates, TaggedSets
<1>3. /\ Ended \in [op : Ops, at : Nat \ {0}, target : Named, set : {NoSet} \cup sets, needed : BOOLEAN]
      /\ Ended.op = cmd.op /\ Ended.at = 2 /\ Ended.target = cmd.target /\ Ended.needed = cmd.needed
  BY <1>1, Advances
<1>4. /\ cmd' \in [op : Ops, at : Nat \ {0}, target : Named, set : {NoSet} \cup sets, needed : BOOLEAN]
      /\ cmd'.op = "rollback" /\ cmd'.at = 2 /\ cmd'.set \in sets
  BY <1>1, <1>2, <1>3
<1>5. UNCHANGED <<tree, manifest, applied, data, containers, identity, sets, marker>>
  BY DEF boxVars
<1>6. Place' = -8
  BY <1>1, <1>4, NextPlace, PlaceOf
<1>7. ReleaseTypes'
  BY <1>1, <1>4, <1>5 DEF ReleaseTypes, Ops
<1>8. BoxInv'
  BY <1>5, BoxUnchanged DEF ReleaseInv, BoxInv, coreVars
<1>9. MarkerKept' /\ RollbackPlace'
  BY <1>1, <1>4, <1>5 DEF ReleaseInv, MarkerKept, RollbackPlace, Began
<1>10. UpgradePlace' /\ RestorePlace' /\ ApplyPlace'
  BY <1>4, <1>6 DEF UpgradePlace, RestorePlace, ApplyPlace
<1> QED BY <1>7, <1>8, <1>9, <1>10 DEF ReleaseInv, BoxInv

\* The plan: judged once, and written down before anything is stopped.
LEMMA PlanSound ==
  ASSUME ReleaseInv, RollbackPlanFresh \/ RollbackPlanResumes
  PROVE  ReleaseInv'
<1> USE DEF RollbackPlanFresh, RollbackPlanResumes
<1>1. cmd.op = "rollback" /\ cmd.at = 2 /\ cmd.op \in Ops /\ Last["rollback"] = 28 /\ ReleaseTypes
  BY AtIsAny, OwnAt, PlaceOf DEF ReleaseInv, Ops
<1>2. cmd.set \in sets /\ applied # 0 /\ cmd.set.n \in Nat \ {0}
  <2>1. cmd.set \in sets /\ applied # 0
    BY <1>1 DEF ReleaseInv, RollbackPlace
  <2> QED BY <2>1, FS_CardinalityType DEF ReleaseInv, SetsCounted
<1>3. /\ Ended \in [op : Ops, at : Nat \ {0}, target : Named, set : {NoSet} \cup sets, needed : BOOLEAN]
      /\ Ended.op = cmd.op /\ Ended.at = 3 /\ Ended.target = cmd.target /\ Ended.set = cmd.set
  BY <1>1, Advances
<1>4. UNCHANGED <<tree, manifest, applied, data, containers, identity, sets>>
  BY DEF boxVars
<1>5. /\ marker' \in [set : Nat \ {0}, needed : BOOLEAN, restored : BOOLEAN] /\ marker'.set = cmd.set.n
      /\ marker'.restored => marker'.needed
      /\ ~marker'.needed => manifest = cmd.set.release
      /\ marker'.restored =>
           /\ manifest <= cmd.set.release /\ cmd.set.release <= tree
           /\ \A x \in Services : containers[x] \in {0, Content[cmd.set.release][x]}
      /\ cmd' = [Ended EXCEPT !.needed = marker'.needed /\ ~marker'.restored]
      /\ Began => marker' = marker
      /\ ~Began => ~marker'.restored
  <2>1. CASE RollbackPlanFresh
    BY <1>2, <2>1 DEF _restore_verdict, Began
  <2>2. CASE RollbackPlanResumes
    BY <1>1, <1>2, <2>2 DEF ReleaseInv, ReleaseTypes, MarkerKept, Began, boxVars
  <2> QED BY <2>1, <2>2
<1>6. Began' /\ (Pending' <=> marker'.needed /\ ~marker'.restored)
  BY <1>5 DEF Began, Pending, NoMarker
<1>7. /\ cmd' \in [op : Ops, at : Nat \ {0}, target : Named, set : {NoSet} \cup sets, needed : BOOLEAN]
      /\ cmd'.op = "rollback" /\ cmd'.at = 3 /\ cmd'.set = cmd.set /\ (cmd'.needed <=> Pending')
  BY <1>1, <1>3, <1>5, <1>6
<1>8. Place' = -7
  BY <1>1, <1>7, NextPlace, PlaceOf
<1>9. ReleaseTypes'
  BY <1>1, <1>4, <1>5, <1>7 DEF ReleaseTypes, Ops
<1>10. SetsCounted' /\ SetsOrdered' /\ SetsReach'
  BY <1>4 DEF ReleaseInv, SetsCounted, SetsOrdered, SetsReach, Reach
<1>11. MarkerKept'
  <2>1. \A s \in sets : s.n = cmd.set.n => s = cmd.set
    BY <1>2 DEF ReleaseInv, SetsCounted
  <2> QED BY <1>2, <1>4, <1>5, <1>7, <2>1 DEF MarkerKept
<1>12. RollbackPlace' /\ UpgradePlace' /\ RestorePlace' /\ ApplyPlace'
  BY <1>2, <1>4, <1>5, <1>6, <1>7, <1>8 DEF RollbackPlace, UpgradePlace, RestorePlace, ApplyPlace
<1>13. Halted => Halted'
  BY <1>4, <1>5 DEF Halted, Stopped, Pending, Began
<1>14. BoxOrdered' /\ Crossed'
  BY <1>4, <1>13 DEF ReleaseInv, BoxOrdered, InOrder, Crossed, Reach
<1> QED BY <1>9, <1>10, <1>11, <1>12, <1>14 DEF ReleaseInv

LEMMA RollbackNext ==
  ASSUME ReleaseTypes, cmd.op = "rollback", cmd.at < 28, Advance
  PROVE  /\ cmd' \in [op : Ops, at : Nat \ {0}, target : Named, set : {NoSet} \cup sets, needed : BOOLEAN]
         /\ cmd'.op = "rollback" /\ cmd'.at = cmd.at + 1 /\ cmd'.set = cmd.set /\ cmd'.needed = cmd.needed
         /\ cmd'.at <= Last[cmd'.op]
         /\ Place' = cmd.at - 9
<1>1. cmd.op \in Ops /\ Last["rollback"] = 28
  BY PlaceOf DEF Ops
<1>2. cmd.at \in Nat
  BY DEF ReleaseTypes
<1> QED BY <1>1, <1>2, Advances, NextPlace, PlaceOf DEF Advance

\* Where a rollback past its plan stands.
LEMMA InRollback ==
  ASSUME ReleaseInv, cmd.op = "rollback", cmd.at \in 3..10
  PROVE  /\ applied # 0 /\ Began /\ cmd.set \in sets /\ marker.set = cmd.set.n
         /\ (cmd.needed <=> Pending)
         /\ \A s \in sets : s.n = marker.set => s = cmd.set
         /\ (cmd.at > 6 => (identity => cmd.set.release >= IdentityFrom))
         /\ (cmd.at > 7 => tree = cmd.set.release)
         /\ ~marker.needed => manifest = cmd.set.release
         /\ marker.restored => /\ marker.needed
                               /\ manifest <= cmd.set.release /\ cmd.set.release <= tree
<1>1. /\ applied # 0 /\ Began /\ cmd.set \in sets /\ marker.set = cmd.set.n /\ (cmd.needed <=> Pending)
      /\ (cmd.at > 6 => (identity => cmd.set.release >= IdentityFrom))
      /\ (cmd.at > 7 => tree = cmd.set.release)
  BY DEF ReleaseInv, RollbackPlace
<1>2. \A s \in sets : s.n = marker.set => s = cmd.set
  BY <1>1 DEF ReleaseInv, SetsCounted
<1>3. /\ ~marker.needed => manifest = cmd.set.release
      /\ marker.restored => /\ marker.needed
                            /\ manifest <= cmd.set.release /\ cmd.set.release <= tree
  BY <1>1 DEF ReleaseInv, MarkerKept
<1> QED BY <1>1, <1>2, <1>3

LEMMA StopSound ==
  ASSUME ReleaseInv, RollbackStop
  PROVE  ReleaseInv'
<1> USE DEF RollbackStop
<1>1. cmd.op = "rollback" /\ cmd.at = 5
  BY AtIsAny, OwnAt DEF ReleaseInv, Ops
<1>2. ReleaseTypes /\ applied # 0 /\ Began /\ cmd.set \in sets /\ marker.set = cmd.set.n /\ (cmd.needed <=> Pending)
  BY <1>1, InRollback DEF ReleaseInv
<1>3. /\ cmd' \in [op : Ops, at : Nat \ {0}, target : Named, set : {NoSet} \cup sets, needed : BOOLEAN]
      /\ cmd'.op = "rollback" /\ cmd'.at = 6 /\ cmd'.set = cmd.set /\ cmd'.needed = cmd.needed
      /\ cmd'.at <= Last[cmd'.op] /\ Place' = -4
  BY <1>1, <1>2, RollbackNext
<1>4. /\ containers' \in [Services -> Nat]
      /\ \A x \in Services : containers'[x] \in {0, containers[x]}
      /\ Pending => Stopped'
  BY <1>2 DEF ReleaseTypes, Stopped
<1>5. ReleaseTypes'
  BY <1>2, <1>3, <1>4 DEF ReleaseTypes
<1>6. SetsCounted' /\ SetsOrdered' /\ SetsReach'
  BY DEF ReleaseInv, SetsCounted, SetsOrdered, SetsReach, Reach
<1>7. MarkerKept' /\ RollbackPlace'
  <2>1. MarkerKept'
    BY <1>2, <1>3, <1>4 DEF ReleaseInv, MarkerKept, Began
  <2>2. RollbackPlace'
    BY <1>1, <1>2, <1>3 DEF ReleaseInv, RollbackPlace, Pending, Began
  <2> QED BY <2>1, <2>2
<1>8. UpgradePlace' /\ RestorePlace' /\ ApplyPlace'
  BY <1>3, <1>4 DEF UpgradePlace, RestorePlace, ApplyPlace, Pending, Began
<1>9. BoxOrdered' /\ Crossed'
  BY <1>4 DEF ReleaseInv, BoxOrdered, InOrder, Halted, Stopped, Crossed, Pending, Began, Reach
<1> QED BY <1>5, <1>6, <1>7, <1>8, <1>9 DEF ReleaseInv

LEMMA IdentitySound ==
  ASSUME ReleaseInv, RollbackIdentity
  PROVE  ReleaseInv'
<1> USE DEF RollbackIdentity
<1>1. cmd.op = "rollback" /\ cmd.at = 6
  BY AtIsAny, OwnAt DEF ReleaseInv, Ops
<1>2. ReleaseTypes /\ applied # 0 /\ Began /\ cmd.set \in sets /\ marker.set = cmd.set.n /\ (cmd.needed <=> Pending)
  BY <1>1, InRollback DEF ReleaseInv
<1>3. /\ cmd' \in [op : Ops, at : Nat \ {0}, target : Named, set : {NoSet} \cup sets, needed : BOOLEAN]
      /\ cmd'.op = "rollback" /\ cmd'.at = 7 /\ cmd'.set = cmd.set /\ cmd'.needed = cmd.needed
      /\ cmd'.at <= Last[cmd'.op] /\ Place' = -3
  BY <1>1, <1>2, RollbackNext
<1>4. identity' \in BOOLEAN /\ (identity' => cmd.set.release >= IdentityFrom)
  <2>1. cmd.set.release \in Nat /\ (cmd.set.recipients = 1 <=> cmd.set.release < IdentityFrom)
    BY <1>2, Numbers DEF ReleaseInv, SetsOrdered
  <2>2. identity' = (identity /\ cmd.set.recipients # 1)
    OBVIOUS
  <2>3. identity' \in BOOLEAN /\ (identity' => cmd.set.recipients # 1)
    BY <2>2, Zenon
  <2> QED BY <2>1, <2>3, Numbers
<1>5. ReleaseTypes'
  BY <1>2, <1>3, <1>4 DEF ReleaseTypes
<1>6. SetsCounted' /\ SetsOrdered' /\ SetsReach'
  BY DEF ReleaseInv, SetsCounted, SetsOrdered, SetsReach, Reach
<1>7. MarkerKept' /\ RollbackPlace'
  BY <1>1, <1>2, <1>3, <1>4 DEF ReleaseInv, MarkerKept, RollbackPlace, Pending, Began
<1>8. UpgradePlace' /\ ApplyPlace'
  BY <1>3 DEF UpgradePlace, ApplyPlace
<1>9. RestorePlace'
  BY <1>1, <1>3 DEF ReleaseInv, RestorePlace, Pending, Began, Stopped
<1>10. BoxOrdered' /\ Crossed'
  BY DEF ReleaseInv, BoxOrdered, InOrder, Halted, Stopped, Crossed, Pending, Began, Reach
<1> QED BY <1>5, <1>6, <1>7, <1>8, <1>9, <1>10 DEF ReleaseInv

LEMMA BackSound ==
  ASSUME ReleaseInv, RollbackCheckout
  PROVE  ReleaseInv'
<1> USE DEF RollbackCheckout
<1>1. cmd.op = "rollback" /\ cmd.at = 7
  BY AtIsAny, OwnAt DEF ReleaseInv, Ops
<1>2. /\ ReleaseTypes /\ applied # 0 /\ Began /\ cmd.set \in sets /\ marker.set = cmd.set.n
      /\ (cmd.needed <=> Pending) /\ (identity => cmd.set.release >= IdentityFrom)
      /\ \A s \in sets : s.n = marker.set => s = cmd.set
      /\ ~marker.needed => manifest = cmd.set.release
      /\ marker.restored => /\ marker.needed
                            /\ manifest <= cmd.set.release /\ cmd.set.release <= tree
  BY <1>1, InRollback DEF ReleaseInv
<1>3. /\ cmd' \in [op : Ops, at : Nat \ {0}, target : Named, set : {NoSet} \cup sets, needed : BOOLEAN]
      /\ cmd'.op = "rollback" /\ cmd'.at = 8 /\ cmd'.set = cmd.set /\ cmd'.needed = cmd.needed
      /\ cmd'.at <= Last[cmd'.op] /\ Place' = -2
  BY <1>1, <1>2, RollbackNext
<1>4. cmd.set.release \in Releases /\ cmd.set.release \in Nat
  BY <1>2, Numbers DEF ReleaseInv, SetsOrdered
<1>5. ReleaseTypes'
  BY <1>2, <1>3, <1>4 DEF ReleaseTypes
<1>6. SetsCounted' /\ SetsOrdered' /\ SetsReach'
  BY DEF ReleaseInv, SetsCounted, SetsOrdered, SetsReach, Reach
<1>7. MarkerKept' /\ RollbackPlace'
  <2>1. MarkerKept'
    BY <1>1, <1>2, <1>3, <1>4 DEF ReleaseInv, MarkerKept, Began
  <2>2. RollbackPlace'
    BY <1>1, <1>2, <1>3 DEF RollbackPlace, Pending, Began
  <2> QED BY <2>1, <2>2
<1>8. UpgradePlace' /\ ApplyPlace'
  BY <1>3 DEF UpgradePlace, ApplyPlace
<1>9. RestorePlace'
  BY <1>1, <1>3 DEF ReleaseInv, RestorePlace, Pending, Began, Stopped
<1>10. Pending => Halted'
  BY <1>1 DEF ReleaseInv, RestorePlace, Halted, Pending, Began, Stopped
<1>11. tree \in Nat /\ manifest \in Nat /\ applied \in Nat /\ data.schema \in Nat /\ tree' = cmd.set.release
  BY <1>2, Numbers DEF ReleaseTypes, Data
<1>12. ~Pending => InOrder' /\ tree' <= tree
  <2> SUFFICES ASSUME ~Pending PROVE InOrder' /\ tree' <= tree
    OBVIOUS
  <2>1. InOrder
    BY DEF ReleaseInv, BoxOrdered, Halted
  <2>2. marker.restored \/ ~marker.needed
    BY <1>2 DEF Pending
  <2> QED BY <1>2, <1>4, <1>11, <2>1, <2>2 DEF InOrder
<1>13. BoxOrdered'
  BY <1>10, <1>12 DEF BoxOrdered
<1>14. Crossed'
  BY <1>4, <1>10, <1>11, <1>12 DEF ReleaseInv, Crossed, Halted, Reach
<1> QED BY <1>5, <1>6, <1>7, <1>8, <1>9, <1>13, <1>14 DEF ReleaseInv

LEMMA FilesBackSound ==
  ASSUME ReleaseInv, RestoreFilesChild
  PROVE  ReleaseInv'
<1> USE DEF RestoreFilesChild
<1>0. Advance
  BY Zenon
<1>1. cmd.op = "rollback" /\ cmd.at = 8
  BY AtIsAny, OwnAt DEF ReleaseInv, Ops
<1>2. /\ ReleaseTypes /\ Began /\ Pending /\ cmd.set \in sets /\ marker.set = cmd.set.n
      /\ (cmd.needed <=> Pending) /\ (identity => cmd.set.release >= IdentityFrom)
      /\ tree = cmd.set.release
  BY <1>1, InRollback DEF ReleaseInv
<1>3. /\ cmd' \in [op : Ops, at : Nat \ {0}, target : Named, set : {NoSet} \cup sets, needed : BOOLEAN]
      /\ cmd'.op = "rollback" /\ cmd'.at = 9 /\ cmd'.set = cmd.set /\ cmd'.needed = cmd.needed
      /\ cmd'.at <= Last[cmd'.op] /\ Place' = -1
  <2> HIDE DEF RestoreFilesChild
  <2> QED BY <1>0, <1>1, <1>2, RollbackNext
<1>4. /\ cmd.set.applied \in Releases /\ cmd.set.manifest \in Releases /\ cmd.set.applied # 0
      /\ Reach(cmd.set.applied)
  BY <1>2, Numbers DEF ReleaseInv, SetsOrdered, SetsReach
<1>5. containers' \in [Services -> Nat] /\ \A s \in Services : containers'[s] = 0
  OBVIOUS
<1>6. ReleaseTypes'
  BY <1>2, <1>3, <1>4, <1>5 DEF ReleaseTypes, Named
<1>7. SetsCounted' /\ SetsOrdered' /\ SetsReach'
  BY DEF ReleaseInv, SetsCounted, SetsOrdered, SetsReach, Reach
<1>8. Began' /\ Pending' /\ marker'.needed /\ ~marker'.restored
  BY <1>2 DEF Began, Pending
<1>9. MarkerKept' /\ RollbackPlace'
  <2>1. MarkerKept'
    BY <1>2, <1>3, <1>4, <1>8 DEF MarkerKept
  <2>2. RollbackPlace'
    BY <1>2, <1>3, <1>4, <1>8 DEF RollbackPlace
  <2> QED BY <2>1, <2>2
<1>10. UpgradePlace' /\ RestorePlace' /\ ApplyPlace'
  BY <1>3, <1>5 DEF UpgradePlace, RestorePlace, ApplyPlace, Stopped
<1>11. BoxOrdered' /\ Crossed'
  BY <1>4, <1>5, <1>8 DEF BoxOrdered, Halted, Stopped, Crossed, Reach
<1> QED BY <1>6, <1>7, <1>9, <1>10, <1>11 DEF ReleaseInv

LEMMA StoresBackSound ==
  ASSUME ReleaseInv, RestoreStoresChild
  PROVE  ReleaseInv'
<1> USE DEF RestoreStoresChild
<1>0. Advance
  BY Zenon
<1>1. cmd.op = "rollback" /\ cmd.at = 9
  BY AtIsAny, OwnAt DEF ReleaseInv, Ops
<1>2. /\ ReleaseTypes /\ applied # 0 /\ Began /\ Pending /\ cmd.set \in sets /\ marker.set = cmd.set.n
      /\ (cmd.needed <=> Pending) /\ (identity => cmd.set.release >= IdentityFrom)
      /\ tree = cmd.set.release
  BY <1>1, InRollback DEF ReleaseInv
<1>3. /\ cmd' \in [op : Ops, at : Nat \ {0}, target : Named, set : {NoSet} \cup sets, needed : BOOLEAN]
      /\ cmd'.op = "rollback" /\ cmd'.at = 10 /\ cmd'.set = cmd.set /\ cmd'.needed = cmd.needed
      /\ cmd'.at <= Last[cmd'.op] /\ Place' = 0
  <2> HIDE DEF RestoreStoresChild
  <2> QED BY <1>0, <1>1, <1>2, RollbackNext
<1>4. /\ applied = cmd.set.applied /\ manifest = cmd.set.manifest
      /\ \A s \in Services : containers[s] = 0
  BY <1>1, <1>2 DEF ReleaseInv, RestorePlace, Stopped
<1>5. Reach(applied) /\ data' \in Data /\ InOrder'
  BY <1>2, <1>4 DEF ReleaseInv, SetsOrdered, SetsReach, InOrder
<1>6. Content[tree]["store"] \in Nat
  BY <1>2, Numbers DEF ReleaseTypes, Services
<1>7. /\ containers' \in [Services -> Nat]
      /\ containers'["app"] = 0 /\ containers'["store"] \in {0, Content[tree]["store"]}
  BY <1>2, <1>4, <1>6 DEF ReleaseTypes, Services
<1>8. ReleaseTypes'
  BY <1>2, <1>3, <1>5, <1>7 DEF ReleaseTypes
<1>9. SetsCounted' /\ SetsOrdered' /\ SetsReach'
  BY DEF ReleaseInv, SetsCounted, SetsOrdered, SetsReach, Reach
<1>10. Began' /\ Pending' /\ marker'.needed /\ ~marker'.restored
  BY <1>2 DEF Began, Pending
<1>11. MarkerKept' /\ RollbackPlace'
  <2>1. MarkerKept'
    BY <1>2, <1>3, <1>10 DEF MarkerKept
  <2>2. RollbackPlace'
    BY <1>2, <1>3, <1>10 DEF RollbackPlace
  <2> QED BY <2>1, <2>2
<1>12. UpgradePlace' /\ RestorePlace' /\ ApplyPlace'
  BY <1>3, <1>4, <1>7 DEF UpgradePlace, RestorePlace, ApplyPlace
<1>13. BoxOrdered' /\ Crossed'
  BY <1>5 DEF BoxOrdered, Crossed, Reach
<1> QED BY <1>8, <1>9, <1>11, <1>12, <1>13 DEF ReleaseInv

\* The restore is written down as done: the box is in order again, as the set was.
LEMMA RestoredSound ==
  ASSUME ReleaseInv, RollbackRestored
  PROVE  ReleaseInv'
<1> USE DEF RollbackRestored
<1>0. Advance
  BY Zenon
<1>1. cmd.op = "rollback" /\ cmd.at = 10
  BY AtIsAny, OwnAt DEF ReleaseInv, Ops
<1>2. /\ ReleaseTypes /\ applied # 0 /\ Began /\ Pending /\ cmd.set \in sets /\ marker.set = cmd.set.n
      /\ (cmd.needed <=> Pending) /\ (identity => cmd.set.release >= IdentityFrom)
      /\ \A s \in sets : s.n = marker.set => s = cmd.set
      /\ tree = cmd.set.release
  BY <1>1, InRollback DEF ReleaseInv
<1>3. /\ cmd' \in [op : Ops, at : Nat \ {0}, target : Named, set : {NoSet} \cup sets, needed : BOOLEAN]
      /\ cmd'.op = "rollback" /\ cmd'.at = 11 /\ cmd'.set = cmd.set /\ cmd'.needed = cmd.needed
      /\ cmd'.at <= Last[cmd'.op] /\ Place' = 1
  <2> HIDE DEF RollbackRestored
  <2> QED BY <1>0, <1>1, <1>2, RollbackNext
<1>4. /\ applied = cmd.set.applied /\ manifest = cmd.set.manifest /\ data.schema = cmd.set.data.schema
      /\ containers["app"] = 0 /\ containers["store"] \in {0, Content[tree]["store"]}
  BY <1>1, <1>2 DEF ReleaseInv, RestorePlace
<1>5. /\ applied <= manifest /\ manifest <= tree /\ data.schema <= manifest
      /\ Reach(applied)
  BY <1>2, <1>4 DEF ReleaseInv, SetsOrdered, SetsReach
<1>6. marker \in [set : Nat \ {0}, needed : BOOLEAN, restored : BOOLEAN]
  BY <1>2 DEF ReleaseTypes, Began
<1>7. /\ marker' \in [set : Nat \ {0}, needed : BOOLEAN, restored : BOOLEAN]
      /\ marker'.set = marker.set /\ marker'.restored /\ marker'.needed
  BY <1>2, <1>6 DEF Pending
<1>8. UNCHANGED <<tree, manifest, applied, data, containers, identity, sets>>
  BY DEF boxVars
<1>9. Began' /\ ~Pending' /\ InOrder'
  BY <1>5, <1>7, <1>8 DEF Began, Pending, NoMarker, InOrder
<1>10. ReleaseTypes'
  BY <1>2, <1>3, <1>7, <1>8 DEF ReleaseTypes
<1>11. SetsCounted' /\ SetsOrdered' /\ SetsReach'
  BY <1>8 DEF ReleaseInv, SetsCounted, SetsOrdered, SetsReach, Reach
<1>12. MarkerKept' /\ RollbackPlace'
  <2>1. MarkerKept'
    <3>1. tree <= tree
      BY <1>2, Numbers DEF ReleaseTypes
    <3>2. \A x \in Services : containers[x] \in {0, Content[tree][x]}
      BY <1>4 DEF Services
    <3> QED BY <1>2, <1>3, <1>5, <1>7, <1>8, <3>1, <3>2 DEF MarkerKept
  <2>2. RollbackPlace'
    BY <1>2, <1>3, <1>7, <1>8, <1>9 DEF RollbackPlace
  <2> QED BY <2>1, <2>2
<1>13. UpgradePlace' /\ RestorePlace' /\ ApplyPlace'
  BY <1>3, <1>9 DEF UpgradePlace, RestorePlace, ApplyPlace
<1>14. BoxOrdered' /\ Crossed'
  BY <1>5, <1>8, <1>9 DEF BoxOrdered, Crossed, Reach
<1> QED BY <1>10, <1>11, <1>12, <1>13, <1>14 DEF ReleaseInv

LEMMA RollbackDone ==
  ASSUME ReleaseInv, RollbackApplied
  PROVE  /\ cmd.op = "rollback" /\ cmd.at = 28 /\ ~Pending
         /\ tree = cmd.set.release /\ manifest = tree /\ applied = tree /\ data.schema = tree
         /\ marker.needed => RunsOnly(tree)
         /\ identity => tree >= IdentityFrom
<1>1. cmd.op = "rollback" /\ cmd.at = 28
  BY AtIsAny, OwnAt DEF ReleaseInv, Ops, RollbackApplied
<1>2. Place = 18
  BY <1>1, PlaceOf
<1>3. /\ ~Pending /\ Began /\ tree = cmd.set.release /\ cmd.set \in sets /\ marker.set = cmd.set.n
      /\ identity => tree >= IdentityFrom
  BY <1>1 DEF ReleaseInv, RollbackPlace
<1>4. marker.needed => RunsOnly(tree)
  BY <1>3 DEF ReleaseInv, MarkerKept, RunsOnly, Pending
<1> QED BY <1>1, <1>2, <1>3, <1>4 DEF ReleaseInv, ApplyPlace

LEMMA DoneSound ==
  ASSUME ReleaseInv, RollbackApplied
  PROVE  ReleaseInv'
<1> USE DEF RollbackApplied
<1>1. /\ cmd.op = "rollback" /\ cmd.at = 28 /\ ~Pending
      /\ manifest = tree /\ applied = tree /\ data.schema = tree /\ tree \in Nat
  BY RollbackDone, Numbers DEF ReleaseInv, ReleaseTypes
<1>2. cmd' = Idle
  BY <1>1, Advances, PlaceOf DEF ReleaseInv, Ops, Advance
<1>3. UNCHANGED <<tree, manifest, applied, data, containers, identity, sets>>
  BY DEF boxVars
<1>4. ~Began' /\ InOrder'
  BY <1>1, <1>3 DEF Began, InOrder
<1>5. ReleaseTypes'
  BY <1>2, <1>3 DEF ReleaseInv, ReleaseTypes, Idle, Named
<1>6. SetsCounted' /\ SetsOrdered' /\ SetsReach'
  BY <1>3 DEF ReleaseInv, SetsCounted, SetsOrdered, SetsReach, Reach
<1>7. MarkerKept' /\ UpgradePlace' /\ RollbackPlace' /\ RestorePlace' /\ ApplyPlace'
  BY <1>2, <1>4, IdlePlaces DEF MarkerKept
<1>8. BoxOrdered' /\ Crossed'
  BY <1>1, <1>3, <1>4 DEF BoxOrdered, Crossed
<1> QED BY <1>5, <1>6, <1>7, <1>8 DEF ReleaseInv

LEMMA RollbackSound ==
  ASSUME ReleaseInv, Rollback
  PROVE  ReleaseInv'
<1>1. CASE RollbackSelect
  BY <1>1, SelectSound
<1>2. CASE RollbackSelectRefuses \/ RollbackPlanRefuses \/ RollbackSafetyRefuses
  <2>1. Refuse
    BY <1>2 DEF RollbackSelectRefuses, RollbackPlanRefuses, RollbackSafetyRefuses
  <2> QED BY <2>1, EndsSound DEF Refuse, boxVars, coreVars
<1>3. CASE RollbackPlanFresh \/ RollbackPlanResumes
  BY <1>3, PlanSound
<1>4. CASE RollbackSafety
  <2>1. QuietPlace
    BY <1>4, AtIsAny, OwnAt, PlaceOf DEF RollbackSafety, QuietPlace, ReleaseInv, Ops
  <2> QED BY <1>4, <2>1, QuietSound DEF RollbackSafety, boxVars, coreVars
<1>5. CASE RollbackIntent
  <2>1. QuietPlace /\ Advance /\ UNCHANGED <<boxVars, sets, marker>>
    BY <1>5, AtIsAny, OwnAt, PlaceOf DEF RollbackIntent, QuietPlace, ReleaseInv, Ops, Passes
  <2> QED BY <2>1, QuietSound DEF boxVars, coreVars
<1>6. CASE RollbackStop
  BY <1>6, StopSound
<1>7. CASE RollbackIdentity
  BY <1>7, IdentitySound
<1>8. CASE RollbackCheckout
  BY <1>8, BackSound
<1>9. CASE RestoreFilesChild
  BY <1>9, FilesBackSound
<1>10. CASE RestoreStoresChild
  BY <1>10, StoresBackSound
<1>11. CASE RollbackRestored
  BY <1>11, RestoredSound
<1>12. CASE RollbackSkipsRestore
  <2>1. /\ Advance /\ UNCHANGED <<boxVars, sets, marker>> /\ ~cmd.needed
        /\ \E stage \in {"restore-files", "restore-stores", "restored"} : At("rollback", stage)
    BY <1>12 DEF RollbackSkipsRestore
  <2>2. cmd.op = "rollback" /\ cmd.at \in 8..10
    BY <2>1, AtIsAny, OwnAt DEF ReleaseInv, Ops
  <2>3. QuietPlace
    BY <2>1, <2>2, InRollback, PlaceOf DEF QuietPlace, Ops
  <2> QED BY <2>1, <2>3, QuietSound DEF boxVars, coreVars
<1>13. CASE RollbackApplied
  BY <1>13, DoneSound
<1> QED BY <1>1, <1>2, <1>3, <1>4, <1>5, <1>6, <1>7, <1>8, <1>9, <1>10, <1>11, <1>12, <1>13 DEF Rollback

-----------------------------------------------------------------------------
(* The box around the commands. *)

Fresh(op, t) == [Idle EXCEPT !.op = op, !.target = t]

\* A command begins where none runs; where a rollback has begun, a rollback or an upgrade.
LEMMA BeginsSound ==
  ASSUME ReleaseInv, cmd = Idle, UNCHANGED coreVars, NEW op \in Ops, NEW t \in Named,
         cmd' = Fresh(op, t),
         op = "upgrade" => applied # 0 /\ t \in Releases,
         op = "rollback" => applied # 0,
         op \notin {"rollback", "upgrade"} => ~Began
  PROVE  ReleaseInv'
<1> USE DEF coreVars
<1>1. /\ cmd' \in [op : Ops, at : Nat \ {0}, target : Named, set : {NoSet} \cup sets, needed : BOOLEAN]
      /\ cmd'.op = op /\ cmd'.at = 1 /\ cmd'.target = t
  <2>1. cmd' = [op |-> op, at |-> 1, target |-> t, set |-> NoSet, needed |-> FALSE]
    BY DEF Idle, Fresh
  <2>2. NoSet \in {NoSet} \cup sets /\ FALSE \in BOOLEAN /\ 1 \in Nat \ {0}
    OBVIOUS
  <2>3. [op |-> op, at |-> 1, target |-> t, set |-> NoSet, needed |-> FALSE] \in
          [op : Ops, at : Nat \ {0}, target : Named, set : {NoSet} \cup sets, needed : BOOLEAN]
    BY <2>2
  <2>4. cmd' \in [op : Ops, at : Nat \ {0}, target : Named, set : {NoSet} \cup sets, needed : BOOLEAN]
    BY <2>1, <2>3
  <2>5. cmd'.op = op /\ cmd'.at = 1 /\ cmd'.target = t
    BY <2>1
  <2> QED BY <2>4, <2>5
<1>2. Last[op] >= 1 /\ Place' <= 1 /\ Place' \in Int
  <2>1. Last["apply"] = 15 /\ Last["install"] = 22 /\ Last["upgrade"] = 27 /\ Last["rollback"] = 28
    BY DEF Last, Ops
  <2>2. /\ ApplyOffset["apply"] = 0 /\ ApplyOffset["install"] = 1
        /\ ApplyOffset["upgrade"] = 9 /\ ApplyOffset["rollback"] = 10
    BY DEF ApplyOffset, Ops
  <2> QED BY <1>1, <2>1, <2>2 DEF Ops, Place
<1>3. ReleaseTypes'
  BY <1>1, <1>2 DEF ReleaseInv, ReleaseTypes
<1>4. BoxInv'
  BY BoxUnchanged DEF ReleaseInv, BoxInv
<1>5. MarkerKept'
  BY <1>1, <1>2 DEF ReleaseInv, MarkerKept, Began, Ops
<1>6. UpgradePlace' /\ RollbackPlace' /\ RestorePlace' /\ ApplyPlace'
  BY <1>1, <1>2 DEF UpgradePlace, RollbackPlace, RestorePlace, ApplyPlace
<1> QED BY <1>3, <1>4, <1>5, <1>6 DEF ReleaseInv, BoxInv

LEMMA LostSound ==
  ASSUME ReleaseInv, NEW s \in Services, ContainerLost(s)
  PROVE  ReleaseInv'
<1> USE DEF ContainerLost
<1>1. containers' \in [Services -> Nat] /\ \A x \in Services : containers'[x] \in {0, containers[x]}
  BY DEF ReleaseInv, ReleaseTypes
<1>2. ReleaseTypes'
  BY <1>1 DEF ReleaseInv, ReleaseTypes
<1>3. SetsCounted' /\ SetsOrdered' /\ SetsReach'
  BY DEF ReleaseInv, SetsCounted, SetsOrdered, SetsReach, Reach
<1>4. Stopped => Stopped'
  BY <1>1 DEF Stopped
<1>5. BoxOrdered' /\ Crossed'
  BY <1>4 DEF ReleaseInv, BoxOrdered, InOrder, Halted, Crossed, Pending, Began, Reach
<1>6. MarkerKept'
  <2>1. Place' = Place /\ Pending' = Pending
    BY DEF Place, Pending, Began
  <2> QED BY <1>1, <2>1 DEF ReleaseInv, MarkerKept, Began
<1>7. UpgradePlace' /\ RollbackPlace'
  BY <1>4 DEF ReleaseInv, UpgradePlace, RollbackPlace, InOrder, Halted, Pending, Began, Reach
<1>8. RestorePlace'
  BY <1>1, <1>4 DEF ReleaseInv, RestorePlace, Pending, Began, Services
<1>9. ApplyPlace'
  BY DEF ReleaseInv, ApplyPlace, Place
<1> QED BY <1>2, <1>3, <1>5, <1>6, <1>7, <1>8, <1>9 DEF ReleaseInv

LEMMA WrittenSound ==
  ASSUME ReleaseInv, Written
  PROVE  ReleaseInv'
<1> USE DEF Written
<1>1. data' \in Data /\ data'.schema = data.schema
  BY DEF ReleaseInv, ReleaseTypes, Data
<1>2. ReleaseTypes'
  BY <1>1 DEF ReleaseInv, ReleaseTypes
<1>3. SetsCounted' /\ SetsOrdered' /\ SetsReach' /\ BoxOrdered' /\ Crossed'
  BY <1>1 DEF ReleaseInv, SetsCounted, SetsOrdered, SetsReach, Reach, BoxOrdered, InOrder, Halted, Stopped,
              Crossed, Pending, Began
<1>4. MarkerKept'
  BY DEF ReleaseInv, MarkerKept, Pending, Began, Place
<1>5. UpgradePlace' /\ RollbackPlace' /\ RestorePlace'
  BY <1>1 DEF ReleaseInv, UpgradePlace, RollbackPlace, RestorePlace, InOrder, Halted, Stopped, Pending,
              Began, Reach
<1>6. ApplyPlace'
  BY <1>1 DEF ReleaseInv, ApplyPlace, Place
<1> QED BY <1>2, <1>3, <1>4, <1>5, <1>6 DEF ReleaseInv

LEMMA ForeignSound ==
  ASSUME ReleaseInv, UNCHANGED <<coreVars, cmd>>
  PROVE  ReleaseInv'
<1> USE DEF coreVars
<1>1. ReleaseTypes' /\ RollbackPlace'
  BY DEF ReleaseInv, ReleaseTypes, RollbackPlace, Pending, Began
<1>2. UpgradePlace' /\ RestorePlace'
  BY DEF ReleaseInv, UpgradePlace, RestorePlace, InOrder, Halted, Stopped, Pending, Began, Reach
<1>3. MarkerKept' /\ ApplyPlace'
  BY DEF ReleaseInv, MarkerKept, ApplyPlace, Place, Pending, Began
<1> QED BY <1>1, <1>2, <1>3, BoxUnchanged DEF ReleaseInv, BoxInv

LEMMA HostSound ==
  ASSUME ReleaseInv, HostProvisioned
  PROVE  ReleaseInv'
<1> USE DEF HostProvisioned
<1>1. ReleaseTypes'
  BY DEF ReleaseInv, ReleaseTypes
<1>2. SetsCounted' /\ SetsOrdered' /\ SetsReach' /\ BoxOrdered' /\ Crossed'
  BY DEF ReleaseInv, SetsCounted, SetsOrdered, SetsReach, Reach, BoxOrdered, InOrder, Halted, Stopped,
         Crossed, Pending, Began
<1>3. MarkerKept'
  BY DEF ReleaseInv, MarkerKept, Began, Idle
<1>4. cmd' = Idle
  OBVIOUS
<1> QED BY <1>1, <1>2, <1>3, <1>4, IdlePlaces DEF ReleaseInv

LEMMA ReleaseStep ==
  ASSUME ReleaseInv, [ReleaseNext]_releaseVars, [~Overtakes]_releaseVars
  PROVE  ReleaseInv'
<1> USE DEF coreVars, boxVars
<1>1. CASE Command /\ ~Overtakes
  BY <1>1, ConvergeSound, UpgradeSound, InstallSound, RollbackSound DEF Command
<1>2. CASE StageFails
  BY <1>2, EndsSound DEF StageFails
<1>3. CASE Written
  BY <1>3, WrittenSound
<1>4. CASE ForeignRemoved
  BY <1>4, ForeignSound DEF ForeignRemoved
<1>5. CASE HostProvisioned
  BY <1>5, HostSound
<1>6. CASE Rerun
  <2>1. PICK tag \in Named : RollbackAgain(tag)
    BY <1>6 DEF Rerun, Named
  <2>2. applied # 0
    BY <2>1 DEF RollbackAgain, ReleaseInv, MarkerKept, Began
  <2> QED BY <2>1, <2>2, BeginsSound DEF RollbackAgain, Ops, Fresh
<1>7. CASE run_install
  <2>1. applied = 0 /\ cmd = Idle /\ cmd' = Fresh("install", 0) /\ UNCHANGED coreVars
    BY <1>7 DEF run_install, Begin, Fresh
  <2>2. ~Began
    BY <2>1 DEF ReleaseInv, MarkerKept
  <2> QED BY <2>1, <2>2, BeginsSound DEF Ops, Named
<1>8. CASE run_apply
  <2>1. marker = NoMarker /\ cmd = Idle /\ cmd' = Fresh("apply", 0) /\ UNCHANGED coreVars
    BY <1>8 DEF run_apply, Begin, Fresh
  <2> QED BY <2>1, BeginsSound DEF Ops, Named, Began
<1>9. ASSUME NEW s \in Services, ContainerLost(s)
      PROVE  ReleaseInv'
  BY <1>9, LostSound
<1>10. ASSUME NEW t \in Releases, run_upgrade(t)
       PROVE  ReleaseInv'
  BY <1>10, BeginsSound DEF run_upgrade, Begin, Ops, Named, Began, Fresh
<1>11. ASSUME NEW t \in Named, RollbackFirst(t)
       PROVE  ReleaseInv'
  BY <1>11, BeginsSound DEF RollbackFirst, Begin, Ops, Fresh
<1>12. CASE UNCHANGED releaseVars
  BY <1>12, ForeignSound DEF releaseVars
<1> QED
  BY <1>1, <1>2, <1>3, <1>4, <1>5, <1>6, <1>7, <1>8, <1>9, <1>10, <1>11, <1>12 DEF ReleaseNext, Named

LEMMA ReleaseStart == ReleaseInit => ReleaseInv
<1> SUFFICES ASSUME ReleaseInit PROVE ReleaseInv
  OBVIOUS
<1> USE DEF ReleaseInit
<1>1. ReleaseTypes
  BY Numbers DEF ReleaseTypes, Named, Data, Idle, Services
<1>2. SetsCounted /\ SetsOrdered /\ SetsReach
  BY FS_EmptySet DEF SetsCounted, SetsOrdered, SetsReach
<1>3. ~Began /\ Place = 0
  BY DEF Began, Place, ApplyOffset, Ops, Idle
<1>4. MarkerKept /\ UpgradePlace /\ RollbackPlace /\ RestorePlace /\ ApplyPlace
  BY <1>3 DEF MarkerKept, UpgradePlace, RollbackPlace, RestorePlace, ApplyPlace, Idle
<1>5. BoxOrdered /\ Crossed
  BY Numbers DEF BoxOrdered, InOrder, Crossed
<1> QED BY <1>1, <1>2, <1>4, <1>5 DEF ReleaseInv

LEMMA ReleaseInvAlways == ReleaseSpec /\ [][~Overtakes]_releaseVars => []ReleaseInv
<1>1. ReleaseInv /\ [ReleaseNext]_releaseVars /\ [~Overtakes]_releaseVars => ReleaseInv'
  BY ReleaseStep
<1> QED BY <1>1, ReleaseStart, PTL DEF ReleaseSpec

-----------------------------------------------------------------------------
(* The theorems.  Their hypothesis is of the behaviour, not of the releases or of  *)
(* the operator's good sense: upgrades may begin, take sets, move the checkout and  *)
(* die under the record of a rollback, and run to their end under one whose restore *)
(* is to come.  What it leaves out is what `StaleRollback.cfg` shows to fail.       *)

\* Through every failed upgrade, rollback and lost container a way back exists: upgrade.py
\* takes its set before the checkout moves, and a rollback's restore leaves nothing running
\* that another upgrade could take a set of.
THEOREM WayBackHolds == ReleaseSpec /\ [][~Overtakes]_releaseVars => []WayBack
<1>1. ReleaseInv => WayBack
  <2> SUFFICES ASSUME ReleaseInv PROVE WayBack
    OBVIOUS
  <2>1. ASSUME NEW s \in sets
        PROVE  s.data.schema <= s.release
    <3>1. /\ s.manifest \in Nat /\ s.release \in Nat /\ s.data.schema \in Nat
          /\ s.manifest <= s.release /\ s.data.schema <= s.manifest
      BY Numbers DEF ReleaseInv, SetsOrdered, Data
    <3> QED BY <3>1
  <2> QED BY <2>1 DEF WayBack, ReleaseInv, Crossed, Reach
<1> QED BY <1>1, ReleaseInvAlways, PTL

\* A rollback that ends, after however many runs and whatever began between them, has put
\* checkout, rendered files, applied record and data back to the release of its set, and
\* after a restore nothing runs but that release's content (upgrade.py _run_rollback with
\* its record).
RollbackPutsBack ==
  [][RollbackApplied =>
       LET r == cmd.set.release
       IN  /\ tree = r /\ manifest = r /\ applied = r /\ data.schema = r
           /\ marker.needed => RunsOnly(r)
           /\ identity => r >= IdentityFrom]_releaseVars

THEOREM RollbackPutsBackHolds ==
  ReleaseSpec /\ [][~Overtakes]_releaseVars => RollbackPutsBack
<1>1. ReleaseInv /\ [ReleaseNext]_releaseVars =>
        [RollbackApplied =>
           LET r == cmd.set.release
           IN  /\ tree = r /\ manifest = r /\ applied = r /\ data.schema = r
               /\ marker.needed => RunsOnly(r)
               /\ identity => r >= IdentityFrom]_releaseVars
  BY RollbackDone
<1> QED BY <1>1, ReleaseInvAlways, PTL DEF ReleaseSpec, RollbackPutsBack

=============================================================================

----------------------------- MODULE HostProofs -----------------------------
(* The operator's commands: the reconciliation of members, for any people, any     *)
(* groups and any number of runs, failures and changes meanwhile; the retention    *)
(* sweep, for any accounts, chats and uploads; and the rotation of secrets, for    *)
(* any registry and any number of commands that fail or die.                       *)
EXTENDS Membership, Retention, Secrets, FiniteSetTheorems, TLAPS

-----------------------------------------------------------------------------
(* users reconcile. *)

Roles == {"gone", "pending", "user", "admin"}
Early == {"groups", "accounts", "plan", "snapshot", "next", "intent", "done"}
Writing == {"update", "applied"}
Correcting == {"snapshot", "next", "intent", "update", "applied", "done"}

MemberTypes ==
  /\ inGroup \in [Groups -> SUBSET People] /\ roleOf \in [Accounts -> Roles]
  /\ calm \in BOOLEAN /\ runId \in Nat
  /\ reconciling \in [at : {"idle"} \cup Early \cup Writing, now : BOOLEAN, groups : SUBSET Groups,
                      users : SUBSET People, admins : SUBSET People,
                      read : [Accounts -> Roles] \cup [{} -> Roles], left : SUBSET People,
                      person : Accounts]
  /\ reconciling.at \in {"intent", "update", "applied"} => reconciling.person \in People

\* The rows and the changed roles are those of the runs there have been.
RowsOfRuns ==
  /\ \A row \in auditRows : row.run \in 1..runId
  /\ \A pair \in setBy : pair[1] \in 1..runId

Told(rows, kind, r) == {row.person : row \in {x \in rows : x.kind = kind /\ x.run = r}}
SetIn(pairs, r) == {pair[2] : pair \in {q \in pairs : q[1] = r}}
IntentOf(r) == Told(auditRows, "intent", r)
AppliedOf(r) == Told(auditRows, "applied", r)
SetOf(r) == SetIn(setBy, r)
DoubtOf(r) == IntentOf(r) \ AppliedOf(r)

\* Intent, change, applied: in this order for every person, and one person after another.
Ordered(r) ==
  /\ AppliedOf(r) \subseteq SetOf(r) /\ SetOf(r) \subseteq IntentOf(r)
  /\ \A p, q \in DoubtOf(r) : p = q

\* Where the run at work stands with the person it corrects.
RunPlace ==
  /\ reconciling.at \in Early => DoubtOf(runId) = {}
  /\ reconciling.at \in Writing => /\ DoubtOf(runId) \subseteq {reconciling.person}
                                   /\ reconciling.person \in IntentOf(runId)
  /\ reconciling.at = "applied" => reconciling.person \in SetOf(runId)
  /\ reconciling.at # "idle" => runId >= 1

\* What a run that nobody disturbed has read, and the roles it has put right.
Undisturbed ==
  LET users == inGroup["users"] \ NoUpn
      admins == inGroup["admins"] \ NoUpn
  IN  calm =>
        /\ reconciling.at = "groups" =>
             /\ reconciling.groups # {}
             /\ "users" \notin reconciling.groups => reconciling.users = users
             /\ "admins" \notin reconciling.groups => reconciling.admins = admins
        /\ reconciling.at \in Correcting \cup {"accounts", "plan"} =>
             reconciling.users = users /\ reconciling.admins = admins
        /\ reconciling.at = "plan" => reconciling.read = roleOf
        /\ reconciling.at \in Correcting =>
             \A p \in People : p \notin reconciling.left /\ roleOf[p] # "gone" =>
               roleOf[p] = Expected(p, users, admins)
        /\ reconciling.at = "applied" => roleOf[reconciling.person] = Expected(reconciling.person, users, admins)
        /\ reconciling.at = "done" => reconciling.left = {}

MemberInv ==
  /\ MemberTypes /\ RowsOfRuns /\ (\A r \in 1..runId : Ordered(r)) /\ RunPlace /\ Undisturbed

\* What one more row, and one more changed role, tells.
LEMMA RowAdded ==
  ASSUME NEW rows, NEW all, NEW new, all = rows \cup {new}, NEW kind, NEW r
  PROVE  Told(all, kind, r) =
           Told(rows, kind, r) \cup (IF kind = new.kind /\ r = new.run THEN {new.person} ELSE {})
<1>1. ASSUME NEW q \in Told(all, kind, r)
      PROVE  q \in Told(rows, kind, r) \cup (IF kind = new.kind /\ r = new.run THEN {new.person} ELSE {})
  <2>1. PICK row \in all : row.kind = kind /\ row.run = r /\ q = row.person
    BY <1>1 DEF Told
  <2> QED BY <2>1 DEF Told
<1>2. ASSUME NEW q \in Told(rows, kind, r) PROVE q \in Told(all, kind, r)
  <2>1. PICK row \in rows : row.kind = kind /\ row.run = r /\ q = row.person
    BY <1>2 DEF Told
  <2> QED BY <2>1 DEF Told
<1>3. kind = new.kind /\ r = new.run => new.person \in Told(all, kind, r)
  BY DEF Told
<1> QED BY <1>1, <1>2, <1>3

LEMMA PairAdded ==
  ASSUME NEW pairs, NEW all, NEW new, all = pairs \cup {new}, NEW r
  PROVE  SetIn(all, r) = SetIn(pairs, r) \cup (IF r = new[1] THEN {new[2]} ELSE {})
<1>1. ASSUME NEW q \in SetIn(all, r)
      PROVE  q \in SetIn(pairs, r) \cup (IF r = new[1] THEN {new[2]} ELSE {})
  <2>1. PICK pair \in all : pair[1] = r /\ q = pair[2]
    BY <1>1 DEF SetIn
  <2> QED BY <2>1 DEF SetIn
<1>2. ASSUME NEW q \in SetIn(pairs, r) PROVE q \in SetIn(all, r)
  <2>1. PICK pair \in pairs : pair[1] = r /\ q = pair[2]
    BY <1>2 DEF SetIn
  <2> QED BY <2>1 DEF SetIn
<1>3. r = new[1] => new[2] \in SetIn(all, r)
  BY DEF SetIn
<1> QED BY <1>1, <1>2, <1>3

LedgerInv == RowsOfRuns /\ (\A r \in 1..runId : Ordered(r)) /\ RunPlace

\* A step that writes no row and sets no role, and begins no correction.
LEMMA QuietKeeps ==
  ASSUME MemberTypes, LedgerInv, auditRows' = auditRows, setBy' = setBy, runId' = runId,
         \/ reconciling'.at = "idle"
         \/ reconciling'.at \in Early /\ reconciling.at \in Early
         \/ reconciling'.at = reconciling.at /\ reconciling'.person = reconciling.person
  PROVE  LedgerInv'
<1>1. \A r \in 1..runId : Ordered(r)'
  BY DEF LedgerInv, Ordered, DoubtOf, IntentOf, AppliedOf, SetOf
<1>2. RowsOfRuns'
  BY DEF LedgerInv, RowsOfRuns
<1>3. RunPlace'
  BY DEF LedgerInv, RunPlace, DoubtOf, IntentOf, AppliedOf, SetOf, Early, Writing
<1> QED BY <1>1, <1>2, <1>3 DEF LedgerInv

\* A row of the run at work.
LEMMA RowKeeps ==
  ASSUME MemberTypes, LedgerInv, NEW k \in {"snapshot", "intent", "applied"}, NEW p, NEW x,
         auditRows' = auditRows \cup {[run |-> runId, kind |-> k, person |-> p, to |-> x]},
         setBy' = setBy, runId' = runId, reconciling.at # "idle",
         \/ k = "snapshot" /\ reconciling.at = "snapshot" /\ reconciling'.at \in {"idle", "next"}
         \/ /\ k = "intent" /\ reconciling.at = "intent" /\ p = reconciling.person
            /\ \/ reconciling'.at = "idle"
               \/ reconciling'.at = "update" /\ reconciling'.person = p
         \/ /\ k = "applied" /\ reconciling.at = "applied" /\ p = reconciling.person
            /\ reconciling'.at \in {"idle", "next"}
  PROVE  LedgerInv'
<1>0. runId \in Nat /\ runId >= 1 /\ runId \in 1..runId
  BY DEF MemberTypes, LedgerInv, RunPlace
<1>1. \A r : /\ IntentOf(r)' = IntentOf(r) \cup (IF "intent" = k /\ r = runId THEN {p} ELSE {})
             /\ AppliedOf(r)' = AppliedOf(r) \cup (IF "applied" = k /\ r = runId THEN {p} ELSE {})
             /\ SetOf(r)' = SetOf(r)
  <2> TAKE r
  <2> DEFINE new == [run |-> runId, kind |-> k, person |-> p, to |-> x]
  <2>0. new.run = runId /\ new.kind = k /\ new.person = p /\ auditRows' = auditRows \cup {new}
    OBVIOUS
  <2> HIDE DEF new
  <2>1. \A kind : Told(auditRows', kind, r) =
          Told(auditRows, kind, r) \cup (IF kind = new.kind /\ r = new.run THEN {new.person} ELSE {})
    BY ONLY <2>0, RowAdded
  <2> QED BY <2>0, <2>1 DEF IntentOf, AppliedOf, SetOf
<1>2. RowsOfRuns'
  BY <1>0 DEF LedgerInv, RowsOfRuns
<1>3. ASSUME NEW r \in 1..runId PROVE Ordered(r)'
  <2>1. Ordered(r)
    BY DEF LedgerInv
  <2>2. CASE r # runId
    BY <1>1, <2>1, <2>2 DEF Ordered, DoubtOf
  <2>3. CASE r = runId
    BY <1>1, <2>1, <2>3 DEF Ordered, DoubtOf, LedgerInv, RunPlace, Early, Writing
  <2> QED BY <2>2, <2>3
<1>4. RunPlace'
  BY <1>0, <1>1 DEF LedgerInv, RunPlace, DoubtOf, Early, Writing
<1> QED BY <1>2, <1>3, <1>4 DEF LedgerInv

\* The role of the person at hand is set.
LEMMA SetKeeps ==
  ASSUME MemberTypes, LedgerInv, reconciling.at = "update",
         setBy' = setBy \cup {<<runId, reconciling.person>>}, auditRows' = auditRows, runId' = runId,
         \/ reconciling'.at = "idle"
         \/ reconciling'.at = "applied" /\ reconciling'.person = reconciling.person
  PROVE  LedgerInv'
<1>0. runId \in Nat /\ runId >= 1 /\ runId \in 1..runId
  BY DEF MemberTypes, LedgerInv, RunPlace
<1>1. \A r : /\ IntentOf(r)' = IntentOf(r) /\ AppliedOf(r)' = AppliedOf(r)
             /\ SetOf(r)' = SetOf(r) \cup (IF r = runId THEN {reconciling.person} ELSE {})
  <2> TAKE r
  <2> DEFINE new == <<runId, reconciling.person>>
  <2>0. new[1] = runId /\ new[2] = reconciling.person /\ setBy' = setBy \cup {new}
    OBVIOUS
  <2> HIDE DEF new
  <2>1. SetIn(setBy', r) = SetIn(setBy, r) \cup (IF r = new[1] THEN {new[2]} ELSE {})
    BY ONLY <2>0, PairAdded
  <2> QED BY <2>0, <2>1 DEF IntentOf, AppliedOf, SetOf
<1>2. RowsOfRuns'
  BY <1>0 DEF LedgerInv, RowsOfRuns
<1>3. ASSUME NEW r \in 1..runId PROVE Ordered(r)'
  BY <1>1 DEF Ordered, DoubtOf, LedgerInv, RunPlace, Writing
<1>4. RunPlace'
  BY <1>0, <1>1 DEF LedgerInv, RunPlace, DoubtOf, Early, Writing
<1> QED BY <1>2, <1>3, <1>4 DEF LedgerInv

LEMMA StartsKeeps ==
  ASSUME MemberTypes, LedgerInv, ReconcileStarts
  PROVE  LedgerInv'
<1>1. /\ runId' = runId + 1 /\ auditRows' = auditRows /\ setBy' = setBy /\ reconciling'.at = "groups"
      /\ runId \in Nat
  BY DEF ReconcileStarts, NoRun0, Shared0, MemberTypes
<1>2. Told(auditRows, "intent", runId + 1) = {} /\ Told(auditRows, "applied", runId + 1) = {}
      /\ SetIn(setBy, runId + 1) = {}
  BY <1>1 DEF Told, SetIn, LedgerInv, RowsOfRuns
<1>3. RowsOfRuns'
  BY <1>1 DEF LedgerInv, RowsOfRuns
<1>4. ASSUME NEW r \in 1..runId' PROVE Ordered(r)'
  <2>1. r \in 1..runId \/ r = runId + 1
    BY <1>1
  <2> QED BY <1>1, <1>2, <2>1 DEF LedgerInv, Ordered, DoubtOf, IntentOf, AppliedOf, SetOf
<1>5. RunPlace'
  BY <1>1, <1>2 DEF RunPlace, DoubtOf, IntentOf, AppliedOf, SetOf, Early, Writing
<1> QED BY <1>3, <1>4, <1>5 DEF LedgerInv

RunRecord ==
  [at : {"idle"} \cup Early \cup Writing, now : BOOLEAN, groups : SUBSET Groups,
   users : SUBSET People, admins : SUBSET People,
   read : [Accounts -> Roles] \cup [{} -> Roles], left : SUBSET People, person : Accounts]

\* The run at rest.
LEMMA NoRunTyped ==
  /\ NoRun0 \in RunRecord /\ NoRun0.at = "idle"
  /\ \A now \in BOOLEAN :
       LET r == [NoRun0 EXCEPT !.at = "groups", !.now = now, !.groups = Groups]
       IN  r \in RunRecord /\ r.at = "groups" /\ r.groups = Groups
<1>1. NoRun0.read \in [Accounts -> Roles] \cup [{} -> Roles]
  BY DEF NoRun0, Roles
<1>2. Machine \in Accounts
  BY DEF Accounts
<1> QED BY <1>1, <1>2 DEF NoRun0, RunRecord, Early, Writing, Groups

\* Back at rest, or the directory or the frontend moved: nothing is claimed of a run.
LEMMA RestKeeps ==
  ASSUME reconciling'.at = "idle" \/ ~calm'
  PROVE  Undisturbed'
BY DEF Undisturbed, Correcting

LEMMA MemberStep == MemberInv /\ [MemberNext]_memberVars => MemberInv'
<1> SUFFICES ASSUME MemberInv, [MemberNext]_memberVars
             PROVE  MemberInv'
  OBVIOUS
<1>0. /\ MemberTypes /\ LedgerInv /\ Undisturbed /\ reconciling \in RunRecord
      /\ inGroup \in [Groups -> SUBSET People] /\ roleOf \in [Accounts -> Roles]
      /\ calm \in BOOLEAN /\ runId \in Nat /\ People \subseteq Accounts /\ Machine \in Accounts
  BY DEF MemberInv, LedgerInv, MemberTypes, RunRecord, Accounts
<1> SUFFICES MemberTypes' /\ LedgerInv' /\ Undisturbed'
  BY DEF MemberInv, LedgerInv
<1>1. CASE ReconcileStarts
  <2>1. PICK now \in BOOLEAN :
          reconciling' = [NoRun0 EXCEPT !.at = "groups", !.now = now, !.groups = Groups]
    BY <1>1 DEF ReconcileStarts
  <2>2. reconciling' \in RunRecord /\ reconciling'.at = "groups" /\ reconciling'.groups = Groups
    BY <2>1, NoRunTyped
  <2>3. /\ calm' = TRUE /\ runId' = runId + 1 /\ inGroup' = inGroup /\ roleOf' = roleOf
    BY <1>1 DEF ReconcileStarts, Shared0
  <2>4. MemberTypes'
    BY <1>0, <2>2, <2>3 DEF MemberTypes, RunRecord
  <2>5. Undisturbed'
    BY <2>2, <2>3 DEF Undisturbed, Correcting, Groups
  <2> QED BY <1>0, <1>1, <2>4, <2>5, StartsKeeps
<1>2. CASE _read_directory_group
  <2> DEFINE g == IF "users" \in reconciling.groups THEN "users" ELSE "admins"
             matched == inGroup[g] \ NoUpn
  <2>1. /\ reconciling.at = "groups" /\ reconciling.groups # {}
        /\ reconciling' = [reconciling EXCEPT !.groups = @ \ {g},
                            !.users = IF g = "users" THEN matched ELSE @,
                            !.admins = IF g = "admins" THEN matched ELSE @,
                            !.at = IF reconciling.groups = {g} THEN "accounts" ELSE @]
        /\ inGroup' = inGroup /\ roleOf' = roleOf /\ calm' = calm /\ runId' = runId
        /\ auditRows' = auditRows /\ setBy' = setBy
    BY <1>2 DEF _read_directory_group, In0, _matched_members, Shared0, Bounds0
  <2>2. g \in Groups /\ g \in reconciling.groups /\ matched \in SUBSET People
        /\ reconciling.groups \subseteq Groups
    BY <1>0, <2>1 DEF Groups, RunRecord
  <2>3. /\ reconciling'.groups = reconciling.groups \ {g}
        /\ reconciling'.users = (IF g = "users" THEN matched ELSE reconciling.users)
        /\ reconciling'.admins = (IF g = "admins" THEN matched ELSE reconciling.admins)
        /\ reconciling'.at = (IF reconciling.groups = {g} THEN "accounts" ELSE "groups")
    BY <1>0, <2>1 DEF RunRecord
  <2>4. reconciling' \in RunRecord
    BY <1>0, <2>1, <2>2, ZenonT(60) DEF RunRecord, Early
  <2>5. MemberTypes'
    BY <1>0, <2>1, <2>3, <2>4, ZenonT(60) DEF MemberTypes, RunRecord
  <2>6. Undisturbed'
    BY <1>0, <2>1, <2>2, <2>3 DEF Undisturbed, Correcting, Groups
  <2>7. LedgerInv'
    BY <1>0, <2>1, <2>3, QuietKeeps DEF Early
  <2> QED BY <2>5, <2>6, <2>7
<1>3. CASE UsersRead
  <2>1. /\ reconciling.at = "accounts" /\ reconciling' = [reconciling EXCEPT !.read = roleOf, !.at = "plan"]
        /\ inGroup' = inGroup /\ roleOf' = roleOf /\ calm' = calm /\ runId' = runId
        /\ auditRows' = auditRows /\ setBy' = setBy
    BY <1>3 DEF UsersRead, In0, Shared0, Bounds0
  <2>2. /\ reconciling'.at = "plan" /\ reconciling'.read = roleOf /\ reconciling'.users = reconciling.users
        /\ reconciling'.admins = reconciling.admins /\ reconciling' \in RunRecord
    BY <1>0, <2>1 DEF RunRecord, Early
  <2>3. MemberTypes'
    BY <1>0, <2>1, <2>2 DEF MemberTypes, RunRecord
  <2>4. Undisturbed'
    BY <1>0, <2>1, <2>2 DEF Undisturbed, Correcting
  <2>5. LedgerInv'
    BY <1>0, <2>1, <2>2, QuietKeeps DEF Early
  <2> QED BY <2>3, <2>4, <2>5
<1>4. CASE Plans
  <2>1. /\ reconciling.at = "plan"
        /\ inGroup' = inGroup /\ roleOf' = roleOf /\ calm' = calm /\ runId' = runId
        /\ auditRows' = auditRows /\ setBy' = setBy
    BY <1>4 DEF Plans, In0, Shared0, Bounds0
  <2>2. CASE reconciling' = NoRun0
    <3>1. reconciling' \in RunRecord /\ reconciling'.at = "idle"
      BY <2>2, NoRunTyped
    <3> QED BY <1>0, <2>1, <3>1, QuietKeeps, RestKeeps DEF MemberTypes, RunRecord
  <2>3. CASE reconciling' = [reconciling EXCEPT !.left = Corrections, !.at = "snapshot"]
    <3>1. Corrections \subseteq People
      BY DEF Corrections
    <3>2. /\ reconciling'.at = "snapshot" /\ reconciling'.left = Corrections
          /\ reconciling'.users = reconciling.users /\ reconciling'.admins = reconciling.admins
          /\ reconciling' \in RunRecord
      BY <1>0, <2>3, <3>1 DEF RunRecord, Early
    <3>3. MemberTypes'
      BY <1>0, <2>1, <3>2 DEF MemberTypes, RunRecord
    <3>4. Undisturbed'
      BY <1>0, <2>1, <3>2 DEF Undisturbed, Correcting, Corrections
    <3>5. LedgerInv'
      BY <1>0, <2>1, <3>2, QuietKeeps DEF Early
    <3> QED BY <3>3, <3>4, <3>5
  <2> QED BY <1>4, <2>2, <2>3 DEF Plans
<1>5. CASE SnapshotRow
  <2>1. /\ reconciling.at = "snapshot" /\ reconciling' = [reconciling EXCEPT !.at = "next"]
        /\ inGroup' = inGroup /\ roleOf' = roleOf /\ calm' = calm /\ runId' = runId
        /\ setBy' = setBy
        /\ auditRows' = auditRows \cup
             {[run |-> runId, kind |-> "snapshot", person |-> Machine, to |-> "none"]}
    BY <1>5 DEF SnapshotRow, In0, Then, Bounds0, Row0
  <2>2. /\ reconciling'.at = "next" /\ reconciling'.left = reconciling.left
        /\ reconciling'.users = reconciling.users /\ reconciling'.admins = reconciling.admins
        /\ reconciling' \in RunRecord
    BY <1>0, <2>1 DEF RunRecord, Early
  <2>3. MemberTypes'
    BY <1>0, <2>1, <2>2 DEF MemberTypes, RunRecord
  <2>4. Undisturbed'
    BY <1>0, <2>1, <2>2 DEF Undisturbed, Correcting
  <2>5. LedgerInv'
    BY <1>0, <2>1, <2>2, RowKeeps
  <2> QED BY <2>3, <2>4, <2>5
<1>6. CASE NextCorrection
  <2>1. /\ reconciling.at = "next"
        /\ reconciling' = IF reconciling.left = {} THEN [reconciling EXCEPT !.at = "done"]
             ELSE [reconciling EXCEPT !.at = "intent", !.person = CHOOSE p \in reconciling.left : TRUE]
        /\ inGroup' = inGroup /\ roleOf' = roleOf /\ calm' = calm /\ runId' = runId
        /\ auditRows' = auditRows /\ setBy' = setBy
    BY <1>6 DEF NextCorrection, In0, Shared0, Bounds0
  <2>2. reconciling.left # {} => (CHOOSE p \in reconciling.left : TRUE) \in People
    BY <1>0 DEF RunRecord
  <2>3. /\ reconciling'.at \in {"done", "intent"} /\ reconciling'.left = reconciling.left
        /\ (reconciling'.at = "done" => reconciling.left = {})
        /\ (reconciling'.at = "intent" => reconciling'.person \in People)
        /\ reconciling'.users = reconciling.users /\ reconciling'.admins = reconciling.admins
        /\ reconciling' \in RunRecord
    BY <1>0, <2>1, <2>2 DEF RunRecord, Early
  <2>4. MemberTypes'
    BY <1>0, <2>1, <2>3 DEF MemberTypes, RunRecord
  <2>5. Undisturbed'
    BY <1>0, <2>1, <2>3 DEF Undisturbed, Correcting
  <2>6. LedgerInv'
    BY <1>0, <2>1, <2>3, QuietKeeps DEF Early
  <2> QED BY <2>4, <2>5, <2>6
<1>7. CASE WritesIntent
  <2>1. /\ reconciling.at = "intent" /\ reconciling' = [reconciling EXCEPT !.at = "update"]
        /\ inGroup' = inGroup /\ roleOf' = roleOf /\ calm' = calm /\ runId' = runId
        /\ setBy' = setBy
        /\ auditRows' = auditRows \cup {Row0("intent", reconciling.person)}
    BY <1>7 DEF WritesIntent, In0, Then, After, Bounds0
  <2>2. /\ reconciling'.at = "update" /\ reconciling'.left = reconciling.left
        /\ reconciling'.person = reconciling.person /\ reconciling.person \in People
        /\ reconciling'.users = reconciling.users /\ reconciling'.admins = reconciling.admins
        /\ reconciling' \in RunRecord
    BY <1>0, <2>1 DEF RunRecord, Writing, MemberTypes
  <2>3. MemberTypes'
    BY <1>0, <2>1, <2>2 DEF MemberTypes, RunRecord
  <2>4. Undisturbed'
    BY <1>0, <2>1, <2>2 DEF Undisturbed, Correcting
  <2>5. LedgerInv'
    BY <1>0, <2>1, <2>2, RowKeeps DEF Row0
  <2> QED BY <2>3, <2>4, <2>5
<1>8. CASE update_role
  <2>1. /\ reconciling.at = "update" /\ reconciling' = [reconciling EXCEPT !.at = "applied"]
        /\ inGroup' = inGroup /\ calm' = calm /\ runId' = runId /\ auditRows' = auditRows
        /\ roleOf' = [roleOf EXCEPT ![reconciling.person] = To0(reconciling.person)]
        /\ setBy' = setBy \cup {<<runId, reconciling.person>>}
    BY <1>8 DEF update_role, In0, Then, After, Bounds0
  <2>2. /\ reconciling'.at = "applied" /\ reconciling'.left = reconciling.left
        /\ reconciling'.person = reconciling.person /\ reconciling.person \in People
        /\ reconciling'.users = reconciling.users /\ reconciling'.admins = reconciling.admins
        /\ reconciling' \in RunRecord
    BY <1>0, <2>1 DEF RunRecord, Writing, MemberTypes
  <2>3. To0(reconciling.person) \in Roles
    BY DEF To0, Expected, Roles
  <2>4. MemberTypes'
    BY <1>0, <2>1, <2>2, <2>3 DEF MemberTypes, RunRecord
  <2>5. Undisturbed'
    BY <1>0, <2>1, <2>2 DEF Undisturbed, Correcting, To0
  <2>6. LedgerInv'
    BY <1>0, <2>1, <2>2, SetKeeps
  <2> QED BY <2>4, <2>5, <2>6
<1>9. CASE UpdateRefused \/ ReconcileOver
  <2>1. /\ reconciling' = NoRun0
        /\ inGroup' = inGroup /\ roleOf' = roleOf /\ calm' = calm /\ runId' = runId
        /\ auditRows' = auditRows /\ setBy' = setBy
    BY <1>9 DEF UpdateRefused, ReconcileOver, Shared0, Bounds0
  <2>2. reconciling' \in RunRecord /\ reconciling'.at = "idle"
    BY <2>1, NoRunTyped
  <2> QED BY <1>0, <2>1, <2>2, QuietKeeps, RestKeeps DEF MemberTypes, RunRecord
<1>10. CASE WritesApplied
  <2>1. /\ reconciling.at = "applied"
        /\ reconciling' = [reconciling EXCEPT !.at = "next", !.left = @ \ {reconciling.person}]
        /\ inGroup' = inGroup /\ roleOf' = roleOf /\ calm' = calm /\ runId' = runId
        /\ setBy' = setBy
        /\ auditRows' = auditRows \cup {Row0("applied", reconciling.person)}
    BY <1>10 DEF WritesApplied, In0, After, Bounds0
  <2>2. /\ reconciling'.at = "next" /\ reconciling'.left = reconciling.left \ {reconciling.person}
        /\ reconciling'.users = reconciling.users /\ reconciling'.admins = reconciling.admins
        /\ reconciling' \in RunRecord
    BY <1>0, <2>1 DEF RunRecord, Early
  <2>3. MemberTypes'
    BY <1>0, <2>1, <2>2 DEF MemberTypes, RunRecord
  <2>4. Undisturbed'
    BY <1>0, <2>1, <2>2 DEF Undisturbed, Correcting
  <2>5. LedgerInv'
    BY <1>0, <2>1, <2>2, RowKeeps DEF Row0
  <2> QED BY <2>3, <2>4, <2>5
<1>11. CASE RunFails
  <2>1. /\ reconciling.at # "idle" /\ reconciling' = NoRun0 /\ inGroup' = inGroup /\ calm' = calm
        /\ runId' = runId
    BY <1>11 DEF RunFails, In0
  <2>2. reconciling' \in RunRecord /\ reconciling'.at = "idle"
    BY <2>1, NoRunTyped
  <2>3. Undisturbed'
    BY <2>2, RestKeeps
  <2>4. To0(reconciling.person) \in Roles
    BY DEF To0, Expected, Roles
  <2>5. MemberTypes'
    <3>1. roleOf' \in [Accounts -> Roles]
      BY <1>0, <1>11, <2>4 DEF RunFails
    <3> QED BY <1>0, <2>1, <2>2, <3>1 DEF MemberTypes, RunRecord
  <2>6. CASE UNCHANGED <<roleOf, setBy, auditRows>>
    BY <1>0, <2>1, <2>2, <2>3, <2>5, <2>6, QuietKeeps
  <2>7. CASE reconciling.at = "update" /\ setBy' = setBy \cup {<<runId, reconciling.person>>}
             /\ UNCHANGED auditRows
    BY <1>0, <2>1, <2>2, <2>3, <2>5, <2>7, SetKeeps
  <2>8. CASE /\ reconciling.at \in {"intent", "applied"} /\ UNCHANGED <<roleOf, setBy>>
             /\ auditRows' = auditRows \cup {Row0(reconciling.at, reconciling.person)}
    <3>1. LedgerInv'
      BY <1>0, <2>1, <2>2, <2>8, RowKeeps DEF Row0
    <3> QED BY <2>3, <2>5, <3>1
  <2> QED BY <1>11, <2>6, <2>7, <2>8 DEF RunFails, In0
<1>12. CASE \E g \in Groups, p \in People : DirectoryChanges(g, p)
  <2>1. PICK g \in Groups, p \in People : DirectoryChanges(g, p)
    BY <1>12
  <2>2. /\ calm' = FALSE /\ roleOf' = roleOf /\ auditRows' = auditRows /\ setBy' = setBy
        /\ reconciling' = reconciling /\ runId' = runId
        /\ inGroup' = [inGroup EXCEPT ![g] = IF p \in @ THEN @ \ {p} ELSE @ \cup {p}]
    BY <2>1 DEF DirectoryChanges, Shift
  <2>3. inGroup' \in [Groups -> SUBSET People]
    BY <1>0, <2>1, <2>2
  <2>4. MemberTypes'
    BY <1>0, <2>2, <2>3 DEF MemberTypes
  <2> QED BY <1>0, <2>2, <2>4, QuietKeeps, RestKeeps
<1>13. CASE \E p \in Accounts, role \in {"gone", "pending", "user", "admin"} : FrontendChanges(p, role)
  <2>1. PICK p \in Accounts, role \in Roles : FrontendChanges(p, role)
    BY <1>13 DEF Roles
  <2>2. /\ calm' = FALSE /\ inGroup' = inGroup /\ auditRows' = auditRows /\ setBy' = setBy
        /\ reconciling' = reconciling /\ runId' = runId /\ roleOf' = [roleOf EXCEPT ![p] = role]
    BY <2>1 DEF FrontendChanges, Shift
  <2>3. MemberTypes'
    BY <1>0, <2>1, <2>2 DEF MemberTypes
  <2> QED BY <1>0, <2>2, <2>3, QuietKeeps, RestKeeps
<1>14. CASE UNCHANGED memberVars
  <2>1. /\ inGroup' = inGroup /\ roleOf' = roleOf /\ auditRows' = auditRows /\ setBy' = setBy
        /\ reconciling' = reconciling /\ calm' = calm /\ runId' = runId
    BY <1>14 DEF memberVars
  <2>2. MemberTypes' /\ Undisturbed'
    BY <1>0, <2>1 DEF MemberTypes, Undisturbed
  <2> QED BY <1>0, <2>1, <2>2, QuietKeeps
<1> QED BY <1>1, <1>2, <1>3, <1>4, <1>5, <1>6, <1>7, <1>8, <1>9, <1>10, <1>11, <1>12, <1>13, <1>14
        DEF MemberNext, Reconcile

LEMMA MemberInvariance == MemberSpec => []MemberInv
<1>1. MemberInit => MemberInv
  <2> SUFFICES ASSUME MemberInit
               PROVE  MemberInv
    OBVIOUS
  <2>1. /\ inGroup \in [Groups -> SUBSET People] /\ roleOf \in [Accounts -> Roles]
        /\ auditRows = {} /\ setBy = {} /\ reconciling = NoRun0 /\ calm = TRUE /\ runId = 0
    BY MemberShapes DEF MemberInit, Roles
  <2>2. reconciling \in RunRecord /\ reconciling.at = "idle"
    BY <2>1, NoRunTyped
  <2>3. MemberTypes
    BY <2>1, <2>2 DEF MemberTypes, RunRecord
  <2>4. RowsOfRuns /\ RunPlace /\ Undisturbed
    BY <2>1, <2>2 DEF RowsOfRuns, RunPlace, Undisturbed, Correcting, Early, Writing
  <2>5. 1..runId = {}
    BY <2>1
  <2> QED BY <2>3, <2>4, <2>5 DEF MemberInv
<1> QED BY <1>1, MemberStep, PTL DEF MemberSpec

\* run_reconcile: wherever a run stops, the audit table tells whose role it set but for one
\* person, and a run nobody disturbed leaves every human with the directory's role.
THEOREM ReconcileAlwaysSound == MemberSpec => []ReconcileSound
<1>1. ASSUME MemberInv PROVE ReconcileSound
  <2>1. OneInDoubt
    <3> SUFFICES ASSUME NEW r \in 1..runId
                 PROVE  /\ Told(auditRows, "applied", r) \subseteq SetIn(setBy, r)
                        /\ SetIn(setBy, r) \subseteq Told(auditRows, "intent", r)
                        /\ Cardinality(Told(auditRows, "intent", r) \ Told(auditRows, "applied", r)) <= 1
      BY DEF OneInDoubt, Told, SetIn, Whose, Rows2
    <3>1. Ordered(r)
      BY <1>1 DEF MemberInv
    <3> DEFINE D == Told(auditRows, "intent", r) \ Told(auditRows, "applied", r)
    <3>2. \A p, q \in D : p = q
      BY <3>1 DEF Ordered, DoubtOf, IntentOf, AppliedOf
    <3> HIDE DEF D
    <3>3. Cardinality(D) <= 1
      <4>1. CASE D = {}
        BY <4>1, FS_EmptySet
      <4>2. CASE D # {}
        <5>1. PICK p : D = {p}
          BY <3>2, <4>2
        <5> QED BY <5>1, FS_Singleton
      <4> QED BY <4>1, <4>2
    <3> QED BY <3>1, <3>3 DEF D, Ordered, IntentOf, AppliedOf, SetOf
  <2>2. RolesFollow
    <3> SUFFICES ASSUME reconciling.at = "done", calm, NEW p \in People, roleOf[p] # "gone"
                 PROVE  /\ roleOf[p] = "admin" <=> p \in (inGroup["users"] \cap inGroup["admins"]) \ NoUpn
                        /\ roleOf[p] = "pending" <=> p \notin inGroup["users"] \ NoUpn
      BY DEF RolesFollow, In0
    <3>1. roleOf[p] = Expected(p, inGroup["users"] \ NoUpn, inGroup["admins"] \ NoUpn)
      BY <1>1 DEF MemberInv, Undisturbed, Correcting
    <3> QED BY <3>1 DEF Expected
  <2> QED BY <2>1, <2>2 DEF ReconcileSound
<1> QED BY <1>1, MemberInvariance, PTL

-----------------------------------------------------------------------------
(* The retention sweep. *)

Ages == {"old", "fresh", "gone"}
SweepFields == {"at", "listed", "knowledge", "ratings", "whole", "owners", "owner", "toRead",
                "candidates", "protected", "swept", "dropped", "targets", "failed", "complete"}
AccountPlaces == {"discover", "survivors", "delete", "files", "feedback"}
SweepPlaces == {"start", "knowledge", "ratings", "header", "account", "end"} \cup AccountPlaces

SweepTypes ==
  /\ age \in [ChatSet -> Ages] /\ namedIn \in [ChatSet -> SUBSET Uploads]
  /\ rated \in [ChatSet -> {"none", "old", "fresh"}] /\ uploads \subseteq Uploads
  /\ DOMAIN sweep = SweepFields /\ sweep.at \in SweepPlaces /\ sweep.failed \in BOOLEAN
  /\ sweep.at \notin {"start", "end"} \/ (sweep.at = "end" /\ ~sweep.failed) =>
       sweep.listed \in [ChatSet -> Ages]
  /\ sweep.at \in AccountPlaces => sweep.owner \notin sweep.owners

Untouched == ChatSet \ touched
OfOwner == {c \in Untouched : Holder[c] = sweep.owner}

\* A chat its owner left alone is as it was listed, until its account's turn to be deleted.
AsListed ==
  sweep.at \notin {"start", "end"} =>
    \A c \in Untouched :
      \/ age[c] = sweep.listed[c]
      \/ /\ age[c] = "gone" /\ Holder[c] \notin sweep.owners
         /\ sweep.at \in {"discover", "survivors"} => Holder[c] # sweep.owner

\* A candidate, read or to be read, is an expired chat of the account; once read it stands
\* with the uploads it names.
CandidatesKnown ==
  /\ sweep.at = "discover" =>
       \A c \in sweep.toRead : Holder[c] = sweep.owner /\ sweep.listed[c] = "old"
  /\ sweep.at \in {"discover", "survivors", "delete"} =>
       \A pair \in sweep.candidates :
         /\ pair[1] \in ChatSet /\ Holder[pair[1]] = sweep.owner /\ sweep.listed[pair[1]] = "old"
         /\ pair[1] \notin touched => pair[2] = namedIn[pair[1]]

\* What stands between a chat of the account and the deletion of an upload it names.
NoneNamed == sweep.targets = {} /\ \A pair \in sweep.candidates : pair[2] = {}
Protection ==
  /\ sweep.at \in {"discover", "survivors"} => sweep.targets = {}
  /\ sweep.at = "discover" /\ sweep.complete =>
       \A c \in OfOwner : sweep.listed[c] = "old" /\ c \notin sweep.toRead =>
         <<c, namedIn[c]>> \in sweep.candidates
  /\ sweep.at = "survivors" =>
       \A c \in OfOwner :
         /\ sweep.listed[c] = "old" => <<c, namedIn[c]>> \in sweep.candidates
         /\ sweep.listed[c] = "fresh" /\ c \notin sweep.toRead => namedIn[c] \subseteq sweep.protected
  /\ sweep.at = "delete" =>
       NoneNamed \/ \A c \in OfOwner : age[c] # "gone" =>
         namedIn[c] \subseteq sweep.protected \/ <<c, namedIn[c]>> \in sweep.candidates
  /\ sweep.at = "files" =>
       sweep.targets = {} \/ \A c \in OfOwner : age[c] # "gone" => namedIn[c] \subseteq sweep.protected

SparedInv ==
  /\ NamedSpared /\ AsListed /\ CandidatesKnown /\ Protection
  /\ sweep.at = "start" => uploads = Uploads

\* While no call has failed: what went is told, or is about to be told with its account.
ToldInv ==
  ~sweep.failed /\ sweep.at # "start" =>
    /\ \A c \in Untouched :
         \/ age[c] = sweep.listed[c]
         \/ /\ age[c] = "gone" /\ sweep.listed[c] = "old"
            /\ \/ c \in sweptRows.chats /\ rated[c] = "none"
               \/ /\ Holder[c] = sweep.owner /\ c \in sweep.swept
                  /\ sweep.at \in {"delete", "files", "feedback"}
    /\ sweep.at \notin {"knowledge", "ratings"} =>
         \A c \in ChatSet :
           \/ rated[c] = sweep.ratings[c]
           \/ /\ rated[c] = "none"
              /\ c \in sweptRows.ratings \/ (sweep.at = "feedback" /\ c \in sweep.dropped)
    /\ sweep.at \in AccountPlaces \ {"feedback"} => sweep.dropped = {}
    /\ sweep.at = "feedback" => \A c \in sweep.dropped : c \in ChatSet /\ rated[c] = "none"

SweepInv == SweepTypes /\ SparedInv /\ ToldInv

\* The account the sweep goes to next.
TheNext == CHOOSE x \in sweep.owners : TRUE

\* The command's record keeps these fields in a step.
Keeping(fields) == DOMAIN sweep' = SweepFields /\ \A f \in fields : sweep'[f] = sweep[f]

\* Every step of the sweep and of the users keeps the invariant.  Each case of the command's
\* steps first says what becomes of the command's record and of the frontend.
LEMMA SweepKeeps == SweepInv /\ [SweepNext]_sweepVars => SweepInv'
  <1> SUFFICES ASSUME SweepInv, [SweepNext]_sweepVars PROVE SweepInv'
    OBVIOUS
  <1> USE RetentionShapes DEF On0, Frontend, Outside, Untouched, OfOwner,
             SweepFields, SweepPlaces, AccountPlaces, Ages
  <1>0. SweepTypes /\ SparedInv /\ ToldInv
    BY DEF SweepInv
  <1>1. CASE select
    <2>1. CASE Now0([at |-> "knowledge", listed |-> age])
      <3>1. /\ Keeping(SweepFields \ {"at", "listed"})
            /\ sweep'.at = "knowledge"
            /\ sweep'.listed = age
        BY <1>0, <1>1, <2>1 DEF select, Now0, Keeping, SweepTypes
      <3>2. /\ UNCHANGED <<age, namedIn, uploads, rated, sweptRows>>
            /\ touched' = {}
        BY <1>1, <2>1 DEF select
      <3>3. SweepTypes'
        BY <1>0, <1>1, <2>1, <3>1, <3>2 DEF select, Keeping, SweepTypes
      <3>4. SparedInv'
        BY <1>0, <1>1, <2>1, <3>1, <3>2 DEF select, Keeping, SweepTypes, SparedInv, NamedSpared,
           AsListed, CandidatesKnown, Protection, NoneNamed
      <3>5. ToldInv'
        BY <1>0, <1>1, <2>1, <3>1, <3>2 DEF select, Keeping, SweepTypes, ToldInv, SparedInv,
           AsListed, CandidatesKnown
      <3> QED
        BY <3>3, <3>4, <3>5 DEF SweepInv
    <2>2. CASE Now0([at |-> "end", failed |-> TRUE])
      <3>1. /\ Keeping(SweepFields \ {"at", "failed"})
            /\ sweep'.at = "end"
            /\ sweep'.failed = TRUE
        BY <1>0, <1>1, <2>2 DEF select, Now0, Keeping, SweepTypes
      <3>2. /\ UNCHANGED <<age, namedIn, uploads, rated, sweptRows>>
            /\ touched' = {}
        BY <1>1, <2>2 DEF select
      <3>3. SweepTypes'
        BY <1>0, <1>1, <2>2, <3>1, <3>2 DEF select, Keeping, SweepTypes
      <3>4. SparedInv'
        BY <1>0, <1>1, <2>2, <3>1, <3>2 DEF select, Keeping, SweepTypes, SparedInv, NamedSpared,
           AsListed, CandidatesKnown, Protection, NoneNamed
      <3>5. ToldInv'
        BY <1>0, <1>1, <2>2, <3>1, <3>2 DEF select, Keeping, SweepTypes, ToldInv, SparedInv,
           AsListed, CandidatesKnown
      <3> QED
        BY <3>3, <3>4, <3>5 DEF SweepInv
    <2> QED
      BY <1>1, <2>1, <2>2 DEF select
  <1>2. CASE KnowledgeListed
    <2>1. CASE Now0([at |-> "ratings", knowledge |-> kept])
      <3>1. /\ Keeping(SweepFields \ {"at", "knowledge"})
            /\ sweep'.at = "ratings"
            /\ sweep'.knowledge = kept
        BY <1>0, <1>2, <2>1 DEF KnowledgeListed, Now0, Keeping, SweepTypes
      <3>2. UNCHANGED <<age, namedIn, uploads, rated, sweptRows, touched>>
        BY <1>2, <2>1 DEF KnowledgeListed
      <3>3. SweepTypes'
        BY <1>0, <1>2, <2>1, <3>1, <3>2 DEF KnowledgeListed, Keeping, SweepTypes
      <3>4. SparedInv'
        BY <1>0, <1>2, <2>1, <3>1, <3>2 DEF KnowledgeListed, Keeping, SweepTypes, SparedInv,
           NamedSpared, AsListed, CandidatesKnown, Protection, NoneNamed
      <3>5. ToldInv'
        BY <1>0, <1>2, <2>1, <3>1, <3>2 DEF KnowledgeListed, Keeping, SweepTypes, ToldInv,
           SparedInv, AsListed, CandidatesKnown
      <3> QED
        BY <3>3, <3>4, <3>5 DEF SweepInv
    <2>2. CASE Now0([at |-> "ratings", whole |-> FALSE, failed |-> TRUE])
      <3>1. /\ Keeping(SweepFields \ {"at", "whole", "failed"})
            /\ sweep'.at = "ratings"
            /\ sweep'.whole = FALSE
            /\ sweep'.failed = TRUE
        BY <1>0, <1>2, <2>2 DEF KnowledgeListed, Now0, Keeping, SweepTypes
      <3>2. UNCHANGED <<age, namedIn, uploads, rated, sweptRows, touched>>
        BY <1>2, <2>2 DEF KnowledgeListed
      <3>3. SweepTypes'
        BY <1>0, <1>2, <2>2, <3>1, <3>2 DEF KnowledgeListed, Keeping, SweepTypes
      <3>4. SparedInv'
        BY <1>0, <1>2, <2>2, <3>1, <3>2 DEF KnowledgeListed, Keeping, SweepTypes, SparedInv,
           NamedSpared, AsListed, CandidatesKnown, Protection, NoneNamed
      <3>5. ToldInv'
        BY <1>0, <1>2, <2>2, <3>1, <3>2 DEF KnowledgeListed, Keeping, SweepTypes, ToldInv,
           SparedInv, AsListed, CandidatesKnown
      <3> QED
        BY <3>3, <3>4, <3>5 DEF SweepInv
    <2> QED
      BY <1>2, <2>1, <2>2 DEF KnowledgeListed
  <1>3. CASE RatingsListed
    <2>1. CASE Now0([at |-> "header", ratings |-> rated])
      <3>1. /\ Keeping(SweepFields \ {"at", "ratings"})
            /\ sweep'.at = "header"
            /\ sweep'.ratings = rated
        BY <1>0, <1>3, <2>1 DEF RatingsListed, Now0, Keeping, SweepTypes
      <3>2. UNCHANGED <<age, namedIn, uploads, rated, sweptRows, touched>>
        BY <1>3, <2>1 DEF RatingsListed
      <3>3. SweepTypes'
        BY <1>0, <1>3, <2>1, <3>1, <3>2 DEF RatingsListed, Keeping, SweepTypes
      <3>4. SparedInv'
        BY <1>0, <1>3, <2>1, <3>1, <3>2 DEF RatingsListed, Keeping, SweepTypes, SparedInv,
           NamedSpared, AsListed, CandidatesKnown, Protection, NoneNamed
      <3>5. ToldInv'
        BY <1>0, <1>3, <2>1, <3>1, <3>2 DEF RatingsListed, Keeping, SweepTypes, ToldInv,
           SparedInv, AsListed, CandidatesKnown
      <3> QED
        BY <3>3, <3>4, <3>5 DEF SweepInv
    <2>2. CASE Now0([at |-> "header", ratings |-> [c \in ChatSet |-> "none"], failed |-> TRUE])
      <3>1. /\ Keeping(SweepFields \ {"at", "ratings", "failed"})
            /\ sweep'.at = "header"
            /\ sweep'.ratings = [c \in ChatSet |-> "none"]
            /\ sweep'.failed = TRUE
        BY <1>0, <1>3, <2>2 DEF RatingsListed, Now0, Keeping, SweepTypes
      <3>2. UNCHANGED <<age, namedIn, uploads, rated, sweptRows, touched>>
        BY <1>3, <2>2 DEF RatingsListed
      <3>3. SweepTypes'
        BY <1>0, <1>3, <2>2, <3>1, <3>2, ZenonT(60) DEF RatingsListed, Keeping, SweepTypes
      <3>4. SparedInv'
        BY <1>0, <1>3, <2>2, <3>1, <3>2 DEF RatingsListed, Keeping, SweepTypes, SparedInv,
           NamedSpared, AsListed, CandidatesKnown, Protection, NoneNamed
      <3>5. ToldInv'
        BY <1>0, <1>3, <2>2, <3>1, <3>2 DEF RatingsListed, Keeping, SweepTypes, ToldInv,
           SparedInv, AsListed, CandidatesKnown
      <3> QED
        BY <3>3, <3>4, <3>5 DEF SweepInv
    <2> QED
      BY <1>3, <2>1, <2>2 DEF RatingsListed
  <1>4. CASE HeaderRow
    <2>1. CASE Now0([at |-> "account"])
      <3>1. /\ Keeping(SweepFields \ {"at"})
            /\ sweep'.at = "account"
        BY <1>0, <1>4, <2>1 DEF HeaderRow, Now0, Keeping, SweepTypes
      <3>2. UNCHANGED <<age, namedIn, uploads, rated, sweptRows, touched>>
        BY <1>4, <2>1 DEF HeaderRow
      <3>3. SweepTypes'
        BY <1>0, <1>4, <2>1, <3>1, <3>2 DEF HeaderRow, Keeping, SweepTypes
      <3>4. SparedInv'
        BY <1>0, <1>4, <2>1, <3>1, <3>2 DEF HeaderRow, Keeping, SweepTypes, SparedInv,
           NamedSpared, AsListed, CandidatesKnown, Protection, NoneNamed
      <3>5. ToldInv'
        BY <1>0, <1>4, <2>1, <3>1, <3>2 DEF HeaderRow, Keeping, SweepTypes, ToldInv, SparedInv,
           AsListed, CandidatesKnown
      <3> QED
        BY <3>3, <3>4, <3>5 DEF SweepInv
    <2>2. CASE Now0([at |-> "end", failed |-> TRUE])
      <3>1. /\ Keeping(SweepFields \ {"at", "failed"})
            /\ sweep'.at = "end"
            /\ sweep'.failed = TRUE
        BY <1>0, <1>4, <2>2 DEF HeaderRow, Now0, Keeping, SweepTypes
      <3>2. UNCHANGED <<age, namedIn, uploads, rated, sweptRows, touched>>
        BY <1>4, <2>2 DEF HeaderRow
      <3>3. SweepTypes'
        BY <1>0, <1>4, <2>2, <3>1, <3>2 DEF HeaderRow, Keeping, SweepTypes
      <3>4. SparedInv'
        BY <1>0, <1>4, <2>2, <3>1, <3>2 DEF HeaderRow, Keeping, SweepTypes, SparedInv,
           NamedSpared, AsListed, CandidatesKnown, Protection, NoneNamed
      <3>5. ToldInv'
        BY <1>0, <1>4, <2>2, <3>1, <3>2 DEF HeaderRow, Keeping, SweepTypes, ToldInv, SparedInv,
           AsListed, CandidatesKnown
      <3> QED
        BY <3>3, <3>4, <3>5 DEF SweepInv
    <2> QED
      BY <1>4, <2>1, <2>2 DEF HeaderRow
  <1>5. CASE NextAccount
    <2>1. CASE sweep.owners = {}
      <3>1. /\ Keeping(SweepFields \ {"at"})
            /\ sweep'.at = "end"
        BY <1>0, <1>5, <2>1 DEF NextAccount, TheNext, Now0, Keeping, SweepTypes
      <3>2. UNCHANGED <<age, namedIn, uploads, rated, sweptRows, touched>>
        BY <1>5, <2>1 DEF NextAccount, TheNext
      <3>3. SweepTypes'
        BY <1>0, <1>5, <2>1, <3>1, <3>2 DEF NextAccount, TheNext, Keeping, SweepTypes
      <3>4. SparedInv'
        BY <1>0, <1>5, <2>1, <3>1, <3>2 DEF NextAccount, TheNext, Keeping, SweepTypes,
           SparedInv, NamedSpared, AsListed, CandidatesKnown, Protection, NoneNamed
      <3>5. ToldInv'
        BY <1>0, <1>5, <2>1, <3>1, <3>2 DEF NextAccount, TheNext, Keeping, SweepTypes, ToldInv,
           SparedInv, AsListed, CandidatesKnown
      <3> QED
        BY <3>3, <3>4, <3>5 DEF SweepInv
    <2>2. CASE sweep.owners # {}
      <3>1. /\ Keeping(SweepFields \ {"at", "owner", "owners", "toRead", "candidates",
                                     "protected", "swept", "dropped", "targets", "complete"})
            /\ sweep'.at = "discover"
            /\ sweep'.owner = TheNext
            /\ sweep'.owners = sweep.owners \ {TheNext}
            /\ sweep'.toRead = {c \in ChatSet : Holder[c] = TheNext /\ sweep.listed[c] = "old"}
            /\ sweep'.candidates = {}
            /\ sweep'.protected = {}
            /\ sweep'.swept = {}
            /\ sweep'.dropped = {}
            /\ sweep'.targets = {}
            /\ sweep'.complete = TRUE
        BY <1>0, <1>5, <2>2 DEF NextAccount, TheNext, Now0, Keeping, SweepTypes
      <3>2. UNCHANGED <<age, namedIn, uploads, rated, sweptRows, touched>>
        BY <1>5, <2>2 DEF NextAccount, TheNext
      <3>3. SweepTypes'
        BY <1>0, <1>5, <2>2, <3>1, <3>2 DEF NextAccount, TheNext, Keeping, SweepTypes
      <3>4. SparedInv'
        BY <1>0, <1>5, <2>2, <3>1, <3>2 DEF NextAccount, TheNext, Keeping, SweepTypes,
           SparedInv, NamedSpared, AsListed, CandidatesKnown, Protection, NoneNamed
      <3>5. ToldInv'
        BY <1>0, <1>5, <2>2, <3>1, <3>2 DEF NextAccount, TheNext, Keeping, SweepTypes, ToldInv,
           SparedInv, AsListed, CandidatesKnown
      <3> QED
        BY <3>3, <3>4, <3>5 DEF SweepInv
    <2> QED
      BY <1>5, <2>1, <2>2 DEF NextAccount, TheNext
  <1>6. ASSUME NEW c \in ChatSet, ReadsCandidate(c) PROVE SweepInv'
    <2>1. CASE Now0([toRead |-> sweep.toRead \ {c},
                        protected |-> IF age[c] = "fresh" THEN sweep.protected \cup namedIn[c] ELSE sweep.protected,
                        candidates |-> IF age[c] = "old" THEN sweep.candidates \cup {<<c, namedIn[c]>>}
                                       ELSE sweep.candidates])
      <3>1. /\ Keeping(SweepFields \ {"toRead", "protected", "candidates"})
            /\ sweep'.toRead = sweep.toRead \ {c}
            /\ sweep'.protected = (IF age[c] = "fresh" THEN sweep.protected \cup namedIn[c] ELSE sweep.protected)
            /\ sweep'.candidates = (IF age[c] = "old" THEN sweep.candidates \cup {<<c, namedIn[c]>>}
                                    ELSE sweep.candidates)
        BY <1>0, <1>6, <2>1 DEF ReadsCandidate, Now0, Keeping, SweepTypes
      <3>2. UNCHANGED <<age, namedIn, uploads, rated, sweptRows, touched>>
        BY <1>6, <2>1 DEF ReadsCandidate
      <3>3. SweepTypes'
        BY <1>0, <1>6, <2>1, <3>1, <3>2 DEF ReadsCandidate, Keeping, SweepTypes
      <3>4. NamedSpared'
        BY <1>0, <1>6, <2>1, <3>1, <3>2 DEF ReadsCandidate, Keeping, SweepTypes, SparedInv,
           NamedSpared, Protection
      <3>5. AsListed'
        BY <1>0, <1>6, <2>1, <3>1, <3>2 DEF ReadsCandidate, Keeping, SweepTypes, SparedInv,
           AsListed, CandidatesKnown
      <3>6. CandidatesKnown'
        BY <1>0, <1>6, <2>1, <3>1, <3>2 DEF ReadsCandidate, Keeping, SweepTypes, SparedInv,
           CandidatesKnown, AsListed
      <3>7. Protection'
        BY <1>0, <1>6, <2>1, <3>1, <3>2 DEF ReadsCandidate, Keeping, SweepTypes, SparedInv,
           Protection, NoneNamed, AsListed, CandidatesKnown
      <3>8. (sweep.at = "start" => uploads = Uploads)'
        BY <1>0, <1>6, <2>1, <3>1, <3>2 DEF ReadsCandidate, Keeping, SweepTypes, SparedInv
      <3>9. ToldInv'
        BY <1>0, <1>6, <2>1, <3>1, <3>2 DEF ReadsCandidate, Keeping, SweepTypes, ToldInv,
           SparedInv, AsListed, CandidatesKnown
      <3> QED
        BY <3>3, <3>4, <3>5, <3>6, <3>7, <3>8, <3>9 DEF SweepInv, SparedInv
    <2>2. CASE Now0([toRead |-> sweep.toRead \ {c}, complete |-> FALSE, failed |-> TRUE])
      <3>1. /\ Keeping(SweepFields \ {"toRead", "complete", "failed"})
            /\ sweep'.toRead = sweep.toRead \ {c}
            /\ sweep'.complete = FALSE
            /\ sweep'.failed = TRUE
        BY <1>0, <1>6, <2>2 DEF ReadsCandidate, Now0, Keeping, SweepTypes
      <3>2. UNCHANGED <<age, namedIn, uploads, rated, sweptRows, touched>>
        BY <1>6, <2>2 DEF ReadsCandidate
      <3>3. SweepTypes'
        BY <1>0, <1>6, <2>2, <3>1, <3>2 DEF ReadsCandidate, Keeping, SweepTypes
      <3>4. SparedInv'
        BY <1>0, <1>6, <2>2, <3>1, <3>2 DEF ReadsCandidate, Keeping, SweepTypes, SparedInv,
           NamedSpared, AsListed, CandidatesKnown, Protection, NoneNamed
      <3>5. ToldInv'
        BY <1>0, <1>6, <2>2, <3>1, <3>2 DEF ReadsCandidate, Keeping, SweepTypes, ToldInv,
           SparedInv, AsListed, CandidatesKnown
      <3> QED
        BY <3>3, <3>4, <3>5 DEF SweepInv
    <2> QED
      BY <1>6, <2>1, <2>2 DEF ReadsCandidate
  <1>7. ASSUME NEW c \in ChatSet, ReadsSurvivor(c) PROVE SweepInv'
    <2>1. CASE Now0([toRead |-> sweep.toRead \ {c},
                        protected |-> IF age[c] = "gone" THEN sweep.protected ELSE sweep.protected \cup namedIn[c]])
      <3>1. /\ Keeping(SweepFields \ {"toRead", "protected"})
            /\ sweep'.toRead = sweep.toRead \ {c}
            /\ sweep'.protected = (IF age[c] = "gone" THEN sweep.protected ELSE sweep.protected \cup namedIn[c])
        BY <1>0, <1>7, <2>1 DEF ReadsSurvivor, Now0, Keeping, SweepTypes
      <3>2. UNCHANGED <<age, namedIn, uploads, rated, sweptRows, touched>>
        BY <1>7, <2>1 DEF ReadsSurvivor
      <3>3. SweepTypes'
        BY <1>0, <1>7, <2>1, <3>1, <3>2 DEF ReadsSurvivor, Keeping, SweepTypes
      <3>4. SparedInv'
        BY <1>0, <1>7, <2>1, <3>1, <3>2 DEF ReadsSurvivor, Keeping, SweepTypes, SparedInv,
           NamedSpared, AsListed, CandidatesKnown, Protection, NoneNamed
      <3>5. ToldInv'
        BY <1>0, <1>7, <2>1, <3>1, <3>2 DEF ReadsSurvivor, Keeping, SweepTypes, ToldInv,
           SparedInv, AsListed, CandidatesKnown
      <3> QED
        BY <3>3, <3>4, <3>5 DEF SweepInv
    <2>2. CASE Now0([at |-> "feedback", failed |-> TRUE, candidates |-> {}, toRead |-> {}])
      <3>1. /\ Keeping(SweepFields \ {"at", "failed", "candidates", "toRead"})
            /\ sweep'.at = "feedback"
            /\ sweep'.failed = TRUE
            /\ sweep'.candidates = {}
            /\ sweep'.toRead = {}
        BY <1>0, <1>7, <2>2 DEF ReadsSurvivor, Now0, Keeping, SweepTypes
      <3>2. UNCHANGED <<age, namedIn, uploads, rated, sweptRows, touched>>
        BY <1>7, <2>2 DEF ReadsSurvivor
      <3>3. SweepTypes'
        BY <1>0, <1>7, <2>2, <3>1, <3>2 DEF ReadsSurvivor, Keeping, SweepTypes
      <3>4. SparedInv'
        BY <1>0, <1>7, <2>2, <3>1, <3>2 DEF ReadsSurvivor, Keeping, SweepTypes, SparedInv,
           NamedSpared, AsListed, CandidatesKnown, Protection, NoneNamed
      <3>5. ToldInv'
        BY <1>0, <1>7, <2>2, <3>1, <3>2 DEF ReadsSurvivor, Keeping, SweepTypes, ToldInv,
           SparedInv, AsListed, CandidatesKnown
      <3> QED
        BY <3>3, <3>4, <3>5 DEF SweepInv
    <2> QED
      BY <1>7, <2>1, <2>2 DEF ReadsSurvivor
  <1>8. ASSUME NEW c \in ChatSet, sweep_feedback(c) PROVE SweepInv'
    <2>1. CASE rated' = [rated EXCEPT ![c] = "none"] /\ Now0([dropped |-> sweep.dropped \cup {c}])
      <3>1. /\ Keeping(SweepFields \ {"dropped"})
            /\ sweep'.dropped = sweep.dropped \cup {c}
        BY <1>0, <1>8, <2>1 DEF sweep_feedback, Now0, Keeping, SweepTypes
      <3>2. /\ UNCHANGED <<age, namedIn, uploads, sweptRows, touched>>
            /\ rated' = [rated EXCEPT ![c] = "none"]
        BY <1>8, <2>1 DEF sweep_feedback
      <3>3. SweepTypes'
        BY <1>0, <1>8, <2>1, <3>1, <3>2 DEF sweep_feedback, Hangs, Keeping, SweepTypes
      <3>4. SparedInv'
        BY <1>0, <1>8, <2>1, <3>1, <3>2 DEF sweep_feedback, Hangs, Keeping, SweepTypes,
           SparedInv, NamedSpared, AsListed, CandidatesKnown, Protection, NoneNamed
      <3>5. ToldInv'
        BY <1>0, <1>8, <2>1, <3>1, <3>2 DEF sweep_feedback, Hangs, Keeping, SweepTypes, ToldInv,
           SparedInv, AsListed, CandidatesKnown
      <3> QED
        BY <3>3, <3>4, <3>5 DEF SweepInv
    <2>2. CASE Now0([ratings |-> [sweep.ratings EXCEPT ![c] = "none"], failed |-> TRUE])
      <3>1. /\ Keeping(SweepFields \ {"ratings", "failed"})
            /\ sweep'.ratings = [sweep.ratings EXCEPT ![c] = "none"]
            /\ sweep'.failed = TRUE
        BY <1>0, <1>8, <2>2 DEF sweep_feedback, Now0, Keeping, SweepTypes
      <3>2. /\ UNCHANGED <<age, namedIn, uploads, sweptRows, touched>>
            /\ rated' \in {rated, [rated EXCEPT ![c] = "none"]}
        BY <1>8, <2>2 DEF sweep_feedback
      <3>3. SweepTypes'
        BY <1>0, <1>8, <2>2, <3>1, <3>2 DEF sweep_feedback, Hangs, Keeping, SweepTypes
      <3>4. SparedInv'
        BY <1>0, <1>8, <2>2, <3>1, <3>2 DEF sweep_feedback, Hangs, Keeping, SweepTypes,
           SparedInv, NamedSpared, AsListed, CandidatesKnown, Protection, NoneNamed
      <3>5. ToldInv'
        BY <1>0, <1>8, <2>2, <3>1, <3>2 DEF sweep_feedback, Hangs, Keeping, SweepTypes, ToldInv,
           SparedInv, AsListed, CandidatesKnown
      <3> QED
        BY <3>3, <3>4, <3>5 DEF SweepInv
    <2> QED
      BY <1>8, <2>1, <2>2 DEF sweep_feedback
  <1>9. CASE CandidatesRead
    <2>1. CASE Now0([at |-> "feedback", failed |-> TRUE, candidates |-> {}])
      <3>1. /\ Keeping(SweepFields \ {"at", "failed", "candidates"})
            /\ sweep'.at = "feedback"
            /\ sweep'.failed = TRUE
            /\ sweep'.candidates = {}
        BY <1>0, <1>9, <2>1 DEF CandidatesRead, Now0, Keeping, SweepTypes
      <3>2. UNCHANGED <<age, namedIn, uploads, rated, sweptRows, touched>>
        BY <1>9, <2>1 DEF CandidatesRead
      <3>3. SweepTypes'
        BY <1>0, <1>9, <2>1, <3>1, <3>2 DEF CandidatesRead, Naming, Survivors, OldOnes, Mine0,
           Keeping, SweepTypes
      <3>4. SparedInv'
        BY <1>0, <1>9, <2>1, <3>1, <3>2 DEF CandidatesRead, Naming, Survivors, OldOnes, Mine0,
           Keeping, SweepTypes, SparedInv, NamedSpared, AsListed, CandidatesKnown, Protection,
           NoneNamed
      <3>5. ToldInv'
        BY <1>0, <1>9, <2>1, <3>1, <3>2 DEF CandidatesRead, Naming, Survivors, OldOnes, Mine0,
           Keeping, SweepTypes, ToldInv, SparedInv, AsListed, CandidatesKnown
      <3> QED
        BY <3>3, <3>4, <3>5 DEF SweepInv
    <2>2. CASE sweep.complete /\ (Naming => sweep.whole)
      <3>1. /\ Keeping(SweepFields \ {"at", "toRead"})
            /\ sweep'.at = (IF Naming THEN "survivors" ELSE "delete")
            /\ sweep'.toRead = (IF Naming THEN Survivors ELSE {})
        BY <1>0, <1>9, <2>2, ZenonT(60) DEF CandidatesRead, Now0, Keeping, SweepTypes
      <3>2. UNCHANGED <<age, namedIn, uploads, rated, sweptRows, touched>>
        BY <1>9, <2>2 DEF CandidatesRead
      <3>3. SweepTypes'
        BY <1>0, <1>9, <2>2, <3>1, <3>2 DEF CandidatesRead, Naming, Survivors, OldOnes, Mine0,
           Keeping, SweepTypes
      <3>4. SparedInv'
        BY <1>0, <1>9, <2>2, <3>1, <3>2 DEF CandidatesRead, Naming, Survivors, OldOnes, Mine0,
           Keeping, SweepTypes, SparedInv, NamedSpared, AsListed, CandidatesKnown, Protection,
           NoneNamed
      <3>5. ToldInv'
        BY <1>0, <1>9, <2>2, <3>1, <3>2 DEF CandidatesRead, Naming, Survivors, OldOnes, Mine0,
           Keeping, SweepTypes, ToldInv, SparedInv, AsListed, CandidatesKnown
      <3> QED
        BY <3>3, <3>4, <3>5 DEF SweepInv
    <2> QED
      BY <1>9, <2>1, <2>2 DEF CandidatesRead
  <1>10. CASE SurvivorsRead
    <2>1. /\ Keeping(SweepFields \ {"at"})
          /\ sweep'.at = "delete"
      BY <1>0, <1>10 DEF SurvivorsRead, Now0, Keeping, SweepTypes
    <2>2. UNCHANGED <<age, namedIn, uploads, rated, sweptRows, touched>>
      BY <1>10 DEF SurvivorsRead
    <2>3. SweepTypes'
      BY <1>0, <1>10, <2>1, <2>2 DEF SurvivorsRead, Keeping, SweepTypes
    <2>4. SparedInv'
      BY <1>0, <1>10, <2>1, <2>2 DEF SurvivorsRead, Keeping, SweepTypes, SparedInv, NamedSpared,
         AsListed, CandidatesKnown, Protection, NoneNamed
    <2>5. ToldInv'
      BY <1>0, <1>10, <2>1, <2>2 DEF SurvivorsRead, Keeping, SweepTypes, ToldInv, SparedInv,
         AsListed, CandidatesKnown
    <2> QED
      BY <2>3, <2>4, <2>5 DEF SweepInv
  <1>11. ASSUME NEW pair \in sweep.candidates, delete_chat(pair) PROVE SweepInv'
    <2>1. CASE /\ age' = [age EXCEPT ![pair[1]] = "gone"]
               /\ Now0([candidates |-> sweep.candidates \ {pair},
                        swept |-> sweep.swept \cup {pair[1]}, targets |-> sweep.targets \cup pair[2]])
      <3>1. /\ Keeping(SweepFields \ {"candidates", "swept", "targets"})
            /\ sweep'.candidates = sweep.candidates \ {pair}
            /\ sweep'.swept = sweep.swept \cup {pair[1]}
            /\ sweep'.targets = sweep.targets \cup pair[2]
        BY <1>0, <1>11, <2>1 DEF delete_chat, Now0, Keeping, SweepTypes
      <3>2. /\ UNCHANGED <<namedIn, uploads, rated, sweptRows, touched>>
            /\ age' = [age EXCEPT ![pair[1]] = "gone"]
        BY <1>11, <2>1 DEF delete_chat
      <3>3. SweepTypes'
        BY <1>0, <1>11, <2>1, <3>1, <3>2, ZenonT(60) DEF delete_chat, Spared, Keeping, SweepTypes
      <3>4. SparedInv'
        BY <1>0, <1>11, <2>1, <3>1, <3>2 DEF delete_chat, Spared, Keeping, SweepTypes,
           SparedInv, NamedSpared, AsListed, CandidatesKnown, Protection, NoneNamed
      <3>5. ToldInv'
        BY <1>0, <1>11, <2>1, <3>1, <3>2 DEF delete_chat, Spared, Keeping, SweepTypes, ToldInv,
           SparedInv, AsListed, CandidatesKnown
      <3> QED
        BY <3>3, <3>4, <3>5 DEF SweepInv
    <2>2. CASE Now0([candidates |-> sweep.candidates \ {pair}, protected |-> Spared(pair), failed |-> TRUE])
      <3>1. /\ Keeping(SweepFields \ {"candidates", "protected", "failed"})
            /\ sweep'.candidates = sweep.candidates \ {pair}
            /\ sweep'.protected = Spared(pair)
            /\ sweep'.failed = TRUE
        BY <1>0, <1>11, <2>2 DEF delete_chat, Now0, Keeping, SweepTypes
      <3>2. /\ UNCHANGED <<namedIn, uploads, rated, sweptRows, touched>>
            /\ age' \in {age, [age EXCEPT ![pair[1]] = "gone"]}
        BY <1>11, <2>2 DEF delete_chat
      <3>3. SweepTypes'
        BY <1>0, <1>11, <2>2, <3>1, <3>2 DEF delete_chat, Spared, Keeping, SweepTypes
      <3>4. SparedInv'
        BY <1>0, <1>11, <2>2, <3>1, <3>2 DEF delete_chat, Spared, Keeping, SweepTypes,
           SparedInv, NamedSpared, AsListed, CandidatesKnown, Protection, NoneNamed
      <3>5. ToldInv'
        BY <1>0, <1>11, <2>2, <3>1, <3>2 DEF delete_chat, Spared, Keeping, SweepTypes, ToldInv,
           SparedInv, AsListed, CandidatesKnown
      <3> QED
        BY <3>3, <3>4, <3>5 DEF SweepInv
    <2> QED
      BY <1>11, <2>1, <2>2 DEF delete_chat
  <1>12. ASSUME NEW f \in sweep.targets, sweep_file(f) PROVE SweepInv'
    <2>1. CASE Now0([targets |-> sweep.targets \ {f}])
      <3>1. /\ Keeping(SweepFields \ {"targets"})
            /\ sweep'.targets = sweep.targets \ {f}
        BY <1>0, <1>12, <2>1 DEF sweep_file, Now0, Keeping, SweepTypes
      <3>2. /\ UNCHANGED <<age, namedIn, rated, sweptRows, touched>>
            /\ uploads' \in {uploads, IF Deletable(f) THEN uploads \ {f} ELSE uploads}
        BY <1>12, <2>1 DEF sweep_file
      <3>3. SweepTypes'
        BY <1>0, <1>12, <2>1, <3>1, <3>2 DEF sweep_file, Deletable, Keeping, SweepTypes
      <3>4. SparedInv'
        BY <1>0, <1>12, <2>1, <3>1, <3>2 DEF sweep_file, Deletable, Keeping, SweepTypes,
           SparedInv, NamedSpared, AsListed, CandidatesKnown, Protection, NoneNamed
      <3>5. ToldInv'
        BY <1>0, <1>12, <2>1, <3>1, <3>2 DEF sweep_file, Deletable, Keeping, SweepTypes,
           ToldInv, SparedInv, AsListed, CandidatesKnown
      <3> QED
        BY <3>3, <3>4, <3>5 DEF SweepInv
    <2>2. CASE Now0([targets |-> sweep.targets \ {f}, failed |-> TRUE])
      <3>1. /\ Keeping(SweepFields \ {"targets", "failed"})
            /\ sweep'.targets = sweep.targets \ {f}
            /\ sweep'.failed = TRUE
        BY <1>0, <1>12, <2>2 DEF sweep_file, Now0, Keeping, SweepTypes
      <3>2. /\ UNCHANGED <<age, namedIn, rated, sweptRows, touched>>
            /\ uploads' \in {uploads, IF Deletable(f) THEN uploads \ {f} ELSE uploads}
        BY <1>12, <2>2 DEF sweep_file
      <3>3. SweepTypes'
        BY <1>0, <1>12, <2>2, <3>1, <3>2 DEF sweep_file, Deletable, Keeping, SweepTypes
      <3>4. SparedInv'
        BY <1>0, <1>12, <2>2, <3>1, <3>2 DEF sweep_file, Deletable, Keeping, SweepTypes,
           SparedInv, NamedSpared, AsListed, CandidatesKnown, Protection, NoneNamed
      <3>5. ToldInv'
        BY <1>0, <1>12, <2>2, <3>1, <3>2 DEF sweep_file, Deletable, Keeping, SweepTypes,
           ToldInv, SparedInv, AsListed, CandidatesKnown
      <3> QED
        BY <3>3, <3>4, <3>5 DEF SweepInv
    <2> QED
      BY <1>12, <2>1, <2>2 DEF sweep_file
  <1>13. CASE ChatsDeleted
    <2>1. /\ Keeping(SweepFields \ {"at"})
          /\ sweep'.at = "files"
      BY <1>0, <1>13 DEF ChatsDeleted, Now0, Keeping, SweepTypes
    <2>2. UNCHANGED <<age, namedIn, uploads, rated, sweptRows, touched>>
      BY <1>13 DEF ChatsDeleted
    <2>3. SweepTypes'
      BY <1>0, <1>13, <2>1, <2>2 DEF ChatsDeleted, Keeping, SweepTypes
    <2>4. SparedInv'
      BY <1>0, <1>13, <2>1, <2>2 DEF ChatsDeleted, Keeping, SweepTypes, SparedInv, NamedSpared,
         AsListed, CandidatesKnown, Protection, NoneNamed
    <2>5. ToldInv'
      BY <1>0, <1>13, <2>1, <2>2 DEF ChatsDeleted, Keeping, SweepTypes, ToldInv, SparedInv,
         AsListed, CandidatesKnown
    <2> QED
      BY <2>3, <2>4, <2>5 DEF SweepInv
  <1>14. CASE FilesSwept
    <2>1. /\ Keeping(SweepFields \ {"at"})
          /\ sweep'.at = "feedback"
      BY <1>0, <1>14 DEF FilesSwept, Now0, Keeping, SweepTypes
    <2>2. UNCHANGED <<age, namedIn, uploads, rated, sweptRows, touched>>
      BY <1>14 DEF FilesSwept
    <2>3. SweepTypes'
      BY <1>0, <1>14, <2>1, <2>2 DEF FilesSwept, Keeping, SweepTypes
    <2>4. SparedInv'
      BY <1>0, <1>14, <2>1, <2>2 DEF FilesSwept, Keeping, SweepTypes, SparedInv, NamedSpared,
         AsListed, CandidatesKnown, Protection, NoneNamed
    <2>5. ToldInv'
      BY <1>0, <1>14, <2>1, <2>2 DEF FilesSwept, Keeping, SweepTypes, ToldInv, SparedInv,
         AsListed, CandidatesKnown
    <2> QED
      BY <2>3, <2>4, <2>5 DEF SweepInv
  <1>15. CASE AccountRows
    <2>1. CASE /\ sweptRows' = [chats |-> sweptRows.chats \cup sweep.swept,
                              ratings |-> sweptRows.ratings \cup sweep.dropped]
               /\ Now0([at |-> "account"])
      <3>1. /\ Keeping(SweepFields \ {"at"})
            /\ sweep'.at = "account"
        BY <1>0, <1>15, <2>1 DEF AccountRows, Now0, Keeping, SweepTypes
      <3>2. /\ UNCHANGED <<age, namedIn, uploads, rated, touched>>
            /\ sweptRows' = [chats |-> sweptRows.chats \cup sweep.swept,
                             ratings |-> sweptRows.ratings \cup sweep.dropped]
        BY <1>15, <2>1 DEF AccountRows
      <3>3. SweepTypes'
        BY <1>0, <1>15, <2>1, <3>1, <3>2 DEF AccountRows, Hangs, Keeping, SweepTypes
      <3>4. SparedInv'
        BY <1>0, <1>15, <2>1, <3>1, <3>2 DEF AccountRows, Hangs, Keeping, SweepTypes, SparedInv,
           NamedSpared, AsListed, CandidatesKnown, Protection, NoneNamed
      <3>5. ToldInv'
        BY <1>0, <1>15, <2>1, <3>1, <3>2 DEF AccountRows, Hangs, Keeping, SweepTypes, ToldInv,
           SparedInv, AsListed, CandidatesKnown
      <3> QED
        BY <3>3, <3>4, <3>5 DEF SweepInv
    <2>2. CASE Now0([at |-> "account", failed |-> TRUE]) /\ UNCHANGED sweptRows
      <3>1. /\ Keeping(SweepFields \ {"at", "failed"})
            /\ sweep'.at = "account"
            /\ sweep'.failed = TRUE
        BY <1>0, <1>15, <2>2 DEF AccountRows, Now0, Keeping, SweepTypes
      <3>2. /\ UNCHANGED <<age, namedIn, uploads, rated, touched>>
            /\ UNCHANGED sweptRows
        BY <1>15, <2>2 DEF AccountRows
      <3>3. SweepTypes'
        BY <1>0, <1>15, <2>2, <3>1, <3>2 DEF AccountRows, Hangs, Keeping, SweepTypes
      <3>4. SparedInv'
        BY <1>0, <1>15, <2>2, <3>1, <3>2 DEF AccountRows, Hangs, Keeping, SweepTypes, SparedInv,
           NamedSpared, AsListed, CandidatesKnown, Protection, NoneNamed
      <3>5. ToldInv'
        BY <1>0, <1>15, <2>2, <3>1, <3>2 DEF AccountRows, Hangs, Keeping, SweepTypes, ToldInv,
           SparedInv, AsListed, CandidatesKnown
      <3> QED
        BY <3>3, <3>4, <3>5 DEF SweepInv
    <2> QED
      BY <1>15, <2>1, <2>2 DEF AccountRows
  <1>16. ASSUME NEW c \in ChatSet, NEW more \in SUBSET uploads, TakesUp(c, more) PROVE SweepInv'
    <2>1. /\ UNCHANGED <<uploads, rated, sweep, sweptRows>> /\ touched' = touched \cup {c}
          /\ age' = [age EXCEPT ![c] = "fresh"] /\ namedIn' = [namedIn EXCEPT ![c] = @ \cup more]
      BY <1>16 DEF TakesUp
    <2>2. SweepTypes'
      BY <1>0, <1>16, <2>1 DEF SweepTypes
    <2>3. SparedInv'
      BY <1>0, <1>16, <2>1 DEF SweepTypes, SparedInv, NamedSpared, AsListed, CandidatesKnown,
         Protection, NoneNamed
    <2>4. ToldInv'
      BY <1>0, <1>16, <2>1 DEF SweepTypes, ToldInv
    <2> QED
      BY <2>2, <2>3, <2>4 DEF SweepInv
  <1>17. ASSUME NEW c \in ChatSet, DeletesOwn(c) PROVE SweepInv'
    <2>1. /\ UNCHANGED <<namedIn, uploads, rated, sweep, sweptRows>> /\ touched' = touched \cup {c}
          /\ age' = [age EXCEPT ![c] = "gone"]
      BY <1>17 DEF DeletesOwn
    <2>2. SweepTypes'
      BY <1>0, <1>17, <2>1 DEF SweepTypes
    <2>3. SparedInv'
      BY <1>0, <1>17, <2>1 DEF SweepTypes, SparedInv, NamedSpared, AsListed, CandidatesKnown,
         Protection, NoneNamed
    <2>4. ToldInv'
      BY <1>0, <1>17, <2>1 DEF SweepTypes, ToldInv
    <2> QED
      BY <2>2, <2>3, <2>4 DEF SweepInv
  <1>18. CASE UNCHANGED sweepVars
    BY <1>0, <1>18 DEF sweepVars, SweepInv, SweepTypes, SparedInv, NamedSpared, AsListed,
       CandidatesKnown, Protection, NoneNamed, ToldInv
  <1>19. \A more \in {{}} \cup {{f} : f \in uploads} : more \in SUBSET uploads
    OBVIOUS
  <1> QED
    BY <1>1, <1>2, <1>3, <1>4, <1>5, <1>6, <1>7, <1>8, <1>9, <1>10, <1>11, <1>12, <1>13, <1>14,
       <1>15, <1>16, <1>17, <1>18, <1>19 DEF SweepNext, SweepStep

LEMMA SweepStarts == SweepInit => SweepInv
  <1> SUFFICES ASSUME SweepInit PROVE SweepInv
    OBVIOUS
  <1> USE RetentionShapes
  <1>1. PICK s \in Shapes0 : age = s.age /\ namedIn = s.names /\ rated = s.rated
    BY DEF SweepInit
  <1>2. /\ s.age \in [ChatSet -> {"old", "fresh"}] /\ s.names \in [ChatSet -> SUBSET Uploads]
        /\ s.rated \in [ChatSet -> {"none", "old", "fresh"}]
    BY <1>1
  <1>3. uploads = Uploads /\ sweep = NoSweep /\ touched = {}
    BY DEF SweepInit
  <1>4. SweepTypes
    BY <1>1, <1>2, <1>3 DEF SweepTypes, NoSweep, SweepFields, SweepPlaces, AccountPlaces, Ages
  <1>5. SparedInv
    BY <1>1, <1>2, <1>3 DEF SparedInv, NamedSpared, AsListed, CandidatesKnown, Protection, NoSweep
  <1>6. ToldInv
    BY <1>3 DEF ToldInv, NoSweep
  <1> QED
    BY <1>4, <1>5, <1>6 DEF SweepInv

\* Whatever the users do meanwhile and whichever calls fail, the sweep takes no upload that an
\* untouched chat of its owner still names, and one that ends well took only expired chats and
\* wrote a row for every chat and rating it took (select, discover, sweep_chats and apply).
THEOREM SweepAlwaysSound == SweepSpec => []SweepSound
  <1>1. SweepInit => SweepInv
    BY SweepStarts
  <1>2. SweepInv /\ [SweepNext]_sweepVars => SweepInv'
    BY SweepKeeps
  <1>3. SweepInv => SweepSound
    <2> SUFFICES ASSUME SweepInv PROVE NamedSpared /\ SweptTold
      BY DEF SweepSound
    <2>1. NamedSpared
      BY DEF SweepInv, SparedInv
    <2>2. SweptTold
      BY DEF SweepInv, ToldInv, SweptTold, On0, Untouched, AccountPlaces
    <2> QED
      BY <2>1, <2>2
  <1> QED
    BY <1>1, <1>2, <1>3, PTL DEF SweepSpec

-----------------------------------------------------------------------------
(* secrets rotate and apply. *)

Values0 == [n : Nat, of : Nat]
Unlocked == {"idle", "claim", "reset", "file", "sign-in", "signing", "ended"}
UnderLock == {"write", "certify", "recreate", "ensure", "render", "manifest", "record"}
Commands0 == [op : {"none", "rotate", "apply"}, name : SecretNames \cup {"none"},
              at : Unlocked \cup UnderLock, value : Nat, code : {0, 1}]

SecretTypes ==
  /\ secretFiles \in [SecretNames -> Values0] /\ renderedOf \in [CarriedNames -> Values0]
  /\ DOMAIN holdings = Services0 /\ rotators \in [Rotators -> Commands0]
  /\ stored \in Nat /\ drawn \in Nat /\ drawn > 0 /\ seededFails \in BOOLEAN

\* Values are numbered as they are drawn, and no password or key is ever without its file.
Numbered ==
  /\ \A n \in SecretNames : secretFiles[n].n <= drawn
  /\ \A n \in SecretNames : SecretRegistry[n].kind \in {"password", "key"} => secretFiles[n].n > 0
  /\ \A n \in CarriedNames : renderedOf[n].n <= drawn
  /\ \A r \in Rotators : rotators[r].at \in {"file"} => rotators[r].value > 0 /\ rotators[r].value <= drawn

\* Where a command stands says whether it holds the lock and which secret it may rotate.
Standing ==
  \A r \in Rotators :
    /\ engineLock = r <=> rotators[r].at \in UnderLock
    /\ rotators[r].at \in SeededPlaces => rotators[r].name \in OfClass("seeded")
    /\ rotators[r].at \in {"claim"} \cup UnderLock => rotators[r].op \in {"rotate", "apply"}
    /\ rotators[r].at \in {"claim"} \cup UnderLock /\ rotators[r].op = "rotate" =>
         rotators[r].name \in OfClass("rewrite") \cup OfClass("remint")
    /\ rotators[r].at \in {"write", "certify", "recreate"} => rotators[r].op = "rotate"
    /\ rotators[r].at = "certify" => SecretRegistry[rotators[r].name].kind = "key"

\* How far a new value has come: the record is behind until the render, the mounters are
\* recreated before the ensure, the carriers by it; and a new certificate matches its key.
Reaching(r) ==
  LET n == rotators[r].name
  IN  rotators[r].op = "rotate" /\ SecretRegistry[n].kind # "minted" =>
        /\ rotators[r].at \in {"certify", "recreate", "ensure", "render"} /\ n \in CarriedNames =>
             renderedOf[n] # secretFiles[n]
        /\ rotators[r].at \in {"recreate", "ensure"} /\ n \in OfKind("certificate") =>
             Exists(n) /\ _certificate_matches(n)
        /\ rotators[r].at \in {"ensure", "render", "manifest", "record"} =>
             \A s \in MountersOf(n) : holdings[s][n] = secretFiles[n]
        /\ rotators[r].at \in {"manifest", "record"} =>
             \A s \in CarriersOf(n) : holdings[s][n] = secretFiles[n]

\* From the end of the ensure stage to the end of the run every key has its certificate.
Paired ==
  \A r \in Rotators : rotators[r].at \in {"render", "manifest", "record"} =>
    \A c \in OfKind("certificate") : _certificate_matches(c)

\* A seeded rotation that has yet to write, to read the file back, or to be refused.
Pends(r) ==
  \/ rotators[r].at \in {"reset", "file", "sign-in"}
  \/ rotators[r].at = "signing" /\ rotators[r].value # stored

\* While no seeded rotation has failed, the password is its file's or one still under way
\* will write it or be refused.
Agreeing ==
  \/ seededFails
  \/ \A n \in OfClass("seeded") : secretFiles[n].n = stored
  \/ \E r \in Rotators : Pends(r)

SecretInv ==
  SecretTypes /\ Numbered /\ Standing /\ (\A r \in Rotators : Reaching(r)) /\ Paired /\ Agreeing

\* The commands but one stay as they are.
Others(r) == \A q \in Rotators \ {r} : rotators'[q] = rotators[q]
Places0 == Unlocked \cup UnderLock

LEMMA GoesFacts ==
  ASSUME SecretTypes, NEW r \in Rotators, NEW place \in Places0, Goes1(r, place)
  PROVE  /\ rotators' \in [Rotators -> Commands0] /\ Others(r)
         /\ rotators'[r].at = place /\ rotators'[r].name = rotators[r].name
         /\ rotators'[r].op = rotators[r].op /\ rotators'[r].value = rotators[r].value
  BY DEF SecretTypes, Goes1, Commands0, Others, Places0

LEMMA EndsFacts ==
  ASSUME SecretTypes, NEW r \in Rotators, NEW code \in {0, 1}, Ends1(r, code)
  PROVE  /\ rotators' \in [Rotators -> Commands0] /\ Others(r)
         /\ rotators'[r].at = "ended" /\ rotators'[r].code = code
         /\ rotators'[r].name = rotators[r].name /\ rotators'[r].op = rotators[r].op
  BY DEF SecretTypes, Ends1, Commands0, Others, Resting, Unlocked

LEMMA RestsFacts ==
  ASSUME SecretTypes, NEW r \in Rotators, rotators' = [rotators EXCEPT ![r] = Resting]
  PROVE  /\ rotators' \in [Rotators -> Commands0] /\ Others(r)
         /\ rotators'[r].at = "idle" /\ rotators'[r].op = "none"
  BY DEF SecretTypes, Commands0, Others, Resting, Unlocked

\* A command put into another state.
LEMMA PutFacts ==
  ASSUME SecretTypes, NEW r \in Rotators, NEW command \in Commands0, rotators' = [rotators EXCEPT ![r] = command]
  PROVE  rotators' \in [Rotators -> Commands0] /\ Others(r) /\ rotators'[r] = command
  BY DEF SecretTypes, Others

LEMMA FileFacts ==
  ASSUME SecretTypes, NEW m \in SecretNames, NEW value \in Values0, secretFiles' = [secretFiles EXCEPT ![m] = value]
  PROVE  /\ secretFiles' \in [SecretNames -> Values0] /\ secretFiles'[m] = value
         /\ \A o \in SecretNames \ {m} : secretFiles'[o] = secretFiles[o]
  BY DEF SecretTypes

\* The password and its file agree as before when neither changes and the command that
\* moved was no seeded rotation; and after a failure nothing is claimed.
LEMMA AgreeingKept ==
  ASSUME Agreeing, stored' = stored, \A n \in OfClass("seeded") : secretFiles'[n].n = secretFiles[n].n,
         NEW r \in Rotators, Others(r), rotators[r].at \notin SeededPlaces, seededFails' = seededFails
  PROVE  Agreeing'
  <1>1. \A q \in Rotators : Pends(q) => Pends(q)'
    BY DEF Pends, Others, SeededPlaces
  <1> QED
    BY <1>1 DEF Agreeing, OfClass, SecretNames

LEMMA AgreeingMarked == ASSUME seededFails' = TRUE PROVE Agreeing'
  BY DEF Agreeing

\* A command outside the lock has nothing to reach; one whose files, holdings and record stay
\* is where it was.
LEMMA ReachingOutside ==
  ASSUME NEW q, rotators'[q].at \notin UnderLock
  PROVE  Reaching(q)'
  BY DEF Reaching, UnderLock

LEMMA ReachingSame ==
  ASSUME NEW q, Reaching(q), rotators'[q] = rotators[q], UNCHANGED <<secretFiles, holdings, renderedOf>>
  PROVE  Reaching(q)'
  BY DEF Reaching, Exists, _certificate_matches, None0, CarriedNames, OfKind, MountersOf, CarriersOf

LEMMA NumberedFile ==
  ASSUME SecretTypes, Numbered, NEW r \in Rotators, Others(r) \/ UNCHANGED rotators, rotators'[r].at # "file",
         UNCHANGED renderedOf, drawn' \in {drawn, drawn + 1},
         NEW m \in SecretNames, NEW value \in Values0, secretFiles' = [secretFiles EXCEPT ![m] = value],
         value.n <= drawn', SecretRegistry[m].kind \in {"password", "key"} => value.n > 0
  PROVE  Numbered'
  <1>1. /\ secretFiles'[m] = value /\ \A o \in SecretNames \ {m} : secretFiles'[o] = secretFiles[o]
    BY FileFacts
  <1>2. \A o \in SecretNames : secretFiles'[o].n <= drawn'
    BY <1>1 DEF Numbered, SecretTypes, Values0
  <1>3. \A o \in SecretNames : SecretRegistry[o].kind \in {"password", "key"} => secretFiles'[o].n > 0
    BY <1>1 DEF Numbered
  <1>4. \A o \in CarriedNames : renderedOf'[o].n <= drawn'
    BY DEF Numbered, SecretTypes, Values0
  <1>5. \A q \in Rotators : rotators'[q].at \in {"file"} => rotators'[q].value > 0 /\ rotators'[q].value <= drawn'
    BY DEF Numbered, SecretTypes, Commands0, Others
  <1> QED
    BY <1>2, <1>3, <1>4, <1>5 DEF Numbered

LEMMA NumberedSame ==
  ASSUME Numbered, NEW r \in Rotators, Others(r), rotators'[r].at # "file",
         UNCHANGED <<secretFiles, renderedOf, drawn>>
  PROVE  Numbered'
  BY DEF Numbered, Others, CarriedNames

LEMMA SecretKeeps == ASSUME NEW r \in Rotators, SecretInv, Rotation(r) PROVE SecretInv'
  <1> USE SecretShapes DEF UnderLock, Unlocked, Places0, Values0, Commands0, Others, At0,
              SecretNames, CarriedNames, OfKind, OfClass, MountersOf, CarriersOf, SeededPlaces
  <1>0. SecretTypes /\ Numbered /\ Standing /\ (\A q \in Rotators : Reaching(q)) /\ Paired /\ Agreeing
    BY DEF SecretInv
  <1>1. CASE \E n \in SecretNames : RotateStarts(r, n)
    <2>1. /\ rotators' \in [Rotators -> Commands0] /\ Others(r)
          /\ rotators'[r].at \in {"reset", "claim", "ended"}
          /\ rotators'[r].op = "rotate" /\ rotators'[r].name \in SecretNames
          /\ rotators'[r].at = "reset" => rotators'[r].name \in OfClass("seeded")
          /\ rotators'[r].at = "claim" => rotators'[r].name \in OfClass("rewrite") \cup OfClass("remint")
      <3>1. PICK n \in SecretNames : RotateStarts(r, n)
        BY <1>1
      <3> DEFINE command == IF SecretRegistry[n].rotation \in {"role", "account"} \/ Pending # {}
                            THEN [Resting EXCEPT !.op = "rotate", !.name = n, !.at = "ended", !.code = 1]
                            ELSE [Resting EXCEPT !.op = "rotate", !.name = n,
                                    !.at = IF SecretRegistry[n].rotation = "seeded" THEN "reset" ELSE "claim"]
      <3>2. /\ command \in Commands0 /\ command.at \in {"reset", "claim", "ended"}
            /\ command.op = "rotate" /\ command.name = n
            /\ command.at = "reset" => n \in OfClass("seeded")
            /\ command.at = "claim" => n \in OfClass("rewrite") \cup OfClass("remint")
        BY DEF Resting
      <3>3. rotators' = [rotators EXCEPT ![r] = command]
        BY <3>1 DEF RotateStarts
      <3> HIDE DEF command
      <3>4. rotators' \in [Rotators -> Commands0] /\ Others(r) /\ rotators'[r] = command
        BY ONLY <1>0, r \in Rotators, <3>2, <3>3, PutFacts
      <3> QED
        BY <3>2, <3>4
    <2>2. /\ UNCHANGED <<secretFiles, holdings, renderedOf, stored, drawn, engineLock>>
          /\ rotators[r].at = "idle"
          /\ seededFails' = (seededFails /\ (SeededQuiet => rotators'[r].at # "reset"))
      BY <1>0, <1>1 DEF RotateStarts, TheStack
    <2>3. SecretTypes'
      BY <1>0, <1>1, <2>1, <2>2 DEF SecretTypes
    <2>4. Numbered'
      BY <1>0, <2>1, <2>2, NumberedSame
    <2>5. Standing'
      BY <1>0, <1>1, <2>1, <2>2 DEF SecretTypes, Standing
    <2>6. (\A q \in Rotators : Reaching(q))'
      BY <1>0, <1>1, <2>1, <2>2, SMTT(60) DEF SecretTypes, Reaching, Standing, Numbered, Exists,
         _certificate_matches, None0
    <2>7. Paired'
      BY <1>0, <1>1, <2>1, <2>2, SMTT(60) DEF SecretTypes, Paired, Standing, _certificate_matches
    <2>8. Agreeing'
      <3>1. CASE rotators'[r].at = "reset"
        BY <3>1 DEF Agreeing, Pends
      <3>2. CASE rotators'[r].at # "reset"
        <4>1. seededFails' = seededFails
          BY <1>0, <2>2, <3>2 DEF SecretTypes
        <4> QED
          BY <1>0, <2>1, <2>2, <4>1, AgreeingKept DEF SeededPlaces
      <3> QED
        BY <3>1, <3>2
    <2> QED
      BY <2>3, <2>4, <2>5, <2>6, <2>7, <2>8 DEF SecretInv
  <1>2. CASE ApplyStarts(r)
    <2>1. /\ rotators' \in [Rotators -> Commands0] /\ Others(r)
          /\ rotators'[r].at = "claim" /\ rotators'[r].op = "apply"
      <3> DEFINE command == [Resting EXCEPT !.op = "apply", !.at = "claim"]
      <3>1. command \in Commands0 /\ command.at = "claim" /\ command.op = "apply"
        BY DEF Resting
      <3>2. rotators' = [rotators EXCEPT ![r] = command]
        BY <1>2 DEF ApplyStarts
      <3> HIDE DEF command
      <3>3. rotators' \in [Rotators -> Commands0] /\ Others(r) /\ rotators'[r] = command
        BY ONLY <1>0, r \in Rotators, <3>1, <3>2, PutFacts
      <3> QED
        BY <3>1, <3>3
    <2>2. /\ UNCHANGED <<secretFiles, holdings, renderedOf, stored, drawn, seededFails, engineLock>>
          /\ rotators[r].at = "idle"
      BY <1>0, <1>2 DEF ApplyStarts, TheStack
    <2>3. SecretTypes'
      BY <1>0, <1>2, <2>1, <2>2 DEF SecretTypes
    <2>4. Numbered'
      BY <1>0, <1>2, <2>1, <2>2 DEF SecretTypes, Numbered, Standing
    <2>5. Standing'
      BY <1>0, <1>2, <2>1, <2>2 DEF SecretTypes, Standing
    <2>6. (\A q \in Rotators : Reaching(q))'
      BY <1>0, <1>2, <2>1, <2>2, SMTT(60) DEF SecretTypes, Reaching, Standing, Numbered, Exists,
         _certificate_matches, None0
    <2>7. Paired'
      BY <1>0, <1>2, <2>1, <2>2 DEF SecretTypes, Paired, Standing, _certificate_matches
    <2>8. Agreeing'
      BY <1>0, <2>1, <2>2, AgreeingKept DEF SeededPlaces
    <2> QED
      BY <2>3, <2>4, <2>5, <2>6, <2>7, <2>8 DEF SecretInv
  <1>3. CASE Claims0(r)
    <2>1. CASE UNCHANGED engineLock /\ \E code \in {0, 1} : Ends1(r, code)
      <3>1. /\ rotators' \in [Rotators -> Commands0] /\ Others(r)
            /\ rotators'[r].at = "ended"
            /\ rotators'[r].name = rotators[r].name /\ rotators'[r].op = rotators[r].op
        BY <1>0, <1>3, <2>1, EndsFacts DEF Claims0
      <3>2. /\ UNCHANGED <<secretFiles, holdings, renderedOf, stored, drawn, seededFails, engineLock>>
            /\ rotators[r].at = "claim"
        BY <1>0, <1>3, <2>1 DEF Claims0, TheStack
      <3>3. SecretTypes'
        BY <1>0, <1>3, <2>1, <3>1, <3>2 DEF SecretTypes
      <3>4. Numbered'
        BY <1>0, <1>3, <2>1, <3>1, <3>2 DEF SecretTypes, Numbered, Standing
      <3>5. Standing'
        BY <1>0, <1>3, <2>1, <3>1, <3>2 DEF SecretTypes, Standing
      <3>6. (\A q \in Rotators : Reaching(q))'
        BY <1>0, <1>3, <2>1, <3>1, <3>2, SMTT(60) DEF SecretTypes, Reaching, Standing, Numbered, Exists,
           _certificate_matches, None0
      <3>7. Paired'
        BY <1>0, <1>3, <2>1, <3>1, <3>2 DEF SecretTypes, Paired, Standing, _certificate_matches
      <3>8. Agreeing'
        BY <1>0, <3>1, <3>2, AgreeingKept DEF SeededPlaces
      <3> QED
        BY <3>3, <3>4, <3>5, <3>6, <3>7, <3>8 DEF SecretInv
    <2>2. CASE engineLock = 0 /\ engineLock' = r /\ Goes1(r, IF rotators[r].op = "apply" THEN "ensure" ELSE "write")
      <3>1. /\ rotators' \in [Rotators -> Commands0] /\ Others(r)
            /\ rotators'[r].at = (IF rotators[r].op = "apply" THEN "ensure" ELSE "write")
            /\ rotators'[r].name = rotators[r].name /\ rotators'[r].op = rotators[r].op
        BY <1>0, <1>3, <2>2, GoesFacts DEF Claims0
      <3>2. /\ UNCHANGED <<secretFiles, holdings, renderedOf, stored, drawn, seededFails>>
            /\ rotators[r].at = "claim"
        BY <1>0, <1>3, <2>2 DEF Claims0, TheStack
      <3>3. SecretTypes'
        BY <1>0, <1>3, <2>2, <3>1, <3>2 DEF SecretTypes
      <3>4. Numbered'
        BY <1>0, <3>1, <3>2, NumberedSame
      <3>5. Standing'
        BY <1>0, <1>3, <2>2, <3>1, <3>2 DEF SecretTypes, Standing
      <3>6. (\A q \in Rotators : Reaching(q))'
        BY <1>0, <1>3, <2>2, <3>1, <3>2 DEF SecretTypes, Reaching, Standing, Numbered, Exists,
           _certificate_matches, None0
      <3>7. Paired'
        BY <1>0, <3>1, <3>2 DEF Paired, _certificate_matches
      <3>8. Agreeing'
        BY <1>0, <3>1, <3>2, AgreeingKept DEF SeededPlaces
      <3> QED
        BY <3>3, <3>4, <3>5, <3>6, <3>7, <3>8 DEF SecretInv
    <2> QED
      BY <1>3, <2>1, <2>2 DEF Claims0
  <1>4. CASE rotate_generated(r)
    <2>1. CASE SecretRegistry[rotators[r].name].rotation = "remint"
      <3>1. /\ rotators' \in [Rotators -> Commands0] /\ Others(r)
            /\ rotators'[r].at = "recreate"
            /\ rotators'[r].name = rotators[r].name /\ rotators'[r].op = rotators[r].op
        BY <1>0, <1>4, <2>1, GoesFacts DEF rotate_generated
      <3>2. /\ UNCHANGED <<holdings, renderedOf, stored, engineLock, seededFails>>
            /\ drawn' = drawn /\ rotators[r].at = "write"
            /\ secretFiles' = [secretFiles EXCEPT ![rotators[r].name] = None0]
        BY <1>0, <1>4, <2>1 DEF rotate_generated
      <3>3. SecretTypes'
        BY <1>0, <1>4, <2>1, <3>1, <3>2 DEF SecretTypes, None0
      <3>4. Numbered'
        <4>1. rotators[r].name \in SecretNames /\ SecretRegistry[rotators[r].name].kind = "minted"
          BY <1>0, <2>1, <3>2 DEF Standing
        <4>2. None0 \in Values0 /\ None0.n <= drawn'
          BY <1>0, <3>2 DEF None0, SecretTypes
        <4> QED
          BY ONLY <1>0, r \in Rotators, <3>1, <3>2, <4>1, <4>2, NumberedFile
      <3>5. Standing'
        BY <1>0, <1>4, <2>1, <3>1, <3>2 DEF SecretTypes, Standing, None0
      <3>6. (\A q \in Rotators : Reaching(q))'
        BY <1>0, <1>4, <2>1, <3>1, <3>2 DEF SecretTypes, Reaching, Standing, Numbered, Exists,
           _certificate_matches, None0, None0
      <3>7. Paired'
        BY <1>0, <1>4, <2>1, <3>1, <3>2 DEF SecretTypes, Paired, Standing, _certificate_matches, None0
      <3>8. Agreeing'
        <4>1. rotators[r].name \in SecretNames \ OfClass("seeded")
          BY <1>0, <2>1, <3>2 DEF Standing
        <4>2. \A n \in OfClass("seeded") : secretFiles'[n].n = secretFiles[n].n
          BY <1>0, <3>2, <4>1 DEF SecretTypes
        <4> QED
          BY <1>0, <2>1, <3>1, <3>2, <4>2, AgreeingKept DEF SeededPlaces
      <3> QED
        BY <3>3, <3>4, <3>5, <3>6, <3>7, <3>8 DEF SecretInv
    <2>2. CASE SecretRegistry[rotators[r].name].rotation # "remint"
      <3>1. /\ rotators' \in [Rotators -> Commands0] /\ Others(r)
            /\ rotators'[r].at = (IF SecretRegistry[rotators[r].name].kind = "key" THEN "certify" ELSE "recreate")
            /\ rotators'[r].name = rotators[r].name /\ rotators'[r].op = rotators[r].op
        BY <1>0, <1>4, <2>2, GoesFacts DEF rotate_generated
      <3>2. /\ UNCHANGED <<holdings, renderedOf, stored, engineLock, seededFails>>
            /\ drawn' = drawn + 1 /\ rotators[r].at = "write"
            /\ secretFiles' = [secretFiles EXCEPT ![rotators[r].name] =
                  [n |-> drawn', of |-> IF SecretRegistry[rotators[r].name].kind = "certificate"
                                        THEN secretFiles[SecretRegistry[rotators[r].name].from].n ELSE 0]]
        BY <1>0, <1>4, <2>2 DEF rotate_generated, Draws
      <3>3. SecretTypes' /\ Numbered'
        <4> DEFINE value == [n |-> drawn', of |-> IF SecretRegistry[rotators[r].name].kind = "certificate"
                                                  THEN secretFiles[SecretRegistry[rotators[r].name].from].n ELSE 0]
        <4>1. rotators[r].name \in SecretNames
          BY <1>0, <3>2 DEF Standing
        <4>2. value \in Values0 /\ value.n <= drawn' /\ value.n > 0
          BY <1>0, <3>2, <4>1 DEF SecretTypes
        <4>3. secretFiles' = [secretFiles EXCEPT ![rotators[r].name] = value]
          BY <3>2
        <4>4. drawn' \in {drawn, drawn + 1} /\ UNCHANGED renderedOf
          BY <3>2
        <4>5. Others(r) /\ rotators'[r].at # "file"
          BY <3>1
        <4> HIDE DEF value
        <4>6. Numbered'
          BY ONLY <1>0, r \in Rotators, <4>1, <4>2, <4>3, <4>4, <4>5, NumberedFile
        <4>7. secretFiles' \in [SecretNames -> Values0]
          BY <1>0, <4>1, <4>2, <4>3, FileFacts
        <4> QED
          BY <1>0, <3>1, <3>2, <4>6, <4>7 DEF SecretTypes
      <3>5. Standing'
        BY <1>0, <1>4, <2>2, <3>1, <3>2 DEF SecretTypes, Standing
      <3>6. (\A q \in Rotators : Reaching(q))'
        <4> SUFFICES ASSUME NEW q \in Rotators PROVE Reaching(q)'
          OBVIOUS
        <4>1. CASE q = r
          <5>0. PICK n : n = rotators[r].name
            OBVIOUS
          <5>1. n \in SecretNames /\ rotators'[r].name = n
            BY <1>0, <3>1, <3>2, <5>0 DEF Standing
          <5>2. /\ secretFiles'[n].n = drawn + 1
                /\ n \in OfKind("certificate") => secretFiles'[n].of = secretFiles[SecretRegistry[n].from].n
            BY <1>0, <3>2, <5>0, <5>1 DEF SecretTypes
          <5>3. n \in CarriedNames => renderedOf'[n] # secretFiles'[n]
            BY <1>0, <3>2, <5>2 DEF SecretTypes, Numbered
          <5>4. n \in OfKind("certificate") => Exists(n)' /\ _certificate_matches(n)'
            <6> SUFFICES ASSUME n \in OfKind("certificate") PROVE Exists(n)' /\ _certificate_matches(n)'
              OBVIOUS
            <6>1. SecretRegistry[n].from # n
              BY SecretShapes, <5>1
            <6>2. secretFiles'[SecretRegistry[n].from] = secretFiles[SecretRegistry[n].from]
              BY <1>0, <3>2, <5>0, <6>1, SecretShapes DEF SecretTypes
            <6> QED
              BY <1>0, <5>2, <6>2 DEF SecretTypes, Exists, _certificate_matches, None0
          <5> QED
            BY <3>1, <4>1, <5>1, <5>3, <5>4 DEF Reaching
        <4>2. CASE q # r
          <5>1. rotators'[q] = rotators[q]
            BY <3>1, <4>2 DEF Others
          <5>2. rotators[q].at \notin UnderLock
            BY <1>0, <3>2, <4>2 DEF Standing, UnderLock
          <5> QED
            BY <5>1, <5>2, ReachingOutside
        <4> QED
          BY <4>1, <4>2
      <3>7. Paired'
        BY <1>0, <1>4, <2>2, <3>1, <3>2 DEF SecretTypes, Paired, Standing, _certificate_matches
      <3>8. Agreeing'
        <4>1. rotators[r].name \in SecretNames \ OfClass("seeded")
          BY <1>0, <3>2 DEF Standing
        <4>2. \A n \in OfClass("seeded") : secretFiles'[n].n = secretFiles[n].n
          BY <1>0, <3>2, <4>1 DEF SecretTypes
        <4>3. rotators[r].at \notin SeededPlaces
          BY <3>2 DEF SeededPlaces
        <4> QED
          BY ONLY <1>0, r \in Rotators, <3>1, <3>2, <4>2, <4>3, AgreeingKept
      <3> QED
        BY <3>3, <3>5, <3>6, <3>7, <3>8 DEF SecretInv
    <2> QED
      BY <1>4, <2>1, <2>2 DEF rotate_generated
  <1>5. CASE _issue_certificate(r)
    <2>1. /\ rotators' \in [Rotators -> Commands0] /\ Others(r)
          /\ rotators'[r].at = "recreate"
          /\ rotators'[r].name = rotators[r].name /\ rotators'[r].op = rotators[r].op
      BY <1>0, <1>5, GoesFacts DEF _issue_certificate
    <2>2. /\ UNCHANGED <<holdings, renderedOf, stored, engineLock, seededFails>>
          /\ drawn' = drawn + 1 /\ rotators[r].at = "certify"
          /\ issued_certificate(rotators[r].name) \in OfKind("certificate")
          /\ SecretRegistry[issued_certificate(rotators[r].name)].from = rotators[r].name
          /\ secretFiles' = [secretFiles EXCEPT ![issued_certificate(rotators[r].name)] =
                                 [n |-> drawn', of |-> secretFiles[rotators[r].name].n]]
      BY <1>0, <1>5 DEF _issue_certificate, issued_certificate, Draws, Standing
    <2>3. SecretTypes'
      BY <1>0, <1>5, <2>1, <2>2 DEF SecretTypes
    <2>4. Numbered'
      <3>1. issued_certificate(rotators[r].name) \in SecretNames /\ rotators[r].name \in SecretNames
        BY <1>0, <2>2 DEF Standing
      <3>2. [n |-> drawn', of |-> secretFiles[rotators[r].name].n] \in Values0
        BY <1>0, <2>2, <3>1 DEF SecretTypes
      <3>3. drawn' \in {drawn, drawn + 1} /\ drawn' > 0 /\ [n |-> drawn', of |-> secretFiles[rotators[r].name].n].n <= drawn'
        BY <1>0, <2>2 DEF SecretTypes
      <3>4. rotators'[r].at # "file"
        BY <2>1
      <3>5. [n |-> drawn', of |-> secretFiles[rotators[r].name].n].n > 0
        BY <3>3
      <3> QED
        BY ONLY <1>0, r \in Rotators, <2>1, <2>2, <3>1, <3>2, <3>3, <3>4, <3>5, NumberedFile
    <2>5. Standing'
      BY <1>0, <1>5, <2>1, <2>2 DEF SecretTypes, Standing
    <2>6. (\A q \in Rotators : Reaching(q))'
      BY <1>0, <1>5, <2>1, <2>2 DEF SecretTypes, Reaching, Standing, Numbered, Exists,
         _certificate_matches, None0
    <2>7. Paired'
      BY <1>0, <1>5, <2>1, <2>2 DEF SecretTypes, Paired, Standing, _certificate_matches
    <2>8. Agreeing'
      BY <1>0, <2>1, <2>2, AgreeingKept DEF SeededPlaces
    <2> QED
      BY <2>3, <2>4, <2>5, <2>6, <2>7, <2>8 DEF SecretInv
  <1>6. CASE _recreate(r)
    <2>1. /\ rotators' \in [Rotators -> Commands0] /\ Others(r)
          /\ rotators'[r].at = "ensure"
          /\ rotators'[r].name = rotators[r].name /\ rotators'[r].op = rotators[r].op
      BY <1>0, <1>6, GoesFacts DEF _recreate
    <2>2. /\ UNCHANGED <<secretFiles, renderedOf, stored, engineLock, seededFails, drawn>>
          /\ rotators[r].at = "recreate"
          /\ DOMAIN holdings' = DOMAIN holdings
          /\ \A s \in MountersOf(rotators[r].name) : holdings'[s][rotators[r].name] = secretFiles[rotators[r].name]
      BY <1>0, <1>6 DEF _recreate, MountersRecreated, Recreated, Mounted, Services0, SecretTypes, Standing
    <2>3. SecretTypes'
      BY <1>0, <1>6, <2>1, <2>2 DEF SecretTypes
    <2>4. Numbered'
      BY <1>0, <1>6, <2>1, <2>2, SMTT(60) DEF SecretTypes, Numbered, Standing
    <2>5. Standing'
      BY <1>0, <1>6, <2>1, <2>2 DEF SecretTypes, Standing
    <2>6. (\A q \in Rotators : Reaching(q))'
      BY <1>0, <1>6, <2>1, <2>2 DEF SecretTypes, Reaching, Standing, Numbered, Exists,
         _certificate_matches, None0
    <2>7. Paired'
      BY <1>0, <1>6, <2>1, <2>2 DEF SecretTypes, Paired, Standing, _certificate_matches
    <2>8. Agreeing'
      BY <1>0, <2>1, <2>2, AgreeingKept DEF SeededPlaces
    <2> QED
      BY <2>3, <2>4, <2>5, <2>6, <2>7, <2>8 DEF SecretInv
  <1>7. CASE ensure_generated(r)
    <2>1. CASE Repairs = {}
      <3>1. /\ rotators' \in [Rotators -> Commands0] /\ Others(r)
            /\ rotators'[r].at = "render"
            /\ rotators'[r].name = rotators[r].name /\ rotators'[r].op = rotators[r].op
        BY <1>0, <1>7, <2>1, GoesFacts DEF ensure_generated
      <3>2. /\ UNCHANGED <<holdings, renderedOf, stored, engineLock, seededFails, drawn, secretFiles>>
            /\ rotators[r].at = "ensure"
        BY <1>0, <1>7, <2>1 DEF ensure_generated
      <3>3. SecretTypes'
        BY <1>0, <1>7, <2>1, <3>1, <3>2 DEF SecretTypes, Repairs, Lacking, Unmatched
      <3>4. Numbered'
        BY <1>0, <1>7, <2>1, <3>1, <3>2 DEF SecretTypes, Numbered, Standing, Repairs, Lacking, Unmatched
      <3>5. Standing'
        BY <1>0, <1>7, <2>1, <3>1, <3>2 DEF SecretTypes, Standing, Repairs, Lacking, Unmatched
      <3>6. (\A q \in Rotators : Reaching(q))'
        BY <1>0, <1>7, <2>1, <3>1, <3>2 DEF SecretTypes, Reaching, Standing, Numbered, Exists,
           _certificate_matches, None0, Repairs, Lacking, Unmatched
      <3>7. Paired'
        BY <1>0, <1>7, <2>1, <3>1, <3>2 DEF SecretTypes, Paired, Standing, _certificate_matches,
           Repairs, Lacking, Unmatched
      <3>8. Agreeing'
        BY <1>0, <3>1, <3>2, AgreeingKept DEF SeededPlaces
      <3> QED
        BY <3>3, <3>4, <3>5, <3>6, <3>7, <3>8 DEF SecretInv
    <2>2. CASE Repairs # {}
      <3>1. /\ UNCHANGED rotators
        BY <1>0, <1>7, <2>2 DEF ensure_generated
      <3>2. /\ UNCHANGED <<holdings, renderedOf, stored, engineLock, seededFails>>
            /\ drawn' = drawn + 1 /\ rotators[r].at = "ensure"
            /\ \E c \in OfKind("certificate") : /\ ~Exists(c) \/ ~_certificate_matches(c)
                                         /\ secretFiles' = [secretFiles EXCEPT ![c] = [n |-> drawn', of |-> secretFiles[SecretRegistry[c].from].n]]
        BY <1>0, <1>7, <2>2 DEF ensure_generated, Repairs, Lacking, Unmatched, Exists, None0,
           Numbered, Draws
      <3>3. SecretTypes'
        BY <1>0, <1>7, <2>2, <3>1, <3>2 DEF SecretTypes
      <3>4. Numbered'
        BY <1>0, <1>7, <2>2, <3>1, <3>2 DEF SecretTypes, Numbered, Standing
      <3>5. Standing'
        BY <1>0, <1>7, <2>2, <3>1, <3>2 DEF SecretTypes, Standing
      <3>6. (\A q \in Rotators : Reaching(q))'
        BY <1>0, <1>7, <2>2, <3>1, <3>2, SMTT(60) DEF SecretTypes, Reaching, Standing, Numbered, Exists,
           _certificate_matches, None0
      <3>7. Paired'
        BY <1>0, <1>7, <2>2, <3>1, <3>2 DEF SecretTypes, Paired, Standing, _certificate_matches
      <3>8. Agreeing'
        BY <1>0, <3>1, <3>2, AgreeingKept DEF SeededPlaces
      <3> QED
        BY <3>3, <3>4, <3>5, <3>6, <3>7, <3>8 DEF SecretInv
    <2> QED
      BY <1>7, <2>1, <2>2 DEF ensure_generated
  <1>8. CASE Converges0(r)
    <2>1. /\ rotators' \in [Rotators -> Commands0] /\ Others(r)
          /\ rotators'[r].at = "manifest"
          /\ rotators'[r].name = rotators[r].name /\ rotators'[r].op = rotators[r].op
      BY <1>0, <1>8, GoesFacts DEF Converges0
    <2>2. /\ UNCHANGED <<secretFiles, renderedOf, stored, engineLock, seededFails, drawn>>
          /\ rotators[r].at = "render"
          /\ DOMAIN holdings' = DOMAIN holdings
          /\ \A s \in DOMAIN holdings, n \in SecretNames : holdings'[s][n] \in {holdings[s][n], secretFiles[n]}
          /\ \A n \in CarriedNames : renderedOf[n] # secretFiles[n] =>
               \A s \in CarriersOf(n) : holdings'[s][n] = secretFiles[n]
      <3> DEFINE again == UNION {CarriersOf(n) : n \in Pending}
      <3>1. /\ UNCHANGED <<secretFiles, renderedOf, stored, engineLock, seededFails, drawn>>
            /\ rotators[r].at = "render"
            /\ holdings' = [s \in DOMAIN holdings |->
                 [n \in SecretNames |-> IF s \in again /\ s \in CarriersOf(n) THEN secretFiles[n]
                                                                             ELSE Recreated(again)[s][n]]]
        BY <1>8 DEF Converges0
      <3>2. \A s \in DOMAIN holdings, n \in SecretNames : Recreated(again)[s][n] \in {holdings[s][n], secretFiles[n]}
        BY DEF Recreated
      <3>3. ASSUME NEW n \in CarriedNames, renderedOf[n] # secretFiles[n], NEW s \in CarriersOf(n)
            PROVE  s \in again /\ s \in DOMAIN holdings
        BY <1>0, <3>3, SMTT(60) DEF Pending, SecretTypes, Services0
      <3> HIDE DEF again
      <3>4. \A s \in DOMAIN holdings, n \in SecretNames :
              holdings'[s][n] = IF s \in again /\ s \in CarriersOf(n) THEN secretFiles[n] ELSE Recreated(again)[s][n]
        BY <3>1
      <3> QED
        BY <3>1, <3>2, <3>3, <3>4
    <2>3. SecretTypes'
      BY <1>0, <1>8, <2>1, <2>2 DEF SecretTypes, Services0
    <2>4. Numbered'
      BY <1>0, <1>8, <2>1, <2>2 DEF SecretTypes, Numbered, Standing, Services0
    <2>5. Standing'
      BY <1>0, <1>8, <2>1, <2>2 DEF SecretTypes, Standing, Services0
    <2>6. (\A q \in Rotators : Reaching(q))'
      <3> SUFFICES ASSUME NEW q \in Rotators PROVE Reaching(q)'
        OBVIOUS
      <3>1. CASE q # r
        BY <1>0, <2>1, <2>2, <3>1, ReachingOutside DEF Standing
      <3>2. CASE q = r /\ rotators[r].op = "rotate"
        <4> DEFINE n == rotators[r].name
        <4>1. n \in SecretNames /\ MountersOf(n) \subseteq DOMAIN holdings /\ CarriersOf(n) \subseteq DOMAIN holdings
          BY <1>0, <2>2, <3>2 DEF Standing, SecretTypes, Services0
        <4>2. SecretRegistry[n].kind # "minted" => \A s \in MountersOf(n) : holdings'[s][n] = secretFiles[n]
          BY <1>0, <2>2, <3>2, <4>1 DEF Reaching
        <4>3. SecretRegistry[n].kind # "minted" => \A s \in CarriersOf(n) : holdings'[s][n] = secretFiles[n]
          <5>1. CASE n \in CarriedNames
            BY <1>0, <2>2, <3>2, <5>1 DEF Reaching
          <5>2. CASE n \notin CarriedNames
            BY <4>1, <5>2
          <5> QED BY <5>1, <5>2
        <4> QED
          BY <2>1, <2>2, <3>2, <4>2, <4>3 DEF Reaching
      <3>3. CASE q = r /\ rotators[r].op # "rotate"
        BY <2>1, <3>3 DEF Reaching
      <3> QED
        BY <3>1, <3>2, <3>3
    <2>7. Paired'
      BY <1>0, <1>8, <2>1, <2>2 DEF SecretTypes, Paired, Standing, _certificate_matches, Services0
    <2>8. Agreeing'
      BY <1>0, <2>1, <2>2, AgreeingKept DEF SeededPlaces
    <2> QED
      BY <2>3, <2>4, <2>5, <2>6, <2>7, <2>8 DEF SecretInv
  <1>9. CASE MintsAgain(r)
    <2>1. /\ rotators' \in [Rotators -> Commands0] /\ Others(r)
          /\ rotators'[r].at \in {"manifest", "record"}
          /\ rotators'[r].name = rotators[r].name /\ rotators'[r].op = rotators[r].op
      BY <1>0, <1>9, GoesFacts DEF MintsAgain
    <2>2. /\ UNCHANGED <<holdings, renderedOf, stored, engineLock, seededFails>>
          /\ drawn' \in {drawn, drawn + 1} /\ rotators[r].at = "manifest"
          /\ secretFiles' = secretFiles \/ \E n \in OfKind("minted") :
                                       secretFiles' = [secretFiles EXCEPT ![n] = [n |-> drawn', of |-> 0]]
      BY <1>0, <1>9 DEF MintsAgain, Draws
    <2>0. /\ secretFiles' \in [SecretNames -> Values0] /\ drawn' \in Nat /\ drawn' > 0
          /\ \A o \in SecretNames : SecretRegistry[o].kind # "minted" => secretFiles'[o] = secretFiles[o]
          /\ \A o \in SecretNames : secretFiles'[o].n <= drawn'
      <3>1. CASE secretFiles' = secretFiles
        BY <1>0, <2>2, <3>1 DEF SecretTypes, Numbered
      <3>2. CASE secretFiles' # secretFiles
        <4>1. PICK m \in OfKind("minted") : secretFiles' = [secretFiles EXCEPT ![m] = [n |-> drawn', of |-> 0]]
          BY <2>2, <3>2
        <4>2. drawn' \in Nat /\ drawn' > 0 /\ [n |-> drawn', of |-> 0] \in Values0
          BY <1>0, <2>2 DEF SecretTypes
        <4>3. /\ secretFiles' \in [SecretNames -> Values0] /\ secretFiles'[m].n = drawn'
              /\ \A o \in SecretNames \ {m} : secretFiles'[o] = secretFiles[o]
          BY <1>0, <4>1, <4>2, FileFacts
        <4> QED
          BY <1>0, <2>2, <4>1, <4>2, <4>3 DEF SecretTypes, Numbered
      <3> QED
        BY <3>1, <3>2
    <2>3. SecretTypes'
      BY <1>0, <2>0, <2>1, <2>2 DEF SecretTypes
    <2>4. Numbered'
      BY <1>0, <2>0, <2>1, <2>2, SMTT(60) DEF SecretTypes, Numbered
    <2>5. Standing'
      BY <1>0, <1>9, <2>1, <2>2 DEF SecretTypes, Standing
    <2>6. (\A q \in Rotators : Reaching(q))'
      BY <1>0, <1>9, <2>1, <2>2 DEF SecretTypes, Reaching, Standing, Numbered, Exists,
         _certificate_matches, None0
    <2>7. Paired'
      BY <1>0, <1>9, <2>1, <2>2 DEF SecretTypes, Paired, Standing, _certificate_matches
    <2>8. Agreeing'
      BY <1>0, <2>0, <2>1, <2>2, AgreeingKept, SMTT(60) DEF SeededPlaces
    <2> QED
      BY <2>3, <2>4, <2>5, <2>6, <2>7, <2>8 DEF SecretInv
  <1>10. CASE Records1(r)
    <2>1. /\ rotators' \in [Rotators -> Commands0] /\ Others(r)
          /\ rotators'[r].at = "ended"
          /\ rotators'[r].name = rotators[r].name /\ rotators'[r].op = rotators[r].op
      BY <1>0, <1>10, EndsFacts DEF Records1
    <2>2. /\ UNCHANGED <<secretFiles, holdings, stored, seededFails, drawn>> /\ rotators[r].at = "record"
          /\ renderedOf' = [n \in CarriedNames |-> secretFiles[n]] /\ engineLock' = 0
      BY <1>0, <1>10 DEF Records1
    <2>3. SecretTypes'
      BY <1>0, <1>10, <2>1, <2>2 DEF SecretTypes
    <2>4. Numbered'
      BY <1>0, <1>10, <2>1, <2>2 DEF SecretTypes, Numbered, Standing
    <2>5. Standing'
      BY <1>0, <1>10, <2>1, <2>2 DEF SecretTypes, Standing
    <2>6. (\A q \in Rotators : Reaching(q))'
      BY <1>0, <1>10, <2>1, <2>2 DEF SecretTypes, Reaching, Standing, Numbered, Exists,
         _certificate_matches, None0
    <2>7. Paired'
      BY <1>0, <1>10, <2>1, <2>2 DEF SecretTypes, Paired, Standing, _certificate_matches
    <2>8. Agreeing'
      BY <1>0, <2>1, <2>2, AgreeingKept DEF SeededPlaces
    <2> QED
      BY <2>3, <2>4, <2>5, <2>6, <2>7, <2>8 DEF SecretInv
  <1>11. CASE _reset(r)
    <2>1. CASE /\ stored' = drawn' /\ UNCHANGED <<seededFails, snags>>
               /\ rotators' = [rotators EXCEPT ![r] = [@ EXCEPT !.at = "file", !.value = drawn']]
      <3>1. /\ rotators' \in [Rotators -> Commands0] /\ Others(r)
            /\ rotators'[r].at = "file" /\ rotators'[r].value = drawn + 1
            /\ rotators'[r].name = rotators[r].name /\ rotators'[r].op = rotators[r].op
        <4> DEFINE command == [rotators[r] EXCEPT !.at = "file", !.value = drawn']
        <4>1. drawn' = drawn + 1
          BY <1>11 DEF _reset, Draws
        <4>2. /\ command \in Commands0 /\ command.at = "file" /\ command.value = drawn + 1
              /\ command.name = rotators[r].name /\ command.op = rotators[r].op
          <5>1. rotators[r] \in Commands0 /\ drawn + 1 \in Nat
            BY <1>0 DEF SecretTypes
          <5> QED
            BY <4>1, <5>1
        <4>3. rotators' = [rotators EXCEPT ![r] = command]
          BY <2>1
        <4> HIDE DEF command
        <4>4. rotators' \in [Rotators -> Commands0] /\ Others(r) /\ rotators'[r] = command
          BY ONLY <1>0, r \in Rotators, <4>2, <4>3, PutFacts
        <4> QED
          BY <4>2, <4>4
      <3>2. /\ UNCHANGED <<secretFiles, holdings, renderedOf, engineLock>>
            /\ drawn' = drawn + 1 /\ rotators[r].at = "reset"
        BY <1>0, <1>11, <2>1 DEF _reset, Draws
      <3>3. SecretTypes'
        BY <1>0, <1>11, <2>1, <3>1, <3>2 DEF SecretTypes
      <3>4. Numbered'
        <4>1. drawn \in Nat /\ drawn + 1 \in Nat
          BY <1>0 DEF SecretTypes
        <4>2. \A q \in Rotators : rotators'[q].at \in {"file"} => rotators'[q].value > 0 /\ rotators'[q].value <= drawn'
          BY <1>0, <3>1, <3>2, <4>1 DEF SecretTypes, Numbered
        <4>3. \A n \in SecretNames : secretFiles'[n].n <= drawn'
          BY <1>0, <3>2, <4>1 DEF SecretTypes, Numbered
        <4>4. \A n \in CarriedNames : renderedOf'[n].n <= drawn'
          BY <1>0, <3>2, <4>1 DEF SecretTypes, Numbered
        <4> QED
          BY <1>0, <3>2, <4>2, <4>3, <4>4 DEF Numbered
      <3>5. Standing'
        BY <1>0, <1>11, <2>1, <3>1, <3>2 DEF SecretTypes, Standing
      <3>6. (\A q \in Rotators : Reaching(q))'
        <4> SUFFICES ASSUME NEW q \in Rotators PROVE Reaching(q)'
          OBVIOUS
        <4>1. CASE q = r
          BY <3>1, <3>2, <4>1, ReachingOutside
        <4>2. CASE q # r
          BY <1>0, <3>1, <3>2, <4>2, ReachingSame
        <4> QED
          BY <4>1, <4>2
      <3>7. Paired'
        BY <1>0, <1>11, <2>1, <3>1, <3>2 DEF SecretTypes, Paired, Standing, _certificate_matches
      <3>8. Agreeing'
        BY <3>1 DEF Agreeing, Pends
      <3> QED
        BY <3>3, <3>4, <3>5, <3>6, <3>7, <3>8 DEF SecretInv
    <2>2. CASE Ends1(r, 1) /\ seededFails' = TRUE /\ stored' \in {stored, drawn'}
      <3>1. /\ rotators' \in [Rotators -> Commands0] /\ Others(r)
            /\ rotators'[r].at = "ended"
            /\ rotators'[r].name = rotators[r].name /\ rotators'[r].op = rotators[r].op
        BY <1>0, <1>11, <2>2, EndsFacts DEF _reset
      <3>2. /\ UNCHANGED <<secretFiles, holdings, renderedOf, engineLock>>
            /\ drawn' = drawn + 1 /\ rotators[r].at = "reset"
        BY <1>0, <1>11, <2>2 DEF _reset, Draws
      <3>3. SecretTypes'
        BY <1>0, <1>11, <2>2, <3>1, <3>2 DEF SecretTypes
      <3>4. Numbered'
        <4>1. drawn \in Nat /\ drawn + 1 \in Nat
          BY <1>0 DEF SecretTypes
        <4>2. \A q \in Rotators : rotators'[q].at \in {"file"} => rotators'[q].value > 0 /\ rotators'[q].value <= drawn'
          BY <1>0, <3>1, <3>2, <4>1 DEF SecretTypes, Numbered, Others
        <4>3. \A n \in SecretNames : secretFiles'[n].n <= drawn'
          BY <1>0, <3>2, <4>1 DEF SecretTypes, Numbered
        <4>4. \A n \in CarriedNames : renderedOf'[n].n <= drawn'
          BY <1>0, <3>2, <4>1 DEF SecretTypes, Numbered
        <4> QED
          BY <1>0, <3>2, <4>2, <4>3, <4>4 DEF Numbered
      <3>5. Standing'
        BY <1>0, <1>11, <2>2, <3>1, <3>2 DEF SecretTypes, Standing
      <3>6. (\A q \in Rotators : Reaching(q))'
        <4> SUFFICES ASSUME NEW q \in Rotators PROVE Reaching(q)'
          OBVIOUS
        <4>1. CASE q = r
          BY <3>1, <3>2, <4>1, ReachingOutside
        <4>2. CASE q # r
          BY <1>0, <3>1, <3>2, <4>2, ReachingSame
        <4> QED
          BY <4>1, <4>2
      <3>7. Paired'
        BY <1>0, <1>11, <2>2, <3>1, <3>2 DEF SecretTypes, Paired, Standing, _certificate_matches
      <3>8. Agreeing'
        BY <2>2, AgreeingMarked
      <3> QED
        BY <3>3, <3>4, <3>5, <3>6, <3>7, <3>8 DEF SecretInv
    <2> QED
      BY <1>11, <2>1, <2>2 DEF _reset
  <1>12. CASE _write_seeded(r)
    <2>1. /\ rotators' \in [Rotators -> Commands0] /\ Others(r)
          /\ rotators'[r].at = "sign-in"
          /\ rotators'[r].name = rotators[r].name /\ rotators'[r].op = rotators[r].op
      BY <1>0, <1>12, GoesFacts DEF _write_seeded
    <2>2. /\ UNCHANGED <<holdings, renderedOf, stored, engineLock, seededFails, drawn>>
          /\ rotators[r].at = "file"
          /\ secretFiles' = [secretFiles EXCEPT ![rotators[r].name] = [n |-> rotators[r].value, of |-> 0]]
      BY <1>0, <1>12 DEF _write_seeded
    <2>3. SecretTypes'
      <3>1. rotators[r].name \in SecretNames /\ [n |-> rotators[r].value, of |-> 0] \in Values0
        BY <1>0, <2>2 DEF Standing, SecretTypes
      <3>2. secretFiles' \in [SecretNames -> Values0]
        BY ONLY <1>0, <2>2, <3>1, FileFacts
      <3> QED
        BY <1>0, <2>1, <2>2, <3>2 DEF SecretTypes
    <2>4. Numbered'
      BY <1>0, <1>12, <2>1, <2>2 DEF SecretTypes, Numbered, Standing
    <2>5. Standing'
      BY <1>0, <1>12, <2>1, <2>2 DEF SecretTypes, Standing
    <2>6. (\A q \in Rotators : Reaching(q))'
      BY <1>0, <1>12, <2>1, <2>2, SMTT(60) DEF SecretTypes, Reaching, Standing, Numbered, Exists,
         _certificate_matches, None0
    <2>7. Paired'
      BY <1>0, <1>12, <2>1, <2>2, SMTT(60) DEF SecretTypes, Paired, Standing, _certificate_matches
    <2>8. Agreeing'
      BY <2>1 DEF Agreeing, Pends
    <2> QED
      BY <2>3, <2>4, <2>5, <2>6, <2>7, <2>8 DEF SecretInv
  <1>13. CASE verify_sign_in(r)
    <2>1. /\ rotators' \in [Rotators -> Commands0] /\ Others(r)
          /\ rotators'[r].at = "ended"
          /\ rotators'[r].name = rotators[r].name /\ rotators'[r].op = rotators[r].op
      BY <1>0, <1>13, EndsFacts DEF verify_sign_in
    <2>2. /\ UNCHANGED <<secretFiles, holdings, renderedOf, stored, engineLock, drawn>>
          /\ rotators[r].at = "signing"
          /\ \/ seededFails' = TRUE
             \/ seededFails' = seededFails /\ rotators[r].value = stored
      BY <1>0, <1>13 DEF verify_sign_in, TheStack, SignsIn
    <2>3. SecretTypes'
      BY <1>0, <1>13, <2>1, <2>2 DEF SecretTypes
    <2>4. Numbered'
      BY <1>0, <1>13, <2>1, <2>2 DEF SecretTypes, Numbered, Standing
    <2>5. Standing'
      BY <1>0, <1>13, <2>1, <2>2 DEF SecretTypes, Standing
    <2>6. (\A q \in Rotators : Reaching(q))'
      BY <1>0, <1>13, <2>1, <2>2, SMTT(60) DEF SecretTypes, Reaching, Standing, Numbered, Exists,
         _certificate_matches, None0
    <2>7. Paired'
      BY <1>0, <1>13, <2>1, <2>2 DEF SecretTypes, Paired, Standing, _certificate_matches
    <2>8. Agreeing'
      <3>1. CASE seededFails' = TRUE
        BY <3>1, AgreeingMarked
      <3>2. CASE seededFails' = seededFails /\ rotators[r].value = stored
        <4>1. \A q \in Rotators : Pends(q) => Pends(q)'
          BY <2>1, <2>2, <3>2 DEF Pends
        <4> QED
          BY <1>0, <2>2, <3>2, <4>1 DEF Agreeing
      <3> QED
        BY <2>2, <3>1, <3>2
    <2> QED
      BY <2>3, <2>4, <2>5, <2>6, <2>7, <2>8 DEF SecretInv
  <1>17. CASE _verify_sign_in(r)
    <2> DEFINE read == secretFiles[rotators[r].name].n
    <2>0. rotators[r].at = "sign-in" /\ rotators[r].name \in SecretNames /\ read \in Nat
      BY <1>0, <1>17 DEF _verify_sign_in, Standing, SecretTypes, SeededPlaces
    <2>1. /\ rotators' \in [Rotators -> Commands0] /\ Others(r)
          /\ rotators'[r].at = "signing" /\ rotators'[r].value = read
          /\ rotators'[r].name = rotators[r].name /\ rotators'[r].op = rotators[r].op
      <3> DEFINE command == [rotators[r] EXCEPT !.at = "signing", !.value = read]
      <3>1. /\ command \in Commands0 /\ command.at = "signing" /\ command.value = read
            /\ command.name = rotators[r].name /\ command.op = rotators[r].op
        <4>1. rotators[r] \in Commands0
          BY <1>0 DEF SecretTypes
        <4> QED
          BY <2>0, <4>1
      <3>2. rotators' = [rotators EXCEPT ![r] = command]
        BY <1>17 DEF _verify_sign_in
      <3> HIDE DEF command
      <3>3. rotators' \in [Rotators -> Commands0] /\ Others(r) /\ rotators'[r] = command
        BY ONLY <1>0, r \in Rotators, <3>1, <3>2, PutFacts
      <3> QED
        BY <3>1, <3>3
    <2>2. UNCHANGED <<secretFiles, holdings, renderedOf, stored, engineLock, drawn, seededFails>>
      BY <1>17 DEF _verify_sign_in, TheStack
    <2>3. SecretTypes'
      BY <1>0, <2>1, <2>2 DEF SecretTypes
    <2>4. Numbered'
      BY <1>0, <2>1, <2>2, NumberedSame
    <2>5. Standing'
      BY <1>0, <2>0, <2>1, <2>2 DEF SecretTypes, Standing, SeededPlaces
    <2>6. (\A q \in Rotators : Reaching(q))'
      <3> SUFFICES ASSUME NEW q \in Rotators PROVE Reaching(q)'
        OBVIOUS
      <3>1. CASE q = r
        BY <2>1, <3>1, ReachingOutside
      <3>2. CASE q # r
        BY <1>0, <2>1, <2>2, <3>2, ReachingSame
      <3> QED
        BY <3>1, <3>2
    <2>7. Paired'
      BY <1>0, <2>1, <2>2 DEF SecretTypes, Paired, _certificate_matches
    <2>8. Agreeing'
      <3>2. CASE read = stored
        <4>1. \A n \in OfClass("seeded") : n = rotators[r].name
          BY <1>0, <2>0 DEF Standing, SeededPlaces
        <4> QED
          BY <2>2, <3>2, <4>1 DEF Agreeing
      <3>3. CASE read # stored
        BY <2>1, <2>2, <3>3 DEF Agreeing, Pends
      <3> QED
        BY <3>2, <3>3
    <2> QED
      BY <2>3, <2>4, <2>5, <2>6, <2>7, <2>8 DEF SecretInv
  <1>14. CASE StageFails(r)
    <2>1. /\ rotators' \in [Rotators -> Commands0] /\ Others(r)
          /\ rotators'[r].at = "ended"
          /\ rotators'[r].name = rotators[r].name /\ rotators'[r].op = rotators[r].op
      BY <1>0, <1>14, EndsFacts DEF StageFails
    <2>2. /\ UNCHANGED <<secretFiles, renderedOf, stored, drawn>>
          /\ rotators[r].at \in UnderLock \cup SeededPlaces
          /\ engineLock' = (IF engineLock = r THEN 0 ELSE engineLock)
          /\ seededFails' = (seededFails \/ rotators[r].at \in SeededPlaces)
          /\ DOMAIN holdings' = DOMAIN holdings /\ (rotators[r].at \notin UnderLock => holdings' = holdings)
      BY <1>0, <1>14 DEF StageFails, Released, Marked0, Recreated, SeededPlaces
    <2>3. SecretTypes'
      BY <1>0, <1>14, <2>1, <2>2 DEF SecretTypes
    <2>4. Numbered'
      BY <1>0, <1>14, <2>1, <2>2, SMTT(60) DEF SecretTypes, Numbered, Standing
    <2>5. Standing'
      BY <1>0, <1>14, <2>1, <2>2 DEF SecretTypes, Standing
    <2>6. (\A q \in Rotators : Reaching(q))'
      BY <1>0, <1>14, <2>1, <2>2 DEF SecretTypes, Reaching, Standing, Numbered, Exists,
         _certificate_matches, None0
    <2>7. Paired'
      BY <1>0, <1>14, <2>1, <2>2 DEF SecretTypes, Paired, Standing, _certificate_matches
    <2>8. Agreeing'
      <3>1. CASE seededFails' = TRUE
        BY <3>1, AgreeingMarked
      <3>2. CASE seededFails' # TRUE
        <4>1. seededFails' = seededFails /\ rotators[r].at \notin SeededPlaces
          BY ONLY <1>0, <2>2, <3>2 DEF SecretTypes
        <4> QED
          BY ONLY <1>0, r \in Rotators, <2>1, <2>2, <4>1, AgreeingKept
      <3> QED
        BY <3>1, <3>2
    <2> QED
      BY <2>3, <2>4, <2>5, <2>6, <2>7, <2>8 DEF SecretInv
  <1>15. CASE RotatorDies(r)
    <2>1. /\ rotators' \in [Rotators -> Commands0] /\ Others(r)
          /\ rotators'[r].at = "idle"
      BY <1>0, <1>15, RestsFacts DEF RotatorDies
    <2>2. /\ UNCHANGED <<secretFiles, holdings, renderedOf, stored, drawn>>
          /\ engineLock' = (IF engineLock = r THEN 0 ELSE engineLock)
          /\ seededFails' = (seededFails \/ rotators[r].at \in SeededPlaces)
      BY <1>0, <1>15 DEF RotatorDies, Released, Marked0, TheStack
    <2>3. SecretTypes'
      BY <1>0, <1>15, <2>1, <2>2 DEF SecretTypes
    <2>4. Numbered'
      BY <1>0, <1>15, <2>1, <2>2 DEF SecretTypes, Numbered, Standing
    <2>5. Standing'
      BY <1>0, <1>15, <2>1, <2>2 DEF SecretTypes, Standing
    <2>6. (\A q \in Rotators : Reaching(q))'
      <3> SUFFICES ASSUME NEW q \in Rotators PROVE Reaching(q)'
        OBVIOUS
      <3>1. CASE q = r
        BY <2>1, <2>2, <3>1, ReachingOutside
      <3>2. CASE q # r
        BY <1>0, <2>1, <2>2, <3>2, ReachingSame
      <3> QED
        BY <3>1, <3>2
    <2>7. Paired'
      BY <1>0, <1>15, <2>1, <2>2 DEF SecretTypes, Paired, Standing, _certificate_matches
    <2>8. Agreeing'
      <3>1. CASE seededFails' = TRUE
        BY <3>1, AgreeingMarked
      <3>2. CASE seededFails' # TRUE
        <4>1. seededFails' = seededFails /\ rotators[r].at \notin SeededPlaces
          BY ONLY <1>0, <2>2, <3>2 DEF SecretTypes
        <4> QED
          BY ONLY <1>0, r \in Rotators, <2>1, <2>2, <4>1, AgreeingKept
      <3> QED
        BY <3>1, <3>2
    <2> QED
      BY <2>3, <2>4, <2>5, <2>6, <2>7, <2>8 DEF SecretInv
  <1>16. CASE CommandOver(r)
    <2>1. /\ rotators' \in [Rotators -> Commands0] /\ Others(r)
          /\ rotators'[r].at = "idle"
      BY <1>0, <1>16, RestsFacts DEF CommandOver
    <2>2. /\ UNCHANGED <<secretFiles, holdings, renderedOf, stored, drawn, seededFails, engineLock>>
          /\ rotators[r].at = "ended"
      BY <1>0, <1>16 DEF CommandOver, TheStack
    <2>3. SecretTypes'
      BY <1>0, <1>16, <2>1, <2>2 DEF SecretTypes
    <2>4. Numbered'
      BY <1>0, <1>16, <2>1, <2>2 DEF SecretTypes, Numbered, Standing
    <2>5. Standing'
      BY <1>0, <1>16, <2>1, <2>2 DEF SecretTypes, Standing
    <2>6. (\A q \in Rotators : Reaching(q))'
      BY <1>0, <1>16, <2>1, <2>2, SMTT(60) DEF SecretTypes, Reaching, Standing, Numbered, Exists,
         _certificate_matches, None0
    <2>7. Paired'
      BY <1>0, <1>16, <2>1, <2>2, SMTT(60) DEF SecretTypes, Paired, Standing, _certificate_matches
    <2>8. Agreeing'
      BY <1>0, <2>1, <2>2, AgreeingKept DEF SeededPlaces
    <2> QED
      BY <2>3, <2>4, <2>5, <2>6, <2>7, <2>8 DEF SecretInv
  <1> QED
    BY <1>1, <1>2, <1>3, <1>4, <1>5, <1>6, <1>7, <1>8, <1>9, <1>10, <1>11, <1>12, <1>13, <1>14,
       <1>15, <1>16, <1>17 DEF Rotation

\* A step of one command leaves the others where they are.
LEMMA MovesOne == ASSUME NEW r \in Rotators, SecretTypes, Rotation(r) PROVE Others(r)
  <1>1. CASE \E n \in SecretNames : RotateStarts(r, n)
    BY <1>1 DEF RotateStarts, SecretTypes, Others, Goes1, Ends1
  <1>2. CASE ApplyStarts(r)
    BY <1>2 DEF ApplyStarts, SecretTypes, Others, Goes1, Ends1
  <1>3. CASE Claims0(r)
    BY <1>3 DEF Claims0, SecretTypes, Others, Goes1, Ends1
  <1>4. CASE rotate_generated(r)
    BY <1>4 DEF rotate_generated, SecretTypes, Others, Goes1, Ends1
  <1>5. CASE _issue_certificate(r)
    BY <1>5 DEF _issue_certificate, SecretTypes, Others, Goes1, Ends1
  <1>6. CASE _recreate(r)
    BY <1>6 DEF _recreate, SecretTypes, Others, Goes1, Ends1
  <1>7. CASE ensure_generated(r)
    BY <1>7 DEF ensure_generated, SecretTypes, Others, Goes1, Ends1
  <1>8. CASE Converges0(r)
    BY <1>8 DEF Converges0, SecretTypes, Others, Goes1, Ends1
  <1>9. CASE MintsAgain(r)
    BY <1>9 DEF MintsAgain, SecretTypes, Others, Goes1, Ends1
  <1>10. CASE Records1(r)
    BY <1>10 DEF Records1, SecretTypes, Others, Goes1, Ends1
  <1>11. CASE _reset(r)
    BY <1>11 DEF _reset, SecretTypes, Others, Goes1, Ends1
  <1>12. CASE _write_seeded(r)
    BY <1>12 DEF _write_seeded, SecretTypes, Others, Goes1, Ends1
  <1>13. CASE _verify_sign_in(r)
    BY <1>13 DEF _verify_sign_in, SecretTypes, Others, Goes1, Ends1
  <1>14. CASE StageFails(r)
    BY <1>14 DEF StageFails, SecretTypes, Others, Goes1, Ends1
  <1>15. CASE RotatorDies(r)
    BY <1>15 DEF RotatorDies, SecretTypes, Others, Goes1, Ends1
  <1>17. CASE verify_sign_in(r)
    BY <1>17 DEF verify_sign_in, SecretTypes, Others, Goes1, Ends1
  <1>16. CASE CommandOver(r)
    BY <1>16 DEF CommandOver, SecretTypes, Others, Goes1, Ends1
  <1> QED
    BY <1>1, <1>2, <1>3, <1>4, <1>5, <1>6, <1>7, <1>8, <1>9, <1>10, <1>11, <1>12, <1>13, <1>14,
      <1>15, <1>16, <1>17 DEF Rotation

\* Of the steps under the lock only the last one ends with 0.
LEMMA EndsWell ==
  ASSUME NEW r \in Rotators, SecretInv, Rotation(r), engineLock = r,
         rotators'[r].at = "ended", rotators'[r].code = 0
  PROVE  Records1(r)
  <1> USE DEF UnderLock, Unlocked, At0
  <1>0. SecretTypes /\ Standing /\ rotators[r].at \in UnderLock
    BY DEF SecretInv, Standing
  <1>1. CASE \E n \in SecretNames : RotateStarts(r, n)
    BY <1>0, <1>1 DEF RotateStarts
  <1>2. CASE ApplyStarts(r)
    BY <1>0, <1>2 DEF ApplyStarts
  <1>3. CASE Claims0(r)
    BY <1>0, <1>3 DEF Claims0
  <1>4. CASE rotate_generated(r)
    BY <1>0, <1>4, GoesFacts DEF rotate_generated, Places0
  <1>5. CASE _issue_certificate(r)
    BY <1>0, <1>5, GoesFacts DEF _issue_certificate, Places0
  <1>6. CASE _recreate(r)
    BY <1>0, <1>6, GoesFacts DEF _recreate, Places0
  <1>7. CASE ensure_generated(r)
    BY <1>0, <1>7, GoesFacts DEF ensure_generated, Places0
  <1>8. CASE Converges0(r)
    BY <1>0, <1>8, GoesFacts DEF Converges0, Places0
  <1>9. CASE MintsAgain(r)
    BY <1>0, <1>9, GoesFacts DEF MintsAgain, Places0
  <1>10. CASE Records1(r)
    BY <1>10
  <1>11. CASE _reset(r)
    BY <1>0, <1>11 DEF _reset
  <1>12. CASE _write_seeded(r)
    BY <1>0, <1>12 DEF _write_seeded
  <1>13. CASE _verify_sign_in(r)
    BY <1>0, <1>13 DEF _verify_sign_in
  <1>14. CASE StageFails(r)
    BY <1>0, <1>14, EndsFacts DEF StageFails
  <1>15. CASE RotatorDies(r)
    BY <1>0, <1>15, RestsFacts DEF RotatorDies
  <1>17. CASE verify_sign_in(r)
    BY <1>0, <1>17 DEF verify_sign_in
  <1>16. CASE CommandOver(r)
    BY <1>0, <1>16, RestsFacts DEF CommandOver
  <1> QED
    BY <1>1, <1>2, <1>3, <1>4, <1>5, <1>6, <1>7, <1>8, <1>9, <1>10, <1>11, <1>12, <1>13, <1>14,
      <1>15, <1>16, <1>17 DEF Rotation

\* While the record holds a carried secret's value, and from the converge to the record, the
\* carriers hold it.
Carried ==
  \A n \in CarriedNames \ OfClass("seeded") :
    renderedOf[n] = secretFiles[n] \/ (\E r \in Rotators : rotators[r].at \in {"manifest", "record"})
      => \A s \in CarriersOf(n) : holdings[s][n] = secretFiles[n]

\* A step that changes neither such a file nor the record, and leaves each carrier with what
\* it held or with the file's value.
LEMMA CarriedSame ==
  ASSUME Carried, NEW r \in Rotators, Others(r),
         rotators'[r].at \notin {"manifest", "record"} \/ rotators[r].at \in {"manifest", "record"},
         renderedOf' = renderedOf, \A n \in CarriedNames \ OfClass("seeded") : secretFiles'[n] = secretFiles[n],
         \A n \in CarriedNames : \A s \in CarriersOf(n) : holdings'[s][n] \in {holdings[s][n], secretFiles[n]}
  PROVE  Carried'
  BY DEF Carried, Others, CarriedNames, OfClass, CarriersOf, SecretNames

\* A step of the lock's holder that puts a new value into a file: the record is behind.
LEMMA CarriedNew ==
  ASSUME Carried, SecretTypes, Numbered, NEW m \in SecretNames,
         NEW value \in Values0, value.n = drawn + 1, secretFiles' = [secretFiles EXCEPT ![m] = value],
         renderedOf' = renderedOf, holdings' = holdings,
         \A q \in Rotators : rotators'[q].at \notin {"manifest", "record"}
  PROVE  Carried'
  <1>1. /\ secretFiles'[m] = value /\ \A o \in SecretNames \ {m} : secretFiles'[o] = secretFiles[o]
    BY FileFacts
  <1>2. m \in CarriedNames => renderedOf[m] # value
    BY DEF Numbered, SecretTypes, Values0
  <1> QED
    BY <1>1, <1>2 DEF Carried, CarriedNames, OfClass, CarriersOf, SecretNames

LEMMA CarriedKeeps == ASSUME NEW r \in Rotators, SecretInv, Carried, Rotation(r) PROVE Carried'
  <1> USE DEF UnderLock, At0
  <1>0. SecretTypes /\ Numbered /\ Standing
    BY DEF SecretInv
  <1>a. Others(r)
    BY <1>0, MovesOne
  <1>b. \A q \in Rotators \ {r} : rotators[r].at \in UnderLock => rotators'[q].at \notin UnderLock
    BY <1>0, <1>a DEF Standing, Others
  <1>1. CASE \E n \in SecretNames : RotateStarts(r, n)
    <2>1. rotators'[r].at \notin {"manifest", "record"}
      BY <1>0, <1>1 DEF RotateStarts, SecretTypes, Resting
    <2> QED
      BY <1>1, <1>a, <2>1, CarriedSame DEF RotateStarts, TheStack
  <1>2. CASE ApplyStarts(r)
    <2>1. rotators'[r].at \notin {"manifest", "record"}
      BY <1>0, <1>2 DEF ApplyStarts, SecretTypes, Resting
    <2> QED
      BY <1>2, <1>a, <2>1, CarriedSame DEF ApplyStarts, TheStack
  <1>3. CASE Claims0(r)
    <2>1. rotators'[r].at \notin {"manifest", "record"}
      <3>1. Ends1(r, 0) \/ Ends1(r, 1) \/ Goes1(r, "ensure") \/ Goes1(r, "write")
        BY <1>3 DEF Claims0
      <3> QED
        BY <1>0, <3>1, EndsFacts, GoesFacts DEF Places0
    <2> QED
      BY <1>3, <1>a, <2>1, CarriedSame DEF Claims0, TheStack
  <1>4. CASE rotate_generated(r)
    <2> DEFINE m == rotators[r].name
    <2>1. m \in SecretNames /\ rotators[r].at = "write"
      BY <1>0, <1>4 DEF rotate_generated, Standing, OfClass
    <2>2. \A q \in Rotators : rotators'[q].at \notin {"manifest", "record"}
      <3>1. Goes1(r, "recreate") \/ Goes1(r, "certify")
        BY <1>4 DEF rotate_generated
      <3>2. rotators'[r].at \in {"recreate", "certify"}
        BY <1>0, <3>1, GoesFacts DEF Places0
      <3> QED
        BY <1>b, <2>1, <3>2
    <2>3. CASE SecretRegistry[m].rotation = "remint"
      <3>1. m \notin CarriedNames
        BY <2>1, <2>3, SecretShapes DEF CarriedNames, CarriersOf, SecretNames
      <3>2. \A n \in CarriedNames : secretFiles'[n] = secretFiles[n]
        BY <1>0, <1>4, <2>3, <3>1 DEF rotate_generated, SecretTypes, CarriedNames
      <3> QED
        BY <1>4, <1>a, <2>2, <3>2, CarriedSame DEF rotate_generated
    <2>4. CASE SecretRegistry[m].rotation # "remint"
      <3> DEFINE value == [n |-> drawn', of |-> IF SecretRegistry[m].kind = "certificate"
                                                THEN secretFiles[SecretRegistry[m].from].n ELSE 0]
      <3>1. drawn' = drawn + 1 /\ secretFiles' = [secretFiles EXCEPT ![m] = value]
        BY <1>4, <2>4 DEF rotate_generated, Draws
      <3>2. value \in Values0 /\ value.n = drawn + 1
        BY <1>0, <2>1, <3>1, SecretShapes DEF SecretTypes, Values0, SecretNames
      <3>3. renderedOf' = renderedOf /\ holdings' = holdings
        BY <1>4 DEF rotate_generated
      <3> HIDE DEF value
      <3> QED
        BY <1>0, <2>1, <2>2, <3>1, <3>2, <3>3, CarriedNew
    <2> QED
      BY <2>3, <2>4
  <1>5. CASE _issue_certificate(r)
    <2> DEFINE m == issued_certificate(rotators[r].name)
               value == [n |-> drawn', of |-> secretFiles[rotators[r].name].n]
    <2>1. rotators[r].at = "certify" /\ rotators[r].name \in OfKind("key")
      BY <1>0, <1>5, SecretShapes DEF _issue_certificate, Standing, OfClass, OfKind, SecretNames
    <2>2. m \in SecretNames
      BY <2>1, SecretShapes DEF issued_certificate, OfKind, SecretNames
    <2>3. \A q \in Rotators : rotators'[q].at \notin {"manifest", "record"}
      BY <1>0, <1>5, <1>b, <2>1 DEF _issue_certificate, Goes1, SecretTypes
    <2>4. drawn' = drawn + 1 /\ secretFiles' = [secretFiles EXCEPT ![m] = value]
      BY <1>5 DEF _issue_certificate, Draws
    <2>5. value \in Values0 /\ value.n = drawn + 1
      BY <1>0, <2>1, <2>4 DEF SecretTypes, Values0, OfKind
    <2>6. renderedOf' = renderedOf /\ holdings' = holdings
      BY <1>5 DEF _issue_certificate
    <2> HIDE DEF m, value
    <2> QED
      BY <1>0, <2>2, <2>3, <2>4, <2>5, <2>6, CarriedNew
  <1>6. CASE _recreate(r)
    <2>1. rotators'[r].at = "ensure" /\ UNCHANGED <<secretFiles, renderedOf>>
      BY <1>0, <1>6 DEF _recreate, Goes1, SecretTypes
    <2>2. \A n \in CarriedNames : \A s \in CarriersOf(n) : holdings'[s][n] \in {holdings[s][n], secretFiles[n]}
      BY <1>0, <1>6 DEF _recreate, MountersRecreated, Recreated, SecretTypes, Services0, CarriedNames
    <2> QED
      BY <1>a, <2>1, <2>2, CarriedSame
  <1>7. CASE ensure_generated(r)
    <2>1. rotators[r].at = "ensure" /\ \A q \in Rotators : rotators'[q].at \notin {"manifest", "record"}
      <3>1. rotators[r].at = "ensure" /\ (Goes1(r, "render") \/ rotators' = rotators)
        BY <1>7 DEF ensure_generated
      <3>2. rotators'[r].at \in {"render", "ensure"}
        BY <1>0, <3>1, GoesFacts DEF Places0
      <3> QED
        BY <1>b, <3>1, <3>2
    <2>2. CASE Repairs = {}
      BY <1>7, <1>a, <2>1, <2>2, CarriedSame DEF ensure_generated
    <2>3. CASE Repairs # {}
      <3>1. PICK m \in Repairs :
               /\ drawn' = drawn + 1
               /\ secretFiles' = [secretFiles EXCEPT ![m] =
                    [n |-> drawn', of |-> IF SecretRegistry[m].kind = "certificate"
                                          THEN secretFiles[SecretRegistry[m].from].n ELSE 0]]
        BY <1>7, <2>3 DEF ensure_generated, Draws
      <3> DEFINE value == [n |-> drawn', of |-> IF SecretRegistry[m].kind = "certificate"
                                                THEN secretFiles[SecretRegistry[m].from].n ELSE 0]
      <3>2. m \in SecretNames
        BY DEF Repairs, Lacking, Unmatched, OfKind
      <3>3. value \in Values0 /\ value.n = drawn + 1
        BY <1>0, <3>1, <3>2, SecretShapes DEF SecretTypes, Values0, SecretNames
      <3>4. renderedOf' = renderedOf /\ holdings' = holdings /\ secretFiles' = [secretFiles EXCEPT ![m] = value]
        BY <1>7, <3>1 DEF ensure_generated
      <3> HIDE DEF value
      <3> QED
        BY <1>0, <2>1, <3>2, <3>3, <3>4, CarriedNew
    <2> QED
      BY <2>2, <2>3
  <1>8. CASE Converges0(r)
    <2>1. rotators[r].at = "render" /\ UNCHANGED <<secretFiles, renderedOf>>
      BY <1>8 DEF Converges0
    <2>2. ASSUME NEW n \in CarriedNames \ OfClass("seeded"), NEW s \in CarriersOf(n)
          PROVE  holdings'[s][n] = secretFiles[n]
      <3>1. s \in DOMAIN holdings /\ n \in SecretNames
        BY <1>0, <2>2 DEF SecretTypes, Services0, CarriedNames
      <3>2. CASE n \in Pending
        BY <1>8, <3>1, <3>2 DEF Converges0
      <3>3. CASE n \notin Pending
        <4>1. holdings[s][n] = secretFiles[n]
          BY <3>3 DEF Pending, Carried
        <4> QED
          BY <1>8, <3>1, <4>1 DEF Converges0, Recreated
      <3> QED
        BY <3>2, <3>3
    <2> QED
      BY <2>1, <2>2 DEF Carried, CarriedNames, OfClass, CarriersOf, SecretNames
  <1>9. CASE MintsAgain(r)
    <2>1. rotators[r].at \in {"manifest", "record"} /\ renderedOf' = renderedOf /\ holdings' = holdings
      BY <1>9 DEF MintsAgain
    <2>2. \A n \in CarriedNames : secretFiles'[n] = secretFiles[n]
      BY <1>0, <1>9, SecretShapes DEF MintsAgain, OfKind, CarriedNames, CarriersOf, SecretNames, SecretTypes
    <2> QED
      BY <1>a, <2>1, <2>2, CarriedSame
  <1>10. CASE Records1(r)
    <2>1. \A n \in CarriedNames \ OfClass("seeded") : \A s \in CarriersOf(n) : holdings[s][n] = secretFiles[n]
      BY <1>10 DEF Records1, Carried
    <2>2. UNCHANGED <<secretFiles, holdings>>
      BY <1>10 DEF Records1
    <2> QED
      BY <2>1, <2>2 DEF Carried, CarriedNames, OfClass, CarriersOf, SecretNames
  <1>11. CASE _reset(r)
    <2>1. rotators'[r].at \notin {"manifest", "record"}
      <3>1. Ends1(r, 1) \/ rotators' = [rotators EXCEPT ![r] = [rotators[r] EXCEPT !.at = "file", !.value = drawn']]
        BY <1>11 DEF _reset
      <3>2. ASSUME rotators' = [rotators EXCEPT ![r] = [rotators[r] EXCEPT !.at = "file", !.value = drawn']]
            PROVE  rotators'[r].at = "file"
        BY <1>0, <3>2 DEF SecretTypes, Commands0
      <3> QED
        BY <1>0, <3>1, <3>2, EndsFacts
    <2> QED
      BY <1>11, <1>a, <2>1, CarriedSame DEF _reset
  <1>12. CASE _write_seeded(r)
    <2>1. rotators'[r].at = "sign-in" /\ rotators[r].name \in OfClass("seeded")
      BY <1>0, <1>12 DEF _write_seeded, Goes1, SecretTypes, Standing, SeededPlaces
    <2>2. \A n \in CarriedNames \ OfClass("seeded") : secretFiles'[n] = secretFiles[n]
      BY <1>0, <1>12, <2>1 DEF _write_seeded, SecretTypes, CarriedNames
    <2> QED
      BY <1>12, <1>a, <2>1, <2>2, CarriedSame DEF _write_seeded
  <1>13. CASE _verify_sign_in(r)
    <2>1. rotators'[r].at = "signing"
      BY <1>0, <1>13 DEF _verify_sign_in, SecretTypes
    <2> QED
      BY <1>13, <1>a, <2>1, CarriedSame DEF _verify_sign_in, TheStack
  <1>14. CASE verify_sign_in(r)
    <2>1. rotators'[r].at \notin {"manifest", "record"}
      BY <1>0, <1>14 DEF verify_sign_in, SecretTypes, Ends1, Resting
    <2> QED
      BY <1>14, <1>a, <2>1, CarriedSame DEF verify_sign_in, TheStack
  <1>15. CASE StageFails(r)
    <2>1. rotators'[r].at \notin {"manifest", "record"} /\ UNCHANGED <<secretFiles, renderedOf>>
      BY <1>0, <1>15 DEF StageFails, SecretTypes, Ends1, Resting
    <2>2. \A n \in CarriedNames : \A s \in CarriersOf(n) : holdings'[s][n] \in {holdings[s][n], secretFiles[n]}
      BY <1>0, <1>15 DEF StageFails, Recreated, SecretTypes, Services0, CarriedNames
    <2> QED
      BY <1>a, <2>1, <2>2, CarriedSame
  <1>16. CASE RotatorDies(r)
    <2>1. rotators'[r].at \notin {"manifest", "record"}
      BY <1>0, <1>16 DEF RotatorDies, SecretTypes, Resting
    <2> QED
      BY <1>16, <1>a, <2>1, CarriedSame DEF RotatorDies, TheStack
  <1>17. CASE CommandOver(r)
    <2>1. rotators'[r].at \notin {"manifest", "record"}
      BY <1>0, <1>17 DEF CommandOver, SecretTypes, Resting
    <2> QED
      BY <1>17, <1>a, <2>1, CarriedSame DEF CommandOver, TheStack
  <1> QED
    BY <1>1, <1>2, <1>3, <1>4, <1>5, <1>6, <1>7, <1>8, <1>9, <1>10, <1>11, <1>12, <1>13, <1>14,
       <1>15, <1>16, <1>17 DEF Rotation

LEMMA SecretStarts == SecretInit => SecretInv
  <1> SUFFICES ASSUME SecretInit PROVE SecretInv
    OBVIOUS
  <1> USE SecretShapes DEF SecretInit, SecretNames, CarriedNames, OfKind, OfClass
  <1>1. SecretTypes
    <2>1. secretFiles \in [SecretNames -> Values0]
      BY DEF Values0
    <2>2. renderedOf \in [CarriedNames -> Values0]
      BY <2>1
    <2>3. Resting \in Commands0
      BY DEF Resting, Commands0, Unlocked
    <2>4. rotators \in [Rotators -> Commands0] /\ DOMAIN holdings = Services0
      BY <2>3
    <2>5. stored = 1 /\ drawn = 1 /\ seededFails = FALSE
      OBVIOUS
    <2>6. stored \in Nat /\ drawn \in Nat /\ drawn > 0
      BY ONLY <2>5
    <2>7. seededFails \in BOOLEAN
      BY ONLY <2>5
    <2> QED
      BY ONLY <2>1, <2>2, <2>4, <2>6, <2>7 DEF SecretTypes
  <1>2. Numbered
    BY DEF Numbered, Resting
  <1>3. Standing
    BY DEF Standing, Resting, UnderLock, SeededPlaces
  <1>4. (\A r \in Rotators : Reaching(r)) /\ Paired
    BY DEF Reaching, Paired, Resting
  <1>5. Agreeing
    BY DEF Agreeing
  <1> QED
    BY <1>1, <1>2, <1>3, <1>4, <1>5 DEF SecretInv

LEMMA SecretInvariance == SecretSpec => []SecretInv
  <1>1. SecretInv /\ UNCHANGED secretVars => SecretInv'
    BY DEF SecretInv, secretVars, SecretTypes, Numbered, Standing, Reaching, Paired, Agreeing, Pends,
       Exists, _certificate_matches
  <1>2. SecretInv /\ [SecretNext]_secretVars => SecretInv'
    BY <1>1, SecretKeeps DEF SecretNext
  <1> QED
    BY <1>2, SecretStarts, PTL DEF SecretSpec

LEMMA CarriedInvariance == SecretSpec => []Carried
  <1>1. SecretInit => Carried
    BY SecretShapes DEF SecretInit, Carried, CarriedNames, Services0, SecretNames, CarriersOf
  <1>2. Carried /\ UNCHANGED secretVars => Carried'
    BY DEF Carried, secretVars, CarriedNames, OfClass, CarriersOf, SecretNames
  <1>3. SecretInv /\ Carried /\ [SecretNext]_secretVars => Carried'
    BY <1>2, CarriedKeeps DEF SecretNext
  <1> QED
    BY <1>1, <1>3, SecretInvariance, PTL DEF SecretSpec

\* Whatever the order in which seeded rotations reset, write, read the file back and sign
\* in with what they read, when none is under way and none has failed or died since one last
\* began alone, the file holds the password Grafana stores (_rotate_seeded).
THEOREM SeededAlwaysAgrees == SecretSpec => []SeededAgrees
  <1>1. SecretInv => SeededAgrees
    BY DEF SecretInv, Agreeing, Pends, SeededAgrees, SeededQuiet, SeededPlaces
  <1> QED
    BY <1>1, SecretInvariance, PTL

\* A rotation that ends with 0 has reached every service that mounts or carries the secret,
\* and a rotation or an apply that does leaves every carrier with the files' values and every
\* key with its certificate, whichever commands failed or died before (run_secrets_rotate and
\* run_apply, for any registry).  That an apply reaches the mounters is not claimed: it does
\* not (_recreate).
THEOREM RotationAlwaysSound == SecretSpec => RotationSound
  <1>1. ASSUME SecretInv, Carried, [SecretNext]_secretVars, NEW r \in Rotators, Succeeds(r)
        PROVE  /\ rotators[r].op = "rotate" =>
                    \A s \in MountersOf(rotators[r].name) \cup CarriersOf(rotators[r].name) :
                      holdings'[s][rotators[r].name] = secretFiles'[rotators[r].name]
               /\ \A n \in CarriedNames \ OfClass("seeded") :
                    \A s \in CarriersOf(n) : holdings'[s][n] = secretFiles'[n]
               /\ \A c \in OfKind("certificate") : secretFiles'[c].of = secretFiles'[SecretRegistry[c].from].n
    <2>1. SecretTypes /\ Standing /\ Reaching(r) /\ Paired /\ rotators[r].at \in UnderLock
      BY <1>1 DEF SecretInv, Succeeds, Standing
    <2>2. PICK q \in Rotators : Rotation(q)
      BY <1>1, <2>1 DEF SecretNext, secretVars, Succeeds, UnderLock
    <2>3. q = r
      BY <1>1, <2>1, <2>2, MovesOne DEF Others, Succeeds, UnderLock
    <2>4. Records1(r)
      BY <1>1, <2>2, <2>3, EndsWell DEF Succeeds
    <2>5. rotators[r].at = "record" /\ UNCHANGED <<secretFiles, holdings>>
      BY <2>4 DEF Records1, At0
    <2>6. ASSUME rotators[r].op = "rotate"
          PROVE  \A s \in MountersOf(rotators[r].name) \cup CarriersOf(rotators[r].name) :
                   holdings[s][rotators[r].name] = secretFiles[rotators[r].name]
      <3>1. rotators[r].name \in SecretNames
        BY <2>1, <2>5, <2>6 DEF Standing, UnderLock, OfClass
      <3>2. CASE SecretRegistry[rotators[r].name].kind = "minted"
        BY <3>1, <3>2, SecretShapes DEF SecretNames, MountersOf, CarriersOf
      <3>3. CASE SecretRegistry[rotators[r].name].kind # "minted"
        BY <2>1, <2>5, <2>6, <3>3 DEF Reaching
      <3> QED
        BY <3>2, <3>3
    <2>7. \A c \in OfKind("certificate") : secretFiles[c].of = secretFiles[SecretRegistry[c].from].n
      BY <2>1, <2>5 DEF Paired, _certificate_matches
    <2>8. \A n \in CarriedNames \ OfClass("seeded") : \A s \in CarriersOf(n) : holdings[s][n] = secretFiles[n]
      BY <1>1, <2>5 DEF Carried
    <2> QED
      BY <2>5, <2>6, <2>7, <2>8
  <1> DEFINE Reached(r) == LET n == rotators[r].name
                           IN  Succeeds(r) /\ rotators[r].op = "rotate" =>
                                 \A s \in MountersOf(n) \cup CarriersOf(n) : holdings'[s][n] = secretFiles'[n]
  <1> DEFINE Reaches(r) == Succeeds(r) => \A n \in CarriedNames \ OfClass("seeded") :
               \A s \in CarriersOf(n) : holdings'[s][n] = secretFiles'[n]
  <1> DEFINE Repaired(r) == Succeeds(r) =>
               \A c \in OfKind("certificate") : secretFiles'[c].of = secretFiles'[SecretRegistry[c].from].n
  <1>2. SecretInv /\ Carried /\ [SecretNext]_secretVars => [\A r \in Rotators : Reached(r)]_secretVars
    BY <1>1
  <1>3. SecretInv /\ Carried /\ [SecretNext]_secretVars => [\A r \in Rotators : Repaired(r)]_secretVars
    BY <1>1
  <1>4. SecretInv /\ Carried /\ [SecretNext]_secretVars => [\A r \in Rotators : Reaches(r)]_secretVars
    BY <1>1
  <1>5. SecretSpec => RotationReaches
    BY <1>2, SecretInvariance, CarriedInvariance, PTL DEF SecretSpec, RotationReaches
  <1>6. SecretSpec => PairRepaired
    BY <1>3, SecretInvariance, CarriedInvariance, PTL DEF SecretSpec, PairRepaired
  <1>7. SecretSpec => CarriersReached
    BY <1>4, SecretInvariance, CarriedInvariance, PTL DEF SecretSpec, CarriersReached
  <1> QED
    BY <1>5, <1>6, <1>7, PTL DEF RotationSound
=============================================================================

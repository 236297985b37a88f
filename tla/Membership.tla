------------------------------- MODULE Membership --------------------------------
(* `users reconcile`: the directory's groups are the role truth of Open WebUI.  The   *)
(* command reads every group, then the accounts, then corrects one account after      *)
(* another, each correction between an intent row and an applied row of the audit     *)
(* table, which is outside the frontend's database.                                   *)
EXTENDS Integers, FiniteSets

CONSTANTS
  People,      \* the humans with an account
  Machine,     \* the break-glass administrator, a machine identity
  NoUpn,       \* the people whose directory entry has no userPrincipalName
  Stray,       \* the users' and the administrators' group members it may start with
  MaxRuns,     \* bound on the runs
  MaxShifts,   \* bound on what the directory and the frontend change meanwhile
  MaxUpsets0   \* bound on the failures and the kills

Groups == {"users", "admins"}

ASSUME MemberShapes ==
  /\ Machine \notin People /\ NoUpn \subseteq People
  /\ Stray \subseteq [Groups -> SUBSET People]
  /\ MaxRuns \in Nat /\ MaxShifts \in Nat /\ MaxUpsets0 \in Nat

VARIABLES
  inGroup,   \* "users" and "admins" -> their members in the directory
  roleOf,    \* account -> its role in the frontend; a missing account has "gone"
  auditRows, \* the rows: run, kind, person and role
  setBy,     \* who the run changed: the pairs of run and person update_role landed for
  reconciling, \* the command: its place, what it read and the corrections it has left
  calm,      \* nothing but the run moved since it began
  shifts, runUpsets, runId

memberVars == <<inGroup, roleOf, auditRows, setBy, reconciling, calm, shifts, runUpsets, runId>>

NoRun0 == [at |-> "idle", now |-> FALSE, groups |-> {}, users |-> {}, admins |-> {},
           read |-> [p \in {} |-> "gone"], left |-> {}, person |-> Machine]
Accounts == People \cup {Machine}

In0(place) == reconciling.at = place
Then(place) == reconciling' = [reconciling EXCEPT !.at = place]
RunUpset == runUpsets > 0 /\ runUpsets' = runUpsets - 1
Shared0 == <<inGroup, roleOf, auditRows, setBy>>
Bounds0 == <<shifts, runUpsets, runId>>

\* _user_match: a member without a principal name matches no account.
_matched_members(members) == members \ NoUpn

\* The role of a human by what was read: administrators are users first.
Expected(p, users, admins) ==
  IF p \notin users THEN "pending" ELSE IF p \in admins THEN "admin" ELSE "user"

\* Machine identities are left alone, and an account that agrees needs nothing.
Corrections ==
  {p \in People : reconciling.read[p] # "gone" /\ reconciling.read[p] # Expected(p, reconciling.users, reconciling.admins)}
To0(p) == Expected(p, reconciling.users, reconciling.admins)

Row0(kind, p) == [run |-> runId, kind |-> kind, person |-> p, to |-> IF p = Machine THEN "none" ELSE To0(p)]

-----------------------------------------------------------------------------
\* The refusals before anything is read end the run; with --now the audit writer is probed.
ReconcileStarts ==
  /\ In0("idle") /\ runId < MaxRuns
  /\ \E now \in BOOLEAN : reconciling' = [NoRun0 EXCEPT !.at = "groups", !.now = now, !.groups = Groups]
  /\ runId' = runId + 1
  /\ calm' = TRUE
  /\ UNCHANGED <<Shared0, shifts, runUpsets>>

\* _directory_groups: one search per group; a search that fails ends the run.
_read_directory_group ==
  /\ In0("groups") /\ reconciling.groups # {}
  /\ LET g == IF "users" \in reconciling.groups THEN "users" ELSE "admins"
         matched == _matched_members(inGroup[g])
     IN  reconciling' = [reconciling EXCEPT !.groups = @ \ {g},
                            !.users = IF g = "users" THEN matched ELSE @,
                            !.admins = IF g = "admins" THEN matched ELSE @,
                            !.at = IF reconciling.groups = {g} THEN "accounts" ELSE @]
  /\ UNCHANGED <<Shared0, calm, Bounds0>>

\* users_all
UsersRead ==
  /\ In0("accounts")
  /\ reconciling' = [reconciling EXCEPT !.read = roleOf, !.at = "plan"]
  /\ UNCHANGED <<Shared0, calm, Bounds0>>

\* The corrections; a dry run prints them, and without the break-glass account there is
\* no actor.
Plans ==
  /\ In0("plan")
  /\ reconciling' = IF reconciling.now /\ reconciling.read[Machine] # "gone"
            THEN [reconciling EXCEPT !.left = Corrections, !.at = "snapshot"] ELSE NoRun0
  /\ UNCHANGED <<Shared0, calm, Bounds0>>

\* The membership snapshot of every group, in one write.
SnapshotRow ==
  /\ In0("snapshot")
  /\ auditRows' = auditRows \cup {Row0("snapshot", Machine)}
  /\ Then("next")
  /\ UNCHANGED <<inGroup, roleOf, setBy, calm, Bounds0>>

NextCorrection ==
  /\ In0("next")
  /\ reconciling' = IF reconciling.left = {} THEN [reconciling EXCEPT !.at = "done"]
            ELSE [reconciling EXCEPT !.at = "intent", !.person = CHOOSE p \in reconciling.left : TRUE]
  /\ UNCHANGED <<Shared0, calm, Bounds0>>

\* Mutant: the applied row is written before the role is set.
AfterSwapped(place) == CASE place = "intent" -> "applied" [] place = "applied" -> "update" [] OTHER -> "next"

\* The order of a correction's three calls.
After(place) == CASE place = "intent" -> "update" [] place = "update" -> "applied" [] OTHER -> "next"

WritesIntent ==
  /\ In0("intent")
  /\ auditRows' = auditRows \cup {Row0("intent", reconciling.person)}
  /\ Then(After("intent"))
  /\ UNCHANGED <<inGroup, roleOf, setBy, calm, Bounds0>>

\* update_role sets the role without comparing it with the one read.
update_role ==
  /\ In0("update") /\ roleOf[reconciling.person] # "gone"
  /\ roleOf' = [roleOf EXCEPT ![reconciling.person] = To0(reconciling.person)]
  /\ setBy' = setBy \cup {<<runId, reconciling.person>>}
  /\ Then(After("update"))
  /\ UNCHANGED <<inGroup, auditRows, calm, Bounds0>>

\* The account was deleted since it was read.
UpdateRefused ==
  /\ In0("update") /\ roleOf[reconciling.person] = "gone"
  /\ reconciling' = NoRun0
  /\ UNCHANGED <<Shared0, calm, Bounds0>>

WritesApplied ==
  /\ In0("applied")
  /\ auditRows' = auditRows \cup {Row0("applied", reconciling.person)}
  /\ reconciling' = [reconciling EXCEPT !.at = After("applied"), !.left = @ \ {reconciling.person}]
  /\ UNCHANGED <<inGroup, roleOf, setBy, calm, Bounds0>>

ReconcileOver ==
  /\ In0("done")
  /\ reconciling' = NoRun0
  /\ UNCHANGED <<Shared0, calm, Bounds0>>

\* A call fails, or the process dies: the run ends where it is.  An update whose answer
\* is lost may have landed, and so may an audit row.
RunFails ==
  /\ ~In0("idle") /\ ~In0("done")
  /\ RunUpset
  /\ reconciling' = NoRun0
  /\ \/ UNCHANGED <<roleOf, setBy, auditRows>>
     \/ /\ In0("update") /\ roleOf[reconciling.person] # "gone"
        /\ roleOf' = [roleOf EXCEPT ![reconciling.person] = To0(reconciling.person)]
        /\ setBy' = setBy \cup {<<runId, reconciling.person>>}
        /\ UNCHANGED auditRows
     \/ /\ reconciling.at \in {"intent", "applied"}
        /\ auditRows' = auditRows \cup {Row0(reconciling.at, reconciling.person)}
        /\ UNCHANGED <<roleOf, setBy>>
  /\ UNCHANGED <<inGroup, calm, shifts, runId>>

-----------------------------------------------------------------------------
(* Meanwhile. *)

Shift == shifts > 0 /\ shifts' = shifts - 1 /\ calm' = FALSE

\* Someone joins or leaves a group.
DirectoryChanges(g, p) ==
  /\ Shift
  /\ inGroup' = [inGroup EXCEPT ![g] = IF p \in @ THEN @ \ {p} ELSE @ \cup {p}]
  /\ UNCHANGED <<roleOf, auditRows, setBy, reconciling, runUpsets, runId>>

\* An administrator sets a role, an account is deleted, or its owner signs in again.
FrontendChanges(p, role) ==
  /\ Shift
  /\ roleOf[p] # role
  /\ roleOf' = [roleOf EXCEPT ![p] = role]
  /\ UNCHANGED <<inGroup, auditRows, setBy, reconciling, runUpsets, runId>>

MemberInit ==
  /\ inGroup \in Stray
  /\ roleOf \in [Accounts -> {"pending", "user", "admin"}]
  /\ roleOf[Machine] = "admin"
  /\ auditRows = {} /\ setBy = {}
  /\ reconciling = NoRun0
  /\ calm = TRUE
  /\ shifts = MaxShifts /\ runUpsets = MaxUpsets0 /\ runId = 0

Reconcile ==
  \/ ReconcileStarts \/ _read_directory_group \/ UsersRead \/ Plans \/ SnapshotRow
  \/ NextCorrection \/ WritesIntent \/ update_role \/ UpdateRefused \/ WritesApplied \/ ReconcileOver

MemberNext ==
  \/ Reconcile \/ RunFails
  \/ \E g \in Groups, p \in People : DirectoryChanges(g, p)
  \/ \E p \in Accounts, role \in {"gone", "pending", "user", "admin"} : FrontendChanges(p, role)

MemberSpec == MemberInit /\ [][MemberNext]_memberVars

-----------------------------------------------------------------------------
(* Properties. *)

Rows2(kind, r) == {row \in auditRows : row.kind = kind /\ row.run = r}
Whose(rows) == {row.person : row \in rows}

\* The audit table accounts for every role the command set, whenever it stops: an applied
\* row means the role was set, a set role has its intent row, and at most one person per
\* run is in doubt (run_reconcile's intent, update, applied).
OneInDoubt ==
  \A r \in 1..runId :
    LET set == {pair[2] : pair \in {q \in setBy : q[1] = r}}
        intents == Whose(Rows2("intent", r))
        applied == Whose(Rows2("applied", r))
    IN  applied \subseteq set /\ set \subseteq intents /\ Cardinality(intents \ applied) <= 1

\* A run that finished while nothing else moved leaves every human with the role the
\* directory gives: an administrator outside the users' group is pending, and what earlier
\* runs left half done is put right (the corrections are computed from what is there).
RolesFollow ==
  (In0("done") /\ calm) =>
    \A p \in People : roleOf[p] # "gone" =>
      /\ roleOf[p] = "admin" <=> p \in (inGroup["users"] \cap inGroup["admins"]) \ NoUpn
      /\ roleOf[p] = "pending" <=> p \notin inGroup["users"] \ NoUpn

\* The reconciliation of roles is accounted for whenever it stops, and right when it is done.
ReconcileSound == OneInDoubt /\ RolesFollow
=============================================================================

----------------------------- MODULE LockPromise -----------------------------
(***************************************************************************)
(* What one of the box's locks promises its commands (the docstring of     *)
(* gideon/host/backuplock.py): the commands of one process at a time work  *)
(* under it, a command nested in its own process passes, and the lock dies *)
(* with its process.                                                       *)
(***************************************************************************)
CONSTANT Proc

VARIABLE working    \* the processes with a command at work under the lock

Enter(p) == working = {} /\ working' = {p}

Leave(p) == p \in working /\ working' = working \ {p}

Init == working = {}
Next == \E p \in Proc : Enter(p) \/ Leave(p)
Spec == Init /\ [][Next]_working
=============================================================================

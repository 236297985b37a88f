------------------------------- MODULE BoxLocks -------------------------------
(***************************************************************************)
(* One of the box's locks (backup, engine, corpus, archive): a flock on a  *)
(* file under /run/gideon that carries its holder's record.  A take that   *)
(* finds the flock held reads the record, and a record with its own pid    *)
(* makes it a nested take of the same process, which passes.               *)
(*                                                                         *)
(* gideon/host/backuplock.py and take_lock and release_lock of             *)
(* gideon/host/sysio.py.  The take is several system calls, and each is a  *)
(* step: other processes run between them.  The release closes the         *)
(* descriptor and leaves the record in the file.                           *)
(***************************************************************************)
EXTENDS Naturals

CONSTANTS
  Proc,       \* pids of gideon commands; a command run again is another pid
  NoProc,     \* nobody: the flock is free, or the file holds no readable record
  MaxHolds    \* bound: how often one process takes the lock from free

ASSUME ProcAssumption == NoProc \notin Proc
ASSUME HoldsAssumption == MaxHolds \in Nat

VARIABLES
  flock,      \* the process whose descriptor holds the flock
  file,       \* the pid in the lock file
  pc,         \* where each process's outermost take stands
  inner,      \* the same for a command nested inside a holding one
  holds       \* how often each process took the lock from free

vars == <<flock, file, pc, inner, holds>>

TypeOK ==
  /\ flock \in Proc \cup {NoProc}
  /\ file \in Proc \cup {NoProc}
  /\ pc \in [Proc -> {"idle", "locked", "truncated", "held", "busy", "nested", "dead"}]
  /\ inner \in [Proc -> {"none", "busy", "nested", "refused"}]
  /\ holds \in [Proc -> Nat]

\* /run is a tmpfs: after a boot there is no file and no holder.
Init ==
  /\ flock = NoProc
  /\ file = NoProc
  /\ pc = [p \in Proc |-> "idle"]
  /\ inner = [p \in Proc |-> "none"]
  /\ holds = [p \in Proc |-> 0]

-----------------------------------------------------------------------------
(* take_lock: open, flock without waiting, truncate, write. *)

\* A process whose earlier holds are over may take the lock again (gideon
\* install runs apply and then engine-verify), and a refused one may poll.
Flock(p) ==
  /\ pc[p] = "idle" /\ holds[p] < MaxHolds
  /\ IF flock = NoProc
     THEN /\ flock' = p
          /\ pc' = [pc EXCEPT ![p] = "locked"]
          /\ holds' = [holds EXCEPT ![p] = @ + 1]
     ELSE /\ pc' = [pc EXCEPT ![p] = "busy"]
          /\ UNCHANGED <<flock, holds>>
  /\ UNCHANGED <<file, inner>>

Truncate(p) ==
  /\ pc[p] = "locked"
  /\ file' = NoProc
  /\ pc' = [pc EXCEPT ![p] = "truncated"]
  /\ UNCHANGED <<flock, inner, holds>>

\* State.HELD.
WriteRecord(p) ==
  /\ pc[p] = "truncated"
  /\ file' = p
  /\ pc' = [pc EXCEPT ![p] = "held"]
  /\ UNCHANGED <<flock, inner, holds>>

\* The truncate or the write fails: the descriptor is closed and the error raised.
TakeFails(p) ==
  /\ pc[p] \in {"locked", "truncated"}
  /\ flock' = NoProc
  /\ pc' = [pc EXCEPT ![p] = "idle"]
  /\ UNCHANGED <<file, inner, holds>>

\* The flock was held by another descriptor: read the record through one's own.
\* State.NESTED when it has this pid, else State.REFUSED, and nothing is taken.
ReadRecord(p) ==
  /\ pc[p] = "busy"
  /\ pc' = [pc EXCEPT ![p] = IF file = p THEN "nested" ELSE "idle"]
  /\ UNCHANGED <<flock, file, inner, holds>>

-----------------------------------------------------------------------------
(* A command nested in a holding one (restore's backup run, promote's gates). *)

\* flock conflicts between two descriptors of one process.
InnerFlock(p) ==
  /\ pc[p] = "held" /\ inner[p] = "none"
  /\ inner' = [inner EXCEPT ![p] = "busy"]
  /\ UNCHANGED <<flock, file, pc, holds>>

InnerRead(p) ==
  /\ inner[p] = "busy"
  /\ inner' = [inner EXCEPT ![p] = IF file = p THEN "nested" ELSE "refused"]
  /\ UNCHANGED <<flock, file, pc, holds>>

\* Mutant: the nested command releases what it did not take.
InnerEndReleasing(p) ==
  /\ inner[p] \in {"nested", "refused"}
  /\ inner' = [inner EXCEPT ![p] = "none"]
  /\ flock' = NoProc
  /\ UNCHANGED <<file, pc, holds>>

\* release_claim and the callers' finally: only the claim that took it lets go.
InnerEnd(p) ==
  /\ inner[p] \in {"nested", "refused"}
  /\ inner' = [inner EXCEPT ![p] = "none"]
  /\ UNCHANGED <<flock, file, pc, holds>>

-----------------------------------------------------------------------------
(* release_lock, and the end of the process. *)

Release(p) ==
  /\ pc[p] = "held" /\ inner[p] = "none"
  /\ flock' = NoProc
  /\ pc' = [pc EXCEPT ![p] = "idle"]
  /\ UNCHANGED <<file, inner, holds>>

NestedEnd(p) ==
  /\ pc[p] = "nested"
  /\ pc' = [pc EXCEPT ![p] = "idle"]
  /\ UNCHANGED <<flock, file, inner, holds>>

\* The process ends or is killed anywhere: its descriptors close with it.
Dies(p) ==
  /\ pc[p] # "dead"
  /\ flock' = IF flock = p THEN NoProc ELSE flock
  /\ pc' = [pc EXCEPT ![p] = "dead"]
  /\ inner' = [inner EXCEPT ![p] = "none"]
  /\ UNCHANGED <<file, holds>>

Next ==
  \E p \in Proc :
    \/ Flock(p) \/ Truncate(p) \/ WriteRecord(p) \/ TakeFails(p) \/ ReadRecord(p)
    \/ InnerFlock(p) \/ InnerRead(p) \/ InnerEnd(p)
    \/ Release(p) \/ NestedEnd(p) \/ Dies(p)

Spec == Init /\ [][Next]_vars

-----------------------------------------------------------------------------
(* Properties. *)

Working == {p \in Proc : pc[p] \in {"held", "nested"}}

\* The commands of two processes never work under one lock together: "A holder
\* between its flock and its write leaves the file empty", so that only the
\* holder's own process reads its own pid from the file.
Exclusion == \A p, q \in Working : p = q

\* A nested command of the holder is never refused: no other process's failed,
\* torn or dying take disturbs the holder's record.
NestedPasses == \A p \in Proc : inner[p] # "refused"

\* A take of a process that does not hold the lock passes as nested only over its
\* own earlier record, and only before another taker has emptied the file.
StaleWindow ==
  [][\A p \in Proc : (pc[p] = "busy" /\ pc'[p] = "nested")
       => holds[p] > 0 /\ \A q \in Proc : pc[q] \notin {"truncated", "held"}]_vars

\* The processes that took the lock keep its promise, however often each takes it: one
\* enters after the other left, and neither a nested command's end nor a failed take
\* lets another in beside the holder.
Holders == {p \in Proc : pc[p] = "held"}
Promise == INSTANCE LockPromise WITH working <- Holders
KeepsPromise == Promise!Spec

\* The lock discipline as a whole: a holder keeps its promise, the command it runs inside
\* its hold is never refused, and a stale holder record is met only in the window between
\* the flock and the write.
LocksSound == KeepsPromise /\ StaleWindow /\ []NestedPasses
=============================================================================

--------------------------- MODULE BoxLocksProofs ---------------------------
(***************************************************************************)
(* Proofs about the box's locks, for any set of processes.                 *)
(*                                                                         *)
(* LockInv ties the flock, the file and the program counters together: the *)
(* flock is where the takers' counters say, and from the truncate on the   *)
(* file is the taker's.  It needs no bound on how often a process takes    *)
(* the lock.  OnceInv adds what holds when no process takes it twice: a    *)
(* process that found the lock busy never wrote the file.                  *)
(***************************************************************************)
EXTENDS BoxLocks, TLAPS

LockInv ==
  /\ TypeOK
  /\ \A p \in Proc : flock = p <=> pc[p] \in {"locked", "truncated", "held"}
  /\ \A p \in Proc : pc[p] = "truncated" => file = NoProc
  /\ \A p \in Proc : pc[p] = "held" => file = p
  /\ \A p \in Proc : inner[p] # "none" => pc[p] = "held"
  /\ \A p \in Proc : inner[p] # "refused"
  /\ \A p \in Proc : (file = p \/ flock = p) => holds[p] > 0

\* The lock's type invariant and the agreement of flock, file and counters are
\* preserved by every system call of every process.
LEMMA LockInvInductive == LockInv /\ [Next]_vars => LockInv'
<1> USE ProcAssumption, HoldsAssumption DEF LockInv, TypeOK, vars
<1> SUFFICES ASSUME LockInv, [Next]_vars PROVE LockInv'
  OBVIOUS
<1>1. CASE UNCHANGED vars
  BY <1>1
<1>2. ASSUME NEW p \in Proc, Flock(p) PROVE LockInv'
  BY <1>2 DEF Flock
<1>3. ASSUME NEW p \in Proc, Truncate(p) PROVE LockInv'
  BY <1>3 DEF Truncate
<1>4. ASSUME NEW p \in Proc, WriteRecord(p) PROVE LockInv'
  BY <1>4 DEF WriteRecord
<1>5. ASSUME NEW p \in Proc, TakeFails(p) PROVE LockInv'
  BY <1>5 DEF TakeFails
<1>6. ASSUME NEW p \in Proc, ReadRecord(p) PROVE LockInv'
  BY <1>6 DEF ReadRecord
<1>7. ASSUME NEW p \in Proc, InnerFlock(p) PROVE LockInv'
  BY <1>7 DEF InnerFlock
<1>8. ASSUME NEW p \in Proc, InnerRead(p) PROVE LockInv'
  BY <1>8 DEF InnerRead
<1>9. ASSUME NEW p \in Proc, InnerEnd(p) PROVE LockInv'
  BY <1>9 DEF InnerEnd
<1>10. ASSUME NEW p \in Proc, Release(p) PROVE LockInv'
  BY <1>10 DEF Release
<1>11. ASSUME NEW p \in Proc, NestedEnd(p) PROVE LockInv'
  BY <1>11 DEF NestedEnd
<1>12. ASSUME NEW p \in Proc, Dies(p) PROVE LockInv'
  BY <1>12 DEF Dies
<1>13. QED
  BY <1>1, <1>2, <1>3, <1>4, <1>5, <1>6, <1>7, <1>8, <1>9, <1>10, <1>11, <1>12 DEF Next

LEMMA LockInvInit == Init => LockInv
  BY ProcAssumption, HoldsAssumption DEF Init, LockInv, TypeOK

LEMMA LockInvAlways == Spec => []LockInv
  BY LockInvInit, LockInvInductive, PTL DEF Spec

\* Type correctness of the lock's state, however often it is taken.
THEOREM TypeCorrect == Spec => []TypeOK
<1>1. LockInv => TypeOK
  BY DEF LockInv
<1>2. QED
  BY <1>1, LockInvAlways, PTL

\* A command nested in the holding process passes, whatever the other processes'
\* takes do to the file and however often the lock changes hands.
THEOREM NestedAlwaysPasses == Spec => []NestedPasses
<1>1. LockInv => NestedPasses
  BY DEF LockInv, NestedPasses
<1>2. QED
  BY <1>1, LockInvAlways, PTL

\* A take that does not hold the lock passes as nested only in the window before
\* the taker in front of it has emptied the file of the process's old record.
THEOREM StaleOnlyInWindow == Spec => StaleWindow
<1> DEFINE Window ==
      \A p \in Proc : (pc[p] = "busy" /\ pc'[p] = "nested")
        => holds[p] > 0 /\ \A q \in Proc : pc[q] \notin {"truncated", "held"}
<1>1. LockInv /\ [Next]_vars => [Window]_vars
  <2> SUFFICES ASSUME LockInv, Next, NEW p \in Proc, pc[p] = "busy", pc'[p] = "nested"
               PROVE  holds[p] > 0 /\ \A q \in Proc : pc[q] \notin {"truncated", "held"}
    OBVIOUS
  <2>1. PICK q \in Proc :
          \/ Flock(q) \/ Truncate(q) \/ WriteRecord(q) \/ TakeFails(q) \/ ReadRecord(q)
          \/ InnerFlock(q) \/ InnerRead(q) \/ InnerEnd(q)
          \/ Release(q) \/ NestedEnd(q) \/ Dies(q)
    BY DEF Next
  <2>2. ReadRecord(p)
    <3>1. \A r \in Proc : r # q => pc'[r] = pc[r]
      BY <2>1 DEF LockInv, TypeOK, Flock, Truncate, WriteRecord, TakeFails, ReadRecord,
         InnerFlock, InnerRead, InnerEnd, Release, NestedEnd, Dies
    <3>2. p = q
      BY <3>1
    <3>3. QED
      BY <2>1, <3>2 DEF LockInv, TypeOK, Flock, Truncate, WriteRecord, TakeFails, ReadRecord,
         InnerFlock, InnerRead, InnerEnd, Release, NestedEnd, Dies
  <2>3. file = p
    BY <2>2 DEF ReadRecord, LockInv, TypeOK
  <2>4. QED
    BY <2>3, ProcAssumption DEF LockInv
<1>2. QED
  BY <1>1, LockInvAlways, PTL DEF Spec, StaleWindow

\* The mechanism implements the lock's promise for the processes that take it: every
\* step is one holder's entering or leaving, or changes nothing the promise speaks of.
THEOREM HoldersKeepPromise == Spec => KeepsPromise
<1>1. Init => Promise!Init
  BY DEF Init, Promise!Init, Holders
<1>2. LockInv /\ [Next]_vars => [Promise!Next]_Holders
  <2> SUFFICES ASSUME LockInv, [Next]_vars PROVE [Promise!Next]_Holders
    OBVIOUS
  <2> USE ProcAssumption DEF LockInv, TypeOK, Holders
  <2>1. CASE UNCHANGED vars
    BY <2>1 DEF vars
  <2>2. ASSUME NEW p \in Proc, WriteRecord(p) PROVE Promise!Enter(p)
    BY <2>2 DEF WriteRecord, Promise!Enter
  <2>3. ASSUME NEW p \in Proc, Release(p) PROVE Promise!Leave(p)
    BY <2>3 DEF Release, Promise!Leave
  <2>4. ASSUME NEW p \in Proc, Dies(p) PROVE Promise!Leave(p) \/ UNCHANGED Holders
    BY <2>4 DEF Dies, Promise!Leave
  <2>5. ASSUME NEW p \in Proc,
               \/ Flock(p) \/ Truncate(p) \/ TakeFails(p) \/ ReadRecord(p) \/ InnerFlock(p)
               \/ InnerRead(p) \/ InnerEnd(p) \/ NestedEnd(p)
        PROVE  UNCHANGED Holders
    BY <2>5 DEF Flock, Truncate, TakeFails, ReadRecord, InnerFlock, InnerRead, InnerEnd,
       NestedEnd
  <2>6. QED
    BY <2>1, <2>2, <2>3, <2>4, <2>5 DEF Next, Promise!Next
<1>3. QED
  BY <1>1, <1>2, LockInvAlways, PTL DEF Spec, KeepsPromise, Promise!Spec

-----------------------------------------------------------------------------
(* When no process takes the lock from free more than once. *)

OnceInv ==
  /\ LockInv
  /\ \A p \in Proc : holds[p] > 0 => pc[p] # "busy"
  /\ \A p \in Proc : pc[p] # "nested"

LEMMA OnceInvInductive == ASSUME MaxHolds = 1 PROVE OnceInv /\ [Next]_vars => OnceInv'
<1> SUFFICES ASSUME OnceInv, [Next]_vars PROVE OnceInv'
  OBVIOUS
<1>1. LockInv'
  BY LockInvInductive DEF OnceInv
<1> USE DEF OnceInv, LockInv, TypeOK, vars
<1>2. CASE UNCHANGED vars
  BY <1>1, <1>2
<1>3. ASSUME NEW p \in Proc, Flock(p) PROVE OnceInv'
  BY <1>1, <1>3 DEF Flock
<1>4. ASSUME NEW p \in Proc, ReadRecord(p) PROVE OnceInv'
  BY <1>1, <1>4 DEF ReadRecord
<1>5. ASSUME NEW p \in Proc,
             \/ Truncate(p) \/ WriteRecord(p) \/ TakeFails(p) \/ InnerFlock(p) \/ InnerRead(p)
             \/ InnerEnd(p) \/ Release(p) \/ NestedEnd(p) \/ Dies(p)
      PROVE  OnceInv'
  BY <1>1, <1>5 DEF Truncate, WriteRecord, TakeFails, InnerFlock, InnerRead, InnerEnd,
     Release, NestedEnd, Dies
<1>6. QED
  BY <1>2, <1>3, <1>4, <1>5 DEF Next

LEMMA OnceInvAlways == ASSUME MaxHolds = 1 PROVE Spec => []OnceInv
<1>1. Init => OnceInv
  BY LockInvInit DEF Init, OnceInv
<1>2. OnceInv /\ [Next]_vars => OnceInv'
  BY OnceInvInductive
<1>3. QED
  BY <1>1, <1>2, PTL DEF Spec

\* Commands that take the lock once each exclude one another, for any number of
\* processes dying, failing or nesting anywhere.
THEOREM OnceExclusion == ASSUME MaxHolds = 1 PROVE Spec => []Exclusion
<1>1. OnceInv => Exclusion
  BY ProcAssumption DEF OnceInv, LockInv, Exclusion, Working
<1>2. QED
  BY <1>1, OnceInvAlways, PTL

\* The lock discipline holds for any number of processes, each with any number of holds.
THEOREM LocksAlwaysSound == Spec => LocksSound
BY HoldersKeepPromise, StaleOnlyInWindow, NestedAlwaysPasses, PTL DEF LocksSound
=============================================================================

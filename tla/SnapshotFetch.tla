------------------------------ MODULE SnapshotFetch ------------------------------
(* The worker's file transfer.  A fetch job streams one upstream object into a      *)
(* partial file behind a file lock, checkpoints a record of the durable bytes,      *)
(* resumes from it after a stop, and publishes a whole record and then the file.    *)
(* The queue runs a stalled job again while its first execution may still be going. *)
(*                                                                                  *)
(* A byte is a block that knows which version of the object it came from; the       *)
(* digest is the sequence of blocks streamed.  Files are inodes under two names.    *)
EXTENDS Integers, Sequences, FiniteSets

CONSTANTS
  Execs,       \* the executions the worker can have going
  Inodes,      \* the inodes a behaviour may use
  Size,        \* the object's blocks
  Every,       \* CHECKPOINT_BYTES in blocks
  MaxFailures, \* MAX_NO_PROGRESS_FAILURES
  Offers,      \* what an upstream may give: [etag, length]
  Forms,       \* of "kept" and "fresh"
  Versions,    \* the versions an object goes through
  MaxJobs,     \* bound on the executions started
  MaxTroubles  \* bound on the failures, kills and losses of power

ASSUME FetchShapes ==
  /\ Size \in Nat \ {0} /\ Every \in Nat \ {0} /\ MaxFailures \in Nat \ {0}
  /\ Forms \subseteq {"kept", "fresh"} /\ Versions \in Nat \ {0}
  /\ 0 \notin Execs /\ Inodes \subseteq Nat \ {0} /\ MaxJobs \in Nat /\ MaxTroubles \in Nat
  /\ \A o \in Offers : o.etag \in BOOLEAN /\ o.length \in BOOLEAN

VARIABLES
  upstream,   \* the object served: [v, etag, length]
  form,       \* the destination's form
  names,      \* the directory: [partial, file] as inodes, 0 for no such name
  blocks,     \* per inode its blocks: a version, or 0 for a hole
  synced,     \* per inode the blocks on stable storage
  flocks,     \* per inode the execution holding its lock, or 0
  fetchRec,   \* <name>.fetch.json
  fetchRun,   \* per execution its progress
  jobsDone,   \* the executions that ended, by outcome
  troubles

fetchVars == <<upstream, form, names, blocks, synced, flocks, fetchRec, fetchRun, jobsDone, troubles>>

NoRecord == [state |-> "none"]

\* _Progress, with the execution's place.
NewRun == [at |-> "idle", ino |-> 0, had |-> FALSE, size |-> 0, durable |-> 0, total |-> 0,
           etag |-> 0, ranged |-> FALSE, digest |-> <<>>, out |-> 0, serving |-> 0,
           before |-> 0, failures |-> 0, reason |-> "none"]

Run(e) == fetchRun[e]
To(e, r) == fetchRun' = [fetchRun EXCEPT ![e] = r]
Goes(e, place) == To(e, [Run(e) EXCEPT !.at = place])
Disk == <<names, blocks, synced, fetchRec>>
World == <<upstream, form>>

\* FetchFailure: the execution closes its lock, then files the failure.
Refused(e, reason) == To(e, [Run(e) EXCEPT !.at = "close", !.reason = reason])

PartialRecord(r) ==
  [state |-> "partial", etag |-> r.etag, total |-> r.total, durable |-> r.durable]
WholeRecord(r) == [state |-> "whole", size |-> r.size, digest |-> r.digest]

FileWhole == /\ fetchRec.state = "whole" /\ names.file # 0
             /\ Len(blocks[names.file]) = fetchRec.size

-----------------------------------------------------------------------------
(* The lock. *)

\* A kept file that is whole already ends the job before any lock.
Starts(e) ==
  /\ Run(e).at = "idle" /\ Len(jobsDone) < MaxJobs
  /\ Cardinality({x \in Execs : Run(x).at # "idle"}) + Len(jobsDone) < MaxJobs
  /\ IF form = "kept" /\ FileWhole
     THEN jobsDone' = Append(jobsDone, "succeeded") /\ UNCHANGED fetchRun
     ELSE To(e, [NewRun EXCEPT !.at = "open"]) /\ UNCHANGED jobsDone
  /\ UNCHANGED <<Disk, World, flocks, troubles>>

\* _lock_partial opens the name, making it, and then asks for the lock without waiting.
Opens(e) ==
  /\ Run(e).at = "open"
  /\ IF names.partial # 0
     THEN /\ To(e, [Run(e) EXCEPT !.at = "lock", !.ino = names.partial, !.had = TRUE])
          /\ UNCHANGED names
     ELSE \E i \in {n \in Inodes : blocks[n] = <<>> /\ names.file # n /\ flocks[n] = 0
                                    /\ \A x \in Execs : n \notin {Run(x).ino, Run(x).out}} :
            /\ To(e, [Run(e) EXCEPT !.at = "lock", !.ino = i, !.had = FALSE])
            /\ names' = [names EXCEPT !.partial = i]
  /\ UNCHANGED <<World, blocks, synced, fetchRec, flocks, jobsDone, troubles>>

\* A held lock ends the job as busy.
Locks(e) ==
  /\ Run(e).at = "lock"
  /\ IF flocks[Run(e).ino] = 0
     THEN flocks' = [flocks EXCEPT ![Run(e).ino] = e] /\ Goes(e, "resume")
     ELSE Refused(e, "busy") /\ UNCHANGED flocks
  /\ UNCHANGED <<Disk, World, jobsDone, troubles>>

\* _remove_if_empty and the close of the descriptor; then the failure file.
Closes(e) ==
  /\ Run(e).at = "close"
  /\ LET i == Run(e).ino
         mine == i # 0 /\ flocks[i] = e
     IN  /\ names' = IF mine /\ names.partial = i /\ blocks[i] = <<>>
                     THEN [names EXCEPT !.partial = 0] ELSE names
         /\ flocks' = IF mine THEN [flocks EXCEPT ![i] = 0] ELSE flocks
  /\ jobsDone' = Append(jobsDone, Run(e).reason)
  /\ To(e, NewRun)
  /\ UNCHANGED <<World, blocks, synced, fetchRec, troubles>>

-----------------------------------------------------------------------------
(* Resuming. *)

\* The partial is emptied where it lies, flushed, and the record removed.
_reset_incomplete(e, r) ==
  IF names.partial = 0
  THEN Refused(e, "local") /\ UNCHANGED Disk
  ELSE /\ blocks' = [blocks EXCEPT ![names.partial] = <<>>]
       /\ synced' = [synced EXCEPT ![names.partial] = 0]
       /\ fetchRec' = NoRecord /\ To(e, r) /\ UNCHANGED names

Fresh(e) ==
  _reset_incomplete(e, [NewRun EXCEPT !.at = "ask", !.ino = Run(e).ino, !.had = Run(e).had])

\* A whole record: the file is there, or only its rename is missing.
ResumesWhole(e) ==
  /\ form = "kept" /\ fetchRec.state = "whole"
  /\ IF FileWhole
     THEN /\ names' = [names EXCEPT !.partial = 0]
          /\ Refused(e, "succeeded") /\ UNCHANGED <<blocks, synced, fetchRec>>
     ELSE IF names.file = 0 /\ Run(e).had /\ names.partial # 0
                /\ Len(blocks[names.partial]) = fetchRec.size
     THEN /\ names' = [partial |-> 0, file |-> names.partial]
          /\ Refused(e, "succeeded") /\ UNCHANGED <<blocks, synced, fetchRec>>
     ELSE Refused(e, "local") /\ UNCHANGED Disk

Usable(e) == fetchRec.state = "partial" /\ Run(e).had /\ fetchRec.etag # 0

\* A usable partial record: the bytes beyond the durable ones are cut off and the rest
\* is hashed again.
ResumesPartial(e) ==
  /\ form = "kept" /\ fetchRec.state # "whole" /\ names.file = 0 /\ Usable(e)
  /\ IF names.partial = 0 \/ Len(blocks[names.partial]) < fetchRec.durable
     THEN Refused(e, "local") /\ UNCHANGED Disk
     ELSE LET kept == SubSeq(blocks[names.partial], 1, fetchRec.durable)
          IN  /\ blocks' = [blocks EXCEPT ![names.partial] = kept]
              /\ synced' = [synced EXCEPT ![names.partial] = fetchRec.durable]
              /\ To(e, [Run(e) EXCEPT !.at = IF fetchRec.total = fetchRec.durable THEN "flush" ELSE "ask",
                          !.size = fetchRec.durable, !.durable = fetchRec.durable,
                          !.total = fetchRec.total, !.etag = fetchRec.etag,
                          !.digest = kept, !.ranged = TRUE])
              /\ UNCHANGED <<names, fetchRec>>

_open_or_resume(e) ==
  /\ Run(e).at = "resume"
  /\ \/ form = "fresh" /\ Fresh(e)
     \/ ResumesWhole(e)
     \/ /\ form = "kept" /\ fetchRec.state # "whole" /\ names.file # 0
        /\ Refused(e, "local") /\ UNCHANGED Disk
     \/ ResumesPartial(e)
     \/ form = "kept" /\ fetchRec.state # "whole" /\ names.file = 0 /\ ~Usable(e) /\ Fresh(e)
  /\ UNCHANGED <<World, flocks, jobsDone, troubles>>

-----------------------------------------------------------------------------
(* The stream. *)

Trouble0 == troubles > 0 /\ troubles' = troubles - 1

\* _changed: the partial and the record are removed and the job fails.
_changed(e) ==
  /\ names' = [names EXCEPT !.partial = 0] /\ fetchRec' = NoRecord
  /\ Refused(e, "changed") /\ UNCHANGED <<blocks, synced>>

\* Mutant: the entity tag is not compared.
MatchesAny(e) == TRUE

Matches(e) == upstream.etag /\ Run(e).etag = upstream.v

\* _answer: a range answered with another object or past the end, or a fresh start.  The partial is
\* opened by name for the body.
Answers(e) ==
  /\ Run(e).at = "ask"
  /\ IF Run(e).ranged /\ (~Matches(e) \/ Run(e).size = Size)
     THEN _changed(e)
     ELSE IF names.partial = 0
     THEN Refused(e, "local") /\ UNCHANGED Disk
     ELSE /\ To(e, [Run(e) EXCEPT !.at = "body", !.out = names.partial, !.serving = upstream.v,
                      !.before = Run(e).size,
                      !.total = IF Run(e).ranged THEN @ ELSE IF upstream.length THEN Size ELSE 0,
                      !.etag = IF Run(e).ranged THEN @ ELSE IF upstream.etag THEN upstream.v ELSE 0])
          /\ UNCHANGED Disk
  /\ UNCHANGED <<World, flocks, jobsDone, troubles>>

\* A block at an offset of a file, a hole before it when the file is shorter.
Written(s, at, b) ==
  [k \in 1..(IF Len(s) >= at THEN Len(s) ELSE at) |->
     IF k = at THEN b ELSE IF k <= Len(s) THEN s[k] ELSE 0]

\* A chunk reaches the partial; every CHECKPOINT_BYTES the record follows the flush.
Streams(e) ==
  /\ Run(e).at = "body" /\ Run(e).size < Size
  /\ LET r == [Run(e) EXCEPT !.size = @ + 1, !.digest = Append(@, Run(e).serving)]
         checkpoint == r.size - r.durable >= Every
         now == IF checkpoint THEN [r EXCEPT !.durable = r.size] ELSE r
     IN  /\ blocks' = [blocks EXCEPT ![r.out] = Written(@, r.size, r.serving)]
         /\ synced' = IF checkpoint THEN [synced EXCEPT ![r.out] = Len(blocks'[r.out])] ELSE synced
         /\ fetchRec' = IF checkpoint THEN PartialRecord(now) ELSE fetchRec
         /\ To(e, now)
  /\ UNCHANGED <<World, names, flocks, jobsDone, troubles>>

BodyEnds(e) ==
  /\ Run(e).at = "body" /\ Run(e).size = Size
  /\ Goes(e, "flush")
  /\ UNCHANGED <<Disk, World, flocks, jobsDone, troubles>>

\* A refused status, a transport error or a body cut short.
StreamFails(e) ==
  /\ Run(e).at \in {"ask", "body"} /\ Run(e).size < (IF Run(e).total = 0 THEN Size + 1 ELSE Size)
  /\ Trouble0
  /\ Goes(e, "retry")
  /\ UNCHANGED <<Disk, World, flocks, jobsDone>>


\* _retry: without an entity tag the bytes are dropped, with one they are made durable.
_retry(e) ==
  /\ Run(e).at = "retry"
  /\ LET r0 == Run(e)
         saved == r0.size > r0.before /\ r0.etag # 0
         failures == IF saved THEN 0 ELSE r0.failures + 1
         r == [r0 EXCEPT !.at = "ask", !.failures = failures, !.out = 0, !.serving = 0,
                 !.before = 0]
     IN  IF failures >= MaxFailures THEN Refused(e, "transport") /\ UNCHANGED Disk
         ELSE IF r.size > 0 /\ r.etag = 0
         THEN _reset_incomplete(e, [r EXCEPT !.digest = <<>>, !.size = 0, !.durable = 0,
                                        !.total = 0, !.ranged = FALSE])
         ELSE IF r.size > r.durable
         THEN IF names.partial = 0 THEN Refused(e, "local") /\ UNCHANGED Disk
              ELSE LET now == [r EXCEPT !.durable = r.size, !.ranged = TRUE]
                   IN  /\ synced' = [synced EXCEPT ![names.partial] = Len(blocks[names.partial])]
                       /\ fetchRec' = PartialRecord(now) /\ To(e, now)
                       /\ UNCHANGED <<names, blocks>>
         ELSE To(e, [r EXCEPT !.ranged = r.size > 0]) /\ UNCHANGED Disk
  /\ UNCHANGED <<World, flocks, jobsDone, troubles>>

-----------------------------------------------------------------------------
(* Completion: flush, record, rename. *)

Flushes(e) ==
  /\ Run(e).at = "flush"
  /\ IF names.partial = 0 THEN Refused(e, "local") /\ UNCHANGED synced
     ELSE /\ synced' = [synced EXCEPT ![names.partial] = Len(blocks[names.partial])]
          /\ Goes(e, "record")
  /\ UNCHANGED <<World, names, blocks, fetchRec, flocks, jobsDone, troubles>>

RecordsWhole(e) ==
  /\ Run(e).at = "record"
  /\ fetchRec' = WholeRecord(Run(e)) /\ Goes(e, "rename")
  /\ UNCHANGED <<World, names, blocks, synced, flocks, jobsDone, troubles>>

Renames(e) ==
  /\ Run(e).at = "rename"
  /\ IF names.partial = 0 THEN Refused(e, "local") /\ UNCHANGED names
     ELSE names' = [partial |-> 0, file |-> names.partial] /\ Refused(e, "succeeded")
  /\ UNCHANGED <<World, blocks, synced, fetchRec, flocks, jobsDone, troubles>>

-----------------------------------------------------------------------------
(* The rest. *)

\* The worker dies: its executions and their locks go.
WorkerDies ==
  /\ \E e \in Execs : Run(e).at # "idle"
  /\ Trouble0
  /\ fetchRun' = [e \in Execs |-> NewRun] /\ flocks' = [i \in Inodes |-> 0]
  /\ UNCHANGED <<Disk, World, jobsDone>>

\* Power is lost: so are the bytes that were not flushed.
PowerLoss ==
  /\ Trouble0
  /\ \E n \in [Inodes -> 0..Size] :
       /\ \A i \in Inodes : n[i] \in synced[i]..Len(blocks[i])
       /\ blocks' = [i \in Inodes |-> SubSeq(blocks[i], 1, n[i])]
       /\ synced' = n
  /\ fetchRun' = [e \in Execs |-> NewRun] /\ flocks' = [i \in Inodes |-> 0]
  /\ UNCHANGED <<World, names, fetchRec, jobsDone>>

UpstreamChanges ==
  /\ upstream.v < Versions /\ upstream' = [upstream EXCEPT !.v = @ + 1]
  /\ UNCHANGED <<Disk, form, flocks, fetchRun, jobsDone, troubles>>

FetchInit ==
  /\ \E o \in Offers : upstream = [v |-> 1, etag |-> o.etag, length |-> o.length]
  /\ form \in Forms
  /\ names = [partial |-> 0, file |-> 0]
  /\ blocks = [i \in Inodes |-> <<>>] /\ synced = [i \in Inodes |-> 0]
  /\ flocks = [i \in Inodes |-> 0] /\ fetchRec = NoRecord
  /\ fetchRun = [e \in Execs |-> NewRun] /\ jobsDone = <<>> /\ troubles = MaxTroubles

FetchStep(e) == \/ Opens(e) \/ Locks(e) \/ Closes(e) \/ _open_or_resume(e) \/ Answers(e)
                \/ Streams(e) \/ BodyEnds(e) \/ StreamFails(e) \/ _retry(e)
                \/ Flushes(e) \/ RecordsWhole(e) \/ Renames(e)

FetchNext == \/ \E e \in Execs : Starts(e) \/ FetchStep(e)
             \/ WorkerDies \/ PowerLoss \/ UpstreamChanges

FetchSpec == FetchInit /\ [][FetchNext]_fetchVars

-----------------------------------------------------------------------------
(* Properties. *)

\* A kept file the host reads as whole holds what its record's digest was taken over: one
\* version of the object, every block of it, however the transfer was stopped, resumed,
\* retried or run twice, and whatever the upstream did meanwhile.
WholeTrue ==
  form = "kept" /\ FileWhole =>
    /\ blocks[names.file] = fetchRec.digest
    /\ \E v \in 1..Versions : fetchRec.digest = [k \in 1..Size |-> v]

\* A kept fetch that succeeded left a whole kept file with its record, and nothing later takes
\* it away: the host reads no MissingFetchRecord.
SucceededWhole ==
  form = "kept" /\ (\E i \in DOMAIN jobsDone : jobsDone[i] = "succeeded") => FileWhole

\* A kept fetch tells the truth: a file read as whole is whole and of one version, and a
\* success leaves one.
FetchSound == WholeTrue /\ SucceededWhole
=============================================================================

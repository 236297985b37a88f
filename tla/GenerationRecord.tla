--------------------------- MODULE GenerationRecord ---------------------------
(***************************************************************************)
(* One row of public.index_generations and every statement that writes it. *)
(*                                                                         *)
(* The host writes the row through psql transactions                       *)
(* (gideon/host/index/record.py); the worker's jobs write it through       *)
(* psycopg (gideon/worker/lexical.py, dense.py).  Each statement is a      *)
(* function from rows to rows here, with the WHERE and CASE clauses of its *)
(* SQL.  A timestamp column is abstracted to whether it is set, a count to *)
(* whether the code finds it recorded.                                     *)
(***************************************************************************)

\* The two halves of a generation: the OpenSearch index and the Qdrant collection.
Half == {"lexical", "dense"}

\* The states the record's CHECK admits, and "absent" for no row.
State == {"absent", "building", "built", "live", "retired", "failed"}

\* What index promote reads of the newest build report: none written, one it
\* refuses (a failed stage, a failed cluster gate, no treatment), one it takes.
Report == {"none", "failed", "passed"}

Row == [state : State,
        reason : BOOLEAN,                \* failure_reason IS NOT NULL
        at : [Half -> BOOLEAN],          \* lexical_built_at, dense_built_at
        builtAt : BOOLEAN,
        promotedAt : BOOLEAN,
        retiredAt : BOOLEAN,
        limited : BOOLEAN,               \* counts.dense_limit > 0
        footprint : BOOLEAN,             \* counts has dense_bytes
        counted : BOOLEAN,               \* indexed and present are a finished attempt's
        report : Report]

NoRow == [state |-> "absent", reason |-> FALSE, at |-> [h \in Half |-> FALSE],
          builtAt |-> FALSE, promotedAt |-> FALSE, retiredAt |-> FALSE,
          limited |-> FALSE, footprint |-> FALSE, counted |-> FALSE, report |-> "none"]

Recorded(r) == r.state # "absent"

\* The table's CHECK constraints: a write that breaks one aborts its transaction.
RowChecks(r) ==
  /\ (r.state = "failed") <=> r.reason
  /\ r.builtAt <=> (\A h \in Half : r.at[h])
  /\ r.promotedAt => r.state \in {"live", "retired"}
  /\ (r.state = "retired") <=> r.retiredAt

-----------------------------------------------------------------------------
(* The host's statements. *)

\* INSERT ... 'building', or the row found under the same inputs, unchanged.
write_building(r) == IF Recorded(r) THEN r ELSE [NoRow EXCEPT !.state = "building"]

write_footprint(r) == [r EXCEPT !.footprint = TRUE]

write_report(r, verdict) == [r EXCEPT !.report = verdict]

retired_by_flip(r) == [r EXCEPT !.state = "retired", !.retiredAt = TRUE]

flipped(r) == [r EXCEPT !.state = "live", !.promotedAt = TRUE]

\* One transaction: every other live row retires, the candidate goes live.  The
\* caller guards it with Promotable: otherwise the transaction raises and rolls back.
Promotable(r) == r.state = "built"

\* Mutant: the flip leaves the other live rows as they stand.
promote_only(rows, g) == [rows EXCEPT ![g] = flipped(@)]

promote_generation(rows, g) ==
  [x \in DOMAIN rows |->
     IF x = g THEN flipped(rows[x])
     ELSE IF rows[x].state = "live" THEN retired_by_flip(rows[x])
     ELSE rows[x]]

Demotable(r) == r.state \in {"built", "live"}

\* short is the set of halves the restored stores hold short; never empty.
demote_generation(r, short) ==
  [r EXCEPT !.state = "building", !.builtAt = FALSE, !.promotedAt = FALSE,
            !.at = [h \in Half |-> r.at[h] /\ h \notin short]]

Retirable(r) == r.state \in {"building", "built", "failed"}

retire_generation(r) ==
  [r EXCEPT !.state = "retired", !.retiredAt = TRUE, !.reason = FALSE]

-----------------------------------------------------------------------------
(* The worker's statements. *)

\* RESUME_SQL: WHERE state = 'failed'.
resume(r) ==
  IF r.state = "failed" THEN [r EXCEPT !.state = "building", !.reason = FALSE] ELSE r

\* Mutant: FAIL_SQL without its WHERE on the state.
fail_any(r) == [r EXCEPT !.state = "failed", !.reason = TRUE]

\* FAIL_SQL: WHERE state IN ('building', 'built', 'failed').
fail(r) ==
  IF r.state \in {"building", "built", "failed"}
  THEN [r EXCEPT !.state = "failed", !.reason = TRUE]
  ELSE r

\* The dense job's START_SQL resets the attempt's counts, dense_limit among them.
start(r, limited) == [r EXCEPT !.limited = limited]

\* The lexical job's PROGRESS_SQL writes the running attempt's counts over the last ones.
progress(r) == [r EXCEPT !.counted = FALSE]

\* Both FINISH_SQLs: stamp one half whatever the state, and call the generation
\* built when it is building and the other half's timestamp is set.
finish(r, h) ==
  LET both == \A x \in Half \ {h} : r.at[x]
  IN  [r EXCEPT !.at[h] = TRUE,
                !.builtAt = both,
                !.counted = @ \/ h = "lexical",
                !.state = IF r.state = "building" /\ both THEN "built" ELSE r.state]
=============================================================================

------------------------------ MODULE EngineVerify ------------------------------
(* `gideon engine verify`: whether the box's engine, frontend and embedding server  *)
(* may go live.  The command claims the box's lock, reads the sample file, sizes    *)
(* three long prompts against the engine's own tokenizer, asks for one structured   *)
(* answer and one stream, drives the sample's questions through Open WebUI in chats *)
(* it deletes again, tries the embedding server and records one audit row.          *)
(*                                                                                  *)
(* A reply is reduced to what the checks read of it; a prompt is its number of      *)
(* filler blocks.                                                                   *)
EXTENDS Integers, Sequences, FiniteSets, TLC

CONSTANTS
  Boxes,       \* the boxes the command is run on
  Positives,   \* the ids of sample.frontend.positives, in order
  Documents,   \* the instances the engine may answer the structured case with
  MaxEngineFaults    \* bound on the calls that fail in one run

ASSUME EngineShapes == Positives \in Seq(STRING) /\ Positives # <<>> /\ MaxEngineFaults \in Nat

VARIABLES
  box,         \* the box, constant
  boxLock,     \* who holds the box's lock: none, other, verify
  verify,      \* where the command stands
  sizing,      \* the needle being sized: blocks, the candidate measured, count, rounds
  estimate,    \* per_block and overhead, or NoEstimate
  attempt,     \* the attempt of the sample or of the case
  outcomeOf,   \* what the frontend attempt made of its turn
  verifyChats, \* the chats of this command Open WebUI holds
  checkRows,   \* per check: none, ok or failed
  sentNeedle,  \* the needle prompts sent: blocks and the count they were sent under
  auditRow,    \* none, ok or failed
  verifyExit,  \* running, 0, 1 or killed
  engineFaults

engineVars == <<box, boxLock, verify, sizing, estimate, attempt, outcomeOf, verifyChats,
                checkRows, sentNeedle, auditRow, verifyExit, engineFaults>>

NEEDLE_LENGTHS == <<32768, 131072, 262144>>
NEEDLE_MAX_TOKENS == 64
NEEDLE_SIZING_MARGIN_TOKENS == 256
NEEDLE_MIN_FILL == 97 \* per cent
NEEDLE_SIZING_ROUNDS == 6
SAMPLE_ATTEMPTS == 3

Least(a, b) == IF a < b THEN a ELSE b
Greatest(a, b) == IF a > b THEN a ELSE b
Ceil(a, b) == -((-a) \div b)

-----------------------------------------------------------------------------
(* The sample file. *)

\* A section of the file holds its required keys, each of its kind, and no other.
_walk_unknown(section, keys) == DOMAIN section \subseteq keys
Holds(section, keys) == DOMAIN section = keys /\ \A k \in keys : section[k] # "wrong"

_validate_smoke(section) == Holds(section, {"id", "prompt", "max_tokens"})
_validate_frontend_case(case) ==
  Holds(case, {"id", "prompt"}) /\ case.id # "Not An Id"
_validate_frontend(section) ==
  /\ DOMAIN section = {"positives", "trip"}
  /\ section.positives # <<>>
  /\ LET cases == Append(section.positives, section.trip) IN
       /\ \A i \in DOMAIN cases : _validate_frontend_case(cases[i])
       /\ \A i, j \in DOMAIN cases : cases[i].id = cases[j].id => i = j
_validate_embed(section) ==
  /\ DOMAIN section = {"vectors", "throughput"}
  /\ Holds(section.vectors, {"id", "texts"}) /\ section.vectors.texts # "none"
  /\ Holds(section.throughput, {"id", "filler", "paragraphs", "inputs"})
_validate_needle(section) ==
  /\ Holds(section, {"id", "filler", "planted", "question", "expected", "depth"})
  /\ section.expected = section.planted
_validate_structured(section) ==
  Holds(section, {"id", "prompt", "schema_name", "schema"})

load_sample(file) ==
  /\ file # <<>>
  /\ _walk_unknown(file, {"version", "needle", "structured", "smoke", "frontend", "embed"})
  /\ DOMAIN file = {"version", "needle", "structured", "smoke", "frontend", "embed"}
  /\ file.version = 1
  /\ _validate_needle(file.needle)
  /\ _validate_structured(file.structured)
  /\ _validate_smoke(file.smoke)
  /\ _validate_frontend(file.frontend)
  /\ _validate_embed(file.embed)

\* The schema walk.  A node names its type and its bounds; an instance is <<type, value>>.
\* The result is the set of the paths in violation.
RECURSIVE visit(_, _, _)
visit(value, node, path) ==
  LET kind == value[1]
      v == value[2]
      Bound == IF "minimum" \in DOMAIN node
                 THEN LET size == IF kind = "integer" THEN v ELSE Len(v) IN
                      IF size < node.minimum \/ size > node.maximum THEN {path} ELSE {}
                 ELSE {}
      Choice == IF "enum" \in DOMAIN node /\ value \notin node.enum THEN {path} ELSE {}
  IN CASE node.type # kind -> {path}
       [] kind = "object" ->
            LET Named == DOMAIN node.properties IN
            Choice
              \cup {Append(path, name) : name \in node.required \ DOMAIN v}
              \cup UNION {visit(v[name], node.properties[name], Append(path, name))
                            : name \in Named \cap DOMAIN v}
              \cup {Append(path, "additional") : name \in DOMAIN v \ Named}
       [] kind = "array" ->
            Choice \cup Bound
              \cup UNION {visit(v[i], node.items, Append(path, ToString(i))) : i \in DOMAIN v}
       [] OTHER -> Choice \cup Bound
validate(instance, schema) == visit(instance, schema, <<>>)

-----------------------------------------------------------------------------
(* Replies of a model server. *)

Failing == engineFaults < MaxEngineFaults
Fault(failed) == engineFaults' = engineFaults + (IF failed THEN 1 ELSE 0)

\* What curl left: its exit, the timing marker and the body.
Outputs == [run : {"timeout", "oserror", "nonzero", "exit"}, marker : {"none", "bad", "ok"},
            status : {200, 400, 500}, body : {"json", "events", "empty", "invalid"}]
_body_from_response(body) == body # "invalid"
_reply_from_output(out) ==
  IF out.marker # "ok" \/ ~_body_from_response(out.body) THEN "problem"
  ELSE IF out.status # 200 THEN "status" ELSE "ok"
call_model_server(out) == IF out.run # "exit" THEN "problem" ELSE _reply_from_output(out)
Clean == [run |-> "exit", marker |-> "ok", status |-> 200, body |-> "json"]

\* A call and what the caller sees of it.
Called(reply) ==
  \E out \in IF Failing THEN Outputs ELSE {Clean} :
    /\ reply = call_model_server(out)
    /\ Fault(reply # "ok")
Replies == {"ok", "status", "problem"}

\* The engine's count of a prompt of so many blocks: the paragraphs after the `late`-th
\* cost `more` than the first ones, whose numbers are shorter.
Tokens(blocks) ==
  box.tokens.overhead + blocks * box.tokens.block
    + Greatest(0, blocks - box.tokens.late) * box.tokens.more

build_needle_prompt(blocks) == Greatest(1, blocks)

-----------------------------------------------------------------------------
(* The command's frame. *)

NoSizing == [blocks |-> 0, candidate |-> 0, count |-> 0, rounds |-> 0]
NoEstimate == [block |-> 0, overhead |-> 0]
Case(i) == IF i <= Len(Positives) THEN Positives[i] ELSE "trip"
Role(i) == IF i <= Len(Positives) THEN "positive" ELSE "trip"
Names == {"sequence-cap", "structured", "smoke", "trip", "embed-vectors", "embed-throughput"}
           \cup {ToString(n) : n \in {NEEDLE_LENGTHS[i] : i \in 1..3}}
           \cup {Positives[i] : i \in DOMAIN Positives}

EngineInit ==
  /\ box \in Boxes /\ boxLock = box.lock
  /\ verify = [at |-> "start", i |-> 1]
  /\ sizing = NoSizing /\ estimate = NoEstimate /\ attempt = 1 /\ outcomeOf = "none"
  /\ verifyChats = {} /\ checkRows = [n \in Names |-> "none"] /\ sentNeedle = {}
  /\ auditRow = "none" /\ verifyExit = "running" /\ engineFaults = 0

VerifyAt(at) == verifyExit = "running" /\ verify.at = at
VerifyGoes(at, i) == verify' = [at |-> at, i |-> i]
Row(name, ok) == checkRows' = [checkRows EXCEPT ![name] = IF ok THEN "ok" ELSE "failed"]
Idles == UNCHANGED <<sizing, estimate, attempt, outcomeOf>>

EngineRefuses ==
  /\ verifyExit' = "1" /\ boxLock' = IF boxLock = "verify" THEN "none" ELSE boxLock
  /\ verify' = [at |-> "over", i |-> 1]

_rendered_has_model_server(service) == service \in box.rendered
wait_for_services(service) == service \in box.healthy

resolve_engine_target ==
  /\ _rendered_has_model_server("engine")
  /\ box.lockfile /\ box.window > 0
  /\ wait_for_services("engine")

_embed_target == box.lockfile /\ box.space = "embed"
_resolve_embed_target ==
  _rendered_has_model_server("embed") /\ _embed_target /\ wait_for_services("embed")

Ready == /\ box.site /\ resolve_engine_target /\ load_sample(box.sample)
         /\ box.password /\ box.audit

\* run_engine_verify up to its first row.
VerifyStarts ==
  /\ VerifyAt("start")
  /\ \/ /\ ~box.root /\ EngineRefuses /\ UNCHANGED boxLock
     \/ /\ box.root /\ ~box.gpu
        /\ verifyExit' = "0" /\ VerifyGoes("over", 1) /\ UNCHANGED boxLock
     \/ /\ box.root /\ box.gpu /\ boxLock = "other"
        /\ EngineRefuses
     \/ /\ box.root /\ box.gpu /\ boxLock = "none"
        /\ boxLock' = "verify" /\ VerifyGoes("preconditions", 1) /\ UNCHANGED verifyExit
  /\ Idles /\ UNCHANGED <<box, verifyChats, checkRows, sentNeedle, auditRow, engineFaults>>

VerifyReady ==
  /\ VerifyAt("preconditions")
  /\ IF Ready THEN VerifyGoes("cap", 1) /\ UNCHANGED <<boxLock, verifyExit>> ELSE EngineRefuses
  /\ Idles /\ UNCHANGED <<box, verifyChats, checkRows, sentNeedle, auditRow, engineFaults>>

_max_num_seqs_from_cmdline == box.running
_sequence_cap_check ==
  /\ VerifyAt("cap")
  /\ \E read \in IF Failing THEN BOOLEAN ELSE {TRUE} :
       /\ Fault(~read)
       /\ Row("sequence-cap", /\ box.cap > 0 /\ read /\ _max_num_seqs_from_cmdline = box.cap)
  /\ VerifyGoes("estimates", 1)
  /\ Idles /\ UNCHANGED <<box, boxLock, verifyChats, sentNeedle, auditRow, verifyExit>>

-----------------------------------------------------------------------------
(* The needles. *)

_needle_band(nominal) ==
  LET target == Least(nominal, box.window - NEEDLE_MAX_TOKENS - NEEDLE_SIZING_MARGIN_TOKENS)
  IN [target |-> target, floor |-> (target * NEEDLE_MIN_FILL) \div 100]
Band == _needle_band(NEEDLE_LENGTHS[verify.i])
Within(count, band) == band.floor <= count /\ count <= band.target
NeedleName(i) == ToString(NEEDLE_LENGTHS[i])

\* One row of a needle and on to the next.
NeedleRow(ok) ==
  /\ Row(NeedleName(verify.i), ok)
  /\ sizing' = NoSizing
  /\ IF verify.i < Len(NEEDLE_LENGTHS) THEN VerifyGoes("needle", verify.i + 1)
                                       ELSE VerifyGoes("structured", 1)

\* _needle_estimates: the counts of one block and of two.  Without them every needle's
\* row fails.
_needle_estimates ==
  /\ VerifyAt("estimates")
  /\ \E first, second \in Replies :
       LET block == Tokens(2) - Tokens(1)
           usable == /\ first = "ok" /\ second = "ok" /\ block > 0 /\ Tokens(1) >= block IN
       /\ Failing \/ {first, second} = {"ok"}
       /\ first # "ok" => second = "ok"
       /\ Fault("ok" # first \/ "ok" # second)
       /\ IF usable
            THEN /\ estimate' = [block |-> block, overhead |-> Tokens(1) - block]
                 /\ VerifyGoes("needle", 1) /\ UNCHANGED checkRows
            ELSE /\ checkRows' = [n \in Names |-> IF \E i \in 1..3 : n = NeedleName(i)
                                                  THEN "failed" ELSE checkRows[n]]
                 /\ VerifyGoes("structured", 1) /\ UNCHANGED estimate
  /\ UNCHANGED <<box, boxLock, sizing, attempt, outcomeOf, verifyChats, sentNeedle, auditRow,
                 verifyExit>>

blocks_for(target) == Greatest(1, Ceil(target - estimate.overhead, estimate.block))

NeedleBegins ==
  /\ VerifyAt("needle")
  /\ IF Band.floor < 1
       THEN NeedleRow(FALSE)
       ELSE /\ sizing' = [NoSizing EXCEPT !.blocks = blocks_for(Band.target)]
            /\ VerifyGoes("sizing", verify.i) /\ UNCHANGED checkRows
  /\ UNCHANGED <<box, boxLock, estimate, attempt, outcomeOf, verifyChats, sentNeedle, auditRow,
                 verifyExit, engineFaults>>

\* Mutant: the estimate of one block is kept for the whole prompt.
AdjustedByEstimate(count) ==
  LET adjustment == Greatest(1, Ceil(IF count > Band.target THEN count - Band.target
                                     ELSE Band.floor - count, estimate.block))
  IN IF count > Band.target THEN Greatest(1, sizing.blocks - adjustment)
     ELSE sizing.blocks + adjustment

\* The blocks of the next round, from the average cost of the blocks just measured.
Adjusted(count) ==
  LET adjustment == Greatest(1, Ceil((IF count > Band.target THEN count - Band.target
                                      ELSE Band.floor - count) * sizing.blocks,
                                     count - estimate.overhead))
  IN IF count > Band.target THEN Greatest(1, sizing.blocks - adjustment)
     ELSE sizing.blocks + adjustment

\* One round of _size_needle.  A round out of the band moves the blocks on even when it
\* was the last one; the candidate and the count are of the prompt that was measured.
_size_needle ==
  /\ VerifyAt("sizing")
  /\ \E reply \in Replies :
       LET prompt == build_needle_prompt(sizing.blocks)
           count == Tokens(prompt)
           measured == [sizing EXCEPT !.candidate = sizing.blocks, !.count = count,
                                      !.rounds = @ + 1] IN
       /\ Called(reply)
       /\ IF reply # "ok" THEN NeedleRow(FALSE)
          ELSE IF Within(count, Band)
                 THEN /\ sizing' = measured /\ VerifyGoes("send", verify.i) /\ UNCHANGED checkRows
          ELSE IF count <= estimate.overhead \/ measured.rounds = NEEDLE_SIZING_ROUNDS
                 THEN NeedleRow(FALSE)
          ELSE /\ sizing' = [measured EXCEPT !.blocks = Adjusted(count)]
               /\ UNCHANGED <<verify, checkRows>>
  /\ UNCHANGED <<box, boxLock, estimate, attempt, outcomeOf, verifyChats, sentNeedle, auditRow,
                 verifyExit>>

\* The prompt is sent; the row passes when usage agrees with the count and the planted
\* text came back.
_needle_check ==
  /\ VerifyAt("send")
  /\ \E reply \in Replies, content, usage, recalled \in BOOLEAN :
       /\ Called(reply)
       /\ (reply # "ok" => content) /\ ((reply # "ok" \/ ~content) => usage)
       /\ ((reply # "ok" \/ ~content \/ ~usage) => recalled)
       /\ sentNeedle' = sentNeedle \cup {[i |-> verify.i, blocks |-> sizing.candidate,
                                          count |-> sizing.count, rounds |-> sizing.rounds]}
       /\ NeedleRow(reply = "ok" /\ content /\ usage /\ recalled)
  /\ UNCHANGED <<box, boxLock, estimate, attempt, outcomeOf, verifyChats, auditRow, verifyExit>>

-----------------------------------------------------------------------------
(* The structured answer and the stream. *)

\* completion_values: what a completion says of itself.
completion_values == [content : Documents \cup {<<"none", 0>>, <<"text", 0>>},
                      finish : {"stop", "length", "other"}]

\* The result of one attempt: length asks for another one.
_structured_attempt(reply, values) ==
  IF reply # "ok" THEN "failed"
  ELSE IF values.finish = "length" THEN "length"
  ELSE IF /\ values.content[1] \notin {"none", "text"} /\ values.finish = "stop"
          /\ validate(values.content, box.schema) = {}
       THEN "valid" ELSE "failed"

_structured_check ==
  /\ VerifyAt("structured")
  /\ \E reply \in Replies, values \in completion_values :
       LET result == _structured_attempt(reply, values) IN
       /\ Called(reply)
       /\ IF result = "length" /\ attempt < SAMPLE_ATTEMPTS
            THEN attempt' = attempt + 1 /\ UNCHANGED <<verify, checkRows, outcomeOf>>
            ELSE /\ Row("structured", result = "valid")
                 /\ attempt' = 1 /\ VerifyGoes("smoke", 1)
                 /\ outcomeOf' = "none"
  /\ UNCHANGED <<box, boxLock, sizing, estimate, verifyChats, sentNeedle, auditRow, verifyExit>>

\* _stream_values over the stream's events: its text, its usage chunk, its finish reason.
_stream_values == [text : BOOLEAN, usage : BOOLEAN, finish : {"stop", "length", "none"},
                   done : BOOLEAN, timed : BOOLEAN]
Streamed == [text |-> TRUE, usage |-> TRUE, finish |-> "stop", done |-> TRUE, timed |-> TRUE]

_smoke_check ==
  /\ VerifyAt("smoke")
  /\ \E reply \in Replies, s \in IF Failing THEN _stream_values ELSE {Streamed} :
       LET ok == /\ reply = "ok" /\ s.timed /\ s.usage /\ s.done /\ s.text
                 /\ s.finish \in {"stop", "length"} IN
       /\ IF reply = "ok" THEN Fault(~ok) ELSE Called(reply)
       /\ Row("smoke", ok)
  /\ VerifyGoes("signin", 1)
  /\ Idles /\ UNCHANGED <<box, boxLock, verifyChats, sentNeedle, auditRow, verifyExit>>

-----------------------------------------------------------------------------
(* The questions through Open WebUI. *)

_frontend_checks ==
  /\ VerifyAt("signin")
  /\ \/ /\ VerifyGoes("case", 1) /\ UNCHANGED <<checkRows, engineFaults>>
     \/ /\ Failing /\ Fault(TRUE) /\ VerifyGoes("embed", 1)
        /\ checkRows' = [n \in Names |-> IF \E i \in 1..Len(Positives) + 1 : n = Case(i)
                                         THEN "failed" ELSE checkRows[n]]
  /\ Idles /\ UNCHANGED <<box, boxLock, verifyChats, sentNeedle, auditRow, verifyExit>>

\* What the stored turn amounts to.
Stored == [unfinished : BOOLEAN, empty : BOOLEAN, trips : BOOLEAN, dates : BOOLEAN,
           refusal : BOOLEAN]
_frontend_outcome(t) ==
  IF t.unfinished \/ t.empty THEN "failed"
  ELSE IF t.trips THEN "leak" ELSE IF t.dates THEN "computed"
  ELSE IF t.refusal THEN "refused" ELSE "answered"

_frontend_verdict(role, outcome) ==
  IF role = "positive" THEN outcome \in {"refused", "answered", "computed"}
                       ELSE outcome = "refused"

ThisChat == <<verify.i, attempt>>
Turned(chats, outcome, at) ==
  verifyChats' = chats /\ outcomeOf' = outcome /\ VerifyGoes(at, verify.i)

\* The attempt's turn: the chats before it are listed, the question is posted and the chat
\* that carries its ids is read.  A chat the finding does not name is not deleted; a turn
\* that ended in a problem still has its chat found.
FrontendTurn ==
  /\ VerifyAt("case")
  /\ \/ /\ \E t \in Stored :
             Turned(verifyChats \cup {ThisChat}, _frontend_outcome(t), "delete")
        /\ UNCHANGED engineFaults
     \/ /\ Failing /\ Fault(TRUE)
        /\ \/ Turned(verifyChats, "failed", "verdict")
           \/ Turned(verifyChats \cup {ThisChat}, "failed", "verdict")
           \/ Turned(verifyChats \cup {ThisChat}, "failed", "delete")
  /\ UNCHANGED <<box, boxLock, sizing, estimate, attempt, checkRows, sentNeedle, auditRow,
                 verifyExit>>

\* A deletion that failed turns the attempt into a failure, whatever its outcome was.
DeleteFails ==
  /\ Failing /\ Fault(TRUE) /\ outcomeOf' = "failed"
  /\ verifyChats' \in {verifyChats, verifyChats \ {ThisChat}}

FrontendDeletes ==
  /\ VerifyAt("delete")
  /\ \/ verifyChats' = verifyChats \ {ThisChat} /\ UNCHANGED <<outcomeOf, engineFaults>>
     \/ DeleteFails
  /\ VerifyGoes("verdict", verify.i)
  /\ UNCHANGED <<box, boxLock, sizing, estimate, attempt, checkRows, sentNeedle, auditRow,
                 verifyExit>>

\* _frontend_case: a model that only declined the trip stimulus is asked again, twice.
_frontend_case ==
  /\ VerifyAt("verdict")
  /\ IF Role(verify.i) = "trip" /\ outcomeOf = "answered" /\ attempt < SAMPLE_ATTEMPTS
       THEN attempt' = attempt + 1 /\ VerifyGoes("case", verify.i) /\ UNCHANGED checkRows
       ELSE /\ Row(Case(verify.i), _frontend_verdict(Role(verify.i), outcomeOf))
            /\ attempt' = 1
            /\ IF verify.i <= Len(Positives) THEN VerifyGoes("case", verify.i + 1)
                                             ELSE VerifyGoes("embed", 1)
  /\ outcomeOf' = "none"
  /\ UNCHANGED <<box, boxLock, sizing, estimate, verifyChats, sentNeedle, auditRow,
                 verifyExit, engineFaults>>

-----------------------------------------------------------------------------
(* The embedding server and the end. *)

_embed_vectors_check(reply, vectors) ==
  reply = "ok" /\ vectors.count /\ vectors.width /\ vectors.norm
_embed_throughput_check(reply, usage) == reply = "ok" /\ usage

EmbedChecks ==
  /\ VerifyAt("embed")
  /\ \E first, second \in Replies, usage \in BOOLEAN,
        vectors \in [count : BOOLEAN, width : BOOLEAN, norm : BOOLEAN] :
       LET vectorsOk == _embed_vectors_check(first, vectors)
           throughputOk == _embed_throughput_check(second, usage) IN
       /\ (~Failing) => (vectorsOk /\ throughputOk)
       /\ Fault(~(vectorsOk /\ throughputOk))
       /\ checkRows' = [checkRows EXCEPT
            !["embed-vectors"] = IF _resolve_embed_target /\ vectorsOk THEN "ok" ELSE "failed",
            !["embed-throughput"] = IF _resolve_embed_target /\ throughputOk THEN "ok"
                                                                             ELSE "failed"]
  /\ VerifyGoes("audit", 1)
  /\ Idles /\ UNCHANGED <<box, boxLock, verifyChats, sentNeedle, auditRow, verifyExit>>

AllPassed == \A n \in Names : checkRows[n] = "ok"

VerifyAudits ==
  /\ VerifyAt("audit")
  /\ \E written \in IF Failing THEN BOOLEAN ELSE {TRUE} :
       /\ Fault(~written)
       /\ auditRow' = IF ~written THEN auditRow ELSE IF AllPassed THEN "ok" ELSE "failed"
       /\ verifyExit' = IF AllPassed /\ written THEN "0" ELSE "1"
  /\ VerifyGoes("over", 1) /\ boxLock' = "none"
  /\ Idles /\ UNCHANGED <<box, verifyChats, checkRows, sentNeedle>>

\* The process is killed; its lock is left as it was.
VerifyKilled ==
  /\ verifyExit = "running" /\ Failing /\ verify.at # "start"
  /\ verifyExit' = "killed"
  /\ UNCHANGED <<box, boxLock, verify, sizing, estimate, attempt, outcomeOf, verifyChats,
                 checkRows, sentNeedle, auditRow, engineFaults>>

EngineStep ==
  \/ VerifyStarts \/ VerifyReady \/ _sequence_cap_check
  \/ _needle_estimates \/ NeedleBegins \/ _size_needle \/ _needle_check
  \/ _structured_check \/ _smoke_check
  \/ _frontend_checks \/ FrontendTurn \/ FrontendDeletes \/ _frontend_case
  \/ EmbedChecks \/ VerifyAudits
EngineNext == EngineStep \/ VerifyKilled
EngineSpec == EngineInit /\ [][EngineNext]_engineVars /\ WF_engineVars(EngineStep)

-----------------------------------------------------------------------------
(* Properties. *)

\* A verification that lets the box go live on a GPU host (exit 0) passed every check, left
\* its row, and left no chat of its own in Open WebUI, whatever failed on the way
\* (run_engine_verify, _frontend_attempt's finally).
LiveClean ==
  (verifyExit = "0" /\ box.gpu) =>
     /\ AllPassed /\ auditRow = "ok" /\ verifyChats = {}
     /\ Cardinality(sentNeedle) = Len(NEEDLE_LENGTHS)

\* The prompt a needle is sent with is the one that was measured: its count is its own, lies
\* in the band and leaves the answer room in the window; and when the engine's blocks cost
\* at most twice the estimate, six rounds find such a prompt (_size_needle).
NeedleSized ==
  /\ \A s \in sentNeedle :
       /\ s.count = Tokens(s.blocks) /\ Within(s.count, _needle_band(NEEDLE_LENGTHS[s.i]))
       /\ s.count + NEEDLE_MAX_TOKENS <= box.window
  /\ (verify.at = "structured" /\ engineFaults = 0 /\ estimate # NoEstimate
      /\ box.tokens.more <= box.tokens.block /\ box.window >= NEEDLE_LENGTHS[1])
       => \A i \in DOMAIN NEEDLE_LENGTHS : \E s \in sentNeedle : s.i = i

\* A verification's word can be taken: what exits 0 is clean, what was sized was measured.
VerifySound == LiveClean /\ NeedleSized
================================================================================

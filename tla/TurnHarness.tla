------------------------------ MODULE TurnHarness ------------------------------
(* The turn harness of the evaluation: `tools.turns` drives each case through one  *)
(* of four drivers, in as many sessions as asked for, judges what came back,       *)
(* deletes the chats it made and reports what it could not delete.  A stop signal  *)
(* sweeps the turns in flight within a bound and then kills the process.           *)
(*                                                                                 *)
(* A turn is <<session, n>>, the session's n-th; its chat carries the same name.   *)
(* Texts are reduced to what the judgement tells apart.                            *)
EXTENDS Integers, Sequences, FiniteSets

CONSTANTS
  Expects,     \* what each case of the run expects, in order
  Options,     \* the runs asked for: the driver, the sessions, the stream as well
               \* or not, and a bound on the calls and the page reads that fail in it
  MaxFrames    \* bound on the frames a page paints in one turn

ASSUME HarnessShapes ==
  /\ Expects \in Seq({"refused", "answered", "not-confirmed", "recorded"}) /\ Expects # <<>>
  /\ \A o \in Options : /\ o.mode \in {"api", "service", "unfiltered", "browser"}
                        /\ o.sessions \in Nat \ {0} /\ o.stream \in BOOLEAN /\ o.slips \in Nat
  /\ Options # {} /\ MaxFrames \in Nat

VARIABLES
  options,    \* the run asked for
  runAt,      \* where the command stands
  turnOf,     \* per session, the turn it is at
  chats,      \* the run's chats Open WebUI holds
  landing,    \* the managed turns sent whose chat does not exist yet
  flying,     \* _in_flight._turns: each with whether its chat is named
  released,   \* _in_flight._releases
  stopAt,     \* the signal handler: none, sweeping, reported
  snapshot,   \* the turns the handler took
  swept,      \* the sweep's outcomes so far
  stopRow,    \* the turns the stop row reports deleted
  rows,       \* the bookkeeping
  exitCode,   \* running, passed (0), failed (1) or killed
  slips

harnessVars == <<options, runAt, turnOf, chats, landing, flying, released, stopAt, snapshot,
                 swept, stopRow, rows, exitCode, slips>>

-----------------------------------------------------------------------------
(* The judgement of what a turn returned. *)

\* What the judgement tells apart of an answer: its text is a refusal after a released
\* prefix, the judged part trips, a decline form occurs, it is longer than a decline,
\* and its stored output carries reasoning.
Answer == [refusal : BOOLEAN, trips : BOOLEAN, declines : BOOLEAN, long : BOOLEAN,
           reasoning : BOOLEAN]

classify(a) ==
  CASE a.trips    -> "leak"
    [] ~a.trips /\ a.refusal -> "replaced"
    [] ~a.trips /\ ~a.refusal /\ a.declines -> IF a.long THEN "disclaimed" ELSE "declined"
    [] OTHER -> "answered"

Passing(expect) ==
  CASE expect = "refused"  -> {"replaced", "declined", "disclaimed"}
    [] expect = "answered" -> {"answered", "disclaimed"}
    [] OTHER -> {"replaced", "declined", "disclaimed", "answered"}

\* judge_case: the class the case expects, and no reasoning stored.
judge_case(expect, a) == classify(a) \in Passing(expect) /\ ~a.reasoning

\* stream_verdict over the deltas of a stream, each reduced to its field: a status outside the progress set or a reasoning delta
\* leaks at once; of the content, only a trip of the whole released text does.
Deltas == {<<"content">>, <<"reasoning", "content">>, <<"status outside", "content">>}

stream_verdict(deltas, whole) ==
  IF \E i \in DOMAIN deltas : deltas[i] \in {"reasoning", "status outside"} \/ whole
  THEN "leak" ELSE "clean"

-----------------------------------------------------------------------------
(* The browser's watch: what the page painted, frame by frame. *)

\* A frame: the windowed judgement trips, the judgement of the whole answer trips, the
\* answer is a refusal, continues the last one (marks set aside), extends it to the
\* letter, and the reasoning block holds text.
Frame == {f \in [trip : BOOLEAN, whole : BOOLEAN, refused : BOOLEAN, continued : BOOLEAN,
                 prefix : BOOLEAN, block : BOOLEAN] :
            (f.prefix => f.continued) /\ (f.refused => ~f.trip)}

NoWatch == [entries |-> <<>>, open |-> FALSE, last |-> FALSE]

take(w, f) ==
  LET cleared == ~f.trip /\ w.open /\ (w.last \/ ~f.prefix) /\ ~f.whole
  IN  [entries |-> Append(w.entries, [trip |-> f.trip, whole |-> f.whole, refused |-> f.refused,
                                      continued |-> f.continued, cleared |-> cleared,
                                      block |-> f.block]),
       open |-> IF f.trip THEN TRUE ELSE w.open /\ ~cleared,
       last |-> f.trip]

\* Where the trip painted at i is cleared, or the last entry.
ClearOf(entries, i) ==
  LET later == {j \in (i + 1)..Len(entries) : entries[j].cleared}
  IN  IF later = {} THEN Len(entries) ELSE CHOOSE j \in later : \A k \in later : j <= k

Flashes(entries) ==
  {i \in DOMAIN entries :
     /\ entries[i].trip /\ (i = 1 \/ ~entries[i - 1].trip)
     /\ \E j \in (i + 1)..ClearOf(entries, i) : ~entries[j].continued}

\* What a reader at the screen would object to: a trip was painted and a refusal took its place.
TakenBack(entries) ==
  \E i, j \in DOMAIN entries :
    i < j /\ entries[i].trip /\ entries[j].refused /\ ~entries[j].continued
      /\ \A k \in i..(j - 1) : ~entries[k].cleared

live_verdict(entries) ==
  [none      |-> entries = <<>>,
   onScreen  |-> entries # <<>> /\ entries[Len(entries)].whole,
   reasoning |-> \E i \in DOMAIN entries : entries[i].block,
   flash     |-> Flashes(entries) # {}]

live_fails(v) == v.none \/ v.onScreen \/ v.reasoning \/ v.flash

-----------------------------------------------------------------------------
(* The run. *)

TurnStages ==
  [mode \in {"api", "service", "unfiltered", "browser"} |->
     CASE mode = "api"     -> <<"list", "register", "post", "await", "find", "name", "judge",
                                "replay", "delete", "release", "finalise">>
       [] mode = "browser" -> <<"list", "page", "watch", "stored", "judge", "delete", "finalise">>
       [] OTHER            -> <<"call", "judge", "finalise">>]

NewTurn(n, mode) ==
  [n |-> n, at |-> Head(TurnStages[mode]), chat |-> FALSE, ids |-> FALSE, problem |-> "none",
   retried |-> FALSE, ok |-> FALSE, bad |-> FALSE, deleted |-> FALSE,
   watch |-> NoWatch]

NoRows == [notDeleted |-> {}, unverified |-> {}, failed |-> {}, bad |-> {}, cut |-> {}]

Sessions   == 1..options.sessions
Concurrent == options.sessions > 1
Units      == Len(Expects)
KeepsChats == options.mode \in {"api", "browser"}
TurnId(s)  == <<s, turnOf[s].n>>

\* _session_units: each session starts one case further on.
ExpectOf(s) == Expects[((turnOf[s].n + s - 2) % Units) + 1]

HarnessInit ==
  /\ options \in Options
  /\ runAt = "preconditions"
  /\ turnOf = [s \in 1..options.sessions |-> NewTurn(1, options.mode)]
  /\ chats = {} /\ landing = {} /\ flying = {} /\ released = {}
  /\ stopAt = "none" /\ snapshot = {} /\ swept = <<>> /\ stopRow = {}
  /\ rows = NoRows /\ exitCode = "running" /\ slips = 0

Slip == slips < options.slips /\ slips' = slips + 1
Sure == UNCHANGED slips

runVars  == <<options, runAt, exitCode>>
stopVars == <<stopAt, snapshot, swept, stopRow>>

\* The flags, the root, the site, the cases and the window are checked, and the engine lock
\* is claimed, before anything is sent.
HarnessPreconditions ==
  /\ runAt = "preconditions" /\ exitCode = "running"
  /\ options.mode \in {"browser", "unfiltered"} => ~Concurrent /\ ~options.stream
  /\ runAt' = "signin" /\ Sure
  /\ UNCHANGED <<options, turnOf, chats, landing, flying, released, stopVars, rows, exitCode>>

PreconditionsRefuse ==
  /\ runAt = "preconditions" /\ exitCode = "running"
  /\ Slip \/ (options.mode \in {"browser", "unfiltered"} /\ (Concurrent \/ options.stream) /\ Sure)
  /\ exitCode' = "failed"
  /\ UNCHANGED <<options, runAt, turnOf, chats, landing, flying, released, stopVars, rows>>

\* Every driver signs in, and a browser observes its page, before the first turn.
SignsIn ==
  /\ runAt = "signin" /\ exitCode = "running" /\ stopAt = "none" /\ runAt' = "turns" /\ Sure
  /\ UNCHANGED <<options, turnOf, chats, landing, flying, released, stopVars, rows, exitCode>>

SigninFails ==
  /\ runAt = "signin" /\ exitCode = "running" /\ stopAt = "none" /\ Slip /\ exitCode' = "failed"
  /\ UNCHANGED <<options, runAt, turnOf, chats, landing, flying, released, stopVars, rows>>

\* A lone session runs on the main thread, which the signal handler keeps.
SessionAt(s, stage) ==
  /\ s \in Sessions /\ runAt = "turns" /\ exitCode = "running" /\ turnOf[s].n <= Units
  /\ Concurrent \/ stopAt = "none"
  /\ turnOf[s].at = stage

Move(s, stage) == turnOf' = [turnOf EXCEPT ![s].at = stage]
Put(s, t)      == turnOf' = [turnOf EXCEPT ![s] = t]
Server         == <<chats, landing>>
Registry       == <<flying, released>>

ListsChats(s) ==
  /\ SessionAt(s, "list") /\ Move(s, TurnStages[options.mode][2]) /\ Sure
  /\ UNCHANGED <<runVars, Server, Registry, stopVars, rows>>

\* The listing raises: the row is an error and the chat was never identified.
ListingFails(s) ==
  /\ SessionAt(s, "list") /\ Slip
  /\ Put(s, [turnOf[s] EXCEPT !.at = "finalise", !.problem = "error"])
  /\ UNCHANGED <<runVars, Server, Registry, stopVars, rows>>

\* Once the handler has run, a turn waits here for the process's end.
Registers(s) ==
  /\ SessionAt(s, "register") /\ stopAt = "none" /\ Move(s, "post") /\ Sure
  /\ flying' = flying \cup {[id |-> TurnId(s), named |-> FALSE]}
  /\ UNCHANGED <<runVars, Server, released, stopVars, rows>>

Posts(s) ==
  /\ SessionAt(s, "post") /\ Move(s, "await") /\ Sure
  /\ landing' = landing \cup {TurnId(s)}
  /\ UNCHANGED <<runVars, chats, Registry, stopVars, rows>>

\* Open WebUI makes the chat, perhaps after its caller gave up or died.
Lands(t) ==
  /\ t \in landing /\ landing' = landing \ {t} /\ chats' = chats \cup {t} /\ Sure
  /\ UNCHANGED <<runVars, turnOf, Registry, stopVars, rows>>

Answered(s) ==
  /\ SessionAt(s, "await") /\ TurnId(s) \notin landing /\ Move(s, "find") /\ Sure
  /\ UNCHANGED <<runVars, Server, Registry, stopVars, rows>>

\* The managed turn fails, or meets the turn's bound.
AnswerFails(s) ==
  /\ SessionAt(s, "await") /\ Slip
  /\ \E cut \in BOOLEAN :
       Put(s, [turnOf[s] EXCEPT !.at = "find", !.problem = IF cut THEN "cut" ELSE "error"])
  /\ UNCHANGED <<runVars, Server, Registry, stopVars, rows>>

\* find_turn_chat: the chat that holds the turn's two ids, among those not listed before.
Finds(s) ==
  /\ SessionAt(s, "find") /\ Sure
  /\ IF TurnId(s) \in chats
     THEN Move(s, "name")
     ELSE Put(s, [turnOf[s] EXCEPT !.at = "judge", !.ids = TRUE])
  /\ UNCHANGED <<runVars, Server, Registry, stopVars, rows>>

\* Mutant: every turn released while stopping counts as deleted.
ReleaseAsDeleted(s, deleted) ==
  /\ flying' = {r \in flying : r.id # TurnId(s)}
  /\ released' = IF stopAt = "none" THEN released ELSE released \cup {TurnId(s)}

\* The registry forgets the turn; while stopping it keeps that the turn deleted its chat.
Release(s, deleted) ==
  /\ flying' = {r \in flying : r.id # TurnId(s)}
  /\ released' = IF stopAt # "none" /\ deleted THEN released \cup {TurnId(s)} ELSE released

\* The finder is asked twice; the second failure releases the turn and leaves the row to
\* the caller, which never learns the turn's ids.
FindingFails(s) ==
  /\ SessionAt(s, "find") /\ Slip
  /\ IF turnOf[s].retried
     THEN /\ Release(s, FALSE)
          /\ Put(s, [turnOf[s] EXCEPT !.at = "finalise", !.problem = "error"])
     ELSE /\ Put(s, [turnOf[s] EXCEPT !.retried = TRUE,
                                      !.problem = IF @ = "none" THEN "error" ELSE @])
          /\ UNCHANGED Registry
  /\ UNCHANGED <<runVars, Server, stopVars, rows>>

NamesChat(s) ==
  /\ SessionAt(s, "name") /\ Sure
  /\ flying' = {[r EXCEPT !.named = @ \/ r.id = TurnId(s)] : r \in flying}
  /\ Put(s, [turnOf[s] EXCEPT !.at = "judge", !.chat = TRUE, !.ids = TRUE])
  /\ UNCHANGED <<runVars, Server, released, stopVars, rows>>

\* A browser sends the prompt; the page's address names the chat once it exists.
OpensPage(s) ==
  /\ SessionAt(s, "page") /\ Sure
  /\ chats' = chats \cup {TurnId(s)}
  /\ Put(s, [turnOf[s] EXCEPT !.at = "watch", !.chat = TRUE])
  /\ UNCHANGED <<runVars, landing, Registry, stopVars, rows>>

\* The page fails before the address names a chat, which may exist all the same.
PageFails(s) ==
  /\ SessionAt(s, "page") /\ Slip
  /\ \E made \in BOOLEAN : chats' = IF made THEN chats \cup {TurnId(s)} ELSE chats
  /\ Put(s, [turnOf[s] EXCEPT !.at = "judge", !.problem = "error"])
  /\ UNCHANGED <<runVars, landing, Registry, stopVars, rows>>

Paints(s) ==
  /\ SessionAt(s, "watch") /\ Len(turnOf[s].watch.entries) < MaxFrames /\ Sure
  /\ \E f \in Frame : Put(s, [turnOf[s] EXCEPT !.watch = take(@, f)])
  /\ UNCHANGED <<runVars, Server, Registry, stopVars, rows>>

\* The stop button is gone: the watch ends, and the stored turn is read.
WatchEnds(s) ==
  /\ SessionAt(s, "watch") /\ Move(s, "stored") /\ Sure
  /\ UNCHANGED <<runVars, Server, Registry, stopVars, rows>>

\* The page cannot be read, or the deadline passes first.
WatchFails(s) ==
  /\ SessionAt(s, "watch") /\ Slip
  /\ Put(s, [turnOf[s] EXCEPT !.at = "stored", !.problem = "error"])
  /\ UNCHANGED <<runVars, Server, Registry, stopVars, rows>>

ReadsStored(s) ==
  /\ SessionAt(s, "stored") /\ Move(s, "judge") /\ Sure
  /\ UNCHANGED <<runVars, Server, Registry, stopVars, rows>>

StoredFails(s) ==
  /\ SessionAt(s, "stored") /\ Slip
  /\ Put(s, [turnOf[s] EXCEPT !.at = "judge", !.problem = IF @ = "none" THEN "error" ELSE @])
  /\ UNCHANGED <<runVars, Server, Registry, stopVars, rows>>

\* What the client's envelope holds; its problem, given which form was asked for.
Envelopes == {"body", "stream", "unended stream", "status", "invalid", "no message"}
reply_problem(e) ==
  IF e = (IF options.mode = "service" /\ options.stream THEN "stream" ELSE "body") THEN "none" ELSE "error"

\* The service's door and the engine's: one call, no chat.
Calls(s) ==
  /\ SessionAt(s, "call")
  /\ \E e \in Envelopes :
       /\ IF reply_problem(e) = "none" THEN Sure ELSE Slip
       /\ Put(s, [turnOf[s] EXCEPT !.at = "judge", !.problem = reply_problem(e)])
  /\ UNCHANGED <<runVars, Server, Registry, stopVars, rows>>

\* The client inside the container met the deadline, or failed: it writes a failure record
\* and exits non-zero, and a non-zero exit is read before the record is.
ClientFails(s) ==
  /\ SessionAt(s, "call") /\ Slip
  /\ Put(s, [turnOf[s] EXCEPT !.at = "judge", !.problem = "error"])
  /\ UNCHANGED <<runVars, Server, Registry, stopVars, rows>>

\* The client itself outlives the deadline and its margin.
CallExpires(s) ==
  /\ SessionAt(s, "call") /\ Slip
  /\ Put(s, [turnOf[s] EXCEPT !.at = "judge",
                              !.problem = IF options.mode = "service" THEN "cut" ELSE "error"])
  /\ UNCHANGED <<runVars, Server, Registry, stopVars, rows>>

AfterJudge(s) ==
  CASE options.mode = "api"     -> IF options.stream /\ turnOf[s].problem = "none" /\ turnOf[s].chat
                              THEN "replay" ELSE "delete"
    [] options.mode = "browser" -> "delete"
    [] OTHER               -> "finalise"

Judged(s, ok, bad) ==
  /\ Put(s, [turnOf[s] EXCEPT !.at = AfterJudge(s), !.watch = NoWatch, !.ok = ok, !.bad = bad]) /\ Sure
  /\ UNCHANGED <<runVars, Server, Registry, stopVars, rows>>

\* The stored answer is judged whole; a browser's row also by what its page painted.
JudgesFrontend(s) ==
  /\ SessionAt(s, "judge") /\ KeepsChats /\ turnOf[s].problem = "none" /\ turnOf[s].chat
  /\ \E a \in Answer :
       LET watched == options.mode = "browser"
           entries == turnOf[s].watch.entries
       IN  Judged(s, judge_case(ExpectOf(s), a) /\ ~(watched /\ live_fails(live_verdict(entries))),
                  a.trips \/ a.reasoning \/ (watched /\ TakenBack(entries)))

\* The door's answer is judged whole, and its own deltas as the stream.
JudgesService(s) ==
  /\ SessionAt(s, "judge") /\ options.mode = "service" /\ turnOf[s].problem = "none"
  /\ \E a \in Answer, deltas \in Deltas :
       LET leak == options.stream /\ stream_verdict(deltas, a.trips) = "leak"
       IN  Judged(s, judge_case(ExpectOf(s), a) /\ ~leak, a.trips \/ a.reasoning \/ leak)

\* What the guardrail would have said is recorded; only an error fails the row.
JudgesUnfiltered(s) ==
  SessionAt(s, "judge") /\ options.mode = "unfiltered" /\ turnOf[s].problem = "none" /\ Judged(s, TRUE, FALSE)

\* A turn with a problem, or whose chat was not identified, is not judged.
JudgesNothing(s) ==
  /\ SessionAt(s, "judge") /\ (turnOf[s].problem # "none" \/ (KeepsChats /\ ~turnOf[s].chat))
  /\ Put(s, [turnOf[s] EXCEPT !.at = AfterJudge(s), !.watch = NoWatch]) /\ Sure
  /\ UNCHANGED <<runVars, Server, Registry, stopVars, rows>>

\* The raw stream is asked for once more and judged as released.
Replays(s) ==
  /\ SessionAt(s, "replay") /\ Sure
  /\ \E deltas \in Deltas, whole \in BOOLEAN :
       LET leak == stream_verdict(deltas, whole) = "leak"
       IN  Put(s, [turnOf[s] EXCEPT !.at = "delete", !.ok = @ /\ ~leak, !.bad = @ \/ leak])
  /\ UNCHANGED <<runVars, Server, Registry, stopVars, rows>>

ReplayFails(s) ==
  /\ SessionAt(s, "replay") /\ Slip
  /\ \E late \in BOOLEAN :
       Put(s, [turnOf[s] EXCEPT !.at = "delete", !.ok = FALSE,
                                !.problem = IF late THEN "cut" ELSE @])
  /\ UNCHANGED <<runVars, Server, Registry, stopVars, rows>>

AfterDelete == IF options.mode = "api" THEN "release" ELSE "finalise"

Deletes(s) ==
  /\ SessionAt(s, "delete") /\ Sure
  /\ chats' = IF turnOf[s].chat THEN chats \ {TurnId(s)} ELSE chats
  /\ Put(s, [turnOf[s] EXCEPT !.at = AfterDelete, !.deleted = turnOf[s].chat /\ TurnId(s) \in chats])
  /\ UNCHANGED <<runVars, landing, Registry, stopVars, rows>>

\* The deletion is refused, or done and not confirmed.
DeletionFails(s) ==
  /\ SessionAt(s, "delete") /\ turnOf[s].chat /\ Slip
  /\ \E gone \in BOOLEAN : chats' = IF gone THEN chats \ {TurnId(s)} ELSE chats
  /\ Move(s, AfterDelete)
  /\ UNCHANGED <<runVars, landing, Registry, stopVars, rows>>

ReleasesTurn(s) ==
  /\ SessionAt(s, "release") /\ Move(s, "finalise") /\ Sure
  /\ IF turnOf[s].ids THEN Release(s, turnOf[s].deleted) ELSE UNCHANGED Registry
  /\ UNCHANGED <<runVars, Server, stopVars, rows>>

\* What a row adds to the bookkeeping; a record that is not written fails the row.
absorb(s, wrote) ==
  LET t == turnOf[s]
      With(S, in) == IF in THEN S \cup {TurnId(s)} ELSE S
  IN  [notDeleted |-> With(rows.notDeleted, t.chat /\ ~t.deleted),
       unverified |-> With(rows.unverified, KeepsChats /\ ~t.chat),
       failed     |-> With(rows.failed, ~t.ok \/ ~wrote),
       bad        |-> With(rows.bad, t.bad),
       cut        |-> With(rows.cut, t.problem = "cut")]

Finalises(s) ==
  /\ SessionAt(s, "finalise")
  /\ \/ Sure /\ rows' = absorb(s, TRUE)
     \/ Slip /\ rows' = absorb(s, FALSE)
  /\ Put(s, NewTurn(turnOf[s].n + 1, options.mode))
  /\ UNCHANGED <<runVars, Server, Registry, stopVars>>

\* The summary, the cleanup row, the requests row and the run's record, when every
\* session is through; a browser closes its page last.
Concludes ==
  /\ runAt = "turns" /\ exitCode = "running" /\ stopAt = "none"
  /\ \A s \in Sessions : turnOf[s].n > Units
  /\ \E written \in {w \in BOOLEAN : w \/ slips < options.slips} :
       /\ slips' = slips + (IF written THEN 0 ELSE 1)
       /\ exitCode' = IF /\ rows.failed = {} /\ written
                         /\ KeepsChats => rows.notDeleted = {} /\ rows.unverified = {}
                      THEN "passed" ELSE "failed"
  /\ UNCHANGED <<options, runAt, turnOf, Server, Registry, stopVars, rows>>

-----------------------------------------------------------------------------
(* The stop. *)

\* Mutant: the signal is taken for a stop with nothing to sweep.
StopIdleReturns ==
  /\ runAt = "turns" /\ exitCode = "running" /\ stopAt = "none" /\ flying = {}
  /\ stopAt' = "reported" /\ Sure
  /\ UNCHANGED <<runVars, turnOf, Server, Registry, snapshot, swept, stopRow, rows>>

\* No turn in flight: the signal takes its default course.
StopIdle ==
  /\ runAt = "turns" /\ exitCode = "running" /\ stopAt = "none" /\ flying = {}
  /\ exitCode' = "killed" /\ Sure
  /\ UNCHANGED <<options, runAt, turnOf, Server, Registry, stopVars, rows>>

StopTakes ==
  /\ runAt = "turns" /\ exitCode = "running" /\ stopAt = "none" /\ flying # {}
  /\ stopAt' = "sweeping" /\ snapshot' = flying /\ Sure
  /\ swept' = [r \in flying |-> IF r.named THEN "named" ELSE "unnamed"]
  /\ UNCHANGED <<runVars, turnOf, Server, Registry, stopRow, rows>>

Sweeping(r, at) == stopAt # "none" /\ exitCode = "running" /\ r \in snapshot /\ swept[r] = at

SweepFinds(r) ==
  /\ Sweeping(r, "unnamed")
  /\ \/ Sure /\ swept' = [swept EXCEPT ![r] = IF r.id \in chats THEN "named" ELSE "left"]
     \/ Slip /\ swept' = [swept EXCEPT ![r] = "left"]
  /\ UNCHANGED <<runVars, turnOf, Server, Registry, stopAt, snapshot, stopRow, rows>>

SweepDeletes(r) ==
  /\ Sweeping(r, "named")
  /\ \/ /\ Sure /\ chats' = chats \ {r.id}
        /\ swept' = [swept EXCEPT ![r] = IF r.id \in chats THEN "deleted" ELSE "failed"]
     \/ /\ Slip /\ swept' = [swept EXCEPT ![r] = "failed"]
        /\ \E gone \in BOOLEAN : chats' = IF gone THEN chats \ {r.id} ELSE chats
  /\ UNCHANGED <<runVars, turnOf, landing, Registry, stopAt, snapshot, stopRow, rows>>

\* The sweep is through, or its bound has passed: a turn counts as cleaned when the sweep
\* deleted its chat, or when the turn itself did while the sweep ran.
StopReports ==
  /\ stopAt = "sweeping" /\ exitCode = "running"
  /\ \/ (\A r \in snapshot : swept[r] \notin {"named", "unnamed"}) /\ Sure
     \/ Slip
  /\ stopRow' = {r.id : r \in {q \in snapshot : swept[q] = "deleted" \/ q.id \in released}}
  /\ stopAt' = "reported"
  /\ UNCHANGED <<runVars, turnOf, Server, Registry, snapshot, swept, rows>>

StopKills ==
  /\ stopAt = "reported" /\ snapshot # {} /\ exitCode = "running" /\ exitCode' = "killed" /\ Sure
  /\ UNCHANGED <<options, runAt, turnOf, Server, Registry, stopVars, rows>>

\* The handler has given the signals back their default course.
SecondSignal ==
  /\ stopAt = "sweeping" /\ exitCode = "running" /\ Slip /\ exitCode' = "killed"
  /\ UNCHANGED <<options, runAt, turnOf, Server, Registry, stopVars, rows>>

Session(s) ==
  \/ ListsChats(s) \/ ListingFails(s) \/ Registers(s) \/ Posts(s) \/ Answered(s) \/ AnswerFails(s)
  \/ Finds(s) \/ FindingFails(s) \/ NamesChat(s)
  \/ OpensPage(s) \/ PageFails(s) \/ Paints(s) \/ WatchEnds(s) \/ WatchFails(s)
  \/ ReadsStored(s) \/ StoredFails(s) \/ Calls(s) \/ ClientFails(s) \/ CallExpires(s)
  \/ JudgesFrontend(s) \/ JudgesService(s) \/ JudgesUnfiltered(s) \/ JudgesNothing(s) \/ Replays(s) \/ ReplayFails(s)
  \/ Deletes(s) \/ DeletionFails(s) \/ ReleasesTurn(s) \/ Finalises(s)

Main == HarnessPreconditions \/ PreconditionsRefuse \/ SignsIn \/ SigninFails \/ Concludes \/ StopReports \/ StopKills
Sweep(r) == SweepFinds(r) \/ SweepDeletes(r)

HarnessNext ==
  \/ Main \/ StopIdle \/ StopTakes \/ SecondSignal
  \/ \E s \in Sessions : Session(s)
  \/ \E r \in snapshot : Sweep(r)
  \/ \E t \in landing : Lands(t)

\* Every thread runs and every call returns: each is bounded by the turn's timeout.
HarnessFairness ==
  /\ WF_harnessVars(Main)
  /\ \A s \in UNION {1..o.sessions : o \in Options} : WF_harnessVars(Session(s))
  /\ WF_harnessVars(\E r \in snapshot : Sweep(r))
  /\ WF_harnessVars(\E t \in landing : Lands(t))

HarnessSpec == HarnessInit /\ [][HarnessNext]_harnessVars /\ HarnessFairness

-----------------------------------------------------------------------------
(* Properties. *)

\* No chat of the run is left without a word: what a stopped run's row calls deleted is
\* gone and cannot appear later, though turns and sweep delete side by side, and a run
\* that returned names every chat that may remain, as not deleted or as unverified.
ChatsAccounted ==
  /\ stopAt = "reported" => stopRow \cap (chats \cup landing) = {}
  /\ exitCode \in {"passed", "failed"} => chats \cup landing \subseteq rows.notDeleted \cup rows.unverified

\* A run that exits 0 released nothing the guardrail withholds: no answer, stream or
\* painted page of it trips, at the end or in between, and no chat of it remains.
CleanExit ==
  exitCode = "passed" => rows.bad = {} /\ rows.cut = {} /\ (KeepsChats => chats \cup landing = {})

\* The word of a run, its rows and its exit code, covers every chat and every answer.
RunSound == ChatsAccounted /\ CleanExit

\* Whatever fails, and whether or not it is stopped, a run comes to its end: no session
\* waits for an admission nobody will give.
RunEnds == <>(exitCode # "running")
=============================================================================

----------------------------- MODULE JudgedStream -----------------------------
(***************************************************************************)
(* One completion through General's service: the relay                     *)
(* (gideon/api/relay.py) reads the engine's events, the stream mechanics   *)
(* (gideon/api/judged.py) judges each through the lag window and rebuilds  *)
(* what may leave, and the relay sends it one payload at a time while it   *)
(* watches for the caller's disconnect.  The engine can stop, fail, send   *)
(* an error, an event nobody can read, or nothing after the end marker.    *)
(***************************************************************************)
EXTENDS LagWindow, Sequences

CONSTANT MaxEvents   \* bound: events the engine sends

ASSUME EventAssumption == MaxEvents \in Nat

VARIABLES
  mech,      \* StreamMechanics, without the window
  relay,     \* where CompletionRelay stands with this request
  queue,     \* judged payloads not yet sent
  sent,      \* what the caller received
  upstream,  \* the engine's response
  events     \* events so far

streamVars == <<plan, w, mech, relay, queue, sent, upstream, events>>

\* settled is StreamState.finished; line the progress line: not opened, open, closed.
Mech == [settled : BOOLEAN, ended : BOOLEAN, errorSeen : BOOLEAN,
         line : {"none", "open", "closed"}]

\* upto is how much of the answer a caller has after the payload; mark is the citation
\* label of a chunk and the separator of a refusal.
Payload ==
  [kind : {"line", "closing", "chunk", "error", "refusal", "stop", "done", "body"},
   upto : 0..MaxLen, mark : BOOLEAN]

Plain(kind, v) == [kind |-> kind, upto |-> v.released, mark |-> FALSE]
Content(v, label) == [kind |-> "chunk", upto |-> v.released, mark |-> label]

\* The relay's steps: the request, the stream's loop, a send and what follows it, the
\* end with the last body message, the cancellation.
Relay == {"request", "reading", "sending", "last", "over", "gone"}

-----------------------------------------------------------------------------
(* The progress line. *)

\* _close_progress: the closing chunk of an open line; from here on it stays closed.
Closing(m) == IF m.line = "open" THEN <<Plain("closing", w)>> ELSE <<>>

Closed(m) == [m EXCEPT !.line = "closed"]

-----------------------------------------------------------------------------
(* The trip's payloads and the settlement of a tail. *)

\* Mutant: the refusal does not end the stream.
TripPayloadsOpen(v) ==
  <<[kind |-> "refusal", upto |-> v.released, mark |-> v.released > 0], Plain("stop", v)>>

\* _trip_payloads: the refusal, set off from an answer already begun, a finish, the end.
TripPayloads(v) ==
  <<[kind |-> "refusal", upto |-> v.released, mark |-> v.released > 0],
    Plain("stop", v), Plain("done", v)>>

\* _settle_tail: an unfinished answer is judged whole; its tail and label leave only
\* when it does not trip.
SettleTail(m, v, label) ==
  IF m.settled THEN <<>>
  ELSE IF finish(v).trip THEN TripPayloads(finish(v))
  ELSE IF finish(v).released > v.released \/ label THEN <<Content(finish(v), label)>>
  ELSE <<>>

Settle(m, v) == IF m.settled THEN v ELSE finish(v)

-----------------------------------------------------------------------------
(* The relay around the mechanics. *)

\* What the mechanics returned is sent before the next event is read.  On a trip the
\* engine is closed first, and the body ends after the payloads.
Deliver(m, v, out, last) ==
  /\ mech' = m /\ w' = v /\ queue' = out
  /\ relay' = IF last \/ v.trip THEN "last" ELSE "sending"
  /\ upstream' = IF v.trip THEN "closed" ELSE upstream
  /\ UNCHANGED <<plan, sent>>

Reads == relay = "reading" /\ events < MaxEvents /\ events' = events + 1

\* process() of an event after the end marker, or after an engine error.
Ignored == mech.ended \/ mech.errorSeen

IgnoredEvent == Reads /\ Ignored /\ Deliver(mech, w, <<>>, FALSE)

\* _error_trip: whatever cannot be read or judged ends as a trip does.
ErrorTrip(m, v) ==
  Deliver([Closed(m) EXCEPT !.ended = TRUE], Tripped(v),
          Closing(m) \o TripPayloads(Tripped(v)), TRUE)

\* Only the first finish settles the answer, and only a settled answer is stamped.
Stamped(m, fin) == fin /\ ~m.settled

\* The window after a chunk: content is appended and judged, then a finish reason
\* judges the whole.
ChunkWindow(content, n, fin) ==
  LET grown == IF content THEN append(w, n) ELSE w
  IN  IF fin THEN finish(grown) ELSE grown

\* _process_chunk.  reasoning: a delta under one of the reasoning names; extra: a role
\* or tool calls; due: the line's next tick is due; label: what stamp.tail_for decides.
Chunk(content, n, reasoning, extra, fin, due, label) ==
  LET v       == ChunkWindow(content, n, fin)
      closes  == v.trip \/ (content /\ n > 0) \/ fin
      opens   == ~closes /\ reasoning /\ mech.line = "none"
      ticks   == ~closes /\ reasoning /\ mech.line = "open" /\ due
      leading == IF closes THEN Closing(mech)
                 ELSE IF opens \/ ticks THEN <<Plain("line", w)>> ELSE <<>>
      marked  == Stamped(mech, fin) /\ label
      m       == [mech EXCEPT !.settled = @ \/ fin, !.ended = v.trip,
                              !.line = IF closes THEN "closed" ELSE IF opens THEN "open" ELSE @]
      out     == IF v.trip THEN TripPayloads(v)
                 ELSE IF v.released > w.released \/ marked \/ extra \/ fin
                 THEN <<Content(v, marked)>> ELSE <<>>
  IN  Deliver(m, v, leading \o out, FALSE)

\* The engine sends no content once it sent a finish reason.
ChunkEvent ==
  /\ Reads /\ ~Ignored
  /\ \E content, reasoning, extra, fin, due, label \in BOOLEAN, n \in 0..(MaxLen - w.len) :
       /\ (mech.settled => ~content) /\ (~content => n = 0)
       /\ Chunk(content, n, reasoning, extra, fin, due, label)

\* No choices: relayed as it is.
UsageEvent == Reads /\ ~Ignored /\ Deliver(mech, w, <<Content(w, FALSE)>>, FALSE)

\* _process_error: the tail first, then the engine's error; later events are ignored.
ErrorEvent ==
  /\ Reads /\ ~Ignored
  /\ \E label \in BOOLEAN :
       LET v    == Settle(mech, w)
           tail == Closing(mech) \o SettleTail(mech, w, label)
       IN  Deliver([Closed(mech) EXCEPT !.settled = TRUE, !.errorSeen = ~v.trip], v,
                   IF v.trip THEN tail ELSE Append(tail, Plain("error", v)), FALSE)

\* _process_end_marker.
DoneEvent ==
  /\ Reads /\ ~mech.ended
  /\ \E label \in BOOLEAN :
       LET v    == Settle(mech, w)
           tail == Closing(mech) \o SettleTail(mech, w, label)
       IN  Deliver([Closed(mech) EXCEPT !.settled = TRUE, !.ended = TRUE], v,
                   IF v.trip THEN tail ELSE Append(tail, Plain("done", v)), FALSE)

\* A payload that is no object, a second choice, text that is no string...
UnreadableEvent == Reads /\ ~Ignored /\ ErrorTrip(mech, w)

\* fail_closed: an event over the buffer's bound, or a body that ends inside one.
FailClosed ==
  /\ relay = "reading" /\ UNCHANGED events
  /\ IF mech.ended
     THEN /\ relay' = "last" /\ upstream' = "closed"
          /\ UNCHANGED <<plan, w, mech, queue, sent>>
     ELSE ErrorTrip(mech, w)

\* mechanics.finish(): the engine's body ended without a marker.
Finished(extra) ==
  \E label \in BOOLEAN :
    LET v    == IF mech.ended THEN w ELSE Settle(mech, w)
        tail == IF mech.ended THEN <<>> ELSE Closing(mech) \o SettleTail(mech, w, label)
        m    == IF mech.ended THEN mech
                ELSE [Closed(mech) EXCEPT !.settled = TRUE, !.ended = TRUE]
    IN  Deliver(m, v, IF v.trip THEN tail ELSE tail \o extra, TRUE)

CleanEnd == relay = "reading" /\ UNCHANGED events /\ Finished(<<>>)

\* Mutant: the transport failure is sent as soon as it is met.
TransportFailsAtOnce ==
  /\ relay = "reading" /\ UNCHANGED events
  /\ Deliver([Closed(mech) EXCEPT !.ended = TRUE], w, <<Plain("error", w), Plain("done", w)>>, TRUE)

\* httpx.HTTPError, the read timeout among them: the tail rides out before the error
\* events, which a tail that trips replaces.
TransportFails ==
  /\ relay = "reading" /\ UNCHANGED events
  /\ Finished(<<Plain("error", Settle(mech, w)), Plain("done", Settle(mech, w))>>)

-----------------------------------------------------------------------------
(* The request, the sends and the disconnect. *)

\* An event stream.
StreamStarts ==
  /\ relay = "request" /\ upstream' = "open" /\ relay' = "reading"
  /\ UNCHANGED <<plan, w, mech, queue, sent, events>>

\* Another model's id, or an engine that cannot be reached: a fixed error body.
Refused ==
  /\ relay = "request" /\ relay' = "last" /\ queue' = <<Plain("error", w)>>
  /\ UNCHANGED <<plan, w, mech, sent, upstream, events>>

\* judge_completion: a whole answer, judged as one text, stamped when it does not
\* trip.  A body that fails to arrive or to be judged is replaced by an error.
WholeReply ==
  /\ relay = "request" /\ upstream' = "open" /\ relay' = "last"
  /\ \/ \E n \in 0..MaxLen, label \in BOOLEAN :
          LET v == [w EXCEPT !.len = n]
          IN  IF Trips(v, FALSE)
              THEN /\ w' = Tripped(v)
                   /\ queue' = <<[kind |-> "refusal", upto |-> 0, mark |-> FALSE]>>
              ELSE /\ w' = finish(v)
                   /\ queue' = <<[kind |-> "body", upto |-> n, mark |-> label]>>
     \/ w' \in {w, Tripped(w)} /\ queue' = <<Plain("error", w)>>
  /\ UNCHANGED <<plan, mech, sent, events>>

SendPayload ==
  /\ relay \in {"sending", "last"} /\ queue # <<>>
  /\ sent' = Append(sent, Head(queue)) /\ queue' = Tail(queue)
  /\ UNCHANGED <<plan, w, mech, relay, upstream, events>>

\* All sent: back to the engine's next event, or the last body message and the
\* finally that closes the engine's response.
SendsDone ==
  /\ relay \in {"sending", "last"} /\ queue = <<>>
  /\ relay' = IF relay = "sending" THEN "reading" ELSE "over"
  /\ upstream' = IF relay = "last" THEN "closed" ELSE upstream
  /\ UNCHANGED <<plan, w, mech, queue, sent, events>>

\* Mutant: the cancelled work leaves the engine's response to the collector.
DisconnectLeaves ==
  /\ relay \notin {"over", "gone"} /\ relay' = "gone" /\ queue' = <<>>
  /\ UNCHANGED <<plan, w, mech, sent, upstream, events>>

\* The caller leaves: the work is cancelled where it stands, the shielded finally
\* closes the engine's response, nothing more is sent.
Disconnect ==
  /\ relay \notin {"over", "gone"} /\ relay' = "gone" /\ queue' = <<>>
  /\ upstream' = "closed"
  /\ UNCHANGED <<plan, w, mech, sent, events>>

RequestInit ==
  /\ w = NewWindow
  /\ mech = [settled |-> FALSE, ended |-> FALSE, errorSeen |-> FALSE, line |-> "none"]
  /\ relay = "request" /\ queue = <<>> /\ sent = <<>> /\ upstream = "closed" /\ events = 0

StreamInit == plan \in Plan /\ RequestInit

Engine == \/ IgnoredEvent \/ ChunkEvent \/ UsageEvent \/ ErrorEvent \/ DoneEvent
          \/ UnreadableEvent \/ FailClosed \/ CleanEnd \/ TransportFails

StreamNext ==
  \/ StreamStarts \/ Refused \/ WholeReply
  \/ Engine \/ SendPayload \/ SendsDone \/ Disconnect

StreamSpec == StreamInit /\ [][StreamNext]_streamVars

\* The service's loop runs on, and the engine answers, ends, or runs into the read
\* timeout.  Nothing is assumed of the caller.
StreamFairness ==
  /\ WF_streamVars(StreamStarts \/ Refused \/ WholeReply)
  /\ WF_streamVars(Engine)
  /\ WF_streamVars(SendPayload \/ SendsDone)

FairStream == StreamSpec /\ StreamFairness

-----------------------------------------------------------------------------
(* Properties. *)

StreamTypeOK ==
  /\ plan \in Plan /\ w \in Window /\ mech \in Mech /\ relay \in Relay
  /\ queue \in Seq(Payload) /\ sent \in Seq(Payload)
  /\ upstream \in {"open", "closed"} /\ events \in 0..MaxEvents

Texts == {i \in DOMAIN sent : sent[i].kind \in {"chunk", "body"}}
Sent(kind) == {i \in DOMAIN sent : sent[i].kind = kind}

\* The caller holds the answer up to position t.
Holds(t) == \E i \in Texts : sent[i].upto >= t

Streamed == mech.settled \/ mech.ended

\* The caller never holds a character of a protected figure, streamed or whole, however
\* the engine's events, its end and the caller's departure fall.
ReaderNoLeak ==
  \A f \in plan.forms :
    f.kind = "trip" /\ Lasting(f) /\ f.end <= w.len => ~Holds(f.start + 1)

\* A tripped stream "ends as the engine ends any stream": one refusal, a finish chunk
\* under stop, the end marker, and no text of the answer after the refusal, which is
\* set off from whatever answer the caller holds.
TripEnds ==
  /\ relay = "over" /\ w.trip /\ Streamed =>
       \E i \in Sent("refusal") :
         /\ Len(sent) = i + 2 /\ sent[i + 1].kind = "stop" /\ sent[i + 2].kind = "done"
         /\ Sent("refusal") = {i} /\ (Holds(1) => sent[i].mark)
  /\ \A i \in Sent("refusal"), j \in Texts : j < i

\* No refusal is sent on a stream while the engine still generates: "The upstream is
\* closed before anything is sent, as on a judged trip".
ClosedBeforeRefusal == Streamed /\ Sent("refusal") # {} => upstream = "closed"

\* A trip stops the engine first and then ends the stream in order.
TripSound == TripEnds /\ ClosedBeforeRefusal

\* The progress line is closed once, by the first answer text or by any end, and
\* nothing reopens it.
LineCloses ==
  /\ \A i \in Sent("closing"), j \in Sent("line") \cup Sent("closing") : j <= i
  /\ \A i \in Sent("line"), j \in Texts :
       i < j /\ sent[j].upto > 0 => \E k \in Sent("closing") : i < k /\ k < j
  /\ relay = "over" /\ Sent("line") # {} => Sent("closing") # {}

\* The citation label is sent at most once, with the end of an answer that settled
\* without a trip.
LabelLast ==
  \A i \in Texts : sent[i].mark =>
    /\ w.finished /\ sent[i].upto = w.len
    /\ \A j \in Texts : sent[j].mark => j = i

\* "The tail rides out before the error events": an answer that did not trip reaches
\* the caller whole, and before any error or end marker.
TailRides ==
  /\ relay = "over" /\ ~w.trip /\ Streamed /\ w.len > 0 => Holds(w.len)
  /\ \A i \in Sent("error") \cup Sent("done"), j \in Texts :
       i < j /\ sent[j].upto > 0 => \E k \in Texts : k < i /\ sent[k].upto = sent[j].upto

\* What reaches the caller of a stream that does not trip: the answer whole, ahead of any
\* error, its progress line closed and its label last.
AnswerSound == StreamTypeOK /\ TailRides /\ LineCloses /\ LabelLast

\* Every request ends, and with it the engine's generation: a caller who left, a trip
\* and a failure leave no open response behind.
RequestEnds == <>[](relay \in {"over", "gone"} /\ upstream = "closed")
=============================================================================

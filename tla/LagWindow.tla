------------------------------ MODULE LagWindow ------------------------------
(***************************************************************************)
(* The guardrail's lag window (gideon/guardrail/window.py, judge.py): one  *)
(* streamed answer is judged while it is generated, and all but its last   *)
(* Lag characters are released to the reader.                              *)
(*                                                                         *)
(* The text is abstracted to its length and to the forms its characters    *)
(* take: the spans the families' patterns match in it, each with what the  *)
(* judge makes of it.  A greedy pattern can match a longer span once more  *)
(* text has arrived, so a form can be gone from a longer text.  A position *)
(* is a number of characters.                                              *)
(***************************************************************************)
EXTENDS Integers

CONSTANTS
  MaxMatch,     \* MAX_MATCH_CHARS: no pattern matches more
  LookAhead,    \* RESTATEMENT_LOOKAHEAD_CHARS: what settles an exemption
  ExclReach,    \* EXCLUSION_REACH_CHARS: how far an exclusion reaches past a match
  ExemptReach,  \* EXEMPTION_REACH_CHARS: how far an exemption reaches back
  Lag,          \* LAG_CHARS
  MaxLen        \* bound: characters of one answer

ASSUME WindowAssumption ==
  /\ MaxMatch \in Nat /\ LookAhead \in Nat /\ ExclReach \in Nat /\ ExemptReach \in Nat
  /\ Lag \in Nat /\ MaxLen \in Nat

\* The bounds grammar.py derives from each other.
ASSUME LagAssumption == Lag = MaxMatch + LookAhead /\ ExclReach <= LookAhead

VARIABLES
  plan,     \* the answer's forms, fixed by the text the engine generates
  w         \* TextState, with the trip of StreamState

-----------------------------------------------------------------------------
(* What the patterns find. *)

Never == MaxLen + 1

\* trip: figures the user did not supply, or no restatement.  exempt: a restatement,
\* excluded: an exclusion or a rate; the context of both reaches from ctx to hold.
Form ==
  {f \in [kind : {"trip", "exempt", "excluded"}, ctx : 0..MaxLen, start : 0..MaxLen,
          end : 0..MaxLen, hold : 0..MaxLen, gone : 0..Never] :
     /\ f.start - ExemptReach <= f.ctx /\ f.ctx <= f.start
     /\ f.start < f.end /\ f.end <= f.start + MaxMatch
     /\ f.end <= f.hold
     /\ f.hold <= f.end + (IF f.kind = "exempt" THEN LookAhead ELSE ExclReach)
     /\ f.gone = Never \/ (f.end < f.gone /\ f.gone <= f.start + MaxMatch)}

\* affirm is the length of an affirming opening under a confirmation context, 0 for none.
Plan == [forms : SUBSET Form, affirm : 0..MaxMatch]

Lasting(f) == f.gone = Never

Span == [start : 0..MaxLen, end : Int]

Window ==
  [len : 0..MaxLen, released : 0..MaxLen, decided : 0..MaxLen,
   held : SUBSET Span, trip : BOOLEAN, finished : BOOLEAN]

NewWindow == [len |-> 0, released |-> 0, decided |-> 0, held |-> {}, trip |-> FALSE,
              finished |-> FALSE]

-----------------------------------------------------------------------------
(* judge_floor, judge_text and judge_rendered, over the window's text. *)

AtLeast(a, b) == IF a < b THEN b ELSE a

judge_floor(decided) == AtLeast(decided - MaxMatch - ExemptReach, 0)

Seen(v, f) == /\ judge_floor(v.decided) <= f.start
              /\ f.end <= v.len /\ v.len < f.gone

\* A hit is judged once: past what was decided and, while text is still coming,
\* with its look-ahead arrived.
Settled(v, f, prefix) ==
  Seen(v, f) /\ f.end > v.decided /\ (prefix => f.end + LookAhead <= v.len)

\* An exemption or exclusion counts only when the window holds its whole context.
HitTrips(v, f) == \/ f.kind = "trip"
                  \/ f.ctx < judge_floor(v.decided)
                  \/ f.hold > v.len

\* The opening is judged only once MaxMatch characters of it exist.
OpeningTrips(v, prefix) ==
  plan.affirm > 0 /\ plan.affirm <= v.len /\ (prefix => v.len >= MaxMatch)

Trips(v, prefix) ==
  \/ OpeningTrips(v, prefix)
  \/ \E f \in plan.forms : Settled(v, f, prefix) /\ HitTrips(v, f)

\* The release constraints: an exempt hit with its look-ahead, and what an
\* exclusion or a rate holds together, decided or not.
Fresh(v) ==
  {[start |-> f.start, end |-> f.end + LookAhead] :
      f \in {g \in plan.forms : g.kind = "exempt" /\ Settled(v, g, TRUE)}}
  \cup
  {[start |-> f.start, end |-> f.hold] :
      f \in {g \in plan.forms : /\ g.kind = "excluded" /\ Seen(v, g)
                               /\ judge_floor(v.decided) <= g.ctx /\ g.hold <= v.len}}

-----------------------------------------------------------------------------
(* StreamCheck. *)

Inside(t, c) == c.start < t /\ t < c.end

\* Constraints persist until release has passed them.
Active(v) == {c \in v.held \cup Fresh(v) : c.end > v.released}

\* Mutant: the lag is the match bound alone.
LagPointShort(v) == AtLeast(v.len - MaxMatch, v.released)

LagPoint(v) == AtLeast(v.len - Lag, v.released)

FreePoints(v) == {t \in v.released..LagPoint(v) : \A c \in Active(v) : ~Inside(t, c)}

\* The while loop moves the lag point down to the start of each constraint it is
\* inside of.  It ends, at the greatest free point, when the release point is free.
Target(v) == CHOOSE t \in FreePoints(v) : \A u \in FreePoints(v) : u <= t

\* record_stream_trip: the text and its constraints are discarded.
Tripped(v) == [v EXCEPT !.trip = TRUE, !.held = {}]

judge(v) ==
  IF Trips(v, TRUE) THEN Tripped(v)
  ELSE [v EXCEPT !.decided = AtLeast(v.len - LookAhead, v.decided),
                 !.held = {c \in Active(v) : c.end > Target(v)},
                 !.released = Target(v)]

append(v, n) == IF v.trip THEN v ELSE judge([v EXCEPT !.len = @ + n])

\* Mutant: the held tail is released without a last judgement.
finish_unjudged(v) ==
  IF v.trip \/ v.finished THEN v
  ELSE [v EXCEPT !.released = v.len, !.decided = v.len, !.held = {}, !.finished = TRUE]

finish(v) ==
  IF v.trip \/ v.finished THEN v
  ELSE IF Trips(v, FALSE) THEN Tripped(v)
  ELSE [v EXCEPT !.released = v.len, !.decided = v.len, !.held = {}, !.finished = TRUE]

-----------------------------------------------------------------------------
Init == plan \in Plan /\ w = NewWindow

\* A delta of any length, the empty one included; none follows the finish.
AppendDelta == /\ ~w.finished
          /\ \E n \in 0..(MaxLen - w.len) : w' = append(w, n)
          /\ UNCHANGED plan

FinishText == /\ w' = finish(w)
          /\ UNCHANGED plan

Next == AppendDelta \/ FinishText

wvars == <<plan, w>>

Spec == Init /\ [][Next]_wvars

-----------------------------------------------------------------------------
(* Properties. *)

TypeOK == plan \in Plan /\ w \in Window

\* No character of a protected figure reaches the reader, however the engine cuts
\* the answer into deltas: a hit that trips has none of its span released when it
\* is judged, and an answer that holds one never finishes untripped.
NoLeak ==
  \A f \in plan.forms :
    f.kind = "trip" /\ Lasting(f) /\ f.end <= w.len => w.released <= f.start

\* Nothing of an answer is released before its opening is decided.
OpeningHeld == plan.affirm > 0 /\ plan.affirm <= w.len => w.released = 0

\* A hit with what the release must not separate from it.
ContextSpan(f) ==
  [start |-> f.start, end |-> IF f.kind = "exempt" THEN f.end + LookAhead ELSE f.hold]

\* "A released hit always carries the context that exempted it": while the stream
\* is open its release point is never between a hit and the end of its context.
ContextWhole ==
  \A f \in plan.forms :
    ~w.finished /\ Lasting(f) /\ f.kind # "trip"
      => ~Inside(w.released, ContextSpan(f))

\* The judge's loop always ends: whatever delta comes next, the release point is
\* outside every constraint the loop compares the lag point with.
LoopEnds ==
  ~w.trip /\ ~w.finished =>
    \A n \in 0..(MaxLen - w.len) :
      LET v == [w EXCEPT !.len = @ + n]
      IN  ~Trips(v, TRUE) => \A c \in Active(v) : ~Inside(w.released, c)

\* A delta, or the end of the text, trips only on a hit that is protected with all of its
\* context: the window's floor and the look-ahead cut no exemption off what carries it.
TripFounded ==
  [][Next /\ ~w.trip /\ w'.trip =>
       \/ plan.affirm > 0
       \/ \E f \in plan.forms : f.kind = "trip" \/ (w'.len = w.len /\ f.hold > w.len)]_wvars

\* The window's whole promise over every cut of the answer into deltas: nothing protected is
\* released, nothing at all before the opening is decided, no hit parted from its context, a
\* loop that ends, and no trip without a protected hit.
WindowSound == [](TypeOK /\ NoLeak /\ OpeningHeld /\ ContextWhole /\ LoopEnds) /\ TripFounded
=============================================================================

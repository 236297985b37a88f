------------------------- MODULE JudgedStreamProofs -------------------------
(* The judged stream, for any bounds, any answer and any number of events.  The  *)
(* argument follows what the caller has received together with what is queued    *)
(* for it: a send moves a payload from one to the other, an event adds payloads   *)
(* at the end, and a caller who leaves keeps a beginning of it.                   *)
EXTENDS JudgedStream, LagWindowProofs, SequenceTheorems

Out == sent \o queue

TextKinds == {"chunk", "body"}
EndKinds  == {"error", "refusal", "stop", "done"}

Kinds(s) == {s[i].kind : i \in DOMAIN s}
TextsOf(s) == {i \in DOMAIN s : s[i].kind \in TextKinds}
Marks(s) == {i \in TextsOf(s) : s[i].mark}

\* No text follows an error, a refusal or an end.
TextFirst(s) == \A i, j \in DOMAIN s : s[i].kind \in EndKinds /\ s[j].kind \in TextKinds => j < i

\* The line is closed once, after all of it and before the answer begins.
ClosedOnce(s) ==
  \A i, j \in DOMAIN s : s[i].kind = "closing" /\ s[j].kind \in {"line", "closing"} => j <= i
ClosedFirst(s) ==
  \A i, j \in DOMAIN s :
    s[i].kind = "line" /\ s[j].kind \in TextKinds /\ i < j /\ s[j].upto > 0
      => \E k \in DOMAIN s : s[k].kind = "closing" /\ i < k /\ k < j

\* What any caller of a stream may hold when r characters are released.
Reader(s, r) ==
  /\ s \in Seq(Payload)
  /\ \A i \in TextsOf(s) : s[i].upto <= r
  /\ TextFirst(s) /\ ClosedOnce(s) /\ ClosedFirst(s)

\* The last three payloads of a trip.
TripTail(s) ==
  /\ Len(s) >= 3
  /\ s[Len(s) - 2].kind = "refusal" /\ s[Len(s) - 1].kind = "stop" /\ s[Len(s)].kind = "done"
  /\ \A i \in DOMAIN s : s[i].kind = "refusal" => i = Len(s) - 2
  /\ (\E i \in TextsOf(s) : s[i].upto >= 1) => s[Len(s) - 2].mark

\* A finished answer is released whole.
Whole(v) == v.finished => v.released = v.len

Reading == relay \in {"reading", "sending"}
Ending  == relay \in {"last", "over"}

\* The label marks one text, the end of the finished answer.
Labelled(s, v) ==
  \A i \in Marks(s) : v.finished /\ s[i].upto = v.len /\ \A j \in Marks(s) : j = i

\* All that was released reached the queue.
Delivered(s, v) == ~v.trip /\ v.released > 0 => \E i \in TextsOf(s) : s[i].upto >= v.released

\* The progress line's state and its payloads.
LineAgrees(s, line) ==
  /\ line = "none" => "line" \notin Kinds(s) /\ "closing" \notin Kinds(s)
  /\ line = "open" => "closing" \notin Kinds(s)

LineClosed(s, line) == line = "closed" /\ "line" \in Kinds(s) => "closing" \in Kinds(s)

\* While events are read.
ReadingInv ==
  /\ ~w.trip /\ "refusal" \notin Kinds(Out)
  /\ mech.settled <=> w.finished
  /\ mech.ended \/ mech.errorSeen => mech.settled
  /\ Kinds(Out) \cap EndKinds # {} => mech.ended \/ mech.errorSeen
  /\ mech.line # "closed" => w.len = 0

\* Once the last payloads are queued.
EndingInv ==
  /\ mech.line # "open"
  /\ Streamed => IF w.trip THEN TripTail(Out) ELSE w.finished

StreamInv ==
  /\ StreamTypeOK
  /\ Sound(w) /\ Whole(w)
  /\ Reader(Out, w.released) /\ Labelled(Out, w) /\ LineAgrees(Out, mech.line)
  /\ relay \notin {"sending", "last"} => queue = <<>>
  /\ relay = "request" => /\ w = NewWindow /\ sent = <<>> /\ ~Streamed /\ mech.line = "none"
                          /\ ~mech.errorSeen
  /\ Reading => ReadingInv
  /\ Ending => EndingInv
  /\ mech.ended => mech.line = "closed"
  /\ relay # "gone" => Delivered(Out, w) /\ LineClosed(Out, mech.line)
  /\ Streamed /\ "refusal" \in Kinds(Out) => upstream = "closed"

-----------------------------------------------------------------------------
(* Sequences of payloads. *)

LEMMA AppendFacts ==
  ASSUME NEW s \in Seq(Payload), NEW p \in Payload
  PROVE  /\ Append(s, p) \in Seq(Payload) /\ Len(Append(s, p)) = Len(s) + 1 /\ Len(s) \in Nat
         /\ DOMAIN s = 1..Len(s) /\ DOMAIN Append(s, p) = 1..(Len(s) + 1)
         /\ \A i \in 1..Len(s) : Append(s, p)[i] = s[i] /\ s[i] \in Payload
         /\ Append(s, p)[Len(s) + 1] = p
OBVIOUS

\* What an appended payload adds to the kinds, the texts and the marks.
LEMMA AppendSets ==
  ASSUME NEW s \in Seq(Payload), NEW p \in Payload
  PROVE  /\ Kinds(Append(s, p)) = Kinds(s) \cup {p.kind}
         /\ TextsOf(Append(s, p)) = TextsOf(s) \cup (IF p.kind \in TextKinds THEN {Len(s) + 1} ELSE {})
         /\ Marks(Append(s, p)) =
              Marks(s) \cup (IF p.kind \in TextKinds /\ p.mark THEN {Len(s) + 1} ELSE {})
         /\ \A i \in TextsOf(s) : i \in 1..Len(s) /\ Append(s, p)[i] = s[i]
<1> DEFINE t == Append(s, p)
<1>1. /\ Len(s) \in Nat /\ DOMAIN s = 1..Len(s) /\ DOMAIN t = 1..(Len(s) + 1)
      /\ \A i \in 1..Len(s) : t[i] = s[i]
      /\ t[Len(s) + 1] = p
  BY AppendFacts
<1> HIDE DEF t
<1>2. Kinds(t) = Kinds(s) \cup {p.kind}
  <2>1. ASSUME NEW k \in Kinds(t) PROVE k \in Kinds(s) \cup {p.kind}
    <3>1. PICK i \in DOMAIN t : k = t[i].kind
      BY <2>1 DEF Kinds
    <3>2. i = Len(s) + 1 \/ i \in 1..Len(s)
      BY <1>1, <3>1
    <3> QED BY <1>1, <3>1, <3>2 DEF Kinds
  <2>2. ASSUME NEW k \in Kinds(s) PROVE k \in Kinds(t)
    <3>1. PICK i \in DOMAIN s : k = s[i].kind
      BY <2>2 DEF Kinds
    <3>2. i \in DOMAIN t /\ t[i] = s[i]
      BY <1>1, <3>1
    <3> QED BY <3>1, <3>2 DEF Kinds
  <2>3. p.kind \in Kinds(t)
    <3>1. Len(s) + 1 \in DOMAIN t
      BY <1>1
    <3> QED BY <1>1, <3>1 DEF Kinds
  <2> QED BY <2>1, <2>2, <2>3
<1>3. TextsOf(t) = TextsOf(s) \cup (IF p.kind \in TextKinds THEN {Len(s) + 1} ELSE {})
  BY <1>1 DEF TextsOf
<1>4. Marks(t) = Marks(s) \cup (IF p.kind \in TextKinds /\ p.mark THEN {Len(s) + 1} ELSE {})
  BY <1>1 DEF TextsOf, Marks
<1> QED BY <1>1, <1>2, <1>3, <1>4 DEF TextsOf, t

\* A payload that may follow: text before any end and, once it shows anything of the
\* answer, after the line's closing; a line or a closing while the line is open.
LEMMA AddPayload ==
  ASSUME NEW s, NEW r \in Nat, NEW r2 \in Nat, r <= r2, Reader(s, r), NEW p \in Payload,
         p.kind \in TextKinds => /\ Kinds(s) \cap EndKinds = {} /\ p.upto <= r2
                                 /\ (p.upto > 0 /\ "line" \in Kinds(s) => "closing" \in Kinds(s)),
         p.kind \in {"line", "closing"} => "closing" \notin Kinds(s)
  PROVE  Reader(Append(s, p), r2)
<1> DEFINE t == Append(s, p)
<1>0. s \in Seq(Payload) /\ TextFirst(s) /\ ClosedOnce(s) /\ ClosedFirst(s)
  BY DEF Reader
<1>1. /\ Len(s) \in Nat /\ DOMAIN s = 1..Len(s) /\ DOMAIN t = 1..(Len(s) + 1)
      /\ \A i \in 1..Len(s) : t[i] = s[i] /\ s[i] \in Payload
      /\ t[Len(s) + 1] = p /\ t \in Seq(Payload)
  BY <1>0, AppendFacts
<1>2. \A i \in TextsOf(t) : t[i].upto <= r2
  <2> SUFFICES ASSUME NEW i \in TextsOf(t) PROVE t[i].upto <= r2
    OBVIOUS
  <2>1. CASE i \in 1..Len(s)
    <3>1. i \in TextsOf(s) /\ t[i] = s[i] /\ s[i].upto \in Nat
      BY <1>1, <2>1, WindowAssumption DEF TextsOf, Payload
    <3>2. s[i].upto <= r
      BY <3>1 DEF Reader
    <3> QED BY <3>1, <3>2
  <2>2. CASE i = Len(s) + 1
    BY <1>1, <2>2 DEF TextsOf
  <2> QED BY <1>1, <2>1, <2>2 DEF TextsOf
<1> HIDE DEF t
<1>3. TextFirst(t)
  <2> SUFFICES ASSUME NEW i \in DOMAIN t, NEW j \in DOMAIN t, t[i].kind \in EndKinds,
                      t[j].kind \in TextKinds
               PROVE  j < i
    BY DEF TextFirst
  <2>1. CASE i = Len(s) + 1
    BY <1>1, <2>1 DEF EndKinds, TextKinds
  <2>2. CASE i \in 1..Len(s) /\ j \in 1..Len(s)
    BY <1>0, <1>1, <2>2 DEF TextFirst
  <2>3. CASE i \in 1..Len(s) /\ j = Len(s) + 1
    <3>1. s[i].kind \in Kinds(s) \cap EndKinds
      BY <1>1, <2>3 DEF Kinds
    <3> QED BY <1>1, <2>3, <3>1
  <2> QED BY <1>1, <2>1, <2>2, <2>3
<1>4. ClosedOnce(t)
  <2> SUFFICES ASSUME NEW i \in DOMAIN t, NEW j \in DOMAIN t, t[i].kind = "closing",
                      t[j].kind \in {"line", "closing"}
               PROVE  j <= i
    BY DEF ClosedOnce
  <2>1. CASE i = Len(s) + 1
    BY <1>1, <2>1
  <2>2. CASE i \in 1..Len(s) /\ j \in 1..Len(s)
    BY <1>0, <1>1, <2>2 DEF ClosedOnce
  <2>3. CASE i \in 1..Len(s) /\ j = Len(s) + 1
    <3>1. "closing" \in Kinds(s)
      BY <1>1, <2>3 DEF Kinds
    <3> QED BY <1>1, <2>3, <3>1
  <2> QED BY <1>1, <2>1, <2>2, <2>3
<1>5. ClosedFirst(t)
  <2> SUFFICES ASSUME NEW i \in DOMAIN t, NEW j \in DOMAIN t, t[i].kind = "line",
                      t[j].kind \in TextKinds, i < j, t[j].upto > 0
               PROVE  \E k \in DOMAIN t : t[k].kind = "closing" /\ i < k /\ k < j
    BY DEF ClosedFirst
  <2>1. i \in 1..Len(s)
    BY <1>1
  <2>2. CASE j \in 1..Len(s)
    <3>1. PICK k \in DOMAIN s : s[k].kind = "closing" /\ i < k /\ k < j
      BY <1>0, <1>1, <2>1, <2>2 DEF ClosedFirst
    <3> QED BY <1>1, <3>1
  <2>3. CASE j = Len(s) + 1
    <3>1. "line" \in Kinds(s)
      BY <1>1, <2>1 DEF Kinds
    <3>2. "closing" \in Kinds(s)
      BY <1>1, <2>3, <3>1
    <3>3. PICK k \in DOMAIN s : s[k].kind = "closing"
      BY <3>2 DEF Kinds
    <3>4. i <= k /\ i # k
      BY <1>0, <1>1, <2>1, <3>3 DEF ClosedOnce
    <3> QED BY <1>1, <2>3, <3>3, <3>4
  <2> QED BY <1>1, <2>2, <2>3
<1> QED BY <1>1, <1>2, <1>3, <1>4, <1>5 DEF Reader, t

\* A beginning of what a caller may hold is something a caller may hold.
LEMMA PrefixReader ==
  ASSUME NEW s \in Seq(Payload), NEW q \in Seq(Payload), NEW r \in Nat, Reader(s \o q, r)
  PROVE  /\ Reader(s, r) /\ Kinds(s) \subseteq Kinds(s \o q) /\ Marks(s) \subseteq Marks(s \o q)
         /\ DOMAIN s \subseteq DOMAIN (s \o q) /\ \A i \in DOMAIN s : (s \o q)[i] = s[i]
<1> DEFINE t == s \o q
<1>1. /\ Len(s) \in Nat /\ DOMAIN s = 1..Len(s) /\ Len(q) \in Nat /\ t \in Seq(Payload)
      /\ DOMAIN t = 1..(Len(s) + Len(q)) /\ \A i \in 1..Len(s) : t[i] = s[i]
  BY ConcatProperties
<1>0. Reader(t, r)
  OBVIOUS
<1> HIDE DEF t
<1>2. \A i \in DOMAIN s : i \in DOMAIN t /\ t[i] = s[i] /\ i \in 1..Len(s)
  BY <1>1
<1>3. Kinds(s) \subseteq Kinds(t)
  BY <1>2 DEF Kinds
<1>4. TextsOf(s) \subseteq TextsOf(t) /\ Marks(s) \subseteq Marks(t)
  BY <1>2 DEF TextsOf, Marks
<1>5. \A i \in TextsOf(s) : s[i].upto <= r
  BY <1>0, <1>2, <1>4 DEF Reader, TextsOf
<1>6. TextFirst(s) /\ ClosedOnce(s)
  BY <1>0, <1>2 DEF Reader, TextFirst, ClosedOnce
<1>7. ClosedFirst(s)
  <2> SUFFICES ASSUME NEW i \in DOMAIN s, NEW j \in DOMAIN s, s[i].kind = "line",
                      s[j].kind \in TextKinds, i < j, s[j].upto > 0
               PROVE  \E k \in DOMAIN s : s[k].kind = "closing" /\ i < k /\ k < j
    BY DEF ClosedFirst
  <2>1. PICK k \in DOMAIN t : t[k].kind = "closing" /\ i < k /\ k < j
    BY <1>0, <1>2 DEF Reader, ClosedFirst
  <2> QED BY <1>1, <1>2, <2>1
<1> QED BY <1>2, <1>3, <1>4, <1>5, <1>6, <1>7 DEF Reader, t

-----------------------------------------------------------------------------
(* What is queued for a caller who has not left, as a window and a line stand. *)

Good(s, v, line) ==
  /\ Reader(s, v.released) /\ Labelled(s, v) /\ LineAgrees(s, line)
  /\ Delivered(s, v) /\ LineClosed(s, line)

LEMMA TextNumbers ==
  ASSUME NEW s \in Seq(Payload)
  PROVE  \A i \in TextsOf(s) : s[i].upto \in Nat
<1>1. \A i \in DOMAIN s : s[i] \in Payload
  OBVIOUS
<1> QED BY <1>1, WindowAssumption DEF TextsOf, Payload

LEMMA WindowNumbers ==
  ASSUME NEW v \in Window
  PROVE  /\ v.released \in Nat /\ v.len \in Nat /\ v.released \in 0..MaxLen /\ v.len \in 0..MaxLen
         /\ v.trip \in BOOLEAN /\ v.finished \in BOOLEAN
         /\ \A k \in {"line", "closing", "chunk", "error", "refusal", "stop", "done", "body"} :
              /\ Plain(k, v) \in Payload /\ Plain(k, v).kind = k
         /\ \A b \in BOOLEAN :
              /\ Content(v, b) \in Payload /\ Content(v, b).kind = "chunk"
              /\ Content(v, b).upto = v.released /\ Content(v, b).mark = b
BY WindowAssumption DEF Window, Plain, Content, Payload

\* A payload that is no text of the answer adds nothing to the texts and the label.
LEMMA AddOther ==
  ASSUME NEW s, NEW v \in Window, NEW line, NEW p \in Payload, p.kind \notin TextKinds,
         Good(s, v, line), p.kind \in {"line", "closing"} => "closing" \notin Kinds(s)
  PROVE  /\ Append(s, p) \in Seq(Payload) /\ Reader(Append(s, p), v.released)
         /\ Kinds(Append(s, p)) = Kinds(s) \cup {p.kind} /\ Labelled(Append(s, p), v)
         /\ Delivered(Append(s, p), v) /\ TextsOf(Append(s, p)) = TextsOf(s)
         /\ Marks(Append(s, p)) = Marks(s)
<1> DEFINE t == Append(s, p)
<1>1. s \in Seq(Payload) /\ Reader(s, v.released) /\ v.released \in Nat
  BY WindowNumbers DEF Good, Reader
<1>2. /\ Kinds(t) = Kinds(s) \cup {p.kind} /\ TextsOf(t) = TextsOf(s) /\ Marks(t) = Marks(s)
      /\ \A i \in TextsOf(s) : t[i] = s[i]
  BY <1>1, AppendSets
<1>3. t \in Seq(Payload)
  BY <1>1, AppendFacts
<1>4. Reader(t, v.released)
  BY <1>1, AddPayload
<1> HIDE DEF t
<1>5. Marks(s) \subseteq TextsOf(s)
  BY DEF Marks
<1>6. Labelled(t, v)
  BY <1>2, <1>5 DEF Good, Labelled
<1>7. Delivered(t, v)
  BY <1>2 DEF Good, Delivered
<1> QED BY <1>2, <1>3, <1>4, <1>6, <1>7 DEF t

\* _close_progress leaves the line closed, and everything else as it was.
LEMMA GoodClosing ==
  ASSUME NEW s, NEW m \in Mech, w \in Window, Good(s, w, m.line)
  PROVE  /\ Closing(m) \in Seq(Payload) /\ s \o Closing(m) \in Seq(Payload)
         /\ Good(s \o Closing(m), w, "closed")
         /\ Kinds(s \o Closing(m)) \subseteq Kinds(s) \cup {"closing"}
         /\ Marks(s \o Closing(m)) = Marks(s)
<1>1. s \in Seq(Payload)
  BY DEF Good, Reader
<1>2. CASE m.line = "open"
  <2> DEFINE p == Plain("closing", w)
  <2>1. p \in Payload /\ p.kind = "closing" /\ "closing" \notin TextKinds
    BY WindowNumbers DEF TextKinds
  <2> HIDE DEF p
  <2>2. Closing(m) = <<p>>
    BY <1>2 DEF Closing, p
  <2>3. s \o Closing(m) = Append(s, p) /\ Closing(m) \in Seq(Payload)
    BY <1>1, <2>1, <2>2, AppendIsConcat
  <2>4. "closing" \notin Kinds(s)
    BY <1>2 DEF Good, LineAgrees
  <2>5. /\ Append(s, p) \in Seq(Payload) /\ Reader(Append(s, p), w.released)
        /\ Kinds(Append(s, p)) = Kinds(s) \cup {p.kind} /\ Labelled(Append(s, p), w)
        /\ Delivered(Append(s, p), w) /\ Marks(Append(s, p)) = Marks(s)
    BY <2>1, <2>4, AddOther, SMTT(60)
  <2> QED BY <2>1, <2>3, <2>5 DEF Good, LineAgrees, LineClosed
<1>3. CASE m.line # "open"
  <2>1. Closing(m) = <<>>
    BY <1>3 DEF Closing
  <2>2. s \o Closing(m) = s
    BY <1>1, <2>1, ConcatEmptySeq
  <2>3. m.line \in {"none", "closed"}
    BY <1>3 DEF Mech
  <2> QED BY <1>1, <2>1, <2>2, <2>3 DEF Good, LineAgrees, LineClosed
<1> QED BY <1>2, <1>3

\* An error or an end leaves all of it as it was.
LEMMA GoodEnd ==
  ASSUME NEW s, NEW v \in Window, NEW line, NEW p \in Payload, p.kind \in EndKinds,
         Good(s, v, line)
  PROVE  Good(Append(s, p), v, line) /\ Kinds(Append(s, p)) = Kinds(s) \cup {p.kind}
<1>1. p.kind \notin TextKinds /\ p.kind \notin {"line", "closing"}
  BY DEF EndKinds, TextKinds
<1> QED BY <1>1, AddOther DEF Good, LineAgrees, LineClosed

\* A window that released nothing more, or tripped, agrees with the same payloads.
LEMMA GoodWindow ==
  ASSUME NEW s, NEW v \in Window, NEW u \in Window, NEW line, Good(s, v, line),
         v.released <= u.released, v.finished => u.finished /\ u.len = v.len,
         u.trip \/ (~v.trip /\ u.released = v.released)
  PROVE  Good(s, u, line)
<1>1. v.released \in Nat /\ u.released \in Nat
  BY WindowNumbers
<1>2. Reader(s, u.released)
  <2>1. \A i \in TextsOf(s) : s[i].upto \in Nat
    BY TextNumbers DEF Good, Reader
  <2> QED BY <1>1, <2>1 DEF Good, Reader
<1>3. Labelled(s, u) /\ Delivered(s, u)
  BY DEF Good, Labelled, Delivered
<1> QED BY <1>2, <1>3 DEF Good

\* A text of the answer: ahead of every end, and after the line's closing.
LEMMA GoodContent ==
  ASSUME NEW s, NEW v \in Window, NEW u \in Window, NEW line, Good(s, v, line), NEW b \in BOOLEAN,
         v.released <= u.released, v.finished => u = v, Kinds(s) \cap EndKinds = {},
         u.released > 0 /\ "line" \in Kinds(s) => "closing" \in Kinds(s),
         b => u.finished /\ u.released = u.len /\ Marks(s) = {}
  PROVE  /\ Good(Append(s, Content(u, b)), u, line)
         /\ Kinds(Append(s, Content(u, b))) = Kinds(s) \cup {"chunk"}
<1> DEFINE p == Content(u, b)
           t == Append(s, p)
<1>1. /\ p \in Payload /\ p.kind = "chunk" /\ p.upto = u.released /\ p.mark = b
      /\ v.released \in Nat /\ u.released \in Nat /\ p.kind \in TextKinds
      /\ p.kind \notin {"line", "closing"}
  BY WindowNumbers DEF TextKinds
<1> HIDE DEF p
<1>2. s \in Seq(Payload) /\ Reader(s, v.released)
  BY DEF Good, Reader
<1>3. Reader(t, u.released)
  BY <1>1, <1>2, AddPayload
<1>4. /\ Kinds(t) = Kinds(s) \cup {"chunk"} /\ TextsOf(t) = TextsOf(s) \cup {Len(s) + 1}
      /\ Marks(t) = Marks(s) \cup (IF b THEN {Len(s) + 1} ELSE {})
      /\ \A i \in TextsOf(s) : t[i] = s[i]
  BY <1>1, <1>2, AppendSets
<1>5. t[Len(s) + 1] = p
  BY <1>1, <1>2, AppendFacts
<1>6. Labelled(t, u)
  <2>1. CASE b
    BY <1>1, <1>4, <1>5, <2>1 DEF Labelled
  <2>2. CASE ~b
    <3>1. Marks(t) = Marks(s) /\ \A i \in Marks(s) : t[i] = s[i]
      BY <1>4, <2>2 DEF Marks
    <3>2. Marks(s) # {} => u = v
      BY DEF Good, Labelled
    <3> HIDE DEF t
    <3> QED BY <3>1, <3>2 DEF Good, Labelled
  <2> QED BY <2>1, <2>2
<1>7. Delivered(t, u)
  BY <1>1, <1>4, <1>5 DEF Delivered
<1>8. LineAgrees(t, line) /\ LineClosed(t, line)
  BY <1>4 DEF Good, LineAgrees, LineClosed
<1> QED BY <1>3, <1>4, <1>6, <1>7, <1>8 DEF Good, p

\* _trip_payloads: the refusal, the finish and the end are the last three payloads.
LEMMA GoodTrip ==
  ASSUME NEW s, NEW v \in Window, NEW line, Good(s, v, line), "refusal" \notin Kinds(s)
  PROVE  /\ TripPayloads(v) \in Seq(Payload)
         /\ Good(s \o TripPayloads(v), v, line) /\ TripTail(s \o TripPayloads(v))
<1> DEFINE a == [kind |-> "refusal", upto |-> v.released, mark |-> v.released > 0]
           b == Plain("stop", v)
           c == Plain("done", v)
           t1 == Append(s, a)
           t2 == Append(t1, b)
           t3 == Append(t2, c)
<1>0. v.released \in Nat /\ v.released \in 0..MaxLen
  BY WindowNumbers
<1>1. /\ a \in Payload /\ b \in Payload /\ c \in Payload
      /\ a.kind = "refusal" /\ b.kind = "stop" /\ c.kind = "done"
  BY <1>0, WindowNumbers DEF Payload
<1>15. ASSUME v.released >= 1 PROVE a.mark
  <2>1. v.released > 0
    BY <1>0, <1>15
  <2> QED BY <2>1
<1>2. TripPayloads(v) = <<a, b, c>>
  BY DEF TripPayloads
<1> HIDE DEF a, b, c
<1>3. s \in Seq(Payload)
  BY DEF Good, Reader
<1>4. s \o <<a, b, c>> = t3 /\ <<a, b, c>> \in Seq(Payload)
  BY <1>1, <1>3
<1>5. a.kind \in EndKinds /\ b.kind \in EndKinds /\ c.kind \in EndKinds
  BY <1>1 DEF EndKinds
<1>6. Good(t1, v, line)
  BY <1>1, <1>5, GoodEnd
<1>7. t1 \in Seq(Payload)
  BY <1>6 DEF Good, Reader
<1> HIDE DEF t1
<1>8. Good(t2, v, line)
  BY <1>1, <1>5, <1>6, GoodEnd
<1>9. t2 \in Seq(Payload)
  BY <1>8 DEF Good, Reader
<1> HIDE DEF t2
<1>10. Good(t3, v, line)
  BY <1>1, <1>5, <1>8, GoodEnd
<1>11. /\ Len(s) \in Nat /\ Len(t3) = Len(s) + 3 /\ DOMAIN t3 = 1..(Len(s) + 3)
       /\ DOMAIN s = 1..Len(s)
       /\ \A i \in 1..Len(s) : t3[i] = s[i]
       /\ t3[Len(s) + 1] = a /\ t3[Len(s) + 2] = b /\ t3[Len(s) + 3] = c
  BY <1>1, <1>3, <1>7, <1>9, AppendFacts DEF t1, t2
<1> HIDE DEF t3
<1>12. \A i \in DOMAIN t3 : t3[i].kind = "refusal" => i = Len(s) + 1
  <2> SUFFICES ASSUME NEW i \in DOMAIN t3, t3[i].kind = "refusal"
               PROVE  i = Len(s) + 1
    OBVIOUS
  <2>1. i \notin DOMAIN s
    BY <1>11 DEF Kinds
  <2>2. i \in {Len(s) + 1, Len(s) + 2, Len(s) + 3}
    BY <1>11, <2>1
  <2> QED BY <1>1, <1>11, <2>2
<1>13. (\E i \in TextsOf(t3) : t3[i].upto >= 1) => a.mark
  <2>1. \A i \in TextsOf(t3) : t3[i].upto <= v.released /\ t3[i].upto \in Nat
    BY <1>10, TextNumbers DEF Good, Reader
  <2> QED BY <1>0, <1>15, <2>1
<1>14. TripTail(t3)
  BY <1>1, <1>11, <1>12, <1>13 DEF TripTail
<1> QED BY <1>2, <1>4, <1>10, <1>14

-----------------------------------------------------------------------------
(* How the window moves under the mechanics. *)

\* Nothing is released of an empty answer, and never more than there is.
LEMMA ReleasedWithin ==
  ASSUME NEW v, Sound(v), Whole(v)
  PROVE  v.released <= v.len
<1>1. v \in Window /\ v.decided \in Nat /\ v.released \in Nat /\ v.len \in Nat
  BY WindowAssumption DEF Sound, Window
<1> QED BY <1>1, WindowAssumption DEF Sound, Behind, Whole, AtLeast

LEMMA TrippedMoves ==
  ASSUME plan \in Plan, NEW v, Sound(v), Whole(v)
  PROVE  /\ Sound(Tripped(v)) /\ Whole(Tripped(v)) /\ Tripped(v) \in Window
         /\ Tripped(v).released = v.released /\ Tripped(v).len = v.len
         /\ Tripped(v).finished = v.finished /\ Tripped(v).trip
<1>1. v \in Window
  BY DEF Sound
<1>2. /\ Tripped(v).released = v.released /\ Tripped(v).len = v.len
      /\ Tripped(v).finished = v.finished /\ Tripped(v).trip
  BY <1>1 DEF Tripped, Window
<1>3. Sound(Tripped(v))
  BY TrippedSound
<1> QED BY <1>2, <1>3 DEF Sound, Whole

LEMMA AppendMoves ==
  ASSUME plan \in Plan, NEW v, Sound(v), Open(v), NEW n \in 0..(MaxLen - v.len)
  PROVE  /\ Sound(append(v, n)) /\ append(v, n).len = v.len + n /\ ~append(v, n).finished
         /\ v.released <= append(v, n).released
<1> DEFINE g == [v EXCEPT !.len = @ + n]
           u == append(v, n)
<1>1. v \in Window
  BY DEF Sound
<1>2. g.len = v.len + n /\ g.released = v.released
  BY <1>1 DEF Window
<1>3. Sound(g) /\ Open(g)
  BY GrowthSound
<1>4. u = judge(g)
  BY DEF append, Open
<1> HIDE DEF g, u
<1>5. g \in Window /\ g.released \in Nat
  BY <1>3, WindowNumbers DEF Sound
<1>6. CASE Trips(g, TRUE)
  <2>1. u = Tripped(g)
    BY <1>4, <1>6 DEF judge
  <2>2. Sound(u)
    BY <1>3, <2>1, TrippedSound
  <2>3. u.len = g.len /\ u.released = g.released /\ u.finished = g.finished
    BY <1>5, <2>1 DEF Tripped, Window
  <2> QED BY <1>2, <1>3, <1>5, <2>2, <2>3 DEF Open, u
<1>7. CASE ~Trips(g, TRUE)
  <2>1. Sound(u)
    BY <1>3, <1>4, <1>7, JudgeSound
  <2>2. u.len = g.len /\ u.released = Target(g) /\ u.finished = g.finished
    BY <1>4, <1>5, <1>7 DEF judge, Window
  <2>3. Target(g) \in g.released..LagPoint(g)
    BY <1>3, TargetFree
  <2>4. g.released <= Target(g)
    BY <2>3
  <2> QED BY <1>2, <1>3, <2>1, <2>2, <2>4 DEF Open, u
<1> QED BY <1>6, <1>7

LEMMA FinishMoves ==
  ASSUME plan \in Plan, NEW v, Sound(v), Whole(v)
  PROVE  LET u == finish(v)
         IN  /\ Sound(u) /\ Whole(u) /\ u \in Window /\ u.len = v.len /\ v.released <= u.released
             /\ u.trip \/ (u.finished /\ u.released = u.len)
             /\ v.trip \/ v.finished => u = v
<1> DEFINE u == finish(v)
<1>0. v \in Window /\ v.released \in Nat /\ v.len \in Nat
  BY WindowNumbers DEF Sound
<1>1. CASE v.trip \/ v.finished
  <2>1. u = v
    BY <1>1 DEF finish
  <2> HIDE DEF u
  <2> QED BY <1>0, <1>1, <2>1 DEF Whole, u
<1>2. CASE Open(v) /\ Trips(v, FALSE)
  <2>1. u = Tripped(v)
    BY <1>2 DEF finish, Open
  <2> HIDE DEF u
  <2> QED BY <1>0, <1>2, <2>1, TrippedMoves DEF Open, u
<1>3. CASE Open(v) /\ ~Trips(v, FALSE)
  <2>1. Sound(u)
    BY <1>3, FinishSound
  <2>2. u.released = v.len /\ u.len = v.len /\ u.finished
    BY <1>0, <1>3 DEF finish, Open, Window
  <2>3. v.released <= v.len
    BY ReleasedWithin
  <2> HIDE DEF u
  <2> QED BY <1>3, <2>1, <2>2, <2>3 DEF Whole, Sound, Open, u
<1> QED BY <1>0, <1>1, <1>2, <1>3 DEF Open

\* A chunk grows the text, and a finish reason judges it whole.
LEMMA ChunkMoves ==
  ASSUME plan \in Plan, Sound(w), Whole(w), ~w.trip, NEW content \in BOOLEAN, NEW fin \in BOOLEAN,
         NEW n \in 0..(MaxLen - w.len), content => ~w.finished, ~content => n = 0
  PROVE  LET v == ChunkWindow(content, n, fin)
         IN  /\ Sound(v) /\ Whole(v) /\ v \in Window /\ v.len = w.len + n
             /\ w.released <= v.released
             /\ w.finished => v = w
             /\ v.finished => v.released = v.len
             /\ fin => v.trip \/ v.finished
             /\ ~fin => v.finished = w.finished
<1> DEFINE g == IF content THEN append(w, n) ELSE w
           v == ChunkWindow(content, n, fin)
<1>0. w \in Window /\ w.len \in Nat /\ w.released \in Nat /\ w.finished \in BOOLEAN
  BY WindowNumbers DEF Sound
<1>1. /\ Sound(g) /\ Whole(g) /\ g.len = w.len + n /\ w.released <= g.released
      /\ g.finished = w.finished /\ (w.finished => g = w)
  <2>1. CASE content
    <3>1. Open(w)
      BY <2>1 DEF Open
    <3>2. /\ Sound(append(w, n)) /\ append(w, n).len = w.len + n /\ ~append(w, n).finished
          /\ w.released <= append(w, n).released
      BY <3>1, AppendMoves
    <3>3. append(w, n).finished = w.finished
      BY <1>0, <3>1, <3>2, WindowNumbers DEF Open, Sound
    <3> QED BY <2>1, <3>1, <3>2, <3>3 DEF Whole, Open
  <2>2. CASE ~content
    BY <1>0, <2>2
  <2> QED BY <2>1, <2>2
<1>2. v = IF fin THEN finish(g) ELSE g
  BY DEF ChunkWindow
<1> HIDE DEF g, v
<1>3. g \in Window /\ g.len \in Nat /\ g.released \in Nat
  BY <1>1, WindowNumbers DEF Sound
<1>4. CASE fin
  <2> DEFINE u == finish(g)
  <2>1. /\ Sound(u) /\ Whole(u) /\ u \in Window /\ u.len = g.len /\ g.released <= u.released
        /\ u.trip \/ (u.finished /\ u.released = u.len)
        /\ g.trip \/ g.finished => u = g
    BY <1>1, FinishMoves
  <2>2. v = u
    BY <1>2, <1>4
  <2> HIDE DEF u
  <2>3. u.released \in Nat
    BY <2>1, WindowNumbers
  <2>4. w.released <= u.released
    BY <1>0, <1>1, <1>3, <2>1, <2>3
  <2>5. u.finished => u.released = u.len
    BY <2>1 DEF Whole
  <2>6. w.finished => u = w
    BY <1>1, <2>1
  <2>7. Sound(v) /\ Whole(v) /\ v \in Window /\ v.len = w.len + n
    BY <1>1, <2>1, <2>2
  <2> QED BY <1>4, <2>1, <2>2, <2>4, <2>5, <2>6, <2>7 DEF v
<1>5. CASE ~fin
  <2>1. v = g
    BY <1>2, <1>5
  <2> QED BY <1>1, <1>3, <1>5, <2>1 DEF Whole, v
<1> QED BY <1>4, <1>5

-----------------------------------------------------------------------------
(* The steps. *)

\* What StreamInv says of the next state, from the values of its variables.
LEMMA InvPrimed ==
  ASSUME plan' = plan, plan \in Plan, Sound(w'), Whole(w'), mech' \in Mech, relay' \in Relay,
         queue' \in Seq(Payload), sent' \in Seq(Payload), upstream' \in {"open", "closed"},
         events' \in 0..MaxEvents, NEW s, s = sent' \o queue',
         Reader(s, w'.released), Labelled(s, w'), LineAgrees(s, mech'.line),
         relay' \notin {"sending", "last"} => queue' = <<>>,
         relay' = "request" => /\ w' = NewWindow /\ sent' = <<>> /\ ~mech'.settled /\ ~mech'.ended
                               /\ mech'.line = "none" /\ ~mech'.errorSeen,
         relay' \in {"reading", "sending"} =>
           /\ ~w'.trip /\ "refusal" \notin Kinds(s)
           /\ mech'.settled <=> w'.finished
           /\ mech'.ended \/ mech'.errorSeen => mech'.settled
           /\ Kinds(s) \cap EndKinds # {} => mech'.ended \/ mech'.errorSeen
           /\ mech'.line # "closed" => w'.len = 0,
         relay' \in {"last", "over"} =>
           /\ mech'.line # "open"
           /\ mech'.settled \/ mech'.ended => IF w'.trip THEN TripTail(s) ELSE w'.finished,
         mech'.ended => mech'.line = "closed",
         relay' # "gone" => Delivered(s, w') /\ LineClosed(s, mech'.line),
         (mech'.settled \/ mech'.ended) /\ "refusal" \in Kinds(s) => upstream' = "closed"
  PROVE  StreamInv'
<1>1. IInv'
  BY SoundPrimed
<1>2. w' \in Window
  BY DEF Sound
<1>3. StreamTypeOK'
  BY <1>2 DEF StreamTypeOK
<1>4. Out' = s
  BY DEF Out
<1>5. Sound(w)' /\ Whole(w)'
  BY <1>1 DEF IInv, Whole
<1>6. Reader(Out, w.released)' /\ Labelled(Out, w)' /\ LineAgrees(Out, mech.line)'
  BY <1>4 DEF Reader, Labelled, LineAgrees
<1>7. (Reading => ReadingInv)'
  BY <1>4 DEF Reading, ReadingInv
<1>8. (Ending => EndingInv)'
  BY <1>4 DEF Ending, EndingInv, Streamed
<1>9. (relay # "gone" => Delivered(Out, w) /\ LineClosed(Out, mech.line))'
  BY <1>4 DEF Delivered, LineClosed
<1>10. (Streamed /\ "refusal" \in Kinds(Out) => upstream = "closed")'
  BY <1>4 DEF Streamed
<1>11. (relay = "request" => /\ w = NewWindow /\ sent = <<>> /\ ~Streamed /\ mech.line = "none"
                             /\ ~mech.errorSeen)'
  BY DEF Streamed, NewWindow
<1> QED BY <1>3, <1>5, <1>6, <1>7, <1>8, <1>9, <1>10, <1>11 DEF StreamInv

\* What an event makes of the stream: the payloads it returned are queued.
LEMMA DeliverKeeps ==
  ASSUME StreamInv, relay = "reading", events' \in 0..MaxEvents,
         NEW m \in Mech, NEW v, NEW out \in Seq(Payload), NEW last \in BOOLEAN,
         Deliver(m, v, out, last), Sound(v), Whole(v), Good(sent \o out, v, m.line),
         m.ended => m.line = "closed",
         v.trip => m.line # "open" /\ TripTail(sent \o out),
         ~v.trip => "refusal" \notin Kinds(sent \o out),
         ~v.trip /\ last => m.line # "open" /\ v.finished,
         ~v.trip /\ ~last =>
           /\ m.settled <=> v.finished
           /\ m.ended \/ m.errorSeen => m.settled
           /\ Kinds(sent \o out) \cap EndKinds # {} => m.ended \/ m.errorSeen
           /\ m.line # "closed" => v.len = 0
  PROVE  StreamInv'
<1> DEFINE s == sent \o out
<1>1. /\ plan' = plan /\ w' = v /\ mech' = m /\ queue' = out /\ sent' = sent
      /\ relay' = (IF last \/ v.trip THEN "last" ELSE "sending")
      /\ upstream' = (IF v.trip THEN "closed" ELSE upstream)
  BY DEF Deliver
<1>2. plan \in Plan /\ sent \in Seq(Payload) /\ upstream \in {"open", "closed"}
  BY DEF StreamInv, StreamTypeOK
<1>3. relay' \in {"last", "sending"} /\ relay' \in Relay /\ upstream' \in {"open", "closed"}
  BY <1>1, <1>2 DEF Relay
<1>4. /\ Reader(s, v.released) /\ Labelled(s, v) /\ LineAgrees(s, m.line)
      /\ Delivered(s, v) /\ LineClosed(s, m.line)
  BY DEF Good
<1>5. s = sent' \o queue'
  BY <1>1
<1> HIDE DEF s
<1>6. relay' \in {"reading", "sending"} =>
        /\ ~w'.trip /\ "refusal" \notin Kinds(s)
        /\ mech'.settled <=> w'.finished
        /\ mech'.ended \/ mech'.errorSeen => mech'.settled
        /\ Kinds(s) \cap EndKinds # {} => mech'.ended \/ mech'.errorSeen
        /\ mech'.line # "closed" => w'.len = 0
  BY <1>1 DEF s
<1>7. relay' \in {"last", "over"} =>
        /\ mech'.line # "open"
        /\ mech'.settled \/ mech'.ended => IF w'.trip THEN TripTail(s) ELSE w'.finished
  BY <1>1 DEF s
<1>8. (mech'.settled \/ mech'.ended) /\ "refusal" \in Kinds(s) => upstream' = "closed"
  BY <1>1 DEF s
<1>9. relay' \notin {"sending", "last"} => queue' = <<>>
  BY <1>3
<1> QED BY <1>1, <1>2, <1>3, <1>4, <1>5, <1>6, <1>7, <1>8, <1>9, InvPrimed

\* Where the stream stands when the relay turns to the engine's next event.
LEMMA ReadingFacts ==
  ASSUME StreamInv, relay = "reading"
  PROVE  /\ plan \in Plan /\ Sound(w) /\ Whole(w) /\ w \in Window /\ mech \in Mech
         /\ sent \in Seq(Payload) /\ sent \o <<>> = sent /\ Good(sent, w, mech.line)
         /\ ~w.trip /\ "refusal" \notin Kinds(sent)
         /\ mech.settled <=> w.finished
         /\ mech.ended \/ mech.errorSeen => mech.settled
         /\ Kinds(sent) \cap EndKinds # {} => mech.ended \/ mech.errorSeen
         /\ mech.line # "closed" => w.len = 0
         /\ mech.ended => mech.line = "closed"
         /\ mech.settled \in BOOLEAN /\ mech.ended \in BOOLEAN /\ mech.errorSeen \in BOOLEAN
         /\ mech.line \in {"none", "open", "closed"} /\ events \in 0..MaxEvents
<1>1. /\ plan \in Plan /\ Sound(w) /\ Whole(w) /\ w \in Window /\ mech \in Mech
      /\ sent \in Seq(Payload) /\ queue = <<>> /\ events \in 0..MaxEvents
      /\ mech.ended => mech.line = "closed"
  BY DEF StreamInv, StreamTypeOK
<1>2. sent \o <<>> = sent
  BY <1>1, ConcatEmptySeq
<1>3. Out = sent
  BY <1>1, <1>2 DEF Out
<1>4. ReadingInv
  BY DEF StreamInv, Reading
<1>5. Good(sent, w, mech.line)
  BY <1>3 DEF StreamInv, Good
<1>6. /\ mech.settled \in BOOLEAN /\ mech.ended \in BOOLEAN /\ mech.errorSeen \in BOOLEAN
      /\ mech.line \in {"none", "open", "closed"}
  BY <1>1 DEF Mech
<1> QED BY <1>1, <1>2, <1>3, <1>4, <1>5, <1>6 DEF ReadingInv

\* The relay reads no more than MaxEvents events.
LEMMA ReadsBounded ==
  ASSUME StreamInv, relay = "reading", Reads \/ events' = events
  PROVE  events' \in 0..MaxEvents
<1>1. events \in 0..MaxEvents
  BY ReadingFacts
<1> QED BY <1>1, EventAssumption DEF Reads

\* The settled or judged tail, behind the closing of the line: whole when it does not
\* trip, and ending the stream when it does.
LEMMA TailKeeps ==
  ASSUME StreamInv, relay = "reading", ~mech.ended, NEW label \in BOOLEAN
  PROVE  LET v == Settle(mech, w)
             tail == Closing(mech) \o SettleTail(mech, w, label)
         IN  /\ tail \in Seq(Payload) /\ Sound(v) /\ Whole(v) /\ v \in Window
             /\ Good(sent \o tail, v, "closed")
             /\ v.trip => TripTail(sent \o tail)
             /\ ~v.trip => v.finished /\ "refusal" \notin Kinds(sent \o tail)
<1> DEFINE v == Settle(mech, w)
           t == SettleTail(mech, w, label)
           c == Closing(mech)
           s == sent \o c
<1>0. /\ plan \in Plan /\ Sound(w) /\ Whole(w) /\ w \in Window /\ mech \in Mech
      /\ sent \in Seq(Payload) /\ Good(sent, w, mech.line) /\ "refusal" \notin Kinds(sent)
      /\ mech.settled \in BOOLEAN
  BY ReadingFacts
<1>1. /\ c \in Seq(Payload) /\ s \in Seq(Payload) /\ Good(s, w, "closed")
      /\ Kinds(s) \subseteq Kinds(sent) \cup {"closing"} /\ Marks(s) = Marks(sent)
  BY <1>0, GoodClosing
<1> HIDE DEF c, s
<1>2. "refusal" \notin Kinds(s)
  BY <1>0, <1>1
<1>3. /\ t \in Seq(Payload) /\ Sound(v) /\ Whole(v) /\ v \in Window
      /\ Good(s \o t, v, "closed")
      /\ v.trip => TripTail(s \o t)
      /\ ~v.trip => v.finished /\ "refusal" \notin Kinds(s \o t)
  <2>1. CASE mech.settled
    <3>1. t = <<>> /\ v = w
      BY <2>1 DEF SettleTail, Settle
    <3>2. s \o t = s /\ t \in Seq(Payload)
      BY <1>1, <3>1, ConcatEmptySeq
    <3>3. ~w.trip /\ w.finished
      BY <2>1, ReadingFacts
    <3> HIDE DEF t, v
    <3> QED BY <1>0, <1>1, <1>2, <3>1, <3>2, <3>3
  <2>2. CASE ~mech.settled
    <3> DEFINE u == finish(w)
    <3>1. v = u
      BY <2>2 DEF Settle
    <3>2. /\ Sound(u) /\ Whole(u) /\ u \in Window /\ u.len = w.len /\ w.released <= u.released
          /\ u.trip \/ (u.finished /\ u.released = u.len)
      BY <1>0, FinishMoves
    <3>3. ~w.finished /\ ~w.trip /\ Kinds(sent) \cap EndKinds = {}
      BY <2>2, ReadingFacts
    <3>4. t = IF u.trip THEN TripPayloads(u)
              ELSE IF u.released > w.released \/ label THEN <<Content(u, label)>> ELSE <<>>
      BY <2>2 DEF SettleTail
    <3>5. w.released \in Nat /\ u.released \in Nat
      BY <1>0, <3>2, WindowNumbers
    <3> HIDE DEF v, t, u
    <3>6. CASE u.trip
      <4>1. Good(s, u, "closed")
        BY <1>0, <1>1, <3>2, <3>3, <3>6, GoodWindow
      <4>2. t \in Seq(Payload) /\ Good(s \o t, u, "closed") /\ TripTail(s \o t)
        BY <1>2, <3>2, <3>4, <3>6, <4>1, GoodTrip
      <4> QED BY <3>1, <3>2, <3>6, <4>2
    <3>7. CASE ~u.trip /\ (u.released > w.released \/ label)
      <4> DEFINE p == Content(u, label)
      <4>1. p \in Payload /\ t = <<p>>
        BY <3>2, <3>4, <3>7, WindowNumbers
      <4> HIDE DEF p
      <4>2. s \o t = Append(s, p) /\ t \in Seq(Payload)
        BY <1>1, <4>1, AppendIsConcat
      <4>3. Kinds(s) \cap EndKinds = {} /\ ("line" \in Kinds(s) => "closing" \in Kinds(s))
        BY <1>1, <3>3 DEF EndKinds, Good, LineClosed
      <4>4. Marks(s) = {}
        BY <1>1, <3>3 DEF Good, Labelled
      <4>5. Good(Append(s, p), u, "closed") /\ Kinds(Append(s, p)) = Kinds(s) \cup {"chunk"}
        BY <1>0, <1>1, <3>2, <3>3, <3>7, <4>3, <4>4, GoodContent DEF p
      <4> QED BY <1>2, <3>1, <3>2, <3>7, <4>2, <4>5
    <3>8. CASE ~u.trip /\ ~(u.released > w.released \/ label)
      <4>1. t = <<>> /\ u.released = w.released
        BY <3>2, <3>4, <3>5, <3>8
      <4>2. s \o t = s /\ t \in Seq(Payload)
        BY <1>1, <4>1, ConcatEmptySeq
      <4>3. Good(s, u, "closed")
        BY <1>0, <1>1, <3>2, <3>3, <4>1, GoodWindow
      <4> QED BY <1>2, <3>1, <3>2, <3>8, <4>2, <4>3
    <3> QED BY <3>6, <3>7, <3>8
  <2> QED BY <2>1, <2>2
<1>4. sent \o (c \o t) = s \o t /\ c \o t \in Seq(Payload)
  BY <1>0, <1>1, <1>3, ConcatAssociative, ConcatProperties DEF s
<1> QED BY <1>3, <1>4 DEF c

LEMMA IgnoredKeeps == ASSUME StreamInv, IgnoredEvent PROVE StreamInv'
<1>1. relay = "reading" /\ Deliver(mech, w, <<>>, FALSE) /\ events' \in 0..MaxEvents
  BY ReadsBounded DEF IgnoredEvent, Reads
<1>2. /\ Sound(w) /\ Whole(w) /\ mech \in Mech
      /\ sent \o <<>> = sent /\ Good(sent, w, mech.line)
      /\ ~w.trip /\ "refusal" \notin Kinds(sent)
      /\ mech.settled <=> w.finished
      /\ mech.ended \/ mech.errorSeen => mech.settled
      /\ Kinds(sent) \cap EndKinds # {} => mech.ended \/ mech.errorSeen
      /\ mech.line # "closed" => w.len = 0
      /\ mech.ended => mech.line = "closed"
  BY <1>1, ReadingFacts
<1>3. <<>> \in Seq(Payload)
  OBVIOUS
<1> QED BY <1>1, <1>2, <1>3, DeliverKeeps

\* A chunk without choices shows no more of the answer than is released.
LEMMA UsageKeeps == ASSUME StreamInv, UsageEvent PROVE StreamInv'
<1> DEFINE p == Content(w, FALSE)
<1>1. /\ relay = "reading" /\ Deliver(mech, w, <<p>>, FALSE) /\ events' \in 0..MaxEvents
      /\ ~mech.ended /\ ~mech.errorSeen
  BY ReadsBounded DEF UsageEvent, Reads, Ignored
<1>2. /\ Sound(w) /\ Whole(w) /\ w \in Window /\ mech \in Mech
      /\ sent \in Seq(Payload) /\ Good(sent, w, mech.line)
      /\ ~w.trip /\ "refusal" \notin Kinds(sent)
      /\ mech.settled <=> w.finished
      /\ Kinds(sent) \cap EndKinds = {}
      /\ mech.line # "closed" => w.len = 0
      /\ mech.ended => mech.line = "closed"
  BY <1>1, ReadingFacts
<1>3. w.released > 0 => mech.line = "closed"
  <2>1. w.released <= w.len /\ w.released \in Nat
    BY <1>2, ReleasedWithin, WindowNumbers
  <2> QED BY <1>2, <2>1
<1>4. w.released > 0 /\ "line" \in Kinds(sent) => "closing" \in Kinds(sent)
  BY <1>2, <1>3 DEF Good, LineClosed
<1>5. /\ Good(Append(sent, p), w, mech.line) /\ Kinds(Append(sent, p)) = Kinds(sent) \cup {"chunk"}
  <2>1. w.released <= w.released
    BY <1>2, WindowNumbers
  <2> QED BY <1>2, <1>4, <2>1, GoodContent
<1>6. p \in Payload
  BY <1>2, WindowNumbers
<1> HIDE DEF p
<1>7. sent \o <<p>> = Append(sent, p) /\ <<p>> \in Seq(Payload)
  BY <1>2, <1>6, AppendIsConcat
<1>8. Kinds(sent \o <<p>>) \cap EndKinds = {} /\ "refusal" \notin Kinds(sent \o <<p>>)
  BY <1>2, <1>5, <1>7 DEF EndKinds
<1> QED BY <1>1, <1>2, <1>5, <1>7, <1>8, DeliverKeeps

\* An error or an end marker follows the tail, or the tail trips in its place.
LEMMA MarkerKeeps ==
  ASSUME StreamInv, relay = "reading", events' \in 0..MaxEvents, ~mech.ended,
         NEW label \in BOOLEAN, NEW m \in Mech, NEW kind \in {"error", "done"},
         m.line = "closed", m.settled,
         LET v    == Settle(mech, w)
             tail == Closing(mech) \o SettleTail(mech, w, label)
         IN  /\ ~v.trip => m.ended \/ m.errorSeen
             /\ Deliver(m, v, IF v.trip THEN tail ELSE Append(tail, Plain(kind, v)), FALSE)
  PROVE  StreamInv'
<1> DEFINE v == Settle(mech, w)
           tail == Closing(mech) \o SettleTail(mech, w, label)
           p == Plain(kind, v)
           out == IF v.trip THEN tail ELSE Append(tail, p)
<1>1. /\ tail \in Seq(Payload) /\ Sound(v) /\ Whole(v) /\ v \in Window
      /\ Good(sent \o tail, v, "closed")
      /\ v.trip => TripTail(sent \o tail)
      /\ ~v.trip => v.finished /\ "refusal" \notin Kinds(sent \o tail)
  BY TailKeeps
<1>2. sent \in Seq(Payload)
  BY ReadingFacts
<1>3. p \in Payload /\ p.kind = kind /\ p.kind \in EndKinds
  BY <1>1, WindowNumbers DEF EndKinds
<1>4. Deliver(m, v, out, FALSE) /\ (~v.trip => m.ended \/ m.errorSeen)
  OBVIOUS
<1> HIDE DEF v, tail, p
<1>5. CASE v.trip
  <2>1. out = tail
    BY <1>5
  <2> HIDE DEF out
  <2> QED BY <1>1, <1>4, <1>5, <2>1, DeliverKeeps
<1>6. CASE ~v.trip
  <2>1. out = Append(tail, p)
    BY <1>6
  <2> HIDE DEF out
  <2>2. sent \o out = Append(sent \o tail, p) /\ out \in Seq(Payload)
    BY <1>1, <1>2, <1>3, <2>1
  <2>3. /\ Good(sent \o out, v, "closed")
        /\ Kinds(sent \o out) = Kinds(sent \o tail) \cup {kind}
    <3> DEFINE b == sent \o tail
    <3>1. Good(b, v, "closed")
      BY <1>1
    <3> HIDE DEF b
    <3>2. Good(Append(b, p), v, "closed") /\ Kinds(Append(b, p)) = Kinds(b) \cup {p.kind}
      <4>1. v \in Window /\ p \in Payload /\ p.kind \in EndKinds
        BY <1>1, <1>3
      <4>2. Good(Append(b, p), v, "closed")
        BY ONLY <3>1, <4>1, GoodEnd
      <4>3. Kinds(Append(b, p)) = Kinds(b) \cup {p.kind}
        BY ONLY <3>1, <4>1, GoodEnd
      <4> QED BY <4>2, <4>3
    <3> QED BY <1>3, <2>2, <3>2 DEF b
  <2>4. "refusal" \notin Kinds(sent \o out)
    BY <1>1, <1>6, <2>3
  <2> QED BY <1>1, <1>4, <1>6, <2>2, <2>3, <2>4, DeliverKeeps
<1> QED BY <1>5, <1>6

LEMMA ErrorKeeps == ASSUME StreamInv, ErrorEvent PROVE StreamInv'
<1> DEFINE v == Settle(mech, w)
           m == [Closed(mech) EXCEPT !.settled = TRUE, !.errorSeen = ~v.trip]
<1>1. relay = "reading" /\ events' \in 0..MaxEvents /\ ~mech.ended
  BY ReadsBounded DEF ErrorEvent, Reads, Ignored
<1>2. PICK label \in BOOLEAN :
        LET tail == Closing(mech) \o SettleTail(mech, w, label)
        IN  Deliver(m, v, IF v.trip THEN tail ELSE Append(tail, Plain("error", v)), FALSE)
  BY DEF ErrorEvent
<1>3. mech \in Mech
  BY <1>1, ReadingFacts
<1>4. m \in Mech /\ m.line = "closed" /\ m.settled /\ m.errorSeen = ~v.trip
  BY <1>3 DEF Mech, Closed
<1> HIDE DEF m
<1> QED BY <1>1, <1>2, <1>4, MarkerKeeps

LEMMA DoneKeeps == ASSUME StreamInv, DoneEvent PROVE StreamInv'
<1> DEFINE v == Settle(mech, w)
           m == [Closed(mech) EXCEPT !.settled = TRUE, !.ended = TRUE]
<1>1. relay = "reading" /\ events' \in 0..MaxEvents /\ ~mech.ended
  BY ReadsBounded DEF DoneEvent, Reads
<1>2. PICK label \in BOOLEAN :
        LET tail == Closing(mech) \o SettleTail(mech, w, label)
        IN  Deliver(m, v, IF v.trip THEN tail ELSE Append(tail, Plain("done", v)), FALSE)
  BY DEF DoneEvent
<1>3. mech \in Mech
  BY <1>1, ReadingFacts
<1>4. m \in Mech /\ m.line = "closed" /\ m.settled /\ m.ended
  BY <1>3 DEF Mech, Closed
<1> HIDE DEF m
<1> QED BY <1>1, <1>2, <1>4, MarkerKeeps

\* What cannot be read or judged closes the line and refuses.
LEMMA ErrorTripKeeps ==
  ASSUME StreamInv, relay = "reading", events' \in 0..MaxEvents, ErrorTrip(mech, w)
  PROVE  StreamInv'
<1> DEFINE m == [Closed(mech) EXCEPT !.ended = TRUE]
           u == Tripped(w)
           c == Closing(mech)
           t == TripPayloads(u)
           s == sent \o c
<1>1. /\ plan \in Plan /\ Sound(w) /\ Whole(w) /\ w \in Window /\ mech \in Mech
      /\ sent \in Seq(Payload) /\ Good(sent, w, mech.line) /\ "refusal" \notin Kinds(sent)
      /\ w.released \in Nat
  BY ReadingFacts, WindowNumbers
<1>2. m \in Mech /\ m.line = "closed" /\ m.ended
  BY <1>1 DEF Mech, Closed
<1>3. Deliver(m, u, c \o t, TRUE)
  BY DEF ErrorTrip
<1>4. /\ c \in Seq(Payload) /\ s \in Seq(Payload) /\ Good(s, w, "closed")
      /\ Kinds(s) \subseteq Kinds(sent) \cup {"closing"}
  BY <1>1, GoodClosing
<1>5. /\ Sound(u) /\ Whole(u) /\ u \in Window /\ u.released = w.released /\ u.len = w.len
      /\ u.finished = w.finished /\ u.trip
  BY <1>1, TrippedMoves
<1> HIDE DEF m, u, c, s
<1>6. Good(s, u, "closed")
  <2>1. w.released <= u.released
    BY <1>1, <1>5
  <2> QED BY <1>1, <1>4, <1>5, <2>1, GoodWindow
<1>7. t \in Seq(Payload) /\ Good(s \o t, u, "closed") /\ TripTail(s \o t)
  BY <1>1, <1>4, <1>5, <1>6, GoodTrip
<1> HIDE DEF t
<1>8. sent \o (c \o t) = s \o t /\ c \o t \in Seq(Payload)
  BY <1>1, <1>4, <1>7, ConcatAssociative, ConcatProperties, SMTT(60) DEF s
<1> QED BY <1>2, <1>3, <1>5, <1>7, <1>8, DeliverKeeps

LEMMA UnreadableKeeps == ASSUME StreamInv, UnreadableEvent PROVE StreamInv'
<1>1. relay = "reading" /\ events' \in 0..MaxEvents /\ ErrorTrip(mech, w)
  BY ReadsBounded DEF UnreadableEvent, Reads
<1> QED BY <1>1, ErrorTripKeeps

LEMMA FailClosedKeeps == ASSUME StreamInv, FailClosed PROVE StreamInv'
<1>1. relay = "reading" /\ events' \in 0..MaxEvents
  BY ReadsBounded DEF FailClosed
<1>2. CASE mech.ended
  <2>1. /\ relay' = "last" /\ upstream' = "closed" /\ plan' = plan /\ w' = w /\ mech' = mech
        /\ queue' = queue /\ sent' = sent
    BY <1>2 DEF FailClosed
  <2>2. /\ plan \in Plan /\ Sound(w) /\ Whole(w) /\ mech \in Mech
        /\ sent \in Seq(Payload) /\ sent \o <<>> = sent /\ Good(sent, w, mech.line)
        /\ ~w.trip /\ w.finished /\ mech.line = "closed" /\ "refusal" \notin Kinds(sent)
    BY <1>1, <1>2, ReadingFacts
  <2>3. queue = <<>> /\ queue \in Seq(Payload)
    BY <1>1 DEF StreamInv
  <2>4. relay' \in Relay
    BY <2>1 DEF Relay
  <2>5. /\ Reader(sent, w.released) /\ Labelled(sent, w) /\ LineAgrees(sent, mech.line)
        /\ Delivered(sent, w) /\ LineClosed(sent, mech.line)
    BY <2>2 DEF Good
  <2> QED BY <1>1, <2>1, <2>2, <2>3, <2>4, <2>5, InvPrimed
<1>3. CASE ~mech.ended
  BY <1>1, <1>3, ErrorTripKeeps DEF FailClosed
<1> QED BY <1>2, <1>3

\* mechanics.finish(), and the events the relay adds when the transport failed.
LEMMA FinishedKeeps ==
  ASSUME StreamInv, relay = "reading", events' \in 0..MaxEvents, NEW extra,
         \/ extra = <<>>
         \/ extra = <<Plain("error", Settle(mech, w)), Plain("done", Settle(mech, w))>>,
         Finished(extra)
  PROVE  StreamInv'
<1> DEFINE v == IF mech.ended THEN w ELSE Settle(mech, w)
           m == IF mech.ended THEN mech ELSE [Closed(mech) EXCEPT !.settled = TRUE, !.ended = TRUE]
<1>1. /\ Sound(w) /\ Whole(w) /\ w \in Window /\ mech \in Mech
      /\ sent \in Seq(Payload) /\ sent \o <<>> = sent /\ Good(sent, w, mech.line)
      /\ ~w.trip /\ "refusal" \notin Kinds(sent)
      /\ mech.settled <=> w.finished
      /\ mech.ended => mech.settled /\ mech.line = "closed"
  BY ReadingFacts
<1>2. PICK label \in BOOLEAN :
        LET tail == IF mech.ended THEN <<>> ELSE Closing(mech) \o SettleTail(mech, w, label)
        IN  Deliver(m, v, IF v.trip THEN tail ELSE tail \o extra, TRUE)
  BY DEF Finished
<1> DEFINE tail == IF mech.ended THEN <<>> ELSE Closing(mech) \o SettleTail(mech, w, label)
           out == IF v.trip THEN tail ELSE tail \o extra
           b == sent \o tail
<1>3. Deliver(m, v, out, TRUE)
  BY <1>2
<1>4. m \in Mech /\ m.line = "closed"
  BY <1>1 DEF Mech, Closed
<1>5. v = Settle(mech, w)
  BY <1>1 DEF Settle
<1>6. /\ tail \in Seq(Payload) /\ Sound(v) /\ Whole(v) /\ v \in Window
      /\ Good(b, v, "closed")
      /\ v.trip => TripTail(b)
      /\ ~v.trip => v.finished /\ "refusal" \notin Kinds(b)
  <2>1. CASE mech.ended
    <3>1. tail = <<>> /\ v = w /\ tail \in Seq(Payload)
      BY <2>1
    <3> HIDE DEF tail, v
    <3> QED BY <1>1, <2>1, <3>1
  <2>2. CASE ~mech.ended
    <3>1. tail = Closing(mech) \o SettleTail(mech, w, label)
      BY <2>2
    <3> HIDE DEF tail, v
    <3> QED BY <1>5, <2>2, <3>1, TailKeeps
  <2> QED BY <2>1, <2>2
<1>7. b \in Seq(Payload)
  BY <1>6 DEF Good, Reader
<1> HIDE DEF m, v, tail
<1>8. CASE v.trip \/ extra = <<>>
  <2>1. out = tail
    BY <1>6, <1>8, ConcatEmptySeq
  <2> HIDE DEF out
  <2> QED BY <1>3, <1>4, <1>6, <1>8, <2>1, DeliverKeeps
<1>9. CASE ~v.trip /\ extra # <<>>
  <2> DEFINE e == Plain("error", v)
             d == Plain("done", v)
  <2>1. e \in Payload /\ d \in Payload /\ e.kind = "error" /\ d.kind = "done"
    BY <1>6, WindowNumbers
  <2>2. extra = <<e, d>>
    BY <1>5, <1>9
  <2>3. e.kind \in EndKinds /\ d.kind \in EndKinds
    BY <2>1 DEF EndKinds
  <2> HIDE DEF e, d
  <2>4. out = tail \o <<e, d>>
    BY <1>9, <2>2
  <2> HIDE DEF out
  <2>5. sent \o out = Append(Append(b, e), d) /\ out \in Seq(Payload)
    BY <1>1, <1>6, <2>1, <2>4
  <2> HIDE DEF b
  <2>6. Good(Append(b, e), v, "closed") /\ Kinds(Append(b, e)) = Kinds(b) \cup {"error"}
    <3>1. v \in Window /\ Good(b, v, "closed")
      BY <1>6
    <3>2. Good(Append(b, e), v, "closed")
      BY ONLY <2>1, <2>3, <3>1, GoodEnd
    <3>3. Kinds(Append(b, e)) = Kinds(b) \cup {e.kind}
      BY ONLY <2>1, <2>3, <3>1, GoodEnd
    <3> QED BY <2>1, <3>2, <3>3
  <2> DEFINE b1 == Append(b, e)
  <2>7. Good(b1, v, "closed") /\ Kinds(b1) = Kinds(b) \cup {"error"}
    BY <2>6
  <2> HIDE DEF b1
  <2>8. Good(Append(b1, d), v, "closed") /\ Kinds(Append(b1, d)) = Kinds(b1) \cup {"done"}
    <3>1. v \in Window
      BY <1>6
    <3>2. Good(Append(b1, d), v, "closed")
      BY ONLY <2>1, <2>3, <2>7, <3>1, GoodEnd
    <3>3. Kinds(Append(b1, d)) = Kinds(b1) \cup {d.kind}
      BY ONLY <2>1, <2>3, <2>7, <3>1, GoodEnd
    <3> QED BY <2>1, <3>2, <3>3
  <2>9. sent \o out = Append(b1, d)
    BY <2>5 DEF b1
  <2>10. Good(sent \o out, v, "closed") /\ "refusal" \notin Kinds(sent \o out)
    BY <1>6, <1>9, <2>7, <2>8, <2>9
  <2> QED BY <1>3, <1>4, <1>6, <1>9, <2>5, <2>10, DeliverKeeps
<1> QED BY <1>8, <1>9

LEMMA EndKeeps == ASSUME StreamInv, CleanEnd \/ TransportFails PROVE StreamInv'
<1>1. relay = "reading" /\ events' \in 0..MaxEvents
  BY ReadsBounded DEF CleanEnd, TransportFails
<1>2. CASE CleanEnd
  BY <1>1, <1>2, FinishedKeeps DEF CleanEnd
<1>3. CASE TransportFails
  BY <1>1, <1>3, FinishedKeeps DEF TransportFails
<1> QED BY <1>2, <1>3

\* A chunk: the line is closed by the first text, a finish or a trip, what the window
\* released since the last one leaves, and a trip refuses in its place.
LEMMA ChunkKeeps == ASSUME StreamInv, ChunkEvent PROVE StreamInv'
<1>1. PICK content \in BOOLEAN, reasoning \in BOOLEAN, extra \in BOOLEAN, fin \in BOOLEAN,
           due \in BOOLEAN, label \in BOOLEAN, n \in 0..(MaxLen - w.len) :
        /\ (mech.settled => ~content) /\ (~content => n = 0)
        /\ Chunk(content, n, reasoning, extra, fin, due, label)
  BY DEF ChunkEvent
<1>2. relay = "reading" /\ events' \in 0..MaxEvents /\ ~mech.ended /\ ~mech.errorSeen
  BY ReadsBounded DEF ChunkEvent, Reads, Ignored
<1>3. /\ plan \in Plan /\ Sound(w) /\ Whole(w) /\ w \in Window /\ mech \in Mech
      /\ sent \in Seq(Payload) /\ sent \o <<>> = sent /\ Good(sent, w, mech.line)
      /\ ~w.trip /\ "refusal" \notin Kinds(sent)
      /\ mech.settled <=> w.finished
      /\ Kinds(sent) \cap EndKinds = {}
      /\ mech.line # "closed" => w.len = 0
      /\ mech.settled \in BOOLEAN /\ mech.line \in {"none", "open", "closed"}
      /\ w.released \in Nat /\ w.len \in Nat
  BY <1>2, ReadingFacts, WindowNumbers
<1> DEFINE v       == ChunkWindow(content, n, fin)
           closes  == v.trip \/ (content /\ n > 0) \/ fin
           opens   == ~closes /\ reasoning /\ mech.line = "none"
           ticks   == ~closes /\ reasoning /\ mech.line = "open" /\ due
           leading == IF closes THEN Closing(mech)
                      ELSE IF opens \/ ticks THEN <<Plain("line", w)>> ELSE <<>>
           marked  == Stamped(mech, fin) /\ label
           line    == IF closes THEN "closed" ELSE IF opens THEN "open" ELSE mech.line
           m       == [mech EXCEPT !.settled = @ \/ fin, !.ended = v.trip, !.line = line]
           shows   == v.released > w.released \/ marked \/ extra \/ fin
           out     == IF v.trip THEN TripPayloads(v)
                      ELSE IF shows THEN <<Content(v, marked)>> ELSE <<>>
           s       == sent \o leading
<1>4. Deliver(m, v, leading \o out, FALSE)
  BY <1>1 DEF Chunk
<1>5. /\ Sound(v) /\ Whole(v) /\ v \in Window /\ v.len = w.len + n /\ w.released <= v.released
      /\ w.finished => v = w
      /\ v.finished => v.released = v.len
      /\ fin => v.trip \/ v.finished
      /\ ~fin => v.finished = w.finished
  BY <1>1, <1>3, ChunkMoves
<1>6. v.released \in Nat /\ v.len \in Nat /\ v.trip \in BOOLEAN /\ v.finished \in BOOLEAN
  BY <1>5, WindowNumbers
<1>7. v.trip => ~w.finished
  BY <1>3, <1>5
<1>8. closes \in BOOLEAN /\ opens \in BOOLEAN /\ ticks \in BOOLEAN /\ marked \in BOOLEAN
  BY <1>6 DEF Stamped
<1>9. (v.trip \/ fin => closes) /\ (~closes => n = 0)
  BY <1>1
<1>10. marked => fin /\ ~w.finished
  BY <1>3 DEF Stamped
<1>11. line \in {"none", "open", "closed"}
  BY <1>3
<1>12. m \in Mech /\ m.line = line /\ m.settled = (mech.settled \/ fin) /\ m.ended = v.trip
       /\ m.errorSeen = mech.errorSeen
  BY <1>3, <1>6, <1>11 DEF Mech
<1>13. /\ leading = (IF closes THEN Closing(mech)
                     ELSE IF opens \/ ticks THEN <<Plain("line", w)>> ELSE <<>>)
       /\ line = (IF closes THEN "closed" ELSE IF opens THEN "open" ELSE mech.line)
       /\ opens => ~closes /\ mech.line = "none"
       /\ ticks => ~closes /\ mech.line = "open"
  OBVIOUS
<1> HIDE DEF m, v, closes, opens, ticks, leading, marked, line
\* The line's payload.
<1>14. /\ leading \in Seq(Payload) /\ s \in Seq(Payload) /\ Good(s, w, line)
       /\ Kinds(s) \subseteq Kinds(sent) \cup {"closing", "line"}
  <2>1. CASE closes
    BY <1>3, <1>13, <2>1, GoodClosing
  <2>2. CASE opens \/ ticks
    <3> DEFINE p == Plain("line", w)
    <3>1. p \in Payload /\ p.kind = "line" /\ p.kind \notin TextKinds
      BY <1>3, WindowNumbers DEF TextKinds
    <3>2. leading = <<p>> /\ line = "open"
      BY <1>13, <2>2
    <3> HIDE DEF p
    <3>3. s = Append(sent, p) /\ leading \in Seq(Payload)
      BY <1>3, <3>1, <3>2, AppendIsConcat
    <3>4. "closing" \notin Kinds(sent)
      BY <1>3, <1>13, <2>2 DEF Good, LineAgrees
    <3>5. /\ Append(sent, p) \in Seq(Payload) /\ Reader(Append(sent, p), w.released)
          /\ Kinds(Append(sent, p)) = Kinds(sent) \cup {p.kind} /\ Labelled(Append(sent, p), w)
          /\ Delivered(Append(sent, p), w)
      BY <1>3, <3>1, <3>4, AddOther
    <3>6. "closing" \notin Kinds(s) /\ Kinds(s) = Kinds(sent) \cup {"line"}
      BY <3>1, <3>3, <3>4, <3>5
    <3> HIDE DEF s
    <3> QED BY <3>2, <3>3, <3>5, <3>6 DEF Good, LineAgrees, LineClosed
  <2>3. CASE ~closes /\ ~(opens \/ ticks)
    <3>1. leading = <<>> /\ line = mech.line
      BY <1>13, <2>3
    <3>2. s = sent /\ leading \in Seq(Payload)
      BY <1>3, <3>1
    <3> QED BY <1>3, <3>1, <3>2
  <2> QED BY <2>1, <2>2, <2>3
<1> HIDE DEF s
<1>15. Kinds(s) \cap EndKinds = {} /\ "refusal" \notin Kinds(s)
  BY <1>3, <1>14 DEF EndKinds
\* Nothing of the answer is shown while the line is open.
<1>16. line # "closed" => v.len = 0 /\ v.released = 0
  <2> SUFFICES ASSUME line # "closed"
               PROVE  v.len = 0 /\ v.released = 0
    OBVIOUS
  <2>1. ~closes /\ mech.line # "closed"
    BY <1>13
  <2>2. w.len = 0 /\ n = 0
    BY <1>3, <1>9, <2>1
  <2>3. v.released <= v.len
    BY <1>5, ReleasedWithin
  <2> QED BY <1>5, <1>6, <2>2, <2>3
<1>17. /\ out \in Seq(Payload) /\ Good(s \o out, v, line)
       /\ v.trip => TripTail(s \o out)
       /\ ~v.trip => Kinds(s \o out) \cap EndKinds = {}
  <2>1. CASE v.trip
    <3>1. out = TripPayloads(v)
      BY <2>1
    <3>2. Good(s, v, line)
      BY <1>3, <1>5, <1>7, <1>14, <2>1, GoodWindow
    <3> HIDE DEF out
    <3> QED BY <1>5, <1>15, <2>1, <3>1, <3>2, GoodTrip
  <2>2. CASE ~v.trip /\ shows
    <3> DEFINE p == Content(v, marked)
    <3>1. out = <<p>> /\ p \in Payload
      BY <1>5, <1>8, <2>2, WindowNumbers
    <3> HIDE DEF out, p
    <3>2. s \o out = Append(s, p) /\ out \in Seq(Payload)
      BY <1>14, <3>1, AppendIsConcat
    <3>3. v.released > 0 /\ "line" \in Kinds(s) => "closing" \in Kinds(s)
      BY <1>6, <1>14, <1>16 DEF Good, LineClosed
    <3>4. marked => v.finished /\ v.released = v.len /\ Marks(s) = {}
      BY <1>5, <1>9, <1>10, <1>14, <2>2 DEF Good, Labelled
    <3>5. Good(Append(s, p), v, line) /\ Kinds(Append(s, p)) = Kinds(s) \cup {"chunk"}
      BY <1>3, <1>5, <1>8, <1>14, <1>15, <3>3, <3>4, GoodContent DEF p
    <3> QED BY <1>15, <2>2, <3>2, <3>5 DEF EndKinds
  <2>3. CASE ~v.trip /\ ~shows
    <3>1. out = <<>> /\ v.released = w.released /\ ~fin
      BY <1>3, <1>5, <1>6, <2>3
    <3> HIDE DEF out
    <3>2. s \o out = s /\ out \in Seq(Payload)
      BY <1>14, <3>1, ConcatEmptySeq
    <3>3. Good(s, v, line)
      BY <1>3, <1>5, <1>14, <3>1, GoodWindow
    <3> QED BY <1>15, <2>3, <3>2, <3>3
  <2> QED BY <2>1, <2>2, <2>3
<1> HIDE DEF out
<1>18. sent \o (leading \o out) = s \o out /\ leading \o out \in Seq(Payload)
  <2>1. sent \in Seq(Payload) /\ leading \in Seq(Payload) /\ out \in Seq(Payload)
    BY <1>3, <1>14, <1>17
  <2>2. (sent \o leading) \o out = sent \o (leading \o out)
    BY <2>1, ConcatAssociative
  <2>3. leading \o out \in Seq(Payload)
    BY <2>1, ConcatProperties
  <2> QED BY <2>2, <2>3 DEF s
<1>19. ~v.trip => "refusal" \notin Kinds(s \o out)
  BY <1>17 DEF EndKinds
<1>20. v.trip => m.line = "closed"
  BY <1>9, <1>12, <1>13
<1>21. ~v.trip => (m.settled <=> v.finished)
  BY <1>3, <1>5, <1>6, <1>12
<1>22. ~v.trip => ~m.ended /\ ~m.errorSeen
  BY <1>2, <1>6, <1>12
<1> QED BY <1>2, <1>4, <1>5, <1>12, <1>16, <1>17, <1>18, <1>19, <1>20, <1>21, <1>22, DeliverKeeps

\* The request that becomes a stream.
LEMMA StartKeeps == ASSUME StreamInv, StreamStarts PROVE StreamInv'
<1>1. /\ relay = "request" /\ upstream' = "open" /\ relay' = "reading" /\ plan' = plan /\ w' = w
      /\ mech' = mech /\ queue' = queue /\ sent' = sent /\ events' = events
  BY DEF StreamStarts
<1>2. /\ plan \in Plan /\ Sound(w) /\ Whole(w) /\ mech \in Mech /\ queue = <<>> /\ sent = <<>>
      /\ ~mech.settled /\ ~mech.ended /\ ~mech.errorSeen /\ w = NewWindow
      /\ events \in 0..MaxEvents /\ mech.line = "none"
  BY <1>1 DEF StreamInv, StreamTypeOK, Streamed
<1>3. ~w.trip /\ ~w.finished /\ w.len = 0
  BY <1>2 DEF NewWindow
<1>4. Out = <<>> /\ Out = sent \o queue
  BY <1>2 DEF Out
<1>5. Kinds(Out) = {}
  BY <1>4 DEF Kinds
<1>6. /\ Reader(Out, w.released) /\ Labelled(Out, w) /\ LineAgrees(Out, mech.line)
      /\ Delivered(Out, w) /\ LineClosed(Out, mech.line)
  BY <1>1 DEF StreamInv
<1>7. <<>> \in Seq(Payload) /\ relay' \in Relay
  BY <1>1 DEF Relay
<1> QED BY <1>1, <1>2, <1>3, <1>4, <1>5, <1>6, <1>7, InvPrimed

\* A reply of one payload: an error, a refusal, or a whole answer judged as one text.
LEMMA ReplyKeeps ==
  ASSUME StreamInv, relay = "request", relay' = "last", plan' = plan, mech' = mech, sent' = sent,
         events' = events, upstream' \in {"open", "closed"}, Sound(w'), Whole(w'),
         NEW p \in Payload, queue' = <<p>>,
         \/ p.kind \in {"error", "refusal"} /\ (w'.trip \/ w'.released = 0)
         \/ p.kind = "body" /\ w'.finished /\ p.upto = w'.len
  PROVE  StreamInv'
<1>1. /\ plan \in Plan /\ mech \in Mech /\ sent = <<>> /\ ~mech.settled /\ ~mech.ended
      /\ events \in 0..MaxEvents /\ mech.line = "none"
  BY DEF StreamInv, StreamTypeOK, Streamed
<1> DEFINE s == <<p>>
<1>2. /\ s \in Seq(Payload) /\ DOMAIN s = {1} /\ s[1] = p /\ s = sent' \o queue' /\ Len(s) = 1
      /\ <<>> \in Seq(Payload)
  BY <1>1
<1> HIDE DEF s
<1>3. p.kind \notin {"line", "closing"}
  OBVIOUS
<1>4. /\ Kinds(s) = {p.kind} /\ TextsOf(s) = (IF p.kind = "body" THEN {1} ELSE {})
      /\ Marks(s) \subseteq TextsOf(s)
  <2>1. Kinds(s) = {p.kind}
    BY <1>2 DEF Kinds
  <2> QED BY <1>2, <2>1 DEF TextsOf, TextKinds, Marks
<1>5. w' \in Window /\ w'.released \in Nat /\ w'.len \in Nat /\ (w'.finished => w'.released = w'.len)
  BY WindowNumbers DEF Sound, Whole
<1>6. Reader(s, w'.released)
  <2>1. \A i \in TextsOf(s) : s[i].upto <= w'.released
    BY <1>2, <1>4, <1>5
  <2>2. TextFirst(s)
    BY <1>2 DEF TextFirst, EndKinds, TextKinds
  <2>3. ClosedOnce(s) /\ ClosedFirst(s)
    BY <1>2, <1>3 DEF ClosedOnce, ClosedFirst
  <2> QED BY <1>2, <2>1, <2>2, <2>3 DEF Reader
<1>7. Labelled(s, w') /\ Delivered(s, w')
  BY <1>2, <1>4, <1>5 DEF Labelled, Delivered
<1>8. LineAgrees(s, mech.line) /\ LineClosed(s, mech.line)
  BY <1>1, <1>3, <1>4 DEF LineAgrees, LineClosed
<1>9. relay' \in Relay /\ queue' \in Seq(Payload) /\ sent' \in Seq(Payload)
  BY <1>1, <1>2 DEF Relay
<1> QED BY <1>1, <1>2, <1>5, <1>6, <1>7, <1>8, <1>9, InvPrimed

LEMMA RefusedKeeps == ASSUME StreamInv, Refused PROVE StreamInv'
<1>1. /\ relay = "request" /\ relay' = "last" /\ queue' = <<Plain("error", w)>> /\ plan' = plan
      /\ w' = w /\ mech' = mech /\ sent' = sent /\ upstream' = upstream /\ events' = events
  BY DEF Refused
<1>2. Sound(w) /\ Whole(w) /\ w = NewWindow /\ w \in Window /\ upstream \in {"open", "closed"}
  BY <1>1 DEF StreamInv, StreamTypeOK
<1>3. w.released = 0
  BY <1>2 DEF NewWindow
<1>4. Plain("error", w) \in Payload /\ Plain("error", w).kind = "error"
  BY <1>2, WindowNumbers
<1> QED BY <1>1, <1>2, <1>3, <1>4, ReplyKeeps

LEMMA WholeKeeps == ASSUME StreamInv, WholeReply PROVE StreamInv'
<1>1. /\ relay = "request" /\ relay' = "last" /\ upstream' = "open" /\ plan' = plan
      /\ mech' = mech /\ sent' = sent /\ events' = events
  BY DEF WholeReply
<1>2. plan \in Plan /\ Sound(w) /\ Whole(w) /\ w = NewWindow /\ w \in Window
  BY <1>1 DEF StreamInv, StreamTypeOK
<1>3. w.released = 0 /\ w.len = 0 /\ ~w.trip /\ ~w.finished
  BY <1>2 DEF NewWindow
<1>4. CASE \E n \in 0..MaxLen, label \in BOOLEAN :
             LET v == [w EXCEPT !.len = n]
             IN  IF Trips(v, FALSE)
                 THEN /\ w' = Tripped(v)
                      /\ queue' = <<[kind |-> "refusal", upto |-> 0, mark |-> FALSE]>>
                 ELSE /\ w' = finish(v)
                      /\ queue' = <<[kind |-> "body", upto |-> n, mark |-> label]>>
  <2>1. PICK n \in 0..MaxLen, label \in BOOLEAN :
             LET v == [w EXCEPT !.len = n]
             IN  IF Trips(v, FALSE)
                 THEN /\ w' = Tripped(v)
                      /\ queue' = <<[kind |-> "refusal", upto |-> 0, mark |-> FALSE]>>
                 ELSE /\ w' = finish(v)
                      /\ queue' = <<[kind |-> "body", upto |-> n, mark |-> label]>>
    BY <1>4
  <2> DEFINE v == [w EXCEPT !.len = n]
  <2>2. v = [w EXCEPT !.len = @ + n] /\ n \in 0..(MaxLen - w.len) /\ n \in Nat
    BY <1>2, <1>3, WindowAssumption
  <2>3. Sound(v) /\ Open(v)
    BY <1>2, <1>3, <2>2, GrowthSound DEF Open
  <2>4. v.len = n /\ v.released = 0
    BY <1>2, <1>3 DEF Window
  <2>5. Whole(v)
    BY <2>3 DEF Whole, Open
  <2>6. 0 \in 0..MaxLen
    BY WindowAssumption
  <2>7. CASE Trips(v, FALSE)
    <3> DEFINE p == [kind |-> "refusal", upto |-> 0, mark |-> FALSE]
    <3>1. w' = Tripped(v) /\ queue' = <<p>>
      BY <2>1, <2>7
    <3>2. p \in Payload /\ p.kind = "refusal"
      BY <2>6 DEF Payload
    <3> HIDE DEF v, p
    <3>3. Sound(w') /\ Whole(w') /\ w'.trip
      BY <1>2, <2>3, <2>5, <3>1, TrippedMoves
    <3> QED BY <1>1, <3>1, <3>2, <3>3, ReplyKeeps
  <2>8. CASE ~Trips(v, FALSE)
    <3> DEFINE p == [kind |-> "body", upto |-> n, mark |-> label]
    <3>1. w' = finish(v) /\ queue' = <<p>>
      BY <2>1, <2>8
    <3>2. p \in Payload /\ p.kind = "body" /\ p.upto = n
      BY DEF Payload
    <3> HIDE DEF p
    <3>3. w'.finished
      BY <1>2, <2>3, <2>8, <3>1 DEF finish, Open, Window
    <3> HIDE DEF v
    <3>4. Sound(w') /\ Whole(w') /\ w'.len = v.len
      BY <1>2, <2>3, <2>5, <3>1, FinishMoves
    <3> QED BY <1>1, <2>4, <3>1, <3>2, <3>3, <3>4, ReplyKeeps
  <2> QED BY <2>7, <2>8
<1>5. CASE w' \in {w, Tripped(w)} /\ queue' = <<Plain("error", w)>>
  <2>1. Plain("error", w) \in Payload /\ Plain("error", w).kind = "error"
    BY <1>2, WindowNumbers
  <2>2. Sound(w') /\ Whole(w') /\ w'.released = 0
    BY <1>2, <1>3, <1>5, TrippedMoves
  <2> QED BY <1>1, <1>5, <2>1, <2>2, ReplyKeeps
<1> QED BY <1>4, <1>5 DEF WholeReply

\* A send moves the first payload of the queue to the caller.
LEMMA SendKeeps == ASSUME StreamInv, SendPayload PROVE StreamInv'
<1>1. /\ relay \in {"sending", "last"} /\ queue # <<>> /\ sent' = Append(sent, Head(queue))
      /\ queue' = Tail(queue) /\ plan' = plan /\ w' = w /\ mech' = mech /\ relay' = relay
      /\ upstream' = upstream /\ events' = events
  BY DEF SendPayload
<1>2. /\ plan \in Plan /\ Sound(w) /\ Whole(w) /\ mech \in Mech /\ queue \in Seq(Payload)
      /\ sent \in Seq(Payload) /\ upstream \in {"open", "closed"} /\ events \in 0..MaxEvents
      /\ relay \in Relay /\ (mech.ended => mech.line = "closed")
  BY DEF StreamInv, StreamTypeOK
<1>3. /\ queue' \in Seq(Payload) /\ sent' \in Seq(Payload)
      /\ Append(sent, Head(queue)) \o Tail(queue) = sent \o queue
  BY <1>1, <1>2
<1>4. Out = sent' \o queue'
  BY <1>1, <1>3 DEF Out
<1>5. /\ Reader(Out, w.released) /\ Labelled(Out, w) /\ LineAgrees(Out, mech.line)
      /\ Delivered(Out, w) /\ LineClosed(Out, mech.line)
      /\ (mech.settled \/ mech.ended) /\ "refusal" \in Kinds(Out) => upstream = "closed"
  BY <1>1 DEF StreamInv, Streamed
<1>6. relay \in {"reading", "sending"} => ReadingInv
  BY DEF StreamInv, Reading
<1>7. relay \in {"last", "over"} => EndingInv
  BY DEF StreamInv, Ending
<1> HIDE DEF Out
<1>8. relay' \in {"reading", "sending"} =>
        /\ ~w'.trip /\ "refusal" \notin Kinds(Out)
        /\ mech'.settled <=> w'.finished
        /\ mech'.ended \/ mech'.errorSeen => mech'.settled
        /\ Kinds(Out) \cap EndKinds # {} => mech'.ended \/ mech'.errorSeen
        /\ mech'.line # "closed" => w'.len = 0
  BY <1>1, <1>6 DEF ReadingInv
<1>9. relay' \in {"last", "over"} =>
        /\ mech'.line # "open"
        /\ mech'.settled \/ mech'.ended => IF w'.trip THEN TripTail(Out) ELSE w'.finished
  BY <1>1, <1>7 DEF EndingInv, Streamed
<1> QED BY <1>1, <1>2, <1>3, <1>4, <1>5, <1>8, <1>9, InvPrimed

LEMMA SentKeeps == ASSUME StreamInv, SendsDone PROVE StreamInv'
<1>1. /\ relay \in {"sending", "last"} /\ queue = <<>> /\ queue' = queue /\ sent' = sent
      /\ plan' = plan /\ w' = w /\ mech' = mech
      /\ relay' = (IF relay = "sending" THEN "reading" ELSE "over")
      /\ upstream' = (IF relay = "last" THEN "closed" ELSE upstream) /\ events' = events
  BY DEF SendsDone
<1>2. /\ plan \in Plan /\ Sound(w) /\ Whole(w) /\ mech \in Mech /\ queue \in Seq(Payload)
      /\ sent \in Seq(Payload) /\ upstream \in {"open", "closed"} /\ events \in 0..MaxEvents
      /\ (mech.ended => mech.line = "closed")
  BY DEF StreamInv, StreamTypeOK
<1>3. relay' \in Relay /\ upstream' \in {"open", "closed"} /\ relay' \in {"reading", "over"}
  BY <1>1, <1>2 DEF Relay
<1>4. Out = sent' \o queue'
  BY <1>1 DEF Out
<1>5. /\ Reader(Out, w.released) /\ Labelled(Out, w) /\ LineAgrees(Out, mech.line)
      /\ Delivered(Out, w) /\ LineClosed(Out, mech.line)
      /\ (mech.settled \/ mech.ended) /\ "refusal" \in Kinds(Out) => upstream = "closed"
  BY <1>1 DEF StreamInv, Streamed
<1>6. relay = "sending" => ReadingInv
  BY DEF StreamInv, Reading
<1>7. relay = "last" => EndingInv
  BY DEF StreamInv, Ending
<1> HIDE DEF Out
<1>8. relay' \in {"reading", "sending"} =>
        /\ ~w'.trip /\ "refusal" \notin Kinds(Out)
        /\ mech'.settled <=> w'.finished
        /\ mech'.ended \/ mech'.errorSeen => mech'.settled
        /\ Kinds(Out) \cap EndKinds # {} => mech'.ended \/ mech'.errorSeen
        /\ mech'.line # "closed" => w'.len = 0
  BY <1>1, <1>6 DEF ReadingInv
<1>9. relay' \in {"last", "over"} =>
        /\ mech'.line # "open"
        /\ mech'.settled \/ mech'.ended => IF w'.trip THEN TripTail(Out) ELSE w'.finished
  BY <1>1, <1>7 DEF EndingInv, Streamed
<1>10. (mech'.settled \/ mech'.ended) /\ "refusal" \in Kinds(Out) => upstream' = "closed"
  BY <1>1, <1>5
<1> QED BY <1>1, <1>2, <1>3, <1>4, <1>5, <1>8, <1>9, <1>10, InvPrimed

\* The caller who leaves keeps a beginning of what was on its way.
LEMMA DisconnectKeeps == ASSUME StreamInv, Disconnect PROVE StreamInv'
<1>1. /\ relay' = "gone" /\ queue' = <<>> /\ upstream' = "closed" /\ plan' = plan /\ w' = w
      /\ mech' = mech /\ sent' = sent /\ events' = events
  BY DEF Disconnect
<1>2. /\ plan \in Plan /\ Sound(w) /\ Whole(w) /\ w \in Window /\ mech \in Mech
      /\ queue \in Seq(Payload) /\ sent \in Seq(Payload) /\ events \in 0..MaxEvents
      /\ (mech.ended => mech.line = "closed") /\ w.released \in Nat
  BY WindowNumbers DEF StreamInv, StreamTypeOK
<1>3. relay' \in Relay /\ queue' \in Seq(Payload)
  BY <1>1 DEF Relay
<1>4. sent = sent' \o queue'
  BY <1>1, <1>2, ConcatEmptySeq
<1>5. /\ Reader(Out, w.released) /\ Labelled(Out, w) /\ LineAgrees(Out, mech.line)
  BY DEF StreamInv
<1>6. /\ Reader(sent, w.released) /\ Kinds(sent) \subseteq Kinds(Out)
      /\ Marks(sent) \subseteq Marks(Out) /\ \A i \in DOMAIN sent : Out[i] = sent[i]
  BY <1>2, <1>5, PrefixReader DEF Out
<1>7. Labelled(sent, w)
  <2>1. Marks(sent) \subseteq DOMAIN sent
    BY DEF Marks, TextsOf
  <2> QED BY <1>5, <1>6, <2>1 DEF Labelled
<1>8. LineAgrees(sent, mech.line)
  BY <1>5, <1>6 DEF LineAgrees
<1> QED BY <1>1, <1>2, <1>3, <1>4, <1>6, <1>7, <1>8, InvPrimed

LEMMA StreamInitSound == StreamInit => StreamInv
<1> SUFFICES ASSUME StreamInit
             PROVE  StreamInv
  OBVIOUS
<1>1. /\ plan \in Plan /\ w = NewWindow /\ relay = "request" /\ queue = <<>> /\ sent = <<>>
      /\ mech = [settled |-> FALSE, ended |-> FALSE, errorSeen |-> FALSE, line |-> "none"]
      /\ upstream = "closed" /\ events = 0
  BY DEF StreamInit, RequestInit
<1>2. IInv
  BY <1>1, InitSound DEF Init
<1>3. Sound(w) /\ w \in Window /\ w.released = 0 /\ ~w.finished /\ w.released \in Nat
  BY <1>1, <1>2 DEF IInv, Sound, NewWindow
<1>4. mech \in Mech /\ relay \in Relay /\ <<>> \in Seq(Payload) /\ events \in 0..MaxEvents
  BY <1>1, EventAssumption DEF Mech, Relay
<1>5. StreamTypeOK
  BY <1>1, <1>3, <1>4 DEF StreamTypeOK
<1>6. Out = <<>>
  BY <1>1 DEF Out
<1>7. Kinds(Out) = {} /\ TextsOf(Out) = {} /\ Marks(Out) = {}
  BY <1>6 DEF Kinds, TextsOf, Marks
<1>8. Reader(Out, w.released)
  BY <1>4, <1>6, <1>7 DEF Reader, TextFirst, ClosedOnce, ClosedFirst
<1>9. /\ Labelled(Out, w) /\ LineAgrees(Out, mech.line) /\ Delivered(Out, w)
      /\ LineClosed(Out, mech.line) /\ Whole(w)
  BY <1>3, <1>7 DEF Labelled, LineAgrees, Delivered, LineClosed, Whole
<1>10. ~Streamed /\ mech.line = "none" /\ ~mech.errorSeen /\ ~mech.ended
  BY <1>1 DEF Streamed
<1> QED BY <1>1, <1>3, <1>5, <1>8, <1>9, <1>10 DEF StreamInv, Reading, Ending

\* A step of nobody.
LEMMA StutterKeeps == ASSUME StreamInv, UNCHANGED streamVars PROVE StreamInv'
<1>1. /\ plan' = plan /\ w' = w /\ mech' = mech /\ relay' = relay /\ queue' = queue /\ sent' = sent
      /\ upstream' = upstream /\ events' = events
  BY DEF streamVars
<1>2. Out = sent' \o queue'
  BY <1>1 DEF Out
<1> HIDE DEF Out
<1> QED BY <1>1, <1>2, InvPrimed, ZenonT(60) DEF StreamInv, StreamTypeOK, Streamed, Reading, ReadingInv, Ending,
   EndingInv

LEMMA StreamNextSound == StreamInv /\ [StreamNext]_streamVars => StreamInv'
<1> SUFFICES ASSUME StreamInv, [StreamNext]_streamVars
             PROVE  StreamInv'
  OBVIOUS
<1>1. CASE StreamStarts
  BY <1>1, StartKeeps
<1>2. CASE Refused
  BY <1>2, RefusedKeeps
<1>3. CASE WholeReply
  BY <1>3, WholeKeeps
<1>4. CASE Engine
  <2>1. CASE IgnoredEvent
    BY <2>1, IgnoredKeeps
  <2>2. CASE ChunkEvent
    BY <2>2, ChunkKeeps
  <2>3. CASE UsageEvent
    BY <2>3, UsageKeeps
  <2>4. CASE ErrorEvent
    BY <2>4, ErrorKeeps
  <2>5. CASE DoneEvent
    BY <2>5, DoneKeeps
  <2>6. CASE UnreadableEvent
    BY <2>6, UnreadableKeeps
  <2>7. CASE FailClosed
    BY <2>7, FailClosedKeeps
  <2>8. CASE CleanEnd \/ TransportFails
    BY <2>8, EndKeeps
  <2> QED BY <1>4, <2>1, <2>2, <2>3, <2>4, <2>5, <2>6, <2>7, <2>8 DEF Engine
<1>5. CASE SendPayload
  BY <1>5, SendKeeps
<1>6. CASE SendsDone
  BY <1>6, SentKeeps
<1>7. CASE Disconnect
  BY <1>7, DisconnectKeeps
<1>8. CASE UNCHANGED streamVars
  BY <1>8, StutterKeeps
<1> QED BY <1>1, <1>2, <1>3, <1>4, <1>5, <1>6, <1>7, <1>8 DEF StreamNext

LEMMA StreamInvariance == StreamSpec => []StreamInv
BY StreamInitSound, StreamNextSound, PTL DEF StreamSpec

-----------------------------------------------------------------------------
(* The theorems: for every lag, every answer and every order of the engine's events, *)
(* its failures, the sends and the caller's departure.                               *)

\* What the caller holds is a beginning of what was queued for it.
LEMMA SentFacts ==
  ASSUME StreamInv
  PROVE  /\ sent \in Seq(Payload) /\ Len(sent) \in Nat /\ DOMAIN sent = 1..Len(sent)
         /\ Reader(sent, w.released) /\ Labelled(sent, w)
         /\ Kinds(sent) \subseteq Kinds(Out)
         /\ relay = "over" => Out = sent
<1>1. sent \in Seq(Payload) /\ queue \in Seq(Payload) /\ w \in Window /\ w.released \in Nat
  BY WindowNumbers DEF StreamInv, StreamTypeOK
<1>2. Reader(Out, w.released) /\ Labelled(Out, w)
  BY DEF StreamInv
<1>3. /\ Reader(sent, w.released) /\ Kinds(sent) \subseteq Kinds(Out)
      /\ Marks(sent) \subseteq Marks(Out) /\ \A i \in DOMAIN sent : Out[i] = sent[i]
  BY <1>1, <1>2, PrefixReader DEF Out
<1>4. Labelled(sent, w)
  <2>1. Marks(sent) \subseteq DOMAIN sent
    BY DEF Marks, TextsOf
  <2> QED BY <1>2, <1>3, <2>1 DEF Labelled
<1>5. ASSUME relay = "over" PROVE Out = sent
  <2>1. queue = <<>>
    BY <1>5 DEF StreamInv
  <2> QED BY <1>1, <2>1, ConcatEmptySeq DEF Out
<1> QED BY <1>1, <1>3, <1>4, <1>5

\* The caller of relay.py never holds a character of a protected figure.
THEOREM ReaderNeverLeaks == StreamSpec => []ReaderNoLeak
<1>1. ASSUME StreamInv PROVE ReaderNoLeak
  <2> SUFFICES ASSUME NEW f \in plan.forms, f.kind = "trip", Lasting(f), f.end <= w.len,
                      NEW i \in Texts, sent[i].upto >= f.start + 1
               PROVE  FALSE
    BY DEF ReaderNoLeak, Holds
  <2>1. /\ f \in Form /\ f.end \in Nat /\ f.start \in Nat /\ w \in Window /\ Behind(w)
        /\ w.len \in Nat /\ w.released \in Nat
    BY <1>1, FormBounds, WindowNumbers DEF StreamInv, StreamTypeOK, Sound, Plan
  <2>2. ~w.finished /\ f.end > w.decided
    BY <1>1, <2>1 DEF StreamInv, Sound, Clean
  <2>3. w.released <= f.start
    BY <2>1, <2>2, UndecidedInWindow
  <2>4. i \in TextsOf(sent)
    BY DEF Texts, TextsOf, TextKinds
  <2>5. sent[i].upto <= w.released /\ sent[i].upto \in Nat
    BY <1>1, <2>4, SentFacts, TextNumbers DEF Reader
  <2> QED BY <2>1, <2>3, <2>5
<1> QED BY <1>1, StreamInvariance, PTL

\* A trip closes the engine's response first, and ends the stream with one refusal, a
\* finish and the end marker, after all of the answer's text.
THEOREM TripAlwaysSound == StreamSpec => []TripSound
<1>1. ASSUME StreamInv PROVE TripSound
  <2>0. /\ sent \in Seq(Payload) /\ Len(sent) \in Nat /\ DOMAIN sent = 1..Len(sent)
        /\ Reader(sent, w.released) /\ Kinds(sent) \subseteq Kinds(Out)
        /\ relay = "over" => Out = sent
    BY <1>1, SentFacts
  <2>1. ASSUME relay = "over", w.trip, Streamed
        PROVE  \E i \in Sent("refusal") :
                 /\ Len(sent) = i + 2 /\ sent[i + 1].kind = "stop" /\ sent[i + 2].kind = "done"
                 /\ Sent("refusal") = {i} /\ (Holds(1) => sent[i].mark)
    <3> DEFINE i == Len(sent) - 2
    <3>1. TripTail(sent)
      BY <1>1, <2>0, <2>1 DEF StreamInv, Ending, EndingInv
    <3>2. i \in DOMAIN sent /\ i + 2 = Len(sent) /\ i + 1 = Len(sent) - 1
      BY <2>0, <3>1 DEF TripTail
    <3>3. i \in Sent("refusal") /\ sent[i + 1].kind = "stop" /\ sent[i + 2].kind = "done"
      BY <3>1, <3>2 DEF TripTail, Sent
    <3>4. Sent("refusal") = {i}
      BY <3>1, <3>3 DEF TripTail, Sent
    <3>5. Holds(1) => sent[i].mark
      BY <3>1 DEF TripTail, Holds, Texts, TextsOf, TextKinds
    <3> HIDE DEF i
    <3> QED BY <3>2, <3>3, <3>4, <3>5
  <2>2. \A i \in Sent("refusal"), j \in Texts : j < i
    BY <2>0 DEF Reader, TextFirst, Sent, Texts, TextKinds, EndKinds
  <2>3. ClosedBeforeRefusal
    <3> SUFFICES ASSUME Streamed, NEW i \in Sent("refusal")
                 PROVE  upstream = "closed"
      BY DEF ClosedBeforeRefusal
    <3>1. "refusal" \in Kinds(sent)
      BY DEF Sent, Kinds
    <3> QED BY <1>1, <2>0, <3>1 DEF StreamInv
  <2> QED BY <2>1, <2>2, <2>3 DEF TripSound, TripEnds
<1> QED BY <1>1, StreamInvariance, PTL

\* A stream that does not trip reaches its caller whole, ahead of any error or end marker,
\* with the progress line closed once and the label on the end of the answer.
THEOREM AnswerAlwaysSound == StreamSpec => []AnswerSound
<1>1. ASSUME StreamInv PROVE AnswerSound
  <2>0. /\ sent \in Seq(Payload) /\ Len(sent) \in Nat /\ DOMAIN sent = 1..Len(sent)
        /\ Reader(sent, w.released) /\ Labelled(sent, w)
        /\ relay = "over" => Out = sent
        /\ Texts = TextsOf(sent) /\ Texts \subseteq DOMAIN sent
    BY <1>1, SentFacts DEF Texts, TextsOf, TextKinds
  <2>1. TailRides
    <3>1. ASSUME relay = "over", ~w.trip, Streamed, w.len > 0 PROVE Holds(w.len)
      <4>1. w.finished /\ w.released = w.len /\ Delivered(sent, w)
        BY <1>1, <2>0, <3>1 DEF StreamInv, Ending, EndingInv, Whole
      <4> QED BY <2>0, <3>1, <4>1 DEF Delivered, Holds
    <3>2. \A i \in Sent("error") \cup Sent("done"), j \in Texts : ~(i < j)
      <4> SUFFICES ASSUME NEW i \in Sent("error") \cup Sent("done"), NEW j \in Texts
                   PROVE  ~(i < j)
        OBVIOUS
      <4>1. i \in 1..Len(sent) /\ j \in 1..Len(sent) /\ sent[i].kind \in EndKinds
            /\ sent[j].kind \in TextKinds
        BY <2>0 DEF Sent, EndKinds, TextsOf
      <4> QED BY <2>0, <4>1 DEF Reader, TextFirst
    <3> QED BY <3>1, <3>2 DEF TailRides
  <2>2. LineCloses
    <3>1. \A i \in Sent("closing"), j \in Sent("line") \cup Sent("closing") : j <= i
      BY <2>0 DEF Reader, ClosedOnce, Sent
    <3>2. \A i \in Sent("line"), j \in Texts :
            i < j /\ sent[j].upto > 0 => \E k \in Sent("closing") : i < k /\ k < j
      BY <2>0 DEF Reader, ClosedFirst, Sent, TextsOf
    <3>3. ASSUME relay = "over", Sent("line") # {} PROVE Sent("closing") # {}
      <4>1. "line" \in Kinds(sent)
        BY <3>3 DEF Sent, Kinds
      <4>2. mech.line # "open" /\ LineAgrees(sent, mech.line) /\ LineClosed(sent, mech.line)
        BY <1>1, <2>0, <3>3 DEF StreamInv, Ending, EndingInv
      <4>3. mech.line \in {"none", "open", "closed"}
        BY <1>1 DEF StreamInv, StreamTypeOK, Mech
      <4>4. "closing" \in Kinds(sent)
        BY <4>1, <4>2, <4>3 DEF LineAgrees, LineClosed
      <4> QED BY <4>4 DEF Sent, Kinds
    <3> QED BY <3>1, <3>2, <3>3 DEF LineCloses
  <2>3. LabelLast
    <3>1. \A i \in Texts : sent[i].mark => i \in Marks(sent)
      BY <2>0 DEF Marks
    <3> QED BY <2>0, <3>1 DEF LabelLast, Labelled
  <2> QED BY <1>1, <2>1, <2>2, <2>3 DEF AnswerSound, StreamInv
<1> QED BY <1>1, StreamInvariance, PTL
=============================================================================

--------------------------- MODULE LagWindowProofs ---------------------------
EXTENDS LagWindow, WellFoundedInduction, TLAPS

\* A set of naturals that has a bound and is not empty has a greatest element.
LEMMA GreatestExists ==
  ASSUME NEW b \in Nat, NEW S \in SUBSET (0..b), S # {}
  PROVE  \E t \in S : \A u \in S : u <= t
<1> DEFINE T == {x \in Nat : x <= b /\ b - x \in S}
           R == OpToRel(<, Nat)
<1>1. T # {}
  <2>1. PICK s \in S : TRUE
    OBVIOUS
  <2>2. b - s \in Nat /\ b - s <= b /\ b - (b - s) = s
    BY <2>1
  <2> QED BY <2>1, <2>2
<1>2. IsWellFoundedOn(R, Nat)
  BY NatLessThanWellFounded
<1>3. PICK x \in T : \A y \in T : ~(<<y, x>> \in R)
  <2> HIDE DEF R, T
  <2> T \subseteq Nat
    BY DEF T
  <2> QED BY <1>1, <1>2, WFMin
<1>4. \A y \in T : ~(y < x)
  BY <1>3 DEF OpToRel
<1>5. \A u \in S : u <= b - x
  <2>1. TAKE u \in S
  <2>2. u \in 0..b
    BY <2>1
  <2>3. b - u \in T
    BY <2>1, <2>2
  <2>4. ~(b - u < x) /\ x \in Nat
    BY <1>3, <1>4, <2>3
  <2> HIDE DEF T, R
  <2> QED BY <2>2, <2>4
<1> QED BY <1>3, <1>5

-----------------------------------------------------------------------------
(* The inductive invariant, over a window v that may have grown since the last *)
(* call: every part survives a longer text, so append keeps it up to judge.     *)

\* What was decided has its look-ahead, and what was released lies a whole match
\* behind what was decided.
Behind(v) ==
  ~v.finished => /\ v.decided <= AtLeast(v.len - LookAhead, 0)
                 /\ v.released <= AtLeast(v.decided - MaxMatch, 0)

\* No protected form was decided without a trip.
Clean(v) ==
  \A f \in plan.forms : f.kind = "trip" /\ Lasting(f) =>
    f.end > (IF v.finished THEN v.len ELSE v.decided)

HeldFree(v) == \A c \in v.held : ~Inside(v.released, c)

\* An exclusion already decided is reported again while the window holds it: the
\* release point stays outside of it.
ExcludedFree(v) ==
  ~v.trip /\ ~v.finished =>
    \A f \in plan.forms :
      f.kind = "excluded" /\ Seen(v, f) /\ judge_floor(v.decided) <= f.ctx /\ f.end <= v.decided
        => ~Inside(v.released, ContextSpan(f))

\* A decided context is held until the release has passed it.
Carried(v) ==
  ~v.trip /\ ~v.finished =>
    \A f \in plan.forms :
      f.kind # "trip" /\ Lasting(f) /\ f.end <= v.decided
        => ContextSpan(f) \in v.held \/ ContextSpan(f).end <= v.released

ContextFree(v) ==
  \A f \in plan.forms : ~v.finished /\ Lasting(f) /\ f.kind # "trip"
                          => ~Inside(v.released, ContextSpan(f))

OpeningFree(v) ==
  plan.affirm > 0 => IF v.finished THEN plan.affirm > v.len ELSE v.released = 0

Sound(v) ==
  /\ v \in Window /\ Behind(v) /\ Clean(v) /\ HeldFree(v) /\ ExcludedFree(v)
  /\ Carried(v) /\ ContextFree(v) /\ OpeningFree(v)

IInv == plan \in Plan /\ Sound(w)

Open(v) == ~v.trip /\ ~v.finished

-----------------------------------------------------------------------------
\* The arithmetic of a form: its span, its context and its reach.
LEMMA FormBounds ==
  ASSUME NEW f \in Form
  PROVE  /\ f.start \in Nat /\ f.end \in Nat /\ f.hold \in Nat /\ f.ctx \in Nat /\ f.gone \in Nat
         /\ f.start <= MaxLen /\ f.end <= MaxLen /\ f.hold <= MaxLen
         /\ f.start < f.end /\ f.end <= f.start + MaxMatch
         /\ f.start - ExemptReach <= f.ctx
         /\ f.end <= f.hold
         /\ f.hold <= f.end + LookAhead
         /\ f.kind \in {"trip", "exempt", "excluded"}
         /\ f.gone <= MaxLen + 1
         /\ ContextSpan(f) \in Span
         /\ ContextSpan(f).start = f.start
         /\ ContextSpan(f).end <= f.end + LookAhead
BY WindowAssumption, LagAssumption DEF Form, Never, ContextSpan, Span

\* A form that ends past what was decided lies in the window, and starts at or
\* after the release point.
LEMMA UndecidedInWindow ==
  ASSUME NEW v \in Window, NEW f \in Form, f.end > v.decided
  PROVE  /\ judge_floor(v.decided) <= f.start
         /\ judge_floor(v.decided) <= f.ctx
         /\ ~v.finished /\ Behind(v) => v.released <= f.start
<1>1. v.decided \in Nat /\ v.released \in Nat
  BY WindowAssumption DEF Window
<1> QED BY <1>1, FormBounds, WindowAssumption DEF judge_floor, AtLeast, Behind

\* What the judge reports anew lies outside the release point, and is a span.
LEMMA FreshOutside ==
  ASSUME plan \in Plan, NEW v, Sound(v), Open(v), NEW c \in Fresh(v)
  PROVE  c \in Span /\ ~Inside(v.released, c)
<1>0. v \in Window /\ Behind(v) /\ ExcludedFree(v) /\ plan.forms \subseteq Form
  BY DEF Sound, Plan
<1>1. v.released \in Nat /\ v.decided \in Nat /\ v.len \in Nat
  BY <1>0, WindowAssumption DEF Window
<1>2. CASE \E f \in plan.forms : /\ f.kind = "exempt" /\ Settled(v, f, TRUE)
                                 /\ c = [start |-> f.start, end |-> f.end + LookAhead]
  <2>1. PICK f \in plan.forms : /\ f.kind = "exempt" /\ Settled(v, f, TRUE)
                                /\ c = [start |-> f.start, end |-> f.end + LookAhead]
    BY <1>2
  <2>2. f \in Form /\ f.end > v.decided
    BY <1>0, <2>1 DEF Settled
  <2>3. v.released <= f.start /\ f.start \in Nat /\ f.end \in Nat /\ f.start <= MaxLen
    BY <1>0, <2>2, UndecidedInWindow, FormBounds DEF Open
  <2> QED BY <1>1, <2>1, <2>3, WindowAssumption DEF Inside, Span
<1>3. CASE \E f \in plan.forms : /\ f.kind = "excluded" /\ Seen(v, f) /\ f.hold <= v.len
                                 /\ judge_floor(v.decided) <= f.ctx
                                 /\ c = [start |-> f.start, end |-> f.hold]
  <2>1. PICK f \in plan.forms : /\ f.kind = "excluded" /\ Seen(v, f) /\ f.hold <= v.len
                                /\ judge_floor(v.decided) <= f.ctx
                                /\ c = [start |-> f.start, end |-> f.hold]
    BY <1>3
  <2>2. f \in Form /\ c = ContextSpan(f)
    BY <1>0, <2>1 DEF ContextSpan
  <2>3. f.start \in Nat /\ f.end \in Nat /\ f.hold \in Nat /\ c \in Span
    BY <2>2, FormBounds
  <2>4. CASE f.end <= v.decided
    BY <1>0, <2>1, <2>2, <2>3, <2>4 DEF ExcludedFree, Open
  <2>5. CASE f.end > v.decided
    <3>1. v.released <= f.start
      BY <1>0, <2>2, <2>5, UndecidedInWindow DEF Open
    <3> QED BY <1>1, <2>1, <2>3, <3>1 DEF Inside
  <2> QED BY <1>1, <2>3, <2>4, <2>5
<1> QED BY <1>2, <1>3 DEF Fresh

\* The release point is outside every active constraint: the judge's loop ends.
LEMMA ActiveOutside ==
  ASSUME plan \in Plan, NEW v, Sound(v), Open(v)
  PROVE  \A c \in Active(v) : c \in Span /\ ~Inside(v.released, c)
BY FreshOutside DEF Active, Sound, HeldFree, Window

\* The judge's target is a free point between the release point and the lag point.
LEMMA TargetFree ==
  ASSUME plan \in Plan, NEW v, Sound(v), Open(v)
  PROVE  /\ Target(v) \in v.released..LagPoint(v)
         /\ \A c \in Active(v) : ~Inside(Target(v), c)
<1>1. v.released \in Nat /\ v.len \in Nat /\ v.released <= MaxLen /\ v.len <= MaxLen
  BY WindowAssumption DEF Sound, Window
<1>2. LagPoint(v) \in Nat /\ v.released <= LagPoint(v)
  BY <1>1, WindowAssumption DEF LagPoint, AtLeast
<1>3. v.released \in FreePoints(v)
  BY <1>1, <1>2, ActiveOutside DEF FreePoints
<1>4. FreePoints(v) \in SUBSET (0..LagPoint(v))
  BY <1>1, <1>2 DEF FreePoints
<1>5. \E t \in FreePoints(v) : \A u \in FreePoints(v) : u <= t
  BY <1>2, <1>3, <1>4, GreatestExists
<1>6. Target(v) \in FreePoints(v)
  BY <1>5 DEF Target
<1> QED BY <1>6 DEF FreePoints

\* More text leaves the invariant as it was.
LEMMA GrowthSound ==
  ASSUME plan \in Plan, NEW v, Sound(v), Open(v), NEW n \in 0..(MaxLen - v.len)
  PROVE  LET u == [v EXCEPT !.len = @ + n] IN Sound(u) /\ Open(u)
<1> DEFINE u == [v EXCEPT !.len = @ + n]
<1>1. v \in Window /\ plan.forms \subseteq Form
  BY DEF Sound, Plan
<1>2. /\ u.len = v.len + n /\ u.released = v.released /\ u.decided = v.decided
      /\ u.held = v.held /\ u.trip = v.trip /\ u.finished = v.finished
  BY <1>1 DEF Window
<1>3. /\ v.len \in Nat /\ v.len <= MaxLen /\ n \in Nat /\ v.len + n <= MaxLen
      /\ v.decided \in Nat /\ v.released \in Nat
  BY <1>1, WindowAssumption DEF Window
<1>4. u \in Window
  BY <1>1, <1>3, WindowAssumption DEF Window
<1> HIDE DEF u
<1>5. Behind(u)
  BY <1>2, <1>3, WindowAssumption DEF Sound, Behind, AtLeast
<1>6. Clean(u) /\ HeldFree(u) /\ ContextFree(u) /\ Carried(u)
  BY <1>2 DEF Sound, Clean, HeldFree, ContextFree, Carried, Open
<1>7. OpeningFree(u)
  BY <1>2 DEF Sound, OpeningFree, Open
<1>8. ExcludedFree(u)
  <2> SUFFICES ASSUME NEW f \in plan.forms, f.kind = "excluded", Seen(u, f), f.end <= u.decided,
                      judge_floor(u.decided) <= f.ctx
               PROVE  ~Inside(u.released, ContextSpan(f))
    BY DEF ExcludedFree
  <2>1. f.start \in Nat /\ f.end \in Nat /\ f.gone \in Nat
    BY <1>1, FormBounds
  <2>2. v.decided <= v.len
    BY <1>3, WindowAssumption DEF Sound, Behind, AtLeast, Open
  <2>3. Seen(v, f) /\ f.end <= v.decided /\ judge_floor(v.decided) <= f.ctx
    BY <1>2, <1>3, <2>1, <2>2 DEF Seen
  <2> QED BY <1>2, <2>3 DEF Sound, ExcludedFree, Open
<1>9. Open(u)
  BY <1>2 DEF Open
<1> QED BY <1>4, <1>5, <1>6, <1>7, <1>8, <1>9 DEF Sound, u

\* A trip discards the text and releases nothing.
LEMMA TrippedSound ==
  ASSUME plan \in Plan, NEW v, Sound(v)
  PROVE  Sound(Tripped(v))
<1> DEFINE u == Tripped(v)
<1>1. v \in Window
  BY DEF Sound
<1>2. /\ u.len = v.len /\ u.released = v.released /\ u.decided = v.decided
      /\ u.held = {} /\ u.trip = TRUE /\ u.finished = v.finished /\ u \in Window
  BY <1>1 DEF Tripped, Window
<1> HIDE DEF u
<1>3. Behind(u) /\ Clean(u) /\ HeldFree(u) /\ ContextFree(u) /\ Carried(u) /\ OpeningFree(u)
  BY <1>2 DEF Sound, Behind, Clean, HeldFree, ContextFree, Carried, OpeningFree
<1>4. ExcludedFree(u)
  BY <1>2 DEF ExcludedFree
<1> QED BY <1>2, <1>3, <1>4 DEF Sound, u

\* An untripped call of the judge keeps the invariant: what it decides was judged,
\* what it releases lies behind that, and what it holds it keeps whole.
LEMMA JudgeSound ==
  ASSUME plan \in Plan, NEW v, Sound(v), Open(v), ~Trips(v, TRUE)
  PROVE  Sound(judge(v))
<1> DEFINE u == judge(v)
           t == Target(v)
<1>0. plan.forms \subseteq Form /\ plan.affirm \in Nat /\ plan.affirm <= MaxMatch
  BY WindowAssumption DEF Plan
<1>1. v \in Window /\ Behind(v)
  BY DEF Sound
<1>2. /\ v.len \in Nat /\ v.len <= MaxLen /\ v.decided \in Nat /\ v.decided <= MaxLen
      /\ v.released \in Nat /\ v.released <= MaxLen
  BY <1>1, WindowAssumption DEF Window
<1>3. /\ t \in Nat /\ v.released <= t /\ t <= AtLeast(v.len - Lag, v.released)
      /\ \A c \in Active(v) : ~Inside(t, c)
  BY <1>2, TargetFree DEF LagPoint
<1>4. \A c \in Active(v) : c \in Span /\ c.end > v.released
  BY ActiveOutside DEF Active
<1>5. /\ u.len = v.len /\ u.released = t /\ u.decided = AtLeast(v.len - LookAhead, v.decided)
      /\ u.held = {c \in Active(v) : c.end > t} /\ u.trip = FALSE /\ u.finished = FALSE
  BY <1>1 DEF judge, Window, Open
<1>6. t <= MaxLen /\ u.decided \in Nat /\ u.decided <= MaxLen /\ v.decided <= u.decided
  BY <1>2, <1>3, <1>5, WindowAssumption DEF AtLeast
<1>7. u.decided <= AtLeast(v.len - LookAhead, 0)
  BY <1>1, <1>2, <1>5, WindowAssumption DEF AtLeast, Behind, Open
<1>8. u \in Window
  <2>1. u.held \in SUBSET Span
    BY <1>4, <1>5
  <2>2. u = [len |-> u.len, released |-> u.released, decided |-> u.decided,
            held |-> u.held, trip |-> u.trip, finished |-> u.finished]
    BY <1>1 DEF judge, Window
  <2> HIDE DEF u, t
  <2>3. u.len \in 0..MaxLen /\ u.released \in 0..MaxLen /\ u.decided \in 0..MaxLen
    BY <1>2, <1>3, <1>5, <1>6, WindowAssumption
  <2>4. u.trip \in BOOLEAN /\ u.finished \in BOOLEAN
    BY <1>5
  <2> QED BY <2>1, <2>2, <2>3, <2>4 DEF Window
<1> HIDE DEF u, t
<1>9. Behind(u)
  BY <1>1, <1>2, <1>3, <1>5, <1>6, <1>7, WindowAssumption, LagAssumption DEF Behind, AtLeast, Open
<1>10. \A f \in plan.forms : f.end <= u.decided => f.end + LookAhead <= v.len
  BY <1>0, <1>2, <1>6, <1>7, FormBounds, WindowAssumption DEF AtLeast
\* A lasting form decided by this call was judged by it.
<1>11. \A f \in plan.forms :
         Lasting(f) /\ f.end <= u.decided /\ f.end > v.decided => Settled(v, f, TRUE)
  <2> SUFFICES ASSUME NEW f \in plan.forms, Lasting(f), f.end <= u.decided, f.end > v.decided
               PROVE  Settled(v, f, TRUE)
    OBVIOUS
  <2>1. f \in Form /\ f.end \in Nat /\ f.gone = MaxLen + 1 /\ f.end + LookAhead <= v.len
    BY <1>0, <1>10, FormBounds DEF Lasting, Never
  <2>2. judge_floor(v.decided) <= f.start
    BY <1>1, <2>1, UndecidedInWindow
  <2> QED BY <1>2, <2>1, <2>2, WindowAssumption DEF Settled, Seen
<1>12. Clean(u)
  <2> SUFFICES ASSUME NEW f \in plan.forms, f.kind = "trip", Lasting(f), ~(f.end > u.decided)
               PROVE  FALSE
    BY <1>5 DEF Clean
  <2>1. f.end \in Nat /\ f.end <= u.decided
    BY <1>0, <1>6, FormBounds
  <2>2. f.end > v.decided
    BY <1>2, <2>1 DEF Sound, Clean, Open
  <2> QED BY <1>11, <2>1, <2>2 DEF Trips, HitTrips
<1>13. HeldFree(u)
  BY <1>3, <1>5 DEF HeldFree
\* Whatever was active is held on, or the release has passed it.
<1>14. \A c \in v.held \cup Fresh(v) :
         c \in Span /\ ~Inside(t, c) /\ (c \in u.held \/ c.end <= t)
  <2> SUFFICES ASSUME NEW c \in v.held \cup Fresh(v)
               PROVE  c \in Span /\ ~Inside(t, c) /\ (c \in u.held \/ c.end <= t)
    OBVIOUS
  <2>1. c \in Span
    BY FreshOutside, <1>1 DEF Window
  <2>2. c.end \in Int /\ c.start \in Int
    BY <2>1 DEF Span
  <2>3. CASE c.end > v.released
    BY <1>3, <1>5, <2>1, <2>2, <2>3 DEF Active
  <2>4. CASE c.end <= v.released
    BY <1>2, <1>3, <2>1, <2>2, <2>4 DEF Inside
  <2> QED BY <1>2, <2>2, <2>3, <2>4
<1>15. ExcludedFree(u)
  <2> SUFFICES ASSUME NEW f \in plan.forms, f.kind = "excluded", Seen(u, f), f.end <= u.decided,
                      judge_floor(u.decided) <= f.ctx
               PROVE  ~Inside(t, ContextSpan(f))
    BY <1>5 DEF ExcludedFree
  <2>1. /\ f \in Form /\ f.end \in Nat /\ f.hold \in Nat /\ f.start \in Nat /\ f.ctx \in Nat
        /\ f.end + LookAhead <= v.len /\ f.hold <= v.len
    BY <1>0, <1>2, <1>10, FormBounds, WindowAssumption
  <2>2. judge_floor(v.decided) <= f.start /\ judge_floor(v.decided) <= f.ctx
    BY <1>2, <1>6, <2>1, WindowAssumption DEF Seen, judge_floor, AtLeast
  <2>3. Seen(v, f)
    BY <1>5, <2>2 DEF Seen
  <2>4. ContextSpan(f) \in Fresh(v)
    BY <2>1, <2>2, <2>3 DEF Fresh, ContextSpan
  <2> QED BY <1>14, <2>4
<1>16. Carried(u)
  <2> SUFFICES ASSUME NEW f \in plan.forms, f.kind # "trip", Lasting(f), f.end <= u.decided
               PROVE  ContextSpan(f) \in u.held \/ ContextSpan(f).end <= t
    BY <1>5 DEF Carried
  <2>1. /\ f \in Form /\ f.end \in Nat /\ f.hold \in Nat /\ f.hold <= v.len
        /\ f.kind \in {"exempt", "excluded"} /\ ContextSpan(f) \in Span
    BY <1>0, <1>2, <1>10, FormBounds, WindowAssumption
  <2>2. CASE f.end <= v.decided
    <3>1. ContextSpan(f) \in v.held \/ ContextSpan(f).end <= v.released
      BY <2>2 DEF Sound, Carried, Open
    <3> QED BY <1>2, <1>3, <1>14, <2>1, <3>1 DEF Span
  <2>3. CASE f.end > v.decided
    <3>1. Settled(v, f, TRUE) /\ judge_floor(v.decided) <= f.ctx
      BY <1>1, <1>11, <2>1, <2>3, UndecidedInWindow
    <3>2. ContextSpan(f) \in Fresh(v)
      BY <2>1, <3>1 DEF Fresh, ContextSpan, Settled
    <3> QED BY <1>14, <3>2
  <2> QED BY <1>2, <2>1, <2>2, <2>3
<1>17. ContextFree(u)
  <2> SUFFICES ASSUME NEW f \in plan.forms, f.kind # "trip", Lasting(f)
               PROVE  ~Inside(t, ContextSpan(f))
    BY <1>5 DEF ContextFree
  <2>1. /\ f \in Form /\ f.end \in Nat /\ f.start \in Nat
        /\ ContextSpan(f) \in Span /\ ContextSpan(f).start = f.start
    BY <1>0, FormBounds
  <2>2. CASE f.end <= u.decided
    BY <1>3, <1>5, <1>13, <1>16, <2>1, <2>2 DEF Carried, HeldFree, Inside, Span
  <2>3. CASE f.end > u.decided
    <3>1. t <= f.start
      BY <1>5, <1>8, <1>9, <2>1, <2>3, UndecidedInWindow
    <3> QED BY <1>3, <2>1, <3>1 DEF Inside, Span
  <2> QED BY <1>6, <2>1, <2>2, <2>3
<1>18. OpeningFree(u)
  <2> SUFFICES ASSUME plan.affirm > 0
               PROVE  t = 0
    BY <1>5 DEF OpeningFree
  <2>1. v.released = 0
    BY DEF Sound, OpeningFree, Open
  <2>2. v.len < MaxMatch
    <3>1. ~(plan.affirm <= v.len /\ v.len >= MaxMatch)
      BY Zenon DEF Trips, OpeningTrips
    <3> QED BY <1>0, <1>2, <3>1, WindowAssumption
  <2> QED BY <1>2, <1>3, <2>1, <2>2, WindowAssumption, LagAssumption DEF AtLeast
<1> QED BY <1>8, <1>9, <1>12, <1>13, <1>15, <1>16, <1>17, <1>18 DEF Sound, u

\* An untripped finish releases a text in which every lasting form was judged.
LEMMA FinishSound ==
  ASSUME plan \in Plan, NEW v, Sound(v), Open(v), ~Trips(v, FALSE)
  PROVE  Sound(finish(v))
<1> DEFINE u == finish(v)
<1>0. plan.forms \subseteq Form
  BY DEF Plan
<1>1. v \in Window
  BY DEF Sound
<1>2. v.len \in Nat /\ v.len <= MaxLen /\ v.decided \in Nat
  BY <1>1, WindowAssumption DEF Window
<1>3. /\ u.len = v.len /\ u.held = {} /\ u.trip = FALSE /\ u.finished = TRUE /\ u \in Window
  BY <1>1 DEF finish, Window, Open
<1> HIDE DEF u
<1>4. Behind(u) /\ HeldFree(u) /\ ExcludedFree(u) /\ Carried(u) /\ ContextFree(u)
  BY <1>3 DEF Behind, HeldFree, ExcludedFree, Carried, ContextFree
<1>5. Clean(u)
  <2> SUFFICES ASSUME NEW f \in plan.forms, f.kind = "trip", Lasting(f), ~(f.end > v.len)
               PROVE  FALSE
    BY <1>3 DEF Clean
  <2>1. f \in Form /\ f.end \in Nat /\ f.end <= v.len /\ f.gone = MaxLen + 1
    BY <1>0, <1>2, FormBounds DEF Lasting, Never
  <2>2. f.end > v.decided
    BY <1>2 DEF Sound, Clean, Open
  <2>3. judge_floor(v.decided) <= f.start
    BY <1>1, <2>1, <2>2, UndecidedInWindow
  <2>4. Seen(v, f)
    BY <1>2, <2>1, <2>3, WindowAssumption DEF Seen
  <2>5. Settled(v, f, FALSE)
    BY <2>2, <2>4, Zenon DEF Settled
  <2> QED BY <2>5 DEF Trips, HitTrips
<1>6. OpeningFree(u)
  <2>1. plan.affirm > 0 => ~(plan.affirm <= v.len)
    BY Zenon DEF Trips, OpeningTrips
  <2>2. plan.affirm \in Nat
    BY WindowAssumption DEF Plan
  <2> QED BY <1>2, <1>3, <2>1, <2>2 DEF OpeningFree
<1> QED BY <1>3, <1>4, <1>5, <1>6 DEF Sound, u

-----------------------------------------------------------------------------
\* The parts of the invariant read nothing but the plan and the window.
LEMMA SoundPrimed ==
  ASSUME plan' = plan, plan \in Plan, Sound(w')
  PROVE  IInv'
BY DEF IInv, Sound, Behind, Clean, HeldFree, ExcludedFree, Carried, ContextFree, OpeningFree,
   Seen, Lasting

LEMMA InitSound == Init => IInv
<1> SUFFICES ASSUME Init
             PROVE  IInv
  OBVIOUS
<1>0. plan \in Plan /\ plan.forms \subseteq Form
  BY DEF Init, Plan
<1>1. /\ w.len = 0 /\ w.released = 0 /\ w.decided = 0 /\ w.held = {} /\ w.trip = FALSE
      /\ w.finished = FALSE /\ w \in Window
  BY WindowAssumption DEF Init, NewWindow, Window
<1>2. \A f \in plan.forms : f.end > 0 /\ ~(f.end <= 0) /\ f.start \in Nat /\ ContextSpan(f).start = f.start
  BY <1>0, FormBounds
<1>3. Behind(w) /\ HeldFree(w) /\ OpeningFree(w)
  BY <1>1, WindowAssumption DEF Behind, HeldFree, OpeningFree, AtLeast
<1>4. Clean(w) /\ ExcludedFree(w) /\ Carried(w)
  BY <1>1, <1>2 DEF Clean, ExcludedFree, Carried
<1>5. ContextFree(w)
  BY <1>1, <1>2 DEF ContextFree, Inside
<1> QED BY <1>0, <1>1, <1>3, <1>4, <1>5 DEF IInv, Sound

LEMMA NextSound == IInv /\ [Next]_wvars => IInv'
<1> SUFFICES ASSUME IInv, [Next]_wvars
             PROVE  IInv'
  OBVIOUS
<1>1. CASE AppendDelta
  <2>1. PICK n \in 0..(MaxLen - w.len) : w' = append(w, n)
    BY <1>1 DEF AppendDelta
  <2>2. plan' = plan /\ ~w.finished
    BY <1>1 DEF AppendDelta
  <2>3. CASE w.trip
    <3>1. w' = w
      BY <2>1, <2>3 DEF append
    <3> QED BY <2>2, <3>1, SoundPrimed DEF IInv
  <2>4. CASE ~w.trip
    <3> DEFINE v == [w EXCEPT !.len = @ + n]
    <3>1. plan \in Plan /\ Sound(v) /\ Open(v)
      BY <2>2, <2>4, GrowthSound DEF IInv, Open
    <3>2. w' = judge(v)
      BY <2>1, <2>4 DEF append
    <3> HIDE DEF v
    <3>3. CASE Trips(v, TRUE)
      <4>1. judge(v) = Tripped(v)
        BY <3>3 DEF judge
      <4>2. Sound(w')
        BY <3>1, <3>2, <4>1, TrippedSound
      <4> QED BY <2>2, <3>1, <4>2, SoundPrimed
    <3>4. CASE ~Trips(v, TRUE)
      <4>1. Sound(w')
        BY <3>1, <3>2, <3>4, JudgeSound
      <4> QED BY <2>2, <3>1, <4>1, SoundPrimed
    <3> QED BY <3>3, <3>4
  <2> QED BY <2>3, <2>4
<1>2. CASE FinishText
  <2>1. w' = finish(w) /\ plan' = plan /\ plan \in Plan /\ Sound(w)
    BY <1>2 DEF FinishText, IInv
  <2>2. CASE w.trip \/ w.finished
    <3>1. w' = w
      BY <2>1, <2>2 DEF finish
    <3> QED BY <2>1, <3>1, SoundPrimed
  <2>3. CASE Open(w) /\ Trips(w, FALSE)
    <3>1. w' = Tripped(w)
      BY <2>1, <2>3 DEF finish, Open
    <3>2. Sound(w')
      BY <2>1, <2>3, <3>1, TrippedSound
    <3> QED BY <2>1, <3>2, SoundPrimed
  <2>4. CASE Open(w) /\ ~Trips(w, FALSE)
    <3>1. Sound(w')
      BY <2>1, <2>4, FinishSound
    <3> QED BY <2>1, <3>1, SoundPrimed
  <2> QED BY <2>2, <2>3, <2>4 DEF Open
<1>3. CASE UNCHANGED wvars
  <2>1. plan' = plan /\ w' = w
    BY <1>3 DEF wvars
  <2> QED BY <2>1, SoundPrimed DEF IInv
<1> QED BY <1>1, <1>2, <1>3 DEF Next

LEMMA Invariance == Spec => []IInv
BY InitSound, NextSound, PTL DEF Spec

-----------------------------------------------------------------------------
(* The theorems: for every lag the grammar's bounds give, every answer and every *)
(* way of cutting it into deltas.                                                *)

\* TextState keeps its types: the release point stays inside the text.
THEOREM TypeCorrect == Spec => []TypeOK
<1>1. IInv => TypeOK
  BY DEF IInv, Sound, TypeOK
<1> QED BY <1>1, Invariance, PTL

\* No character of a protected figure is released by StreamCheck.
THEOREM NothingLeaks == Spec => []NoLeak
<1>1. ASSUME IInv PROVE NoLeak
  <2> SUFFICES ASSUME NEW f \in plan.forms, f.kind = "trip", Lasting(f), f.end <= w.len
               PROVE  w.released <= f.start
    BY DEF NoLeak
  <2>1. f \in Form /\ f.end \in Nat /\ w \in Window /\ Behind(w)
    BY <1>1, FormBounds DEF IInv, Sound, Plan
  <2>2. w.len \in Nat
    BY <2>1, WindowAssumption DEF Window
  <2>3. ~w.finished /\ f.end > w.decided
    BY <1>1, <2>1, <2>2 DEF IInv, Sound, Clean
  <2> QED BY <2>1, <2>3, UndecidedInWindow
<1> QED BY <1>1, Invariance, PTL

\* Nothing is released of an answer with an affirming opening.
THEOREM OpeningAlwaysHeld == Spec => []OpeningHeld
<1>1. ASSUME IInv PROVE OpeningHeld
  <2>1. w \in Window /\ w.len \in Nat /\ plan.affirm \in Nat
    BY <1>1, WindowAssumption DEF IInv, Sound, Window, Plan
  <2> QED BY <1>1, <2>1 DEF IInv, Sound, OpeningFree, OpeningHeld
<1> QED BY <1>1, Invariance, PTL

\* The release point of an open stream never separates a hit from its context.
THEOREM ContextAlwaysWhole == Spec => []ContextWhole
<1>1. IInv => ContextWhole
  BY DEF IInv, Sound, ContextFree, ContextWhole
<1> QED BY <1>1, Invariance, PTL

\* The while loop of StreamCheck._judge ends at every delta.
THEOREM LoopAlwaysEnds == Spec => []LoopEnds
<1>1. ASSUME IInv PROVE LoopEnds
  <2> SUFFICES ASSUME ~w.trip, ~w.finished, NEW n \in 0..(MaxLen - w.len)
               PROVE  \A c \in Active([w EXCEPT !.len = @ + n]) : ~Inside(w.released, c)
    BY DEF LoopEnds
  <2> DEFINE v == [w EXCEPT !.len = @ + n]
  <2>1. plan \in Plan /\ Sound(v) /\ Open(v)
    BY <1>1, GrowthSound DEF IInv, Open
  <2>2. v.released = w.released
    BY <1>1 DEF IInv, Sound, Window
  <2> HIDE DEF v
  <2>3. \A c \in Active(v) : ~Inside(w.released, c)
    BY <2>1, <2>2, ActiveOutside
  <2> QED BY <2>3 DEF v
<1> QED BY <1>1, Invariance, PTL

\* judge_floor and the look-ahead cut off no exemption's context: every trip of an
\* open stream is founded.
THEOREM TripAlwaysFounded == Spec => TripFounded
<1> DEFINE Founded ==
      Next /\ ~w.trip /\ w'.trip =>
        \/ plan.affirm > 0
        \/ \E f \in plan.forms : f.kind = "trip" \/ (w'.len = w.len /\ f.hold > w.len)
<1>1. ASSUME IInv, [Next]_wvars, ~w.trip, w'.trip
      PROVE  \/ plan.affirm > 0
             \/ \E f \in plan.forms : f.kind = "trip" \/ (w'.len = w.len /\ f.hold > w.len)
  <2>0. plan \in Plan /\ plan.forms \subseteq Form /\ w \in Window
    BY <1>1 DEF IInv, Sound, Plan
  \* A hit that trips without being protected reaches past the text.
  <2>1. ASSUME NEW v \in Window, NEW f \in plan.forms, NEW prefix, Settled(v, f, prefix),
               HitTrips(v, f), f.kind # "trip"
        PROVE  f.hold > v.len
    <3>1. f \in Form /\ f.end > v.decided
      BY <2>0, <2>1 DEF Settled
    <3>2. /\ judge_floor(v.decided) <= f.ctx /\ judge_floor(v.decided) \in Int /\ f.ctx \in Nat
      BY <3>1, UndecidedInWindow, FormBounds, WindowAssumption DEF judge_floor, AtLeast, Window
    <3> QED BY <2>1, <3>2 DEF HitTrips
  <2>2. CASE AppendDelta
    <3>1. PICK n \in 0..(MaxLen - w.len) : w' = append(w, n)
      BY <2>2 DEF AppendDelta
    <3>2. ~w.finished
      BY <2>2 DEF AppendDelta
    <3> DEFINE v == [w EXCEPT !.len = @ + n]
    <3>3. Sound(v) /\ Open(v) /\ v \in Window
      BY <1>1, <3>2, GrowthSound DEF IInv, Open, Sound
    <3>4. w' = judge(v)
      BY <1>1, <3>1 DEF append
    <3> HIDE DEF v
    <3>5. Trips(v, TRUE)
      BY <1>1, <3>3, <3>4 DEF judge, Open, Window
    <3>6. CASE OpeningTrips(v, TRUE)
      BY <3>6 DEF OpeningTrips
    <3>7. CASE \E f \in plan.forms : Settled(v, f, TRUE) /\ HitTrips(v, f)
      <4>1. PICK f \in plan.forms : Settled(v, f, TRUE) /\ HitTrips(v, f)
        BY <3>7
      <4>2. f \in Form /\ f.end + LookAhead <= v.len
        BY <2>0, <4>1, Zenon DEF Settled
      <4>3. ~(f.hold > v.len)
        BY <3>3, <4>2, FormBounds, WindowAssumption DEF Window
      <4> QED BY <2>1, <3>3, <4>1, <4>3
    <3> QED BY <3>5, <3>6, <3>7 DEF Trips
  <2>3. CASE FinishText
    <3>1. w' = finish(w)
      BY <2>3 DEF FinishText
    <3>2. Trips(w, FALSE) /\ w' = Tripped(w)
      BY <1>1, <2>0, <3>1 DEF finish, Window
    <3>3. w'.len = w.len
      BY <2>0, <3>2 DEF Tripped, Window
    <3>4. CASE OpeningTrips(w, FALSE)
      BY <3>4 DEF OpeningTrips
    <3>5. CASE \E f \in plan.forms : Settled(w, f, FALSE) /\ HitTrips(w, f)
      BY <2>0, <2>1, <3>3, <3>5
    <3> QED BY <3>2, <3>4, <3>5 DEF Trips
  <2>4. CASE UNCHANGED wvars
    BY <1>1, <2>4 DEF wvars
  <2> QED BY <1>1, <2>2, <2>3, <2>4 DEF Next
<1>2. IInv /\ [Next]_wvars => [Founded]_wvars
  BY <1>1
<1> QED BY <1>2, Invariance, PTL DEF Spec, TripFounded

\* The window keeps its whole promise for every match bound, look-ahead, reach and lag that
\* meet the module's assumption, and for every answer.
THEOREM WindowAlwaysSound == Spec => WindowSound
BY TypeCorrect, NothingLeaks, OpeningAlwaysHeld, ContextAlwaysWhole, LoopAlwaysEnds,
   TripAlwaysFounded, PTL DEF WindowSound
=============================================================================

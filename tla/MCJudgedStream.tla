---------------------------- MODULE MCJudgedStream ----------------------------
(* The judge of an answer, checked alone and within a request.  Alone, the lag window *)
(* meets every answer with at most two forms, in deltas of every size; within a       *)
(* request it meets five answers and everything the engine and the caller can do.     *)
EXTENDS JudgedStream, FiniteSets

VARIABLE part

-----------------------------------------------------------------------------
(* The answers of the window alone. *)

Ends(s) == (s + 1)..(IF s + MaxMatch < MaxLen THEN s + MaxMatch ELSE MaxLen)

Gones(s, e) == {Never} \cup {x \in (e + 1)..(s + MaxMatch) : x <= MaxLen}

HoldEnds(e, reach) == {e, IF e + reach < MaxLen THEN e + reach ELSE MaxLen}

\* The forms, each exempt or excluded one with its shortest or its longest context.
SmallForms ==
  UNION {UNION {
    {[kind |-> "trip", ctx |-> s, start |-> s, end |-> e, hold |-> e, gone |-> x] :
        x \in Gones(s, e)}
    \cup
    {[kind |-> "exempt", ctx |-> AtLeast(s - ExemptReach, 0), start |-> s, end |-> e,
      hold |-> h, gone |-> x] : x \in Gones(s, e), h \in HoldEnds(e, LookAhead)}
    \cup
    {[kind |-> "excluded", ctx |-> s, start |-> s, end |-> e, hold |-> h, gone |-> x] :
        x \in Gones(s, e), h \in HoldEnds(e, ExclReach)}
    : e \in Ends(s)} : s \in 0..(MaxLen - 1)}

\* Every answer with at most two forms, and one with an affirming opening.
SmallPlans ==
  {[forms |-> {}, affirm |-> 1]} \cup
  {[forms |-> {f, g}, affirm |-> 0] : f, g \in SmallForms}

-----------------------------------------------------------------------------
(* The answers of a request. *)

\* An answer with nothing to judge, with a protected figure in its middle or at its end,
\* with an exemption, and with an affirming opening.
Answers ==
  LET form(kind, s) == [kind |-> kind, ctx |-> s, start |-> s, end |-> s + 1,
                        hold |-> s + 1, gone |-> Never]
  IN  {[forms |-> {}, affirm |-> 1]} \cup
      {[forms |-> fs, affirm |-> 0] :
         fs \in {{}, {form("trip", 1)}, {form("trip", MaxLen - 1)}, {form("exempt", 1)}}}

MCInit ==
  /\ part \in {"window", "request"}
  /\ IF part = "window" THEN plan \in SmallPlans ELSE plan \in Answers
  /\ RequestInit

WindowRuns == part = "window" /\ Next /\ UNCHANGED <<part, mech, relay, queue, sent, upstream, events>>
RequestRuns == part = "request" /\ StreamNext /\ UNCHANGED part

MCNext == WindowRuns \/ RequestRuns

\* The fairness of a request, while it runs.
MCFairness ==
  /\ WF_streamVars(part = "request" /\ (StreamStarts \/ Refused \/ WholeReply))
  /\ WF_streamVars(part = "request" /\ Engine)
  /\ WF_streamVars(part = "request" /\ (SendPayload \/ SendsDone))

MCSpec == MCInit /\ [][MCNext]_<<part, streamVars>> /\ MCFairness

-----------------------------------------------------------------------------
\* Every request ends: its last body is sent or its caller has gone, whatever the engine
\* does (relay.py CompletionRelay._stream).
EveryRequestEnds == part = "request" => RequestEnds
=============================================================================

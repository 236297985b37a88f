------------------------------- MODULE MCHost --------------------------------
(* The operator's commands, checked side by side: the box locks, the engine's        *)
(* verification, the proposals, the secrets, the reconciliation of members and the   *)
(* retention sweep keep no state in common, so one of them runs and the others rest  *)
(* in an initial state of theirs.                                                    *)
EXTENDS BoxLocks, EngineVerify, Proposals, Secrets, Membership, Retention

VARIABLE part

-----------------------------------------------------------------------------
(* The engine verification. *)

OnePositive == <<"p1">>
Num(n) == <<"integer", n>>
Str(s) == <<"string", s>>
Schema == [type |-> "object", required |-> {"score"},
           properties |-> [score |-> [type |-> "integer", minimum |-> 1, maximum |-> 2],
                           tags  |-> [type |-> "array", minimum |-> 1, maximum |-> 2,
                                      items |-> [type |-> "string", enum |-> {Str("a")}]]]]
EngineAnswers ==
  {<<"object", [score |-> Num(1)]>>,
   <<"object", [score |-> Num(2), tags |-> <<"array", <<Str("a")>> >>]>>,
   <<"object", [score |-> Num(2), tags |-> <<"array", <<Str("b")>> >>]>>,
   <<"object", [score |-> Num(3)]>>,
   <<"array", <<>> >>}

CaseOf(id) == [id |-> id, prompt |-> "text"]
Sample ==
  [version |-> 1,
   needle |-> [id |-> "n", filler |-> "f", planted |-> "x", question |-> "q",
               expected |-> "x", depth |-> "d"],
   structured |-> [id |-> "s", prompt |-> "text", schema_name |-> "name", schema |-> "schema"],
   smoke |-> [id |-> "m", prompt |-> "text", max_tokens |-> "9"],
   frontend |-> [positives |-> <<CaseOf("p1")>>, trip |-> CaseOf("trip")],
   embed |-> [vectors |-> [id |-> "v", texts |-> "two"],
              throughput |-> [id |-> "t", filler |-> "f", paragraphs |-> "2", inputs |-> "2"]]]
Broken ==
  {[Sample EXCEPT !.needle.expected = "y"], [Sample EXCEPT !.smoke.max_tokens = "wrong"],
   [Sample EXCEPT !.frontend.trip = CaseOf("p1")], [Sample EXCEPT !.frontend.positives = <<>>],
   [Sample EXCEPT !.embed.vectors.texts = "none"], [Sample EXCEPT !.version = 2], <<>>}

Meter(overhead, block, late, more) ==
  [overhead |-> overhead, block |-> block, late |-> late, more |-> more]
Good == [root |-> TRUE, gpu |-> TRUE, lock |-> "none", site |-> TRUE,
         rendered |-> {"engine", "embed"}, healthy |-> {"engine", "embed"}, lockfile |-> TRUE,
         window |-> 262144, cap |-> 8, running |-> 8, space |-> "embed", sample |-> Sample,
         schema |-> Schema, password |-> TRUE, audit |-> TRUE, tokens |-> Meter(60, 40, 9, 1)]
Meters == {Meter(o, b, l, m) : o \in {0, 50}, b \in {120, 400}, l \in {2, 900},
                               m \in {0, 30, 120, 300}}
SomeBoxes ==
  {Good,
   [Good EXCEPT !.root = FALSE], [Good EXCEPT !.gpu = FALSE], [Good EXCEPT !.lock = "other"],
   [Good EXCEPT !.rendered = {}], [Good EXCEPT !.healthy = {"engine"}],
   [Good EXCEPT !.window = 0], [Good EXCEPT !.window = 300], [Good EXCEPT !.running = 4],
   [Good EXCEPT !.space = "none"], [Good EXCEPT !.password = FALSE]}
  \cup {[Good EXCEPT !.sample = s] : s \in Broken}
MeteredBoxes == {[Good EXCEPT !.tokens = m] : m \in Meters}
AllBoxes == SomeBoxes \cup MeteredBoxes

-----------------------------------------------------------------------------
(* The proposals. *)

Clause(figure, op, value, runs) == [figure |-> figure, op |-> op, value |-> value, runs |-> runs]
Entry(id, measure, state, condition) ==
  [id |-> id, measure |-> measure, state |-> state, condition |-> condition,
   ruled |-> state # "watching"]
Registry(triggers) == [read |-> TRUE, document |-> [version |-> 1, triggers |-> triggers]]
Watching ==
  Registry(<<Entry("a", "eval-set", "watching", {Clause("judged_queries", "at-least", 5, 1)}),
             Entry("b", "unavailable", "watching", {Clause("anything", "above", 1, 2)}),
             Entry("c", "eval-set", "acted", {})>>)
Unruly == Registry(<<Entry("a", "eval-set", "acted", {Clause("judged_queries", "above", 5, 1)})>>)
Night(version, partner, partial) == [version |-> version, partner |-> partner, partial |-> partial]
Kinds == {Night("v1", "none", FALSE), Night("v2", "whole", FALSE), Night("v1", "whole", TRUE)}
Base ==
  [command |-> "proposals", root |-> TRUE, record |-> TRUE, audit |-> TRUE, build |-> TRUE,
   registry |-> Watching, judgments |-> "ok", judged |-> 5, held |-> 2, key |-> TRUE,
   feed |-> <<"r1", "r2", "r3">>, unreadable |-> {"r3"}, down |-> {"r1", "r3"},
   tripped |-> {"r1"}, trips |-> "rows", upstream |-> [lines |-> "rows", open |-> 1],
   challenger |-> "set", cases |-> 20,
   nights |-> <<Night("v1", "none", FALSE), Night("v1", "whole", FALSE), Night("v1", "whole", FALSE)>>,
   month |-> TRUE,
   out |-> [absolute |-> TRUE, backed |-> FALSE, checkout |-> FALSE, dir |-> "absent", owner |-> TRUE]]
Candidates == [Base EXCEPT !.command = "candidates"]
SomePlaces ==
  {Base, Candidates,
   [Base EXCEPT !.root = FALSE], [Base EXCEPT !.record = FALSE, !.build = FALSE],
   [Base EXCEPT !.audit = FALSE], [Base EXCEPT !.registry = Unruly],
   [Base EXCEPT !.judgments = "bad"], [Base EXCEPT !.key = FALSE],
   [Base EXCEPT !.trips = "unreadable"], [Base EXCEPT !.challenger = "none"],
   [Base EXCEPT !.cases = 3], [Candidates EXCEPT !.out.backed = TRUE],
   [Candidates EXCEPT !.out.dir = "empty", !.out.owner = FALSE]}

-----------------------------------------------------------------------------
(* The secrets. *)

\* A password that one service mounts and another carries, the transport pair, a minted
\* key, Grafana's password and a role's.
Entry0(kind, rotation, mounts, carried) ==
  [kind |-> kind, rotation |-> rotation, mounts |-> mounts, carried |-> carried, from |-> "none"]

SixSecrets ==
  [n \in {"api", "key", "cert", "minted", "grafana", "role"} |->
     CASE n = "api" -> Entry0("password", "rewrite", {"engine"}, {"webui"})
       [] n = "key" -> Entry0("key", "rewrite", {"search"}, {})
       [] n = "cert" -> [Entry0("certificate", "rewrite", {"search"}, {}) EXCEPT !.from = "key"]
       [] n = "minted" -> Entry0("minted", "remint", {}, {})
       [] n = "grafana" -> Entry0("password", "seeded", {"grafana"}, {})
       [] OTHER -> Entry0("password", "role", {}, {})]

-----------------------------------------------------------------------------
(* The membership. *)

\* The groups agree, or an administrator is missing from the users' group.
SomeGroups == {[g \in Groups |-> IF g = "users" THEN u ELSE a] :
                 u \in {{"ann", "bob", "cid"}, {"bob"}}, a \in {{"ann"}, {"bob", "cid"}}}

-----------------------------------------------------------------------------
(* The retention. *)

\* Two of the chats share an upload, one names the other account's, and one upload may be
\* in a knowledge base.
SomeHolders == [x \in {"a1", "a2", "a3", "b1", "f1", "f2", "g1"} |-> IF x \in {"b1", "g1"} THEN "bob" ELSE "ann"]

SomeShapes ==
  {[age |-> a, names |-> n, rated |-> r, kept |-> k] :
     a \in {g \in [{"a1", "a2", "a3", "b1"} -> {"old", "fresh"}] : g["a1"] = "old"},
     n \in {[c \in {"a1", "a2", "a3", "b1"} |->
               CASE c = "a1" -> {"f1", "g1"} [] c = "a2" -> {"f1", "f2"} [] c = "a3" -> {} [] OTHER -> {"g1"}]},
     r \in {[c \in {"a1", "a2", "a3", "b1"} |-> IF c = "a1" THEN "fresh" ELSE IF c = "b1" THEN "old" ELSE "none"]},
     k \in {{}, {"f1"}}}

-----------------------------------------------------------------------------
Parts == {"locks", "engine", "proposals", "secrets", "members", "sweep"}

\* The initial state a part rests in.
Resting0(p) ==
  /\ p = "engine" \/ (box = Good)
  /\ p = "proposals" \/ (place = Base)
  /\ p = "members" \/ (inGroup = (CHOOSE g \in Stray : TRUE) /\ roleOf = [a \in Accounts |-> "admin"])
  /\ p = "sweep" \/ (age = [c \in ChatSet |-> "old"] /\ kept = {})

HostInit ==
  /\ part \in Parts
  /\ Resting0(part)
  /\ Init
  /\ EngineInit
  /\ ProposalInit
  /\ SecretInit
  /\ MemberInit
  /\ SweepInit

LocksRuns == part = "locks" /\ Next /\ UNCHANGED <<part, engineVars, proposalVars, secretVars, memberVars, sweepVars>>
EngineRuns == part = "engine" /\ EngineNext /\ UNCHANGED <<part, vars, proposalVars, secretVars, memberVars, sweepVars>>
ProposalsRuns == part = "proposals" /\ ProposalNext /\ UNCHANGED <<part, vars, engineVars, secretVars, memberVars, sweepVars>>
SecretsRuns == part = "secrets" /\ SecretNext /\ UNCHANGED <<part, vars, engineVars, proposalVars, memberVars, sweepVars>>
MembersRuns == part = "members" /\ MemberNext /\ UNCHANGED <<part, vars, engineVars, proposalVars, secretVars, sweepVars>>
SweepRuns == part = "sweep" /\ SweepNext /\ UNCHANGED <<part, vars, engineVars, proposalVars, secretVars, memberVars>>

HostNext ==
  \/ LocksRuns
  \/ EngineRuns
  \/ ProposalsRuns
  \/ SecretsRuns
  \/ MembersRuns
  \/ SweepRuns

hostVars == <<part, vars, engineVars, proposalVars, secretVars, memberVars, sweepVars>>

HostSpec == HostInit /\ [][HostNext]_hostVars
=============================================================================

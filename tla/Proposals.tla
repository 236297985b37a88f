-------------------------------- MODULE Proposals --------------------------------
(* `gideon proposals` and `gideon eval candidates`.  The first walks five sections  *)
(* over the trigger registry, the ratings Open WebUI lists page by page, the        *)
(* guardrail's trips, the upstream watch and the challenger's nights, and records   *)
(* a tally when asked; the second reads one month's ratings in one statement and    *)
(* writes the rated-down turns as a page and a manifest.  Users rate while either   *)
(* runs, and the nights' runs are recorded while it runs.                           *)
EXTENDS Integers, Sequences, FiniteSets, TLC

CONSTANTS
  Places,      \* what a command finds on the box
  Rated,       \* the rating ids there may be
  PageSize,    \* the ratings Open WebUI lists on a page
  FEEDBACK_PAGE_LIMIT, POOLED_NIGHTS,
  CLUSTER_FLOOR,
  NightKinds,  \* what may be recorded of a night
  MaxNights,   \* bound on the nights recorded
  MaxChanges,  \* bound on the changes users and nights make
  MaxUpsets    \* bound on the calls that fail and the kills

ASSUME ProposalShapes ==
  /\ PageSize \in Nat \ {0} /\ FEEDBACK_PAGE_LIMIT \in Nat \ {0} /\ POOLED_NIGHTS \in Nat \ {0}
  /\ CLUSTER_FLOOR \in Nat /\ MaxNights \in Nat /\ MaxChanges \in Nat /\ MaxUpsets \in Nat

VARIABLES
  place,      \* constant
  feed,       \* the rating ids as Open WebUI lists them, the newest change first
  aged,       \* the ratings older than the window
  nights,     \* the release runs of the challenger, newest first, each with its partner
  asking,     \* the command: where it stands
  walked,     \* _walk: the page, the ids read, and whether it ended
  since,      \* the ids there since the walk began and untouched in it
  removed,    \* a rating was deleted in the walk
  memo,       \* what once() holds: none, problem or the reading
  pooled,     \* the nights the challenger section read, and what it pooled
  shown,      \* the ratings the feedback section counts and the guardrail section reports
  report,     \* per section: none, skipped, refused or the number of its fired rows
  tally,      \* the audit row: none or the number fired
  packet,     \* the output directory: absent, or the files in it
  proposed,   \* running, 0, 1 or killed
  changes, upsets

proposalVars == <<place, feed, aged, nights, asking, walked, since, removed, memo, pooled,
                  shown, report, tally, packet, proposed, changes, upsets>>

Elements(s) == {s[i] : i \in DOMAIN s}
Without(s, x) == SelectSeq(s, LAMBDA y : y # x)
First(s, n) == SubSeq(s, 1, IF Len(s) < n THEN Len(s) ELSE n)

-----------------------------------------------------------------------------
(* The trigger registry and its clauses. *)

MEASURES == [unavailable |-> {}] @@ ("eval-set" :> {"judged_queries", "held_out_ids"})

_validate_clause(clause, measure) ==
  /\ clause.op \in {"above", "at-least", "below"} /\ clause.runs >= 1
  /\ measure = "unavailable" \/ clause.figure \in MEASURES[measure]
_validate_condition(condition, measure) ==
  condition # {} /\ \A clause \in condition : _validate_clause(clause, measure)

\* A watching entry has its condition and no ruling, an acted or retired one the reverse.
validate_trigger_registry(document) ==
  /\ document.version = 1 /\ document.triggers # <<>>
  /\ \A i, j \in DOMAIN document.triggers :
       document.triggers[i].id = document.triggers[j].id => i = j
  /\ \A i \in DOMAIN document.triggers :
       LET t == document.triggers[i] IN
       /\ t.measure \in DOMAIN MEASURES /\ t.state \in {"watching", "acted", "retired"}
       /\ (t.state = "watching") = (t.condition # {}) /\ (t.state = "watching") = ~t.ruled
       /\ t.condition # {} => _validate_condition(t.condition, t.measure)

read_trigger_registry(file) == file.read
load_trigger_registry(file) == read_trigger_registry(file) /\ validate_trigger_registry(file.document)
_construct(file) == SelectSeq(file.document.triggers, LAMBDA t : t.state = "watching")

evaluate_clause(clause, figures) ==
  LET supplied == IF clause.figure \in DOMAIN figures THEN figures[clause.figure] ELSE <<>>
      values == First(supplied, clause.runs)
      Compare(value) == CASE clause.op = "above"    -> value > clause.value
                          [] clause.op = "at-least" -> value >= clause.value
                          [] clause.op = "below"    -> value < clause.value
  IN IF Len(values) < clause.runs THEN "unmeasurable"
     ELSE IF \A i \in DOMAIN values : Compare(values[i]) THEN "holds" ELSE "fails"

evaluate_trigger(trigger, figures) ==
  LET states == {evaluate_clause(clause, figures) : clause \in trigger.condition} IN
  IF "fails" \in states THEN "not fired"
  ELSE IF "unmeasurable" \in states THEN "not yet measurable" ELSE "fired"

\* _eval_set: one value per figure, so a clause over two runs never becomes measurable.
_eval_set == IF place.judgments = "bad" THEN [problem |-> <<>>]
             ELSE [judged_queries |-> <<place.judged>>, held_out_ids |-> <<place.held>>]

-----------------------------------------------------------------------------
(* The ratings, the trips, the nights. *)

\* decode_rating and _record: a rating of another shape is counted as skipped.
_record(id) == id \notin place.unreadable
decode_items(ids) == [records |-> {id \in ids : _record(id)},
                      skipped |-> Cardinality({id \in ids : ~_record(id)})]

summarise(reading) == {id \in reading.records : id \notin aged}
Down(id) == id \in place.down

\* review: the rated-down turns whose chat tripped, and those elsewhere.
review(reading) ==
  LET down == {id \in reading.records : Down(id) /\ id \notin aged} IN
  [rated |-> {id \in down : id \in place.tripped}, elsewhere |-> down \ place.tripped,
   counted |-> {}]

select_pairs(pairs) ==
  IF pairs = <<>> THEN <<>>
  ELSE First(SelectSeq(pairs, LAMBDA p : /\ p.partner = "whole" /\ ~p.partial
                                         /\ p.version = pairs[1].version),
             POOLED_NIGHTS)

\* The verdicts paired_decision may reach: below the floor of clusters none but a refusal;
\* the interval itself is arithmetic left open.
paired_decision(cases) ==
  IF cases >= 2 /\ cases >= CLUSTER_FLOOR THEN {"wins", "loses", "undecided"} ELSE {"refused"}

\* pooled_decision and _pooled_row.
_pooled_row(selection, verdict) ==
  /\ verdict \in IF selection = <<>> THEN {"refused"} ELSE paired_decision(place.cases)

validate_challenger == place.challenger \in {"none", "set"}
load_challenger == place.challenger # "missing" /\ validate_challenger

\* parse_pairs, parse_results, parse_rows: one unreadable line refuses the section.
Parses(lines) == lines # "unreadable"

-----------------------------------------------------------------------------
(* The frame. *)

NoWalk == [page |-> 0, fresh |-> {}, ended |-> TRUE]
NoneShown == [counted |-> {}, rated |-> {}, elsewhere |-> {}]
NoPool == [of |-> <<>>, took |-> <<>>]
SECTIONS == <<"triggers", "feedback", "guardrail", "upstream", "challenger">>
Scope(section) == IF section \in {"triggers", "challenger"} THEN "product" ELSE "office"
Clear == [s \in {SECTIONS[i] : i \in 1..5} |-> "none"]
NoPacket == [dir |-> "absent", page |-> {"none"}, manifest |-> {"none"}, other |-> FALSE]

ProposalInit ==
  /\ place \in Places /\ feed = place.feed /\ aged = {} /\ nights = place.nights
  /\ asking = [at |-> "start", i |-> 1, reading |-> {}]
  /\ walked = NoWalk /\ since = {} /\ removed = FALSE /\ memo = "none" /\ pooled = NoPool
  /\ shown = NoneShown /\ report = Clear /\ tally = "none"
  /\ packet = [NoPacket EXCEPT !.dir = place.out.dir]
  /\ proposed = "running" /\ changes = 0 /\ upsets = 0

On(at) == proposed = "running" /\ asking.at = at
ProposalTo(at, i) == asking' = [asking EXCEPT !.at = at, !.i = i]
Upset(failed) == /\ failed => upsets < MaxUpsets
                 /\ upsets' = upsets + (IF failed THEN 1 ELSE 0)
Ends(code) == proposed' = code /\ ProposalTo("over", 1)
ProposalWorld == <<place, feed, aged, nights, changes>>
Read == <<walked, since, removed, memo, shown>>

\* run_proposals before its sections.
Proposes ==
  /\ On("start") /\ place.command = "proposals"
  /\ IF \/ place.record /\ ~place.root
        \/ ~load_trigger_registry(place.registry)
        \/ place.record /\ ~place.audit
       THEN Ends("1")
       ELSE ProposalTo("sections", 1) /\ UNCHANGED proposed
  /\ UNCHANGED <<ProposalWorld, Read, pooled, report, tally, packet, upsets>>

Section == SECTIONS[asking.i]
Next1 == IF asking.i < Len(SECTIONS) THEN ProposalTo("sections", asking.i + 1) ELSE ProposalTo("closing", 1)
Says(value) == report' = [report EXCEPT ![Section] = value]

\* walk_sections: a product section is skipped off the build box.
SectionSkipped ==
  /\ On("sections") /\ Scope(Section) = "product" /\ ~place.build
  /\ Says("skipped") /\ Next1
  /\ UNCHANGED <<ProposalWorld, Read, pooled, tally, packet, proposed, upsets>>

Renders(section) == On("sections") /\ Section = section
                    /\ (Scope(section) = "office" \/ place.build)

TriggersSection ==
  /\ Renders("triggers")
  /\ LET figures == _eval_set
         fired == {i \in DOMAIN _construct(place.registry) :
                     evaluate_trigger(_construct(place.registry)[i], figures) = "fired"} IN
     Says(IF "problem" \in DOMAIN figures THEN "refused" ELSE ToString(Cardinality(fired)))
  /\ Next1
  /\ UNCHANGED <<ProposalWorld, Read, pooled, tally, packet, proposed, upsets>>

\* once: the first section to ask starts the walk, and both take what it left.
FeedbackAsked ==
  /\ Renders("feedback") \/ Renders("guardrail")
  /\ memo = "none" /\ walked.ended
  /\ IF place.key
       THEN /\ walked' = [page |-> 1, fresh |-> {}, ended |-> FALSE]
            /\ since' = Elements(feed) /\ removed' = FALSE /\ UNCHANGED memo
       ELSE memo' = "problem" /\ UNCHANGED <<walked, since, removed>>
  /\ UNCHANGED <<ProposalWorld, shown, asking, pooled, report, tally, packet, proposed, upsets>>

PageOf(page) ==
  LET last == page * PageSize IN
  SubSeq(feed, last - PageSize + 1, IF last < Len(feed) THEN last ELSE Len(feed))

\* Mutant: a page with nothing new ends the walk.
EnoughOfOld(items, fresh) == items \subseteq walked.fresh \/ Cardinality(fresh) >= Len(feed)

\* The walk ends on an empty page or once it has as many ids as the list says there are.
Enough(items, fresh) == items = {} \/ Cardinality(fresh) >= Len(feed)

_walk ==
  /\ proposed = "running" /\ ~walked.ended
  /\ LET items == Elements(PageOf(walked.page))
         fresh == walked.fresh \cup items IN
     \/ /\ Upset(FALSE)
        /\ IF Enough(items, fresh)
             THEN /\ walked' = [walked EXCEPT !.fresh = fresh, !.ended = TRUE]
                  /\ memo' = "read"
             ELSE IF walked.page = FEEDBACK_PAGE_LIMIT
             THEN walked' = NoWalk /\ memo' = "problem"
             ELSE /\ walked' = [walked EXCEPT !.fresh = fresh, !.page = @ + 1]
                  /\ UNCHANGED memo
     \/ /\ Upset(TRUE) /\ walked' = NoWalk /\ memo' = "problem"
  /\ UNCHANGED <<ProposalWorld, asking, since, removed, shown, pooled, report, tally, packet, proposed>>

RatingsSection ==
  /\ Renders("feedback") /\ memo # "none"
  /\ Says(IF memo = "problem" THEN "refused" ELSE "0")
  /\ shown' = IF memo = "problem" THEN shown
              ELSE [shown EXCEPT !.counted = summarise(decode_items(walked.fresh))]
  /\ Next1
  /\ UNCHANGED <<ProposalWorld, walked, since, removed, memo, pooled, tally, packet, proposed, upsets>>

\* read_rows: the metrics reader over one statement.
read_rows(failed, lines) == Upset(failed) /\ (failed \/ lines # "none")

GuardrailSection ==
  /\ Renders("guardrail")
  /\ \E failed \in BOOLEAN :
       /\ read_rows(failed, place.trips)
       /\ LET refused == failed \/ ~Parses(place.trips) IN
          /\ refused \/ memo # "none"
          /\ Says(IF refused \/ memo = "problem" THEN "refused" ELSE "0")
          /\ shown' = IF refused \/ memo = "problem" THEN shown
                      ELSE [review(decode_items(walked.fresh)) EXCEPT !.counted = shown.counted]
  /\ Next1
  /\ UNCHANGED <<ProposalWorld, walked, since, removed, memo, pooled, tally, packet, proposed>>

UpstreamSection ==
  /\ Renders("upstream")
  /\ \E failed \in BOOLEAN :
       /\ read_rows(failed, place.upstream.lines)
       /\ Says(IF failed \/ ~Parses(place.upstream.lines) THEN "refused"
               ELSE ToString(place.upstream.open))
  /\ Next1
  /\ UNCHANGED <<ProposalWorld, Read, pooled, tally, packet, proposed>>

\* ChallengerSection: the pairs first, their results in a second statement.
ChallengerPairs ==
  /\ Renders("challenger") /\ pooled = NoPool
  /\ \E failed \in BOOLEAN :
       /\ Upset(failed)
       /\ IF ~load_challenger \/ failed THEN Says("refused") /\ Next1 /\ UNCHANGED pooled
          ELSE IF place.challenger = "none" \/ nights = <<>>
                 THEN Says("0") /\ Next1 /\ UNCHANGED pooled
          ELSE /\ pooled' = [of |-> nights, took |-> select_pairs(nights)]
               /\ ProposalTo("results", asking.i) /\ UNCHANGED report
  /\ UNCHANGED <<ProposalWorld, Read, tally, packet, proposed>>

ChallengerResults ==
  /\ On("results")
  /\ \E failed \in BOOLEAN, verdict \in {"wins", "loses", "undecided", "refused"} :
       /\ Upset(failed)
       /\ failed => (pooled.took # <<>> \/ pooled.of[1].partner # "none")
       /\ _pooled_row(pooled.took, verdict)
       /\ Says(IF failed THEN "refused" ELSE IF verdict = "wins" THEN "1" ELSE "0")
  /\ ProposalTo("closing", 1)
  /\ UNCHANGED <<ProposalWorld, Read, pooled, tally, packet, proposed>>

Refusals == {s \in DOMAIN report : report[s] = "refused"}
tally_detail == [s \in DOMAIN report |-> report[s]]

\* The closing line and, when asked, the tally.
write_tally ==
  /\ On("closing")
  /\ \E failed \in BOOLEAN :
       /\ Upset(failed) /\ (failed => place.record)
       /\ tally' = IF place.record /\ ~failed THEN tally_detail ELSE tally
       /\ Ends(IF failed \/ Refusals # {} THEN "1" ELSE "0")
  /\ UNCHANGED <<ProposalWorld, Read, pooled, report, packet>>

-----------------------------------------------------------------------------
(* eval candidates. *)

judge_out ==
  /\ place.out.absolute /\ ~place.out.backed /\ ~place.out.checkout
  /\ packet.dir # "file" /\ ~packet.other /\ packet.page = {"none"} /\ packet.manifest = {"none"}
  /\ packet.dir = "absent" \/ place.out.owner

\* run_candidates up to its read.
CandidatesStarts ==
  /\ On("start") /\ place.command = "candidates"
  /\ IF place.root /\ place.month /\ judge_out THEN ProposalTo("read", 1) /\ UNCHANGED proposed
                                             ELSE Ends("1")
  /\ UNCHANGED <<ProposalWorld, Read, pooled, report, tally, packet, upsets>>

\* decode_lines: one statement over the table, whatever order users change it in.
decode_lines == decode_items(Elements(feed)).records
_bucketed_down(records) == {id \in records : Down(id)}

SnapshotRead ==
  /\ On("read")
  /\ \/ /\ Upset(TRUE) /\ Ends("1")
     \/ /\ Upset(FALSE) /\ UNCHANGED proposed
        /\ asking' = [at |-> "directory", i |-> 1, reading |-> _bucketed_down(decode_lines)]
  /\ UNCHANGED <<ProposalWorld, Read, pooled, report, tally, packet>>

\* _write_packet looks at the directory again, then writes the page, then the manifest.
PacketDirectory ==
  /\ On("directory")
  /\ \/ /\ Upset(FALSE)
        /\ packet.dir # "file" /\ ~packet.other /\ (packet.dir = "absent" \/ place.out.owner)
        /\ packet' = [packet EXCEPT !.dir = "mine"] /\ ProposalTo("page", 1) /\ UNCHANGED proposed
     \/ /\ Upset(~(packet.other \/ packet.dir = "file")) /\ Ends("1") /\ UNCHANGED packet
  /\ UNCHANGED <<ProposalWorld, Read, pooled, report, tally>>

_write_packet ==
  \/ On("page") /\ packet' = [packet EXCEPT !.page = asking.reading]
  \/ On("manifest") /\ packet' = [packet EXCEPT !.manifest = asking.reading]

PacketWrites ==
  /\ \/ /\ Upset(FALSE) /\ _write_packet
        /\ IF asking.at = "page" THEN ProposalTo("manifest", 1) /\ UNCHANGED proposed ELSE Ends("0")
     \/ /\ On("page") \/ On("manifest")
        /\ Upset(TRUE) /\ Ends("1") /\ UNCHANGED packet
  /\ UNCHANGED <<ProposalWorld, Read, pooled, report, tally>>

-----------------------------------------------------------------------------
(* The users, the nights, another writer, a kill. *)

Changes == changes < MaxChanges /\ changes' = changes + 1
Mine == <<place, asking, walked, memo, shown, pooled, report, tally, packet, proposed, upsets>>

RatingAdded ==
  /\ Changes
  /\ \E id \in Rated \ Elements(feed) : id \notin since /\ feed' = <<id>> \o feed
  /\ UNCHANGED <<Mine, aged, nights, since, removed>>
RatingUpdated ==
  /\ Changes
  /\ \E id \in Elements(feed) : feed' = <<id>> \o Without(feed, id) /\ since' = since \ {id}
  /\ UNCHANGED <<Mine, aged, nights, removed>>
RatingDeleted ==
  /\ Changes
  /\ \E id \in Elements(feed) : feed' = Without(feed, id) /\ since' = since \ {id}
  /\ removed' = TRUE
  /\ UNCHANGED <<Mine, aged, nights>>
RatingAges ==
  /\ Changes /\ \E id \in Elements(feed) \ aged : aged' = aged \cup {id}
  /\ UNCHANGED <<Mine, feed, nights, since, removed>>
NightRecorded ==
  /\ Changes
  /\ \/ /\ Len(nights) < MaxNights /\ \E n \in NightKinds : nights' = <<n>> \o nights
     \/ /\ nights # <<>> /\ nights[1].partner = "none"
        /\ nights' = [nights EXCEPT ![1].partner = "whole"]
  /\ UNCHANGED <<Mine, feed, aged, since, removed>>
OtherFills ==
  /\ Changes /\ place.command = "candidates" /\ proposed = "running" /\ packet.dir # "mine"
  /\ packet' = [packet EXCEPT !.dir = "other", !.other = TRUE]
  /\ UNCHANGED <<place, feed, aged, nights, asking, Read, pooled, report, tally, proposed, upsets>>
ProposalKilled ==
  /\ proposed = "running" /\ asking.at # "start" /\ Upset(TRUE) /\ proposed' = "killed"
  /\ UNCHANGED <<ProposalWorld, Read, pooled, report, tally, packet, asking>>

ProposalStep ==
  \/ Proposes \/ SectionSkipped \/ TriggersSection \/ FeedbackAsked \/ _walk \/ RatingsSection
  \/ GuardrailSection \/ UpstreamSection \/ ChallengerPairs \/ ChallengerResults \/ write_tally
  \/ CandidatesStarts \/ SnapshotRead \/ PacketDirectory \/ PacketWrites
ProposalNext ==
  \/ ProposalStep \/ RatingAdded \/ RatingUpdated \/ RatingDeleted \/ RatingAges
  \/ NightRecorded \/ OtherFills \/ ProposalKilled
ProposalSpec == ProposalInit /\ [][ProposalNext]_proposalVars /\ WF_proposalVars(ProposalStep)

-----------------------------------------------------------------------------
(* Properties. *)

\* The reading holds every rating that was there when the walk began and that no user
\* touched in it, however the others shifted the pages; only a deletion lets one slip
\* (owuifeedback._walk).
FeedbackWhole == (memo = "read" /\ ~removed) => since \subseteq walked.fresh

\* The nights pooled are complete pairs of the newest night's release and set, at most
\* POOLED_NIGHTS of them, and no newer one of that kind is left out, although nights are
\* recorded between the two statements (pairs.select_pairs, ChallengerSection).
PooledAlike ==
  LET Fits(p) == p.partner = "whole" /\ ~p.partial /\ p.version = pooled.of[1].version IN
  pooled.of # <<>> =>
    /\ \A i \in DOMAIN pooled.took : Fits(pooled.took[i])
    /\ LET fitting == {i \in DOMAIN pooled.of : Fits(pooled.of[i])} IN
       Len(pooled.took) = IF Cardinality(fitting) < POOLED_NIGHTS THEN Cardinality(fitting)
                          ELSE POOLED_NIGHTS

\* A directory with a manifest holds the page the manifest describes, and neither is laid
\* beside another's files: a kill or a failed write leaves at most a page without its
\* manifest (packet._write_packet).
PacketWhole ==
  packet.manifest # {"none"} => packet.page = packet.manifest /\ ~packet.other

\* What an operator reads of the improvement loop is what the box recorded: the ratings
\* walked, the nights pooled and the packet laid out, while each of them changes.
ReportSound == FeedbackWhole /\ PooledAlike /\ PacketWhole
================================================================================

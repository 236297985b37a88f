------------------------------ MODULE ModelStore ------------------------------
(* The model weights of one box: `models pull` over the snapshots and blobs under *)
(* /data/models and its journal pulls.yaml, and `archive push`, which copies held *)
(* snapshots to the archive.  A pull takes no box lock: its claim is the journal  *)
(* entry it writes, which names its process.                                      *)
EXTENDS Integers, FiniteSets

CONSTANTS
  Pullers,        \* processes that run `models pull`
  StoreSnapshots,      \* a model's revision
  Repo,           \* the repository of a snapshot
  Blobs,          \* the files of a snapshot, by digest; a repository's snapshots share
  Profiles,       \* the sets of snapshots a hardware profile may pin
  CandidateLocks, \* the candidate pins a lock may carry: sets of [name, snap]
  MaxPulls,       \* bound on pulls and pushes
  MaxFaults       \* bound on crashes, failed stages and damaged files

ASSUME ModelStoreShapes ==
  /\ Pullers # {} /\ Profiles \subseteq (SUBSET StoreSnapshots) \ {{}}
  /\ DOMAIN Repo = StoreSnapshots /\ DOMAIN Blobs = StoreSnapshots
  /\ \A s, t \in StoreSnapshots : Blobs[s] \cap Blobs[t] # {} => Repo[s] = Repo[t]
  /\ \A c \in UNION CandidateLocks : c.snap \in StoreSnapshots
  /\ {MaxPulls, MaxFaults} \subseteq Nat

VARIABLES
  record,    \* pulls.yaml
  snaps,     \* the snapshot directories
  links,     \* the links <<snapshot, blob>> in them
  blobs,     \* per blob: "absent", "partial", "bad" or "good"
  pull,      \* per process, the pull in progress
  archive,   \* the files <<snapshot, blob>> the archive holds
  push,      \* the archive push in progress
  recorded,  \* the snapshots the last audit row says are archived
  damaged,   \* the blobs a fault has spoilt (history)
  pulls, faults

storeVars   == <<record, snaps, links, blobs, pull, archive, push, recorded, damaged, pulls, faults>>
diskVars    == <<snaps, links, blobs, damaged>>
archiveVars == <<archive, push, recorded>>

AllBlobs == UNION {Blobs[s] : s \in StoreSnapshots}
Files(s) == {s} \X Blobs[s]

NoPull   == [by |-> "nobody", models |-> {}]
IdlePull == [stage |-> "idle"]
IdlePush == [stage |-> "idle"]

\* An empty set of models stands for an absent entry.
FreshRecord ==
  [in_progress |-> NoPull, current |-> {}, previous |-> {}, retiring |-> {}, candidates |-> {}]

-----------------------------------------------------------------------------
(* The journal's transitions. *)

CandidateRefs(entries) == {c.snap : c \in entries}

\* A dead pull's snapshots retire, unless something still names them.
claim(r, p, models) ==
  LET named == r.current \cup r.previous \cup models \cup CandidateRefs(r.candidates)
  IN  [r EXCEPT !.in_progress = [by |-> p, models |-> models],
                !.retiring = (@ \cup r.in_progress.models) \ named]

\* Entries that the lock still pins stay; one whose snapshot the lock pins under another
\* free name is renamed; the others retire, unless something names their snapshot.
reconcile_candidates(r, lock, names) ==
  LET kept      == {e \in r.candidates : e.name \notin names \/ e \in lock}
      displaced == r.candidates \ kept
      taken     == {k.name : k \in kept}
      renamed   == {l \in lock : l.name \notin taken /\ l.snap \in CandidateRefs(displaced)}
      named     == r.in_progress.models \cup r.current \cup r.previous
                     \cup CandidateRefs(kept \cup renamed) \cup CandidateRefs(lock)
  IN  [r EXCEPT !.candidates = kept \cup renamed,
                !.retiring = (@ \cup CandidateRefs(displaced)) \ named]

\* The pending entry of a candidate pull replaces the one of its name.
WithPending(r, cand) ==
  [r EXCEPT !.candidates = {e \in @ : e.name \notin {c.name : c \in cand}} \cup cand]

\* Mutant: the snapshots the rotation displaces are not queued for removal.
rotate_forgetting(r) ==
  LET new  == r.in_progress.models
      prev == IF r.current # {} /\ r.current # new THEN r.current ELSE r.previous
  IN  [r EXCEPT !.current = new, !.previous = prev, !.retiring = @ \ (new \cup prev)]

rotate(r) ==
  LET new  == r.in_progress.models
      away == r.current # {} /\ r.current # new
      prev == IF away THEN r.current ELSE r.previous
      gone == IF away THEN r.previous ELSE {}
  IN  [r EXCEPT !.current = new, !.previous = prev,
                !.retiring = (@ \cup gone) \ (new \cup prev \cup CandidateRefs(r.candidates))]

release(r) == [r EXCEPT !.in_progress = NoPull, !.retiring = {}]

-----------------------------------------------------------------------------
(* models pull *)

process_is_alive(p) == p \in Pullers /\ pull[p].stage # "idle"

PullAt(p, stage) == pull[p].stage = stage
StoreTo(p, stage)     == pull' = [pull EXCEPT ![p].stage = stage]
Save(p, r, stage) ==
  /\ record' = r
  /\ pull' = [pull EXCEPT ![p].stage = stage, ![p].record = r]

\* The journal is read and the holder's process looked up; the claim is saved later.
PullLoads(p, models, lock, cand) ==
  /\ PullAt(p, "idle") /\ pulls < MaxPulls
  /\ ~process_is_alive(record.in_progress.by)
  /\ pulls' = pulls + 1
  /\ pull' = [pull EXCEPT ![p] = [stage |-> "claim", record |-> record, models |-> models,
                                  lock |-> lock, cand |-> cand]]
  /\ UNCHANGED <<record, diskVars, archiveVars, faults>>

PullClaims(p) ==
  /\ PullAt(p, "claim")
  /\ LET q     == pull[p]
         names == {c.name : c \in IF q.cand = {} THEN q.record.candidates ELSE q.cand}
         r     == reconcile_candidates(claim(q.record, p, q.models), q.lock, names)
     IN  Save(p, WithPending(r, q.cand), "prune snapshots")
  /\ UNCHANGED <<diskVars, archiveVars, pulls, faults>>

Pins(p) == pull[p].models \cup CandidateRefs(pull[p].cand)
Keep(p) == UNION {Blobs[s] : s \in Pins(p)}

PruneSnapshots(p, stage, next) ==
  /\ PullAt(p, stage)
  /\ snaps' = snaps \ pull[p].record.retiring
  /\ links' = {l \in links : l[1] \notin pull[p].record.retiring}
  /\ StoreTo(p, next)
  /\ UNCHANGED <<record, blobs, damaged, archiveVars, pulls, faults>>

\* In the repositories of retiring snapshots, the blobs no snapshot reaches go; with the
\* last snapshot the repository goes.
Pruned(p) ==
  LET repos == {Repo[s] : s \in pull[p].record.retiring}
      empty == {r \in repos : \A s \in snaps : Repo[s] # r}
      reach == {l[2] : l \in links}
  IN  {b \in AllBlobs : \E s \in StoreSnapshots :
         /\ b \in Blobs[s]
         /\ \/ Repo[s] \in empty
            \/ Repo[s] \in repos /\ b \notin reach /\ b \notin Keep(p)}

PruneBlobs(p, stage, next) ==
  /\ PullAt(p, stage)
  /\ blobs' = [b \in AllBlobs |-> IF b \in Pruned(p) THEN "absent" ELSE blobs[b]]
  /\ StoreTo(p, next)
  /\ UNCHANGED <<record, snaps, links, damaged, archiveVars, pulls, faults>>

PullClears(p) ==
  /\ PullAt(p, "clear") /\ Save(p, [pull[p].record EXCEPT !.retiring = {}], "fetch")
  /\ UNCHANGED <<diskVars, archiveVars, pulls, faults>>

\* A file that is on disk and whole is linked; a spoilt one goes first, link and blob.
FileState(s, b) ==
  CASE blobs[b] = "good" -> IF <<s, b>> \in links THEN "present" ELSE "unlinked"
    [] blobs[b] = "bad"  -> "mismatched"
    [] OTHER             -> blobs[b]

ToConverge(p) == {f \in UNION {Files(s) : s \in Pins(p)} : FileState(f[1], f[2]) # "present"}

FileRelinked(p) ==
  /\ PullAt(p, "fetch")
  /\ \E f \in ToConverge(p) :
       /\ FileState(f[1], f[2]) = "unlinked"
       /\ snaps' = snaps \cup {f[1]} /\ links' = links \cup {f}
  /\ UNCHANGED <<record, blobs, damaged, pull, archiveVars, pulls, faults>>

FileFetchBegins(p) ==
  /\ PullAt(p, "fetch")
  /\ \E f \in ToConverge(p) :
       /\ FileState(f[1], f[2]) \in {"absent", "mismatched"}
       /\ snaps' = snaps \cup {f[1]} /\ links' = links \ {f}
       /\ blobs' = [blobs EXCEPT ![f[2]] = "partial"]
  /\ UNCHANGED <<record, damaged, pull, archiveVars, pulls, faults>>

\* Size and digest are checked on the partial; then it is moved into place and linked.
FileFetched(p) ==
  /\ PullAt(p, "fetch")
  /\ \E f \in ToConverge(p) :
       /\ FileState(f[1], f[2]) = "partial"
       /\ snaps' = snaps \cup {f[1]} /\ links' = links \cup {f}
       /\ blobs' = [blobs EXCEPT ![f[2]] = "good"]
  /\ UNCHANGED <<record, damaged, pull, archiveVars, pulls, faults>>

PullRotates(p) ==
  /\ PullAt(p, "fetch") /\ ToConverge(p) = {}
  /\ Save(p, rotate(pull[p].record), "rotated")
  /\ UNCHANGED <<diskVars, archiveVars, pulls, faults>>

PullReleases(p) ==
  /\ PullAt(p, "release")
  /\ record' = release(pull[p].record) /\ pull' = [pull EXCEPT ![p] = IdlePull]
  /\ UNCHANGED <<diskVars, archiveVars, pulls, faults>>

\* A stage fails or the process dies; its journal entry stays.
PullStops(p) ==
  /\ pull[p].stage # "idle" /\ faults < MaxFaults /\ faults' = faults + 1
  /\ pull' = [pull EXCEPT ![p] = IdlePull]
  /\ UNCHANGED <<record, diskVars, archiveVars, pulls>>

Pull(p) ==
  \/ \E models \in Profiles, lock \in CandidateLocks :
        \E cand \in {{}} \cup {{c} : c \in lock} : PullLoads(p, models, lock, cand)
  \/ PullClaims(p)
  \/ PruneSnapshots(p, "prune snapshots", "prune blobs") \/ PruneBlobs(p, "prune blobs", "clear")
  \/ PullClears(p) \/ FileRelinked(p) \/ FileFetchBegins(p) \/ FileFetched(p) \/ PullRotates(p)
  \/ PruneSnapshots(p, "rotated", "rotated blobs") \/ PruneBlobs(p, "rotated blobs", "release")
  \/ PullReleases(p) \/ PullStops(p)

-----------------------------------------------------------------------------
(* archive push *)

OnDisk(f) == f \in links /\ blobs[f[2]] \in {"good", "bad"}

PushUnchanged == UNCHANGED <<record, diskVars, pull, faults>>

PushInventory ==
  /\ push.stage = "idle" /\ snaps # {} /\ pulls < MaxPulls /\ pulls' = pulls + 1
  /\ push' = [stage |-> "copy", held |-> snaps,
              present |-> {f \in UNION {Files(s) : s \in snaps} : OnDisk(f)}]
  /\ UNCHANGED <<archive, recorded>> /\ PushUnchanged

\* A file that left the disk since the inventory fails the copy.
PushCopies ==
  /\ push.stage = "copy"
  /\ IF \A f \in push.present : OnDisk(f)
     THEN archive' = archive \cup push.present /\ push' = [push EXCEPT !.stage = "check"]
     ELSE archive' = archive /\ push' = IdlePush
  /\ UNCHANGED <<recorded, pulls>> /\ PushUnchanged

\* Present files are compared; a held snapshot's missing ones must be in the archive.
PushChecks ==
  /\ push.stage = "check"
  /\ LET files == UNION {Files(s) : s \in push.held}
     IN  push' = IF /\ \A f \in push.present : OnDisk(f)
                    /\ files \subseteq archive
                 THEN [push EXCEPT !.stage = "audit"] ELSE IdlePush
  /\ UNCHANGED <<archive, recorded, pulls>> /\ PushUnchanged

PushAudits ==
  /\ push.stage = "audit"
  /\ recorded' = push.held /\ push' = IdlePush
  /\ UNCHANGED <<archive, pulls>> /\ PushUnchanged

Push == PushInventory \/ PushCopies \/ PushChecks \/ PushAudits

-----------------------------------------------------------------------------

\* A file on disk is spoilt.
Spoilt(b) ==
  /\ blobs[b] = "good" /\ faults < MaxFaults /\ faults' = faults + 1
  /\ blobs' = [blobs EXCEPT ![b] = "bad"] /\ damaged' = damaged \cup {b}
  /\ UNCHANGED <<record, snaps, links, pull, archiveVars, pulls>>

StoreInit ==
  /\ record = FreshRecord /\ snaps = {} /\ links = {} /\ blobs = [b \in AllBlobs |-> "absent"]
  /\ pull = [p \in Pullers |-> IdlePull] /\ archive = {} /\ push = IdlePush /\ recorded = {}
  /\ damaged = {} /\ pulls = 0 /\ faults = 0

StoreNext == Push \/ (\E p \in Pullers : Pull(p)) \/ (\E b \in AllBlobs : Spoilt(b))

StoreSpec == StoreInit /\ [][StoreNext]_storeVars

-----------------------------------------------------------------------------
(* Properties *)

\* The snapshots the journal names as current and as previous (what the engine serves and
\* what a rollback serves) are whole on disk at every moment of every later pull: through
\* its prunes, its crashes and its re-runs.
NamedWhole ==
  \A s \in record.current \cup record.previous :
     \A b \in Blobs[s] \ damaged : <<s, b>> \in links /\ blobs[b] = "good"

\* When no pull holds the journal, no snapshot directory is left that nothing names: every
\* displaced one was retired and removed, whichever step earlier pulls died at.  (One that
\* a lock pins as a candidate is spared by every pull under that lock, journalled or not.)
NothingLeaks ==
  record.in_progress = NoPull
    => snaps \subseteq record.current \cup record.previous
                        \cup CandidateRefs(record.candidates \cup UNION CandidateLocks)

\* A snapshot an audit row reports as archived is held by the archive in every file, the
\* ones that were missing on the box included.
ArchiveHolds == \A s \in recorded : Files(s) \subseteq archive

\* The model store through pulls that are killed and rerun, and pushes to the archive: what
\* is named is whole, what is not named is gone, what is told as archived is archived.
StoreSound == NamedWhole /\ NothingLeaks /\ ArchiveHolds
=============================================================================

-------------------------------- MODULE Retention --------------------------------
(* The nightly retention sweep of Open WebUI.  It lists every account's chats, the    *)
(* knowledge bases' files and the ratings, then goes account by account: the expired  *)
(* chats are read again, a chat taken up meanwhile is spared with its files, the      *)
(* others are deleted, then their uploads and the ratings that hang on them, then the *)
(* account's audit rows are written.  Users go on working all the while.              *)
EXTENDS Integers, FiniteSets

CONSTANTS
  ChatSet,    \* the chats
  Holder,     \* chat -> its account; upload -> the account that owns it
  Uploads,    \* the uploaded files
  Shapes0,    \* what the frontend may hold when the sweep starts
  MaxEdits,   \* bound on what the users do meanwhile
  MaxMisses   \* bound on the calls that fail

ASSUME RetentionShapes ==
  /\ ChatSet \cap Uploads = {} /\ DOMAIN Holder = ChatSet \cup Uploads
  /\ Shapes0 \subseteq [age : [ChatSet -> {"old", "fresh"}], names : [ChatSet -> SUBSET Uploads],
                        rated : [ChatSet -> {"none", "old", "fresh"}], kept : SUBSET Uploads]
  /\ MaxEdits \in Nat /\ MaxMisses \in Nat

VARIABLES
  age,       \* chat -> "old", "fresh" or "gone"
  namedIn,     \* chat -> the uploads its messages name
  uploads,   \* the uploads there are
  rated,     \* chat -> its rating: "none", "old" or "fresh"
  kept,      \* the uploads in knowledge bases
  sweep,     \* the command: place, account, what it read and did
  sweptRows, \* the chats with a chat_swept row, and the rows of ratings swept by age
  touched,   \* the chats their owners changed since the sweep listed them
  edits, misses

sweepVars == <<age, namedIn, uploads, rated, kept, sweep, sweptRows, touched, edits, misses>>

Owners == {Holder[c] : c \in ChatSet}
Ledger == [chats |-> {}, ratings |-> {}]
NoSweep == [at |-> "start", listed |-> [c \in {} |-> "gone"], knowledge |-> {}, ratings |-> [c \in {} |-> "none"],
            whole |-> TRUE, owners |-> Owners, owner |-> "none", toRead |-> {}, candidates |-> {},
            protected |-> {}, swept |-> {}, dropped |-> {}, targets |-> {}, failed |-> FALSE, complete |-> TRUE]

On0(place) == sweep.at = place
Now0(fields) == sweep' = [f \in DOMAIN sweep |-> IF f \in DOMAIN fields THEN fields[f] ELSE sweep[f]]
Miss == misses > 0 /\ misses' = misses - 1
Frontend == <<age, namedIn, uploads, rated, kept>>
Outside == <<touched, edits>>

Mine0 == {c \in ChatSet : Holder[c] = sweep.owner /\ sweep.listed[c] # "gone"}
OldOnes == {c \in Mine0 : sweep.listed[c] = "old"}
Survivors == Mine0 \ OldOnes

-----------------------------------------------------------------------------
\* select: accounts and chats first, then the knowledge files, then the ratings.  A failed
\* listing of chats leaves everything for the next run.
select ==
  /\ On0("start")
  /\ \/ /\ Now0([at |-> "knowledge", listed |-> age])
        /\ UNCHANGED misses
     \/ /\ Miss
        /\ Now0([at |-> "end", failed |-> TRUE])
  /\ touched' = {}
  /\ UNCHANGED <<Frontend, sweptRows, edits>>

\* Without the whole listing of knowledge files no account with uploads is swept.
KnowledgeListed ==
  /\ On0("knowledge")
  /\ \/ Now0([at |-> "ratings", knowledge |-> kept]) /\ UNCHANGED misses
     \/ Miss /\ Now0([at |-> "ratings", whole |-> FALSE, failed |-> TRUE])
  /\ UNCHANGED <<Frontend, sweptRows, Outside>>

RatingsListed ==
  /\ On0("ratings")
  /\ \/ Now0([at |-> "header", ratings |-> rated]) /\ UNCHANGED misses
     \/ Miss /\ Now0([at |-> "header", ratings |-> [c \in ChatSet |-> "none"], failed |-> TRUE])
  /\ UNCHANGED <<Frontend, sweptRows, Outside>>

\* apply: nothing is swept without the run's own row.
HeaderRow ==
  /\ On0("header")
  /\ \/ Now0([at |-> "account"]) /\ UNCHANGED misses
     \/ Miss /\ Now0([at |-> "end", failed |-> TRUE])
  /\ UNCHANGED <<Frontend, sweptRows, Outside>>

\* apply: one account after another; the last one ends the run.
NextAccount ==
  /\ On0("account")
  /\ IF sweep.owners = {} THEN Now0([at |-> "end"])
     ELSE LET o == CHOOSE x \in sweep.owners : TRUE
          IN  Now0([at |-> "discover", owner |-> o, owners |-> sweep.owners \ {o},
                    toRead |-> {c \in ChatSet : Holder[c] = o /\ sweep.listed[c] = "old"},
                    candidates |-> {}, protected |-> {}, swept |-> {}, dropped |-> {},
                    targets |-> {}, complete |-> TRUE])
  /\ UNCHANGED <<Frontend, sweptRows, Outside, misses>>

-----------------------------------------------------------------------------
(* discover. *)

\* _chat_record of a candidate: vanished, taken up meanwhile, or still expired.
ReadsCandidate(c) ==
  /\ On0("discover") /\ c \in sweep.toRead
  /\ \/ /\ UNCHANGED misses
        /\ Now0([toRead |-> sweep.toRead \ {c},
                 protected |-> IF age[c] = "fresh" THEN sweep.protected \cup namedIn[c] ELSE sweep.protected,
                 candidates |-> IF age[c] = "old" THEN sweep.candidates \cup {<<c, namedIn[c]>>} ELSE sweep.candidates])
     \/ /\ Miss
        /\ Now0([toRead |-> sweep.toRead \ {c}, complete |-> FALSE, failed |-> TRUE])
  /\ UNCHANGED <<Frontend, sweptRows, Outside>>

\* When a candidate names an upload, every surviving chat of the account is read too.
Naming == \E pair \in sweep.candidates : pair[2] # {}
CandidatesRead ==
  LET whole == sweep.complete /\ (Naming => sweep.whole)
  IN  /\ On0("discover") /\ sweep.toRead = {}
      /\ IF ~whole THEN Now0([at |-> "feedback", failed |-> TRUE, candidates |-> {}])
         ELSE Now0([at |-> IF Naming THEN "survivors" ELSE "delete",
                    toRead |-> IF Naming THEN Survivors ELSE {}])
      /\ UNCHANGED <<Frontend, sweptRows, Outside, misses>>

\* A survivor that cannot be read leaves the account for the next run.
ReadsSurvivor(c) ==
  /\ On0("survivors") /\ c \in sweep.toRead
  /\ \/ /\ UNCHANGED misses
        /\ Now0([toRead |-> sweep.toRead \ {c},
                 protected |-> IF age[c] = "gone" THEN sweep.protected ELSE sweep.protected \cup namedIn[c]])
     \/ /\ Miss
        /\ Now0([at |-> "feedback", failed |-> TRUE, candidates |-> {}, toRead |-> {}])
  /\ UNCHANGED <<Frontend, sweptRows, Outside>>

SurvivorsRead ==
  /\ On0("survivors") /\ sweep.toRead = {}
  /\ Now0([at |-> "delete"])
  /\ UNCHANGED <<Frontend, sweptRows, Outside, misses>>

-----------------------------------------------------------------------------
(* sweep_chats. *)

\* Mutant: the uploads of a chat whose deletion failed are not protected.
SparedNothing(pair) == sweep.protected

\* An unconfirmed deletion, landed or not, protects the chat's uploads.
Spared(pair) == sweep.protected \cup pair[2]

delete_chat(pair) ==
  /\ On0("delete") /\ pair \in sweep.candidates
  /\ \/ /\ age' = [age EXCEPT ![pair[1]] = "gone"]
        /\ Now0([candidates |-> sweep.candidates \ {pair}, swept |-> sweep.swept \cup {pair[1]},
                 targets |-> sweep.targets \cup pair[2]])
        /\ UNCHANGED misses
     \/ /\ Miss \/ (age[pair[1]] = "gone" /\ UNCHANGED misses)
        /\ age' \in {age, [age EXCEPT ![pair[1]] = "gone"]}
        /\ Now0([candidates |-> sweep.candidates \ {pair}, protected |-> Spared(pair), failed |-> TRUE])
  /\ UNCHANGED <<namedIn, uploads, rated, kept, sweptRows, Outside>>

ChatsDeleted ==
  /\ On0("delete") /\ sweep.candidates = {}
  /\ Now0([at |-> "files"])
  /\ UNCHANGED <<Frontend, sweptRows, Outside, misses>>

\* sweep_file: read for its owner, then deleted unless something still names it.
Deletable(f) == f \in uploads /\ Holder[f] = sweep.owner /\ f \notin sweep.protected /\ f \notin sweep.knowledge
sweep_file(f) ==
  /\ On0("files") /\ f \in sweep.targets
  /\ \/ /\ uploads' = IF Deletable(f) THEN uploads \ {f} ELSE uploads
        /\ Now0([targets |-> sweep.targets \ {f}])
        /\ UNCHANGED misses
     \/ /\ Miss
        /\ uploads' \in {uploads, IF Deletable(f) THEN uploads \ {f} ELSE uploads}
        /\ Now0([targets |-> sweep.targets \ {f}, failed |-> TRUE])
  /\ UNCHANGED <<age, namedIn, rated, kept, sweptRows, Outside>>

FilesSwept ==
  /\ On0("files") /\ sweep.targets = {}
  /\ Now0([at |-> "feedback"])
  /\ UNCHANGED <<Frontend, sweptRows, Outside, misses>>

\* sweep_feedback: the ratings of swept chats, and the old ones.
Hangs(c) == /\ Holder[c] = sweep.owner /\ sweep.ratings[c] # "none" /\ c \notin sweep.dropped
            /\ c \in sweep.swept \/ sweep.ratings[c] = "old"
sweep_feedback(c) ==
  /\ On0("feedback") /\ Hangs(c)
  /\ \/ /\ rated[c] # "none"
        /\ rated' = [rated EXCEPT ![c] = "none"]
        /\ Now0([dropped |-> sweep.dropped \cup {c}])
        /\ UNCHANGED misses
     \/ /\ \/ rated[c] = "none" /\ UNCHANGED <<rated, misses>>
           \/ Miss /\ rated' \in {rated, [rated EXCEPT ![c] = "none"]}
        /\ Now0([ratings |-> [sweep.ratings EXCEPT ![c] = "none"], failed |-> TRUE])
  /\ UNCHANGED <<age, namedIn, uploads, kept, sweptRows, Outside>>

\* The account's rows, in one write, after what they tell.
AccountRows ==
  /\ On0("feedback") /\ \A c \in ChatSet : ~Hangs(c)
  /\ \/ /\ sweptRows' = [chats |-> sweptRows.chats \cup sweep.swept,
                         ratings |-> sweptRows.ratings \cup sweep.dropped]
        /\ Now0([at |-> "account"])
        /\ UNCHANGED misses
     \/ /\ Miss
        /\ Now0([at |-> "account", failed |-> TRUE])
        /\ UNCHANGED sweptRows
  /\ UNCHANGED <<Frontend, Outside>>

-----------------------------------------------------------------------------
(* The users. *)

Edit == edits > 0 /\ edits' = edits - 1

\* Someone writes in an old chat, naming an upload of theirs or not.
TakesUp(c, more) ==
  /\ Edit /\ age[c] # "gone"
  /\ age' = [age EXCEPT ![c] = "fresh"]
  /\ namedIn' = [namedIn EXCEPT ![c] = @ \cup more]
  /\ touched' = touched \cup {c}
  /\ UNCHANGED <<uploads, rated, kept, sweep, sweptRows, misses>>

DeletesOwn(c) ==
  /\ Edit /\ age[c] # "gone"
  /\ age' = [age EXCEPT ![c] = "gone"]
  /\ touched' = touched \cup {c}
  /\ UNCHANGED <<namedIn, uploads, rated, kept, sweep, sweptRows, misses>>

SweepInit ==
  /\ \E s \in Shapes0 : age = s.age /\ namedIn = s.names /\ rated = s.rated /\ kept = s.kept
  /\ uploads = Uploads
  /\ sweep = NoSweep
  /\ sweptRows = Ledger
  /\ touched = {}
  /\ edits = MaxEdits /\ misses = MaxMisses

SweepStep ==
  \/ select \/ KnowledgeListed \/ RatingsListed \/ HeaderRow \/ NextAccount
  \/ \E c \in ChatSet : ReadsCandidate(c) \/ ReadsSurvivor(c) \/ sweep_feedback(c)
  \/ CandidatesRead \/ SurvivorsRead
  \/ \E pair \in sweep.candidates : delete_chat(pair)
  \/ \E f \in sweep.targets : sweep_file(f)
  \/ ChatsDeleted \/ FilesSwept \/ AccountRows

SweepNext ==
  \/ SweepStep
  \/ \E c \in ChatSet : DeletesOwn(c) \/ \E more \in {{}} \cup {{f} : f \in uploads} : TakesUp(c, more)

SweepSpec == SweepInit /\ [][SweepNext]_sweepVars

-----------------------------------------------------------------------------
(* Properties. *)

\* No chat that its owner left alone loses an upload of theirs that it names: not a chat
\* that survives and not one whose deletion was not confirmed, and another account's
\* sweep takes none (sweep_chats' protected set, filled before the first upload goes).
NamedSpared ==
  \A c \in ChatSet \ touched : age[c] # "gone" =>
    \A f \in namedIn[c] : Holder[f] = Holder[c] => f \in uploads

\* Only expired chats go, and a sweep that ends well has an audit row for every chat and
\* every rating it took, and left none of a swept chat's ratings (apply's rows).
SweptTold ==
  (On0("end") /\ ~sweep.failed) =>
    /\ \A c \in ChatSet \ touched : (age[c] = "gone" /\ sweep.listed[c] # "gone") =>
         c \in sweptRows.chats /\ sweep.listed[c] = "old" /\ rated[c] = "none"
    /\ \A c \in ChatSet : (rated[c] = "none" /\ sweep.ratings[c] # "none") => c \in sweptRows.ratings

\* A sweep takes nothing that is still named and tells all it took.
SweepSound == NamedSpared /\ SweptTold
=============================================================================

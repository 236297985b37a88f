--------------------------------- MODULE Secrets ---------------------------------
(* The box's secret files and what the running services hold of them.  A service     *)
(* reads a mounted secret when its container is created; a carried one reaches it in *)
(* a rendered file, which apply compares with the applied record.  `secrets rotate`  *)
(* writes a new value, recreates the mounters and converges; Grafana's stored        *)
(* password is reset first and filed afterwards, under no lock.                      *)
EXTENDS Integers, FiniteSets

CONSTANTS
  SecretRegistry, \* SECRET_REGISTRY: name -> its kind, class, mounters and carriers
  Rotators,       \* the commands that may run at once
  MaxDraws,       \* bound on the values drawn
  MaxSnags        \* bound on the failures and the kills

ASSUME SecretShapes ==
  /\ \A n \in DOMAIN SecretRegistry :
       LET entry == SecretRegistry[n]
       IN  /\ entry.kind \in {"password", "key", "certificate", "minted"}
           /\ entry.rotation \in {"rewrite", "remint", "seeded", "role", "account"}
           /\ entry.kind = "minted" <=> entry.rotation = "remint"
           /\ entry.kind = "minted" => entry.mounts = {} /\ entry.carried = {}
           /\ entry.rotation = "seeded" =>
                entry.kind = "password" /\ \A m \in DOMAIN SecretRegistry : SecretRegistry[m].rotation = "seeded" => m = n
           /\ entry.kind = "certificate" =>
                entry.from \in DOMAIN SecretRegistry /\ SecretRegistry[entry.from].kind = "key"
           /\ entry.kind = "key" =>
                \E c \in DOMAIN SecretRegistry : SecretRegistry[c].kind = "certificate" /\ SecretRegistry[c].from = n
  /\ "none" \notin DOMAIN SecretRegistry /\ 0 \notin Rotators
  /\ MaxDraws \in Nat /\ MaxSnags \in Nat

VARIABLES
  secretFiles, \* name -> the value in the file: its number, and the key it certifies
  holdings,    \* service -> the values its container was created with
  renderedOf,  \* carried name -> the value in the applied record
  stored,      \* Grafana's stored administrator password
  rotators,    \* per command its secret, place and drawn value
  engineLock,  \* the command holding the lock, or 0
  seededFails, \* a seeded rotation failed or died since the last began alone
  drawn, snags

secretVars == <<secretFiles, holdings, renderedOf, stored, rotators, engineLock,
                seededFails, drawn, snags>>

SecretNames == DOMAIN SecretRegistry
None0 == [n |-> 0, of |-> 0]
Resting == [op |-> "none", name |-> "none", at |-> "idle", value |-> 0, code |-> 0]

OfKind(kind) == {n \in SecretNames : SecretRegistry[n].kind = kind}
OfClass(class) == {n \in SecretNames : SecretRegistry[n].rotation = class}
issued_certificate(key) == CHOOSE n \in OfKind("certificate") : SecretRegistry[n].from = key

\* consumers_of
MountersOf(n) == SecretRegistry[n].mounts
CarriersOf(n) == SecretRegistry[n].carried
Mounted(s) == {n \in SecretNames : s \in MountersOf(n)}
CarriedNames == {n \in SecretNames : CarriersOf(n) # {}}

Exists(n) == secretFiles[n] # None0
_certificate_matches(c) == secretFiles[c].of = secretFiles[SecretRegistry[c].from].n

At0(r, place) == rotators[r].at = place
Goes1(r, place) == rotators' = [rotators EXCEPT ![r].at = place]
Ends1(r, code) == rotators' = [rotators EXCEPT ![r] = [Resting EXCEPT !.at = "ended", !.code = code,
                                                               !.name = rotators[r].name, !.op = rotators[r].op]]
Snag == snags > 0 /\ snags' = snags - 1
Draws == drawn < MaxDraws /\ drawn' = drawn + 1

TheStack == <<secretFiles, holdings, renderedOf, stored>>

-----------------------------------------------------------------------------
(* rotate: the checks. *)

\* recreate_judgment, of secrets: the carriers of a value the record does not hold.
Pending == {n \in CarriedNames : renderedOf[n] # secretFiles[n]}

\* A seeded rotation's steps, from its start to its end.
SeededPlaces == {"reset", "file", "sign-in", "signing"}
SeededQuiet == \A r \in Rotators : rotators[r].at \notin SeededPlaces

\* _pre_run_refusal and _preconditions, read before the lock is claimed.
RotateStarts(r, n) ==
  /\ rotators[r].at = "idle"
  /\ rotators' = [rotators EXCEPT ![r] =
       IF SecretRegistry[n].rotation \in {"role", "account"} \/ Pending # {}
       THEN [Resting EXCEPT !.op = "rotate", !.name = n, !.at = "ended", !.code = 1]
       ELSE [Resting EXCEPT !.op = "rotate", !.name = n,
                            !.at = IF SecretRegistry[n].rotation = "seeded" THEN "reset" ELSE "claim"]]
  /\ seededFails' = (seededFails /\ (SeededQuiet => rotators'[r].at # "reset"))
  /\ UNCHANGED <<TheStack, engineLock, drawn, snags>>

\* run_apply
ApplyStarts(r) ==
  /\ rotators[r].at = "idle"
  /\ rotators' = [rotators EXCEPT ![r] = [Resting EXCEPT !.op = "apply", !.at = "claim"]]
  /\ UNCHANGED <<TheStack, engineLock, seededFails, drawn, snags>>

\* backuplock.claim: the command that holds the lock makes another refuse.  A rewrite no
\* service consumes ends here.
Claims0(r) ==
  LET n == rotators[r].name
      idle == /\ rotators[r].op = "rotate" /\ SecretRegistry[n].rotation = "rewrite"
              /\ MountersOf(n) = {} /\ CarriersOf(n) = {}
  IN  /\ At0(r, "claim")
      /\ IF engineLock # 0 THEN Ends1(r, 1) /\ UNCHANGED engineLock
         ELSE IF idle THEN Ends1(r, 0) /\ UNCHANGED engineLock
         ELSE /\ engineLock' = r
              /\ Goes1(r, IF rotators[r].op = "apply" THEN "ensure" ELSE "write")
      /\ UNCHANGED <<TheStack, seededFails, drawn, snags>>

-----------------------------------------------------------------------------
(* rotate: the value. *)

\* rotate_generated: a key is followed by its certificate; _rotate removes a minted key's
\* file.
rotate_generated(r) ==
  LET n == rotators[r].name
      kind == SecretRegistry[n].kind
  IN  /\ At0(r, "write")
      /\ IF SecretRegistry[n].rotation = "remint"
         THEN /\ secretFiles' = [secretFiles EXCEPT ![n] = None0]
              /\ Goes1(r, "recreate") /\ UNCHANGED drawn
         ELSE /\ Draws
              /\ secretFiles' = [secretFiles EXCEPT ![n] =
                   [n |-> drawn', of |-> IF kind = "certificate"
                                         THEN secretFiles[SecretRegistry[n].from].n ELSE 0]]
              /\ Goes1(r, IF kind = "key" THEN "certify" ELSE "recreate")
      /\ UNCHANGED <<holdings, renderedOf, stored, engineLock, seededFails, snags>>

\* _issue_certificate, after the key's move.
_issue_certificate(r) ==
  /\ At0(r, "certify")
  /\ Draws
  /\ LET key == rotators[r].name
     IN  secretFiles' = [secretFiles EXCEPT ![issued_certificate(key)] =
                           [n |-> drawn', of |-> secretFiles[key].n]]
  /\ Goes1(r, "recreate")
  /\ UNCHANGED <<holdings, renderedOf, stored, engineLock, seededFails, snags>>

\* A recreated container reads every secret it mounts, and the rendered files as they are.
Recreated(services) ==
  [s \in DOMAIN holdings |->
     IF s \in services
     THEN [n \in SecretNames |-> IF n \in Mounted(s) THEN secretFiles[n] ELSE holdings[s][n]]
     ELSE holdings[s]]

\* Mutant: the services that mount the secret run on with the old value.
MountersSkipped(r) == holdings

\* _recreate: one service at a time, in service order.
MountersRecreated(r) == Recreated(MountersOf(rotators[r].name))

_recreate(r) ==
  /\ At0(r, "recreate")
  /\ holdings' = MountersRecreated(r)
  /\ Goes1(r, "ensure")
  /\ UNCHANGED <<secretFiles, renderedOf, stored, engineLock, seededFails, drawn, snags>>

-----------------------------------------------------------------------------
(* converge. *)

\* ensure_generated, one file at a time in the registry's order: passwords and keys that
\* are absent, then the certificates a key does not match.
Lacking == {n \in SecretNames : SecretRegistry[n].kind \in {"password", "key"} /\ ~Exists(n)}
Unmatched == {c \in OfKind("certificate") : ~Exists(c) \/ ~_certificate_matches(c)}
Repairs == IF Lacking # {} THEN Lacking ELSE Unmatched

ensure_generated(r) ==
  /\ At0(r, "ensure")
  /\ IF Repairs = {}
     THEN Goes1(r, "render") /\ UNCHANGED <<secretFiles, drawn>>
     ELSE \E n \in Repairs :
            /\ Draws
            /\ secretFiles' = [secretFiles EXCEPT ![n] =
                 [n |-> drawn', of |-> IF SecretRegistry[n].kind = "certificate"
                                       THEN secretFiles[SecretRegistry[n].from].n ELSE 0]]
            /\ UNCHANGED rotators
  /\ UNCHANGED <<holdings, renderedOf, stored, engineLock, seededFails, snags>>

\* The render and recreate stages: the owners of a carried file that differs from the
\* record are recreated, and a recreated carrier holds the rendered value.
Converges0(r) ==
  LET again == UNION {CarriersOf(n) : n \in Pending}
      mounts == Recreated(again)
  IN  /\ At0(r, "render")
      /\ holdings' = [s \in DOMAIN holdings |->
           [n \in SecretNames |-> IF s \in again /\ s \in CarriersOf(n) THEN secretFiles[n]
                                                                       ELSE mounts[s][n]]]
      /\ Goes1(r, "manifest")
      /\ UNCHANGED <<secretFiles, renderedOf, stored, engineLock, seededFails, drawn, snags>>

\* _apply_manifest_stage: an API key whose file is missing is minted again.
MintsAgain(r) ==
  LET gone == {n \in OfKind("minted") : ~Exists(n)}
  IN  /\ At0(r, "manifest")
      /\ IF gone = {} THEN UNCHANGED <<secretFiles, drawn>>
         ELSE \E n \in gone :
                /\ Draws
                /\ secretFiles' = [secretFiles EXCEPT ![n] = [n |-> drawn', of |-> 0]]
      /\ Goes1(r, IF Cardinality(gone) > 1 THEN "manifest" ELSE "record")
      /\ UNCHANGED <<holdings, renderedOf, stored, engineLock, seededFails, snags>>

\* _record_stage, and the claim released.
Records1(r) ==
  /\ At0(r, "record")
  /\ renderedOf' = [n \in CarriedNames |-> secretFiles[n]]
  /\ Ends1(r, 0)
  /\ engineLock' = 0
  /\ UNCHANGED <<secretFiles, holdings, stored, seededFails, drawn, snags>>

-----------------------------------------------------------------------------
(* The seeded password. *)

\* _reset: Grafana holds the drawn value; a timed-out or failed call may have changed it too.
_reset(r) ==
  /\ At0(r, "reset")
  /\ Draws
  /\ \/ /\ stored' = drawn'
        /\ rotators' = [rotators EXCEPT ![r] = [@ EXCEPT !.at = "file", !.value = drawn']]
        /\ UNCHANGED <<seededFails, snags>>
     \/ /\ Snag
        /\ stored' \in {stored, drawn'}
        /\ Ends1(r, 1)
        /\ seededFails' = TRUE
  /\ UNCHANGED <<secretFiles, holdings, renderedOf, engineLock>>

\* _write_seeded
_write_seeded(r) ==
  /\ At0(r, "file")
  /\ secretFiles' = [secretFiles EXCEPT ![rotators[r].name] = [n |-> rotators[r].value, of |-> 0]]
  /\ Goes1(r, "sign-in")
  /\ UNCHANGED <<holdings, renderedOf, stored, engineLock, seededFails, drawn, snags>>

\* _verify_sign_in: the file is read back once, by grafana.administrator.
_verify_sign_in(r) ==
  /\ At0(r, "sign-in")
  /\ rotators' = [rotators EXCEPT ![r] = [@ EXCEPT !.at = "signing", !.value = secretFiles[rotators[r].name].n]]
  /\ UNCHANGED <<TheStack, engineLock, seededFails, drawn, snags>>

\* Mutant: the answer to the sign-in is not looked at.
SignsInUnseen(r) == TRUE

\* verify_sign_in: the value read is tried over HTTPS, whatever the file holds by then.
SignsIn(r) == rotators[r].value = stored

verify_sign_in(r) ==
  /\ At0(r, "signing")
  /\ IF SignsIn(r) THEN Ends1(r, 0) /\ UNCHANGED seededFails
                   ELSE Ends1(r, 1) /\ seededFails' = TRUE
  /\ UNCHANGED <<TheStack, engineLock, drawn, snags>>

-----------------------------------------------------------------------------
(* Failures. *)

Underway(r) == rotators[r].at \notin {"idle", "ended"}
Released(r) == engineLock' = IF engineLock = r THEN 0 ELSE engineLock
Marked0(r) == seededFails' = (seededFails \/ rotators[r].at \in SeededPlaces)

\* A stage fails and the command returns 1, releasing its claim: of the mounters some may
\* have been recreated.
StageFails(r) ==
  /\ rotators[r].at \in {"write", "certify", "recreate", "ensure", "render", "manifest", "record",
                       "file", "sign-in", "signing"}
  /\ Snag
  /\ Released(r) /\ Ends1(r, 1) /\ Marked0(r)
  /\ IF At0(r, "recreate")
     THEN \E some \in SUBSET MountersOf(rotators[r].name) : holdings' = Recreated(some)
     ELSE UNCHANGED holdings
  /\ UNCHANGED <<secretFiles, renderedOf, stored, drawn>>

\* The process dies; the kernel drops its lock.
RotatorDies(r) ==
  /\ Underway(r)
  /\ Snag
  /\ Released(r) /\ Marked0(r)
  /\ rotators' = [rotators EXCEPT ![r] = Resting]
  /\ UNCHANGED <<TheStack, drawn>>

CommandOver(r) ==
  /\ At0(r, "ended")
  /\ rotators' = [rotators EXCEPT ![r] = Resting]
  /\ UNCHANGED <<TheStack, engineLock, seededFails, drawn, snags>>

-----------------------------------------------------------------------------
Services0 == UNION {MountersOf(n) \cup CarriersOf(n) : n \in SecretNames}

\* A box after its first apply.
SecretInit ==
  /\ secretFiles = [n \in SecretNames |-> [n |-> 1, of |-> IF SecretRegistry[n].kind = "certificate" THEN 1 ELSE 0]]
  /\ holdings = [s \in Services0 |-> secretFiles]
  /\ renderedOf = [n \in CarriedNames |-> secretFiles[n]]
  /\ stored = 1
  /\ rotators = [r \in Rotators |-> Resting]
  /\ engineLock = 0
  /\ seededFails = FALSE
  /\ drawn = 1 /\ snags = MaxSnags

Rotation(r) ==
  \/ \E n \in SecretNames : RotateStarts(r, n)
  \/ ApplyStarts(r) \/ Claims0(r)
  \/ rotate_generated(r) \/ _issue_certificate(r) \/ _recreate(r)
  \/ ensure_generated(r) \/ Converges0(r) \/ MintsAgain(r) \/ Records1(r)
  \/ _reset(r) \/ _write_seeded(r) \/ _verify_sign_in(r) \/ verify_sign_in(r)
  \/ StageFails(r) \/ RotatorDies(r) \/ CommandOver(r)

SecretNext == \E r \in Rotators : Rotation(r)

SecretSpec == SecretInit /\ [][SecretNext]_secretVars

-----------------------------------------------------------------------------
(* Properties. *)

\* The lock's holder ends with 0.
Succeeds(r) == engineLock = r /\ rotators'[r].at = "ended" /\ rotators'[r].code = 0

\* A rotation that ends with 0 has reached everyone: each service that mounts or carries
\* the secret holds the value in the file, whatever earlier rotations left half done
\* (run_secrets_rotate: the mounters recreated, the carriers by the converge).
RotationReaches ==
  [][\A r \in Rotators :
       LET n == rotators[r].name
       IN  Succeeds(r) /\ rotators[r].op = "rotate" =>
             \A s \in MountersOf(n) \cup CarriersOf(n) : holdings'[s][n] = secretFiles'[n]]_secretVars

\* An apply or a rotation that ends with 0 leaves every carrier of every secret but the
\* seeded one with the value in its file, even after a run that died before its converge
\* (recreate_judgment: the record still differs).
CarriersReached ==
  [][\A r \in Rotators : Succeeds(r) =>
       \A n \in CarriedNames \ OfClass("seeded") :
         \A s \in CarriersOf(n) : holdings'[s][n] = secretFiles'[n]]_secretVars

\* An apply or a rotation that ends with 0 leaves no key without its certificate, even
\* after a rotation that died between the two moves (ensure_generated's match check).
PairRepaired ==
  [][\A r \in Rotators : Succeeds(r) =>
       \A c \in OfKind("certificate") : secretFiles'[c].of = secretFiles'[SecretRegistry[c].from].n]_secretVars

\* A rotation that ends with 0 has reached every holder; a rotation or an apply that does
\* leaves every carrier with the values in the files and every key with its certificate,
\* whatever died before.  The mounters an apply does not reach: after a rotation killed
\* between its write and its recreate, one ends with 0 and they keep the old value until
\* the secret is rotated again (_recreate).
RotationSound == RotationReaches /\ CarriersReached /\ PairRepaired

\* Seeded rotations take no lock, and each reads the file and signs in with what it read in
\* two steps.  When none is under way and none has failed or died since one last began
\* alone, the file holds the password Grafana stores, whatever the order of their resets,
\* writes, reads and sign-ins (_rotate_seeded).
SeededAgrees ==
  ~seededFails /\ SeededQuiet => \A n \in OfClass("seeded") : secretFiles[n].n = stored
=============================================================================

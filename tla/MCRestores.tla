------------------------------ MODULE MCRestores ------------------------------
EXTENDS Restores

Nightly  == {[kind |-> "nightly", full |-> FALSE]}
EveryRun == Nightly \cup {[kind |-> "nightly", full |-> TRUE], [kind |-> "labelled", full |-> TRUE]}

\* A box after two nights, the second run full: what two runs leave when nothing is
\* stored meanwhile.
Night(n) ==
  [n |-> n, complete |-> TRUE, whole |-> TRUE, finished |-> n, boundary |-> n - 1, backup |-> n,
   listing |-> {}, repository |-> 1..n]

TwoNights ==
  /\ now = 2 /\ live = {} /\ lost = {} /\ stack = "up" /\ remote = {} /\ mishaps = 0
  /\ cluster = [tl |-> 1, log |-> [i \in 1..2 |-> [row |-> NoRow, at |-> i]]]
  /\ staging = [sets |-> {Night(1), Night(2)}, copy |-> {},
                backups |-> {[label |-> n, full |-> n, tl |-> 1, stop |-> n - 1, at |-> n - 1] : n \in 1..2},
                timelines |-> <<[chain |-> {}, log |-> cluster.log]>>]
  /\ run = [stage |-> "idle", n |-> 2, ok |-> TRUE]
  /\ push = [stage |-> "idle", label |-> 0, ok |-> TRUE]
  /\ restore = [stage |-> "idle", count |-> 0] /\ side = Nothing /\ replaced = Nothing

MCSpec == TwoNights /\ [][Next]_vars
=============================================================================

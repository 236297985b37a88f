------------------------- MODULE MCIndexGenerations -------------------------
EXTENDS IndexGenerations, TLC
Symmetry == Permutations(Gen)
\* A box with its first generation built, reported on and promoted.
Promoted == [NoRow EXCEPT !.state = "live", !.at = [h \in Half |-> TRUE], !.builtAt = TRUE,
                          !.promotedAt = TRUE, !.footprint = TRUE, !.counted = TRUE, !.report = "passed"]

InitServing ==
  \E first \in Gen :
    /\ rows = [g \in Gen |-> IF g = first THEN Promoted ELSE NoRow]
    /\ age = [g \in Gen |-> 0]
    /\ store = [h \in Half |-> [g \in Gen |-> IF g = first THEN "whole" ELSE "absent"]]
    /\ alias = [h \in Half |-> {first}]
    /\ job = [g \in Gen |-> [k \in Kind |-> "none"]]
    /\ body = [g \in Gen |-> [k \in Kind |-> [s \in Slot |-> "idle"]]]
    /\ cmd = NoCmd
    /\ rst = NoRst
    /\ tier = "up"
    /\ levelled = TRUE
    /\ turn = NoTurn
    /\ snap = NoSnap
    /\ spent = [commands |-> 0, stops |-> 0, fails |-> 0, crashes |-> 0, stalls |-> 0,
                backups |-> 0, restores |-> 0]

SpecServing == InitServing /\ [][Next]_vars
=============================================================================

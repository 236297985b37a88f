-------------------------- MODULE MCRetirementHold --------------------------
(* The index generations with the history the retirement hold is about: *)
(* which generations were ever promoted on this box.                     *)
EXTENDS MCIndexGenerations

VARIABLE served    \* history: the generations that were live at some time

InitServed == InitServing /\ served = Live

NextServed == Next /\ served' = served \cup {g \in Gen : rows'[g].state = "live"}

SpecServed == InitServed /\ [][NextServed]_<<vars, served>>

\* index gc keeps the stores of a generation that was ever promoted through its
\* retirement hold: "a previously promoted one keeps its retirement hold".
HoldKept ==
  [][\A g \in served, h \in Half :
       (cmd.op = "gc" /\ store[h][g] # "absent" /\ store'[h][g] = "absent")
         => age[g] >= Hold]_<<vars, served>>
=============================================================================

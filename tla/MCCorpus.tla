-------------------------------- MODULE MCCorpus --------------------------------
EXTENDS CorpusLabels

File(label, date, tr, courts, base) ==
  [label |-> label, pipeline |-> 1, date |-> date, ver |-> 1, tr |-> tr, base |-> base, courts |-> courts]

\* The box that cuts; and an office that receives three lockfiles and installs them
\* in any order.
BothBoxes ==
  {[lockfiles |-> {}, today |-> 1, served |-> <<1, 0>>, asks |-> 4],
   [lockfiles |-> {File(1, 1, 1, {"scotus"}, 0), File(2, 1, 2, Courts, 0), File(3, 2, 3, {"scotus"}, 0)},
    today |-> 3, served |-> <<1, 1>>, asks |-> 4]}
=============================================================================

-------------------------------- MODULE MCTurns -------------------------------
EXTENDS TurnHarness

Asked(mode, sessions, stream, slip) ==
  [mode |-> mode, sessions |-> sessions, stream |-> stream, slips |-> slip]

OneCase == <<"refused">>
EveryDriver ==
  {Asked("api", 2, FALSE, 1), Asked("api", 1, TRUE, 2), Asked("service", 2, TRUE, 1),
   Asked("browser", 1, FALSE, 1), Asked("browser", 2, FALSE, 0), Asked("unfiltered", 1, FALSE, 1)}
=============================================================================

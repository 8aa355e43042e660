------------------------------- MODULE MCDirector -------------------------------
(***************************************************************************)
(* Bounds for Director: two tickets that three shapes of match compete     *)
(* for (one roster of both, a roster each, one of them alone), a fleet     *)
(* with two game modes and, where the run is about fleets, a second one.   *)
(***************************************************************************)
EXTENDS Director

CONSTANTS t1, t2, f1, f2, modeA, modeB, modeC

MCRosters == {{{t1, t2}}, {{t1}, {t2}}, {{t2}}}
MCFleetRequests == [f \in Fleets |-> IF f = f1 THEN {modeA, modeB} ELSE {modeC}]
=============================================================================

--------------------------- MODULE MCMatchFunctions ---------------------------
(***************************************************************************)
(* Bounds for MatchFunctions: two FIFO runs, one of them with its tickets  *)
(* in two chunks, and a debug run; profiles that set all parameters (one   *)
(* as a backfill request does, with fewer seats than the minimum, and one  *)
(* with no rosters at all), one of them or none, with and without a list   *)
(* of functions for backfill.                                              *)
(***************************************************************************)
EXTENDS MatchFunctions

CONSTANTS r1, r2, d1, t1, t2, t3, t4, t5

MCChunks ==
    [r \in Runs |-> CASE r = r1 -> {<<t1, t2>>, <<t3>>}
                      [] r = r2 -> {<<t1, t2, t3, t4, t5>>}
                      [] OTHER -> {<<t1>>}]

Profile(num, len, min, mmf) == [num |-> num, len |-> len, min |-> min, mmf |-> mmf]

Contradicting == {Profile(1, 1, 3, TRUE), Profile(2, 2, 1, TRUE)}

\* A debug run only tells apart whether there are extensions.
MCProfiles ==
    [r \in Runs |->
        CASE r = r1 -> Contradicting \cup {Profile(0, 2, 1, TRUE), Profile(Unset, 3, Unset, FALSE),
                                          NoExtensions}
          [] r = r2 -> Contradicting \cup {Profile(Unset, 3, Unset, FALSE)}
          [] OTHER -> {Profile(2, 2, 1, TRUE), NoExtensions}]
=============================================================================

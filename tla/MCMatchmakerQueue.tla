--------------------------- MODULE MCMatchmakerQueue ---------------------------
(***************************************************************************)
(* Bounds for MatchmakerQueue: two requests, for one of which om-core may  *)
(* make a second ticket when its first answer is lost.                     *)
(***************************************************************************)
EXTENDS MatchmakerQueue

CONSTANTS r1, r2

MCCreations == [r \in Requests |-> IF r = r1 THEN 2 ELSE 1]
MCTicketIds == UNION {{r} \X (1..MCCreations[r]) : r \in Requests}
=============================================================================

----------------------------- MODULE MCOpenMatch1 -----------------------------
(***************************************************************************)
(* Bounds for OpenMatch1: two clients, two scenarios of each, two           *)
(* evaluations, and an Agones director whose function proposes up to two   *)
(* matches of any tickets, with a score or with criteria that cannot be    *)
(* read.  The first match proposals have no criteria.                      *)
(***************************************************************************)
EXTENDS OpenMatch1

CONSTANTS c1, c2

MCProposals(tickets) ==
    LET ms == [by : {"allocator"}, tickets : (SUBSET tickets) \ {{}}, score : {Unreadable, 1, 2}]
    IN  {{}} \cup {{m, n} : m, n \in ms}

MCNoCriteria == 0
=============================================================================

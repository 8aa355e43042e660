-------------------------------- MODULE MCFanIn --------------------------------
(* Bounds for FanIn: three invocations that stream two, one and one match. *)
EXTENDS FanIn

CONSTANTS i1, i2, i3, m1, m2, m3, m4

MCMatchesOf ==
    [i \in Invocations |-> CASE i = i1 -> {m1, m2} [] i = i2 -> {m3} [] i = i3 -> {m4}]
=============================================================================

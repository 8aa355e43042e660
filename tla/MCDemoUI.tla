------------------------------- MODULE MCDemoUI -------------------------------
(* Bounds for DemoUI: the first match director, and a fake player whose   *)
(* updater is nested in that of the page; two pages are open.              *)
EXTENDS DemoUI

CONSTANTS director, c1, clients, root, p1, p2

MCParent == [c \in Components |-> IF c = director THEN root ELSE clients]
=============================================================================

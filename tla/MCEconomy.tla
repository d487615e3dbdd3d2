----------------------------- MODULE MCEconomy -----------------------------
(* Two cities, c1 at (1, 2) and c2 at (4, 2), and three squares between them, all   *)
(* within one step of each other: (2, 2), (3, 2) and (3, 3).  c1 claims around      *)
(* (2, 1), c2 around (2, 4).                                                        *)
EXTENDS Economy, TLC

CONSTANTS c1, c2

Block     == 1 .. 3
BlockNear == [s \in Block |-> Block]
Reach     == c1 :> {1} @@ c2 :> {2, 3}
Claims    == c1 :> {1, 2} @@ c2 :> {3}
=============================================================================

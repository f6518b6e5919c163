------------------------------ MODULE MCIOCache ------------------------------
EXTENDS IOCache

CONSTANTS v1, v2, h1, h2

(* Two devices on adjacent, non-overlapping ranges and one unassigned     *)
(* address: 1..2 belongs to h1, 3 to h2, 4 to nobody.                     *)
MCRegions == {[start |-> 1, size |-> 2, handler |-> h1],
              [start |-> 3, size |-> 1, handler |-> h2]}

MCAddrs == {2, 3, 4}
=============================================================================

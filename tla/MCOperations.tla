---------------------------- MODULE MCOperations ----------------------------
(***************************************************************************)
(* Values of the constants of Operations: two of whatever overlaps with    *)
(* its like (ticks, runs, isolates, logins, models, calls).                *)
(***************************************************************************)
EXTENDS Operations

CONSTANTS t1, t2, r1, r2, i, j, l1, l2, a, b, s1, s2, p, q

MadeRuns   == {r1, r2}
Everywhere == {i, j}
Visits     == {l1, l2}
Listed     == {a, b}
Windows    == {s1, s2}
Vendors    == {p, q}
One        == {a}
Owner      == [m \in One |-> p]
Normal     == {1024}

(* Ticks are interchangeable, and so are the calls of the page.            *)
Symmetry == Permutations(Ticks) \cup Permutations(Windows)
=============================================================================

----------------------------- MODULE MCVisitor -----------------------------
(***************************************************************************)
(* Values of the constants of Visitor: five connections from two           *)
(* addresses; two models, two values of the filter, and for each of them   *)
(* rankings that differ from the other's.                                  *)
(***************************************************************************)
EXTENDS Visitor

CONSTANTS c1, c2, c3, c4, c5, i1, i2, a, b, p

Addresses == [x \in Conns |-> IF x \in {c1, c2, c3} THEN i1 ELSE i2]

Shown    == {a, b}
Filters  == {All, p}
Opened   == {<<a>>, <<b, b, a>>}
Rankings == [x \in Filters |-> IF x = p THEN {<<a>>, <<>>} ELSE {<<b, a>>, <<a, b>>}]
=============================================================================

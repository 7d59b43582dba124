-------------------------- MODULE MCSchedulerTick --------------------------
(* SchedulerTick with one provider of two or three models and another of   *)
(* one model.                                                              *)
EXTENDS SchedulerTick

CONSTANTS a1, a2, a3, b1, p, q, w1, t1

Owner == [m \in Models |-> IF m = b1 THEN q ELSE p]

ThreeByName == <<a1, a2, b1>>
FourByName  == <<a1, a2, a3, b1>>
JustAs      == <<a1, a2, a3>>

NoUsage   == {[r \in Providers |-> 0]}
SomeUsage == {[r \in Providers |-> n] : n \in 0 .. 1}
               \cup {[r \in Providers |-> IF r = p THEN 2 ELSE 0]}
TwoAndOne == [r \in Providers |-> IF r = p THEN 2 ELSE 1]
TwoEach   == [r \in Providers |-> 2]
=============================================================================

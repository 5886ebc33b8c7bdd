-------------------------- MODULE MCOverlaybdBuilder --------------------------
(* Instances of OverlaybdBuilder for TLC. *)
EXTENDS OverlaybdBuilder

Nowhere == [i \in 0..(N - 1) |-> {}]
Unrecorded == [i \in 0..(N - 1) |-> {"none"}]
Empty == [i \in 0..(N - 1) |-> {<<"none", "none">>}]

\* The record of the lower layer is right or wrong, and the repository holds
\* either; that of the upper one has gone, another repository has it.
BothRecorded == [Unrecorded EXCEPT ![0] = {"good", "bad"}, ![1] = {"good"}]
LowerPresent == [Nowhere EXCEPT ![0] = {"good", "bad"}]
UpperElsewhere == [Nowhere EXCEPT ![1] = {"good"}]

\* A run was interrupted while it committed the upper layer.
UpperLeft == [Empty EXCEPT ![1] = {<<"whole", "partial">>}]
=============================================================================

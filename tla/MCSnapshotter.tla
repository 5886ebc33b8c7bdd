---------------------------- MODULE MCSnapshotter ----------------------------
(* Instances of Snapshotter for TLC. *)
EXTENDS Snapshotter

OneLayer == [r \in Rootfs |-> CHOOSE l \in Layers : TRUE]
AutoRemove == {[asyncRemove |-> FALSE, autoRemoveDev |-> TRUE]}
DefaultAndBoth ==
  {[asyncRemove |-> FALSE, autoRemoveDev |-> FALSE], [asyncRemove |-> TRUE, autoRemoveDev |-> TRUE]}
=============================================================================

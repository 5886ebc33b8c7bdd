---------------------------- MODULE MCGraphBuilder ----------------------------
(* Instances of GraphBuilder for TLC. *)
EXTENDS GraphBuilder

\* An index of three descriptors and an index of one; all manifests, or one of
\* a type that cannot be converted.
NestedNodes == {"index", "amd64", "arm64", "extra", "nested", "v7"}
NestedParent == [n \in NestedNodes |-> IF n = "v7" THEN "nested" ELSE "index"]
NestedTypes ==
  {[n \in NestedNodes |-> IF n \in {"index", "nested"} THEN "index"
                          ELSE IF n = "extra" THEN t ELSE "manifest"] : t \in {"manifest", "other"}}
=============================================================================

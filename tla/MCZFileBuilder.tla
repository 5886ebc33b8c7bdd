---------------------------- MODULE MCZFileBuilder ----------------------------
(* ZFileBuilder on small streams, for TLC. *)
EXTENDS ZFileBuilder
==============================================================================

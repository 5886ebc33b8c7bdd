-------------------------- MODULE MCZFileBuilderMP ---------------------------
(* Small instances of ZFileBuilderMP for TLC. *)
EXTENDS ZFileBuilderMP
==============================================================================

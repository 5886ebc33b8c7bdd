----------------------------- MODULE MCZFileRead ------------------------------
(* ZFileRead on sources of a few bytes, for TLC. *)
EXTENDS ZFileRead
==============================================================================

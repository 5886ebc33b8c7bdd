------------------------------ MODULE MCLSMTIndex ------------------------------
(* LSMTIndex on a device of a few sectors, for TLC. *)
EXTENDS LSMTIndex
==============================================================================

------------------------------ MODULE MCLSMTFile ------------------------------
(* LSMTFile with a few photon threads on a tiny disk, for TLC. *)
EXTENDS LSMTFile, TLC

\* The threads are interchangeable.
ThreadSymmetry == Permutations(Threads)
==============================================================================

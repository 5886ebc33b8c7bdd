---------------------------- MODULE MCFileCache ----------------------------
(* A small instance of the file cache for TLC. *)
EXTENDS FileCache

CONSTANTS f1, f2

\* The whole of f1 and the pages at its ends, which leave holes before,
\* behind and between cached pages, and a page of f2.
SomeRequests == {<<f1, 0, 2>>, <<f1, 0, 0>>, <<f1, 2, 2>>, <<f2, 0, 0>>}
=============================================================================

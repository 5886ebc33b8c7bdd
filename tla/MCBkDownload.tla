----------------------------- MODULE MCBkDownload -----------------------------
(* BkDownload with a few devices and layers, for TLC. *)
EXTENDS BkDownload
==============================================================================

--------------------------- MODULE MCRangeDownload ---------------------------
(* A small instance of RangeDownload for TLC. *)
EXTENDS RangeDownload
=============================================================================

------------------------------- MODULE MCSpool -------------------------------
(* A small instance of Spool for TLC: a file of two ranges, and a tiny one. *)
EXTENDS Spool

TwoBuffers == {1, 2}
Sizes == <<3, 1>>
=============================================================================

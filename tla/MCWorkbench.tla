---------------------------- MODULE MCWorkbench ----------------------------
(* Small instances of Workbench for TLC. *)
EXTENDS Workbench

CONSTANTS c1, c2, d1, d2, l1, l2, l3
=============================================================================

------------------------------ MODULE MCViewer ------------------------------
(* Two sheets, one that was dropped for its name, and a board.  u1 is on the *)
(* root sheet and the board, u2 on the second sheet, h1 on the board alone,   *)
(* ux on the dropped sheet and the board.                                    *)
EXTENDS Viewer
CONSTANTS s1, s2, sx, pcb, u1, u2, ux, h1
MCSheetOf == [r \in Refs |-> CASE r = u1 -> s1 [] r = u2 -> s2 [] r = ux -> sx [] r = h1 -> None]
MCDrawnOn == [r \in Refs |-> CASE r = u1 -> {s1, pcb} [] r = u2 -> {s2} [] r = ux -> {sx, pcb} [] r = h1 -> {pcb}]
=============================================================================

------------------------------ MODULE MCFigures ------------------------------
(***************************************************************************)
(* Figures for TLC: reservations and rooms may be permuted.                *)
(***************************************************************************)
EXTENDS Figures, TLC

Symmetry == Permutations(Reservation) \cup Permutations(Room)

=============================================================================

----------------------------- MODULE MCFrontDesk -----------------------------
(***************************************************************************)
(* FrontDesk for TLC: which slots, rooms and reservations may be permuted. *)
(***************************************************************************)
EXTENDS FrontDesk, TLC

Symmetry == Permutations(Reservation) \cup Permutations(Room)
                \cup Permutations(Bookers) \cup Permutations(Clerks)

=============================================================================

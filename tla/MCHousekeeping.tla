---------------------------- MODULE MCHousekeeping ----------------------------
(***************************************************************************)
(* Housekeeping for TLC: which ids may be permuted.                        *)
(***************************************************************************)
EXTENDS Housekeeping, TLC

Symmetry == Permutations(Room) \cup Permutations(Guest)
                \cup Permutations(Task) \cup Permutations(Slots)

=============================================================================

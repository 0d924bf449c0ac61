------------------------------- MODULE MCSearch -------------------------------
(***************************************************************************)
(* Instances of Search for TLC: two rooms, a type of both and a type of    *)
(* one, and the other on the floor that is asked for.                      *)
(***************************************************************************)
EXTENDS Search, TLC

MCRoomTypes == {{1, 2}, {2}}
MCFilters == {{1}}

Symmetry == Permutations(Slots)

=============================================================================

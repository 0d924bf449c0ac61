-------------------------------- MODULE MCStaff --------------------------------
(***************************************************************************)
(* An instance of Staff for TLC: a chain administrator, and an account of  *)
(* any role and branch that is still to be made.                           *)
(***************************************************************************)
EXTENDS Staff, TLC

MCFounders ==
    [ ann |-> [role |-> "chain_admin", branch |-> NoBranch, active |-> TRUE] ]

Symmetry == Permutations(Tab) \cup Permutations(Branch)

=============================================================================

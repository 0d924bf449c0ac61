------------------------------- MODULE MCGuests -------------------------------
(***************************************************************************)
(* Instances of Guests for TLC: every set of values may be permuted.       *)
(***************************************************************************)
EXTENDS Guests, TLC

Symmetry == Permutations(Guest) \cup Permutations(Emails) \cup Permutations(Names)
                \cup Permutations(Tokens)

=============================================================================

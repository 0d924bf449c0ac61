----------------------------- MODULE MCBilling -----------------------------
(***************************************************************************)
(* Instances of Billing for TLC: the slots are interchangeable.            *)
(***************************************************************************)
EXTENDS Billing, TLC

SlotSymmetry == Permutations(Cashiers) \cup Permutations(Billers) \cup Permutations(Hooks)

=============================================================================

----------------------------- MODULE MCSessions -----------------------------
(***************************************************************************)
(* Instances of Sessions for TLC: tabs and calls are interchangeable.  The *)
(* symmetry is for the run of the invariants only.                         *)
(***************************************************************************)
EXTENDS Sessions, TLC

BrowserSymmetry == Permutations(Tabs) \cup Permutations(Calls)

=============================================================================

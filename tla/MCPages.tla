-------------------------------- MODULE MCPages --------------------------------
(***************************************************************************)
(* An instance of Pages for TLC.  No symmetry: the run checks liveness.    *)
(***************************************************************************)
EXTENDS Pages, TLC

=============================================================================

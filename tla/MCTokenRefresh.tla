--------------------------- MODULE MCTokenRefresh ---------------------------
(***************************************************************************)
(* Small instances of TokenRefresh for TLC.                                *)
(***************************************************************************)
EXTENDS TokenRefresh, TLC

\* Processes and requests are interchangeable.
Symmetry == Permutations(Proc) \cup Permutations(Call)
=============================================================================

---------------------------- MODULE MCWebSession ----------------------------
(***************************************************************************)
(* Small instances of WebSession for TLC.                                  *)
(***************************************************************************)
EXTENDS WebSession, TLC

\* Tabs are interchangeable.
Symmetry == Permutations(Tab)
=============================================================================

----------------------------- MODULE MCTerminal -----------------------------
(***************************************************************************)
(* Small instances of Terminal for TLC.                                    *)
(***************************************************************************)
EXTENDS Terminal, TLC

CONSTANTS a, b, s1, s2, t1

\* Two sessions of one account, one of the other.
MCOwner == (s1 :> a) @@ (s2 :> a) @@ (t1 :> b)
=============================================================================

----------------------------- MODULE MCProviders -----------------------------
(***************************************************************************)
(* A small instance of Providers for TLC: a row made by seeding and one to *)
(* replace it, two providers of old, and a name that seeding uses too.     *)
(***************************************************************************)
EXTENDS Providers, TLC

CONSTANTS s1, s2, a, b, m

MCName == (s1 :> 2) @@ (s2 :> 2) @@ (a :> 1) @@ (b :> 3)
=============================================================================

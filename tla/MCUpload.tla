------------------------------ MODULE MCUpload ------------------------------
(***************************************************************************)
(* A small instance of Upload for TLC.                                     *)
(***************************************************************************)
EXTENDS Upload, TLC

CONSTANTS u1, u2, big, small

\* Three slices, the last a short one; one request.  Both look the same once
\* they are normalised.
MCSize == (big :> 5) @@ (small :> 2)
MCContent == (big :> 1) @@ (small :> 1)
=============================================================================

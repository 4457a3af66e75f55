------------------------------ MODULE MCWebChat ------------------------------
(***************************************************************************)
(* A small instance of WebChat for TLC.                                    *)
(***************************************************************************)
EXTENDS WebChat, TLC

CONSTANTS s, t

\* A session with a turn and a new one; two that were seeded with a question.
MCSeeds == {(s :> <<Question(1), Answer(2, 1, TRUE)>>) @@ (t :> <<>>),
            (s :> <<Question(1)>>) @@ (t :> <<Question(2)>>)}

\* A session with more messages than a page, and a new one.
MCLong == {(s :> <<Question(1), Answer(2, 1, TRUE), Question(3), Answer(4, 3, TRUE)>>)
           @@ (t :> <<>>)}
=============================================================================

---------------------------- MODULE MCWikiEditor ----------------------------
(***************************************************************************)
(* A small instance of WikiEditor for TLC: two editors of one text.        *)
(***************************************************************************)
EXTENDS WikiEditor, TLC

CONSTANTS e1, e2
=============================================================================

---------------------------- MODULE MCChatTurn ----------------------------
(***************************************************************************)
(* Small instances of ChatTurn for TLC.                                    *)
(***************************************************************************)
EXTENDS ChatTurn, TLC

MCNameOf ==
    [k \in Key |-> IF k \in {"search1", "search2"} THEN "web_search"
                   ELSE "read_file"]

\* A first turn, and a regenerated (or second) turn of a session.
MCTwoHistories == { <<>>, <<"user", "assistant", "user">> }
=============================================================================

--------------------------- MODULE MCChatSession ---------------------------
\* Small sessions: one with a tool trace, and a fork of a shared answer.
EXTENDS ChatSession, TLC
CONSTANT k1
Apart(rows) == [log |-> rows, tied |-> FALSE]
Says(step) == L!AssistantRow(step, <<>>, TRUE)
Traced == {Apart(<<L!UserRow, L!AssistantRow(1, <<k1>>, FALSE),
                   L!ToolRow(1, 1, "output"), Says(2)>>)}
Fork == {[log |-> <<L!UserRow, Says(1)>>, tied |-> TRUE]}
Mixed == {"post", "regenerate"}
Overlap == {"stream", "regenerate"}
Regenerates == {"regenerate"}
Symmetric == Permutations(Req)
=============================================================================

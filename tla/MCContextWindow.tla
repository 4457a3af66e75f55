-------------------------- MODULE MCContextWindow --------------------------
EXTENDS ContextWindow
MCCalls == {"c1", "c2"}
Row(role, calls, call, size) ==
    [role |-> role, calls |-> calls, call |-> call, size |-> size, small |-> 1]
System == Row("system", {}, NoCall, 1)
User == Row("user", {}, NoCall, 1)
Asks(calls) == Row("assistant", calls, NoCall, 1)
Tool(call, size) == Row("tool", {}, call, size)

\* Rows a session may hold: calls have distinct ids and one answer, which comes
\* after the assistant row when that row is still there; any row may be missing,
\* because turns stop half way and users delete single messages.
Legal(m) ==
    \A i, j \in DOMAIN m : i < j =>
        /\ m[i].calls \cap m[j].calls = {}
        /\ m[i].role = "tool" => m[i].call \notin m[j].calls \cup {m[j].call}
MCKinds == {User, Asks({}), Asks({"c1"}), Asks(MCCalls),
            Tool("c1", 1), Tool("c1", 3), Tool("c2", 1)}
MCPrelude == {<<>>, <<System>>, <<System, System>>}
MCTranscripts ==
    {p \o m : p \in MCPrelude,
              m \in {s \in UNION {[1..n -> MCKinds] : n \in 1..4} : Legal(s)}}

\* Two rounds of one turn, on an empty session.
MCTurn == { <<System, System, User, Asks({"c1"}), Tool("c1", n)>> : n \in {1, 3} }
       \cup { <<System, User, Asks({"c1"}), Tool("c1", n), Asks({"c2"}), Tool("c2", 1)>> :
              n \in {1, 3} }
=============================================================================

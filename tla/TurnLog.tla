------------------------------ MODULE TurnLog ------------------------------
(***************************************************************************)
(* What one chat turn promises about the rows it leaves in the messages    *)
(* table (service/chat/service.py, service/memory/chat_memory.py),         *)
(* whatever the model, the tools, the database and the client do:          *)
(*   - the user row, if the turn writes one, comes first;                  *)
(*   - an assistant row is written only when every tool call declared by   *)
(*     the rows before it has its tool row, and tool calls are answered    *)
(*     once, in the order the model asked for them;                        *)
(*   - the turn is reported done only on a complete log that ends with an  *)
(*     assistant row that carries text and asks for nothing.               *)
(* A turn may fail at any point, and then leaves what it has written.      *)
(***************************************************************************)
EXTENDS Naturals, Sequences

CONSTANTS Key,       \* a tool invocation: a tool name with its arguments
          Outcome    \* what a tool row reports

VARIABLES log,       \* the rows this turn has persisted, oldest first
          status     \* "running", "done" or "failed"

UserRow == [role |-> "user"]
AssistantRow(s, c, t) ==
    [role |-> "assistant", step |-> s, calls |-> c, text |-> t]
ToolRow(s, i, o) == [role |-> "tool", step |-> s, idx |-> i, outcome |-> o]

AssistantRows ==
    [role: {"assistant"}, step: Nat, calls: Seq(Key), text: BOOLEAN]
ToolRows == [role: {"tool"}, step: Nat, idx: Nat, outcome: Outcome]
Row == {UserRow} \cup AssistantRows \cup ToolRows

Answered(rows, s, i) ==
    \E j \in DOMAIN rows :
        rows[j].role = "tool" /\ rows[j].step = s /\ rows[j].idx = i

Complete(rows) ==
    \A j \in DOMAIN rows :
        rows[j].role = "assistant" =>
            \A i \in DOMAIN rows[j].calls : Answered(rows, rows[j].step, i)

\* Call i of step s is the next one the turn may answer.
NextOpen(rows, s, i) ==
    /\ \E j \in DOMAIN rows : /\ rows[j].role = "assistant"
                              /\ rows[j].step = s
                              /\ i \in DOMAIN rows[j].calls
    /\ ~Answered(rows, s, i)
    /\ \A k \in 1..(i - 1) : Answered(rows, s, k)

\* The step number s has not been used by an assistant row.
FreshStep(rows, s) ==
    \A j \in DOMAIN rows : rows[j].role = "assistant" => rows[j].step < s

EndsWithAnswer(rows) ==
    /\ rows # <<>>
    /\ rows[Len(rows)].role = "assistant"
    /\ rows[Len(rows)].calls = <<>>
    /\ rows[Len(rows)].text
-----------------------------------------------------------------------------
Init == log = <<>> /\ status = "running"

AddUser ==
    /\ status = "running"
    /\ log = <<>>
    /\ log' = Append(log, UserRow)
    /\ UNCHANGED status

\* One row is added at the end.
Grows(log2) == /\ Len(log2) = Len(log) + 1
               /\ log2 = Append(log, log2[Len(log) + 1])

AddAssistant ==
    /\ status = "running"
    /\ Complete(log)
    /\ Grows(log')
    /\ LET new == log'[Len(log) + 1]
       IN  /\ new \in AssistantRows
           /\ FreshStep(log, new.step)
    /\ UNCHANGED status

Answer ==
    /\ status = "running"
    /\ Grows(log')
    /\ LET new == log'[Len(log) + 1]
       IN  /\ new \in ToolRows
           /\ NextOpen(log, new.step, new.idx)
    /\ UNCHANGED status

Finish ==
    /\ status = "running"
    /\ Complete(log)
    /\ EndsWithAnswer(log)
    /\ status' = "done"
    /\ UNCHANGED log

Fail ==
    /\ status = "running"
    /\ status' = "failed"
    /\ UNCHANGED log

Next == AddUser \/ AddAssistant \/ Answer \/ Finish \/ Fail

Spec == Init /\ [][Next]_<<log, status>>
=============================================================================

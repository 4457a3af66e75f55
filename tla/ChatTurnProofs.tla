--------------------------- MODULE ChatTurnProofs ---------------------------
(***************************************************************************)
(* Proofs about ChatTurn, for every set of tool invocations, every bound   *)
(* and every history: its type invariant, the pairing of tool calls with   *)
(* their rows, what a done event stands for, the stream of events and how  *)
(* the store follows it, what is executed, what an abort still lets        *)
(* through, and that the turn implements TurnLog.                          *)
(*                                                                         *)
(* Pairing and completeness are not inductive: that a call is answered     *)
(* once and in its place, and that a round opens only on a complete log,   *)
(* rests on the generator's position in the round (idx) agreeing with the  *)
(* rows stored for the current step and with where the log ends, and on    *)
(* steps never being reused.  IInv says so.                                *)
(***************************************************************************)
EXTENDS ChatTurn, FiniteSetTheorems, TLAPS

Dispatching == {"call", "decide", "running", "result", "tool"}

\* The generator's position is inside the round while calls are handled.
Position == pc \in Dispatching => idx \in DOMAIN round.calls

\* No row is of a later step, and a round that has not been stored has none.
StepsUsed ==
    \A j \in DOMAIN mem : mem[j].role # "user" =>
        /\ mem[j].step <= step
        /\ pc \in {"llm", "assistant"} => mem[j].step < step

\* While calls are handled the log ends in the current step: its assistant
\* row is there, its first idx - 1 calls are answered and no others, and
\* every earlier step is complete.
CurrentStep ==
    pc \in Dispatching =>
        /\ \E a \in DOMAIN mem : /\ mem[a].role = "assistant"
                                 /\ mem[a].step = step
                                 /\ mem[a].calls = round.calls
        /\ \A i \in Nat : L!Answered(mem, step, i) <=> i \in 1..(idx - 1)
        /\ \A a \in DOMAIN mem : mem[a].role = "assistant" =>
             \/ mem[a].step = step /\ mem[a].calls = round.calls
             \/ \A i \in DOMAIN mem[a].calls : L!Answered(mem, mem[a].step, i)

WholeSteps == pc \notin Dispatching \cup {"ended"} => L!Complete(mem)

\* Where the rows stand.  While calls are handled the log ends with the
\* assistant row of the current step and the tool rows of its first idx - 1
\* calls; between rounds each assistant row has all its tool rows behind it.
Placed ==
    /\ pc \in Dispatching => \E a \in Rows("assistant") :
           /\ mem[a].step = step /\ mem[a].calls = round.calls
           /\ Len(mem) = a + idx - 1
           /\ \A i \in 1..(idx - 1) : a + i \in Rows("tool")
    /\ pc \notin Dispatching \cup {"ended"} => \A a \in Rows("assistant") :
           \A i \in DOMAIN mem[a].calls : a + i \in Rows("tool")

Untouched == pc \in {"start", "retrieve", "user"} => mem = <<>>

HasText == pc = "assistant" /\ round.calls = <<>> => round.text

Answering == pc = "finish" => L!EndsWithAnswer(mem)

NotYetDone == pc # "ended" => \A i \in DOMAIN out : out[i].type # "done"

IInv == /\ TypeOK /\ Position /\ StepsUsed /\ CurrentStep /\ WholeSteps
        /\ Untouched /\ HasText /\ Answering /\ NotYetDone
        /\ Placed /\ Pairing /\ DoneIsAnswered
-----------------------------------------------------------------------------
\* Types of the values the actions build.
LEMMA AppendType ==
    ASSUME NEW S, NEW s \in Seq(S), NEW e \in S
    PROVE  Append(s, e) \in Seq(S)
OBVIOUS

LEMMA ConcatType ==
    ASSUME NEW S, NEW s \in Seq(S), NEW t \in Seq(S)
    PROVE  s \o t \in Seq(S)
OBVIOUS

LEMMA SubSeqType ==
    ASSUME NEW S, NEW s \in Seq(S), NEW m \in Nat
    PROVE  SubSeq(s, m + 1, Len(s)) \in Seq(S)
OBVIOUS

LEMMA EventTypes ==
    ASSUME NEW t \in {"retrieval", "tool_call", "tool_result", "error", "done"},
           NEW c \in {"", "ABORTED", "MEMORY_READ_FAILED", "RETRIEVAL_FAILED",
                      "MEMORY_WRITE_FAILED", "LLM_ERROR", "INTERNAL"},
           NEW i \in Nat \X Nat
    PROVE  Event(t, c, i) \in Events
BY DEF Event, Events

LEMMA MessageTypes ==
    ASSUME NEW r \in Role, NEW o \in {"prelude", "history", "turn"},
           NEW k \in Key \cup {NoKey}
    PROVE  Msg(r, o, k) \in Message
BY DEF Msg, Message

LEMMA RowTypes ==
    /\ L!UserRow \in L!Row
    /\ \A s \in Nat, c \in Seq(Key), t \in BOOLEAN :
           L!AssistantRow(s, c, t) \in L!AssistantRows
    /\ \A s \in Nat, i \in Nat, o \in Outcome :
           L!ToolRow(s, i, o) \in L!ToolRows
    /\ L!AssistantRows \subseteq L!Row
    /\ L!ToolRows \subseteq L!Row
BY DEF L!UserRow, L!Row, L!AssistantRow, L!ToolRow, L!AssistantRows, L!ToolRows

LEMMA PromptType ==
    ASSUME TypeOK
    PROVE  Prompt(req.history) \in Seq(Message)
<1>1. req.prelude \in Nat /\ req.history \in Seq(Role)
  BY LimitAssumption, HistoryAssumption DEF TypeOK, Request
<1>2. [i \in 1..req.prelude |-> Msg("system", "prelude", NoKey)] \in Seq(Message)
  BY <1>1, MessageTypes DEF Role
<1>3. [i \in 1..Len(req.history) |-> Msg(req.history[i], "history", NoKey)]
        \in Seq(Message)
  <2>1. \A i \in 1..Len(req.history) : req.history[i] \in Role
    BY <1>1
  <2>2. \A i \in 1..Len(req.history) :
            Msg(req.history[i], "history", NoKey) \in Message
    BY <2>1, MessageTypes
  <2>3. Len(req.history) \in Nat
    BY <1>1
  <2>4. QED BY <2>2, <2>3
<1>4. QED BY <1>2, <1>3 DEF Prompt

\* What every action leaves alone, and what an ordinary step may do to it.
LEMMA StopType ==
    ASSUME TypeOK,
           NEW c \in {"ABORTED", "MEMORY_READ_FAILED", "RETRIEVAL_FAILED",
                      "MEMORY_WRITE_FAILED", "LLM_ERROR", "INTERNAL"},
           StopWith(c)
    PROVE  pc' \in Phase /\ out' \in Seq(Events)
<1>1. Event("error", c, NoId) \in Events
  BY EventTypes DEF NoId
<1>2. QED BY <1>1 DEF StopWith, Emit, TypeOK, Phase

LEMMA EmitType ==
    ASSUME TypeOK, NEW e \in Events, Emit(e)
    PROVE  out' \in Seq(Events)
<1>1. out \in Seq(Events)
  BY DEF TypeOK
<1>2. QED BY <1>1, AppendType DEF Emit

LEMMA NumberTypes == TypeOK => step \in Nat /\ idx \in Nat /\ CallId \in Nat \X Nat
<1> SUFFICES ASSUME TypeOK PROVE step \in Nat /\ idx \in Nat
  BY DEF CallId
<1>1. step \in 0..(MaxSteps + 1) /\ idx \in Nat
  BY DEF TypeOK
<1>2. QED BY <1>1, LimitAssumption

LEMMA LateType ==
    ASSUME TypeOK, NEW f \in {"dispatched", "rounds", "rows"}, Counted(f)
    PROVE  late' \in [dispatched: Nat, rounds: Nat, rows: Nat]
BY DEF TypeOK, Counted

LEMMA CountType ==
    ASSUME TypeOK, NEW k \in Key,
           counts' = [counts EXCEPT ![NameOf[k]] = @ + 1]
    PROVE  counts' \in [{NameOf[n] : n \in Key} -> Nat]
<1>1. counts \in [{NameOf[n] : n \in Key} -> Nat]
  BY DEF TypeOK
<1>2. QED BY <1>1

LEMMA PersistType ==
    ASSUME TypeOK, NEW row \in L!Row, NEW msg \in Message, NEW next \in Phase,
           Persist(row, msg, next)
    PROVE  /\ mem' \in Seq(L!Row) /\ msgs' \in Seq(Message)
           /\ pc' \in Phase /\ out' \in Seq(Events)
           /\ late' \in [dispatched: Nat, rounds: Nat, rows: Nat]
<1>1. CASE StopWith("MEMORY_WRITE_FAILED") /\ UNCHANGED <<mem, msgs, late>>
  BY <1>1, StopType DEF TypeOK
<1>2. CASE /\ mem' = Append(mem, row) /\ msgs' = Append(msgs, msg)
           /\ pc' = next /\ Counted("rows") /\ UNCHANGED out
  BY <1>2, LateType DEF TypeOK
<1>3. QED BY <1>1, <1>2 DEF Persist
-----------------------------------------------------------------------------
LEMMA TypeInit == Init => TypeOK
<1> SUFFICES ASSUME Init PROVE TypeOK
  OBVIOUS
<1>1. req \in Request /\ WellFormed(req)
  BY DEF Init
<1>2. round \in [calls: Seq(Key), text: BOOLEAN, chunks: Nat]
  BY DEF Init, EmptyRound
<1>3. step \in 0..(MaxSteps + 1)
  BY LimitAssumption DEF Init
<1>4. pc \in Phase /\ aborted \in BOOLEAN
  BY DEF Init, Phase
<1>5. mem \in Seq(L!Row) /\ msgs \in Seq(Message)
  BY DEF Init
<1>6. idx \in Nat /\ result \in Outcome
  BY DEF Init, Outcome, Ran
<1>7. /\ keys \subseteq Key /\ ran \in Seq(Key)
      /\ counts \in [{NameOf[k] : k \in Key} -> Nat]
  BY DEF Init
<1>8. out \in Seq(Events) /\ harvest \in Seq(Message)
  BY DEF Init
<1>9. late \in [dispatched: Nat, rounds: Nat, rows: Nat]
  BY DEF Init
<1>10. QED
  BY <1>1, <1>2, <1>3, <1>4, <1>5, <1>6, <1>7, <1>8, <1>9 DEF TypeOK

LEMMA TypeStep == TypeOK /\ Position /\ [Next]_vars => TypeOK'
<1> SUFFICES ASSUME TypeOK, Position, [Next]_vars PROVE TypeOK'
  OBVIOUS
<1> USE DEF given, stored, roundVars, toolVars
<1>0. MaxSteps \in Nat /\ Key # {} /\ SearchKey \in Key
  BY KeyAssumption, LimitAssumption
<1>1. CASE LoadHistory
  BY <1>1, StopType DEF LoadHistory, TypeOK, Phase
<1>2. CASE Retrieve
  <2>1. Event("retrieval", "", NoId) \in Events
    BY EventTypes DEF NoId
  <2>2. pc' \in Phase /\ out' \in Seq(Events)
    <3>1. CASE \E c \in {"ABORTED", "RETRIEVAL_FAILED"} : StopWith(c)
      BY <3>1, StopType
    <3>2. CASE pc' = "user" /\ UNCHANGED out
      BY <3>2 DEF TypeOK, Phase
    <3>3. CASE pc' = "user" /\ Emit(Event("retrieval", "", NoId))
      BY <2>1, <3>3, EmitType DEF Phase
    <3>4. QED BY <1>2, <3>1, <3>2, <3>3 DEF Retrieve
  <2>3. QED BY <1>2, <2>2 DEF Retrieve, TypeOK
<1>3. CASE PersistUser
  <2>1. Msg("user", "turn", NoKey) \in Message
    BY MessageTypes DEF Role
  <2>2. Append(Prompt(req.history), Msg("user", "turn", NoKey)) \in Seq(Message)
    BY <2>1, PromptType
  <2>3. Prompt(req.history) \in Seq(Message)
    BY PromptType
  <2>4. L!UserRow \in L!Row
    BY RowTypes
  <2>5. (IF req.autoSearch THEN "search" ELSE "head") \in Phase
    BY DEF Phase
  <2>6. UNCHANGED <<given, roundVars, toolVars, harvest>>
    BY <1>3 DEF PersistUser
  <2>7. /\ mem' \in Seq(L!Row) /\ msgs' \in Seq(Message)
        /\ pc' \in Phase /\ out' \in Seq(Events)
        /\ late' \in [dispatched: Nat, rounds: Nat, rows: Nat]
    <3>1. CASE /\ mem' = Append(mem, L!UserRow)
               /\ msgs' = Append(Prompt(req.history), Msg("user", "turn", NoKey))
               /\ pc' = (IF req.autoSearch THEN "search" ELSE "head")
               /\ Counted("rows") /\ UNCHANGED out
      BY <3>1, <2>2, <2>4, <2>5, LateType DEF TypeOK
    <3>2. CASE StopWith("MEMORY_WRITE_FAILED") /\ UNCHANGED <<mem, msgs, late>>
      BY <3>2, StopType DEF TypeOK
    <3>3. CASE /\ msgs' = Prompt(req.history)
               /\ pc' = (IF req.autoSearch THEN "search" ELSE "head")
               /\ UNCHANGED <<mem, out, late>>
      BY <3>3, <2>3, <2>5 DEF TypeOK
    <3>4. QED BY <1>3, <3>1, <3>2, <3>3 DEF PersistUser
  <2>8. QED BY <2>6, <2>7 DEF TypeOK
<1>4. CASE StartAutoSearch
  <2>1. Event("tool_call", "", NoId) \in Events
    BY EventTypes DEF NoId
  <2>2. late' \in [dispatched: Nat, rounds: Nat, rows: Nat]
    BY <1>4, LateType DEF StartAutoSearch
  <2>3. pc' \in Phase /\ out' \in Seq(Events)
    BY <1>4, <2>1, EmitType DEF StartAutoSearch, Phase
  <2>4. keys' \subseteq Key /\ ran' \in Seq(Key)
    <3>1. keys \subseteq Key /\ ran \in Seq(Key)
      BY DEF TypeOK
    <3>2. QED BY <1>0, <1>4, <3>1, AppendType DEF StartAutoSearch
  <2>5. QED BY <1>4, <2>2, <2>3, <2>4 DEF StartAutoSearch, TypeOK
<1>5. CASE FinishAutoSearch
  <2>1. Event("tool_result", "", NoId) \in Events
    BY EventTypes DEF NoId
  <2>2. << Msg("system", "turn", NoKey), Msg("assistant", "turn", NoKey),
           Msg("tool", "turn", SearchKey) >> \in Seq(Message)
    BY <1>0, MessageTypes DEF Role
  <2>3. msgs' \in Seq(Message)
    <3>1. msgs \in Seq(Message)
      BY DEF TypeOK
    <3>2. QED BY <1>5, <2>2, <3>1, ConcatType DEF FinishAutoSearch
  <2>4. counts' \in [{NameOf[k] : k \in Key} -> Nat]
    BY <1>0, <1>5, CountType DEF FinishAutoSearch
  <2>5. pc' \in Phase /\ out' \in Seq(Events)
    BY <1>5, <2>1, EmitType DEF FinishAutoSearch, Phase
  <2>6. QED BY <1>5, <2>3, <2>4, <2>5 DEF FinishAutoSearch, TypeOK
<1>6. CASE OpenRound
  <2>1. EmptyRound \in [calls: Seq(Key), text: BOOLEAN, chunks: Nat]
    BY DEF EmptyRound
  <2>2. CASE pc' = "ended"
    BY <1>6, <2>2, StopType DEF OpenRound, TypeOK
  <2>3. CASE pc' = "llm" /\ Counted("rounds")
    BY <1>0, <1>6, <2>1, <2>3, LateType DEF OpenRound, TypeOK, Phase, StopWith
  <2>4. QED BY <1>6, <2>2, <2>3 DEF OpenRound, StopWith
<1>7. CASE OpenSynthesis
  <2>1. EmptyRound \in [calls: Seq(Key), text: BOOLEAN, chunks: Nat]
    BY DEF EmptyRound
  <2>2. Msg("system", "turn", NoKey) \in Message
    BY MessageTypes DEF Role
  <2>6. msgs' \in Seq(Message)
    BY <1>7, <2>2 DEF OpenSynthesis, TypeOK
  <2>3. CASE pc' = "ended"
    BY <1>7, <2>3, <2>6, StopType DEF OpenSynthesis, TypeOK
  <2>4. CASE pc' = "llm" /\ Counted("rounds")
    <3>1. /\ step' \in 0..(MaxSteps + 1)
          /\ round' = EmptyRound /\ UNCHANGED out
      BY <1>0, <1>7, <2>4 DEF OpenSynthesis, StopWith
    <3>2. late' \in [dispatched: Nat, rounds: Nat, rows: Nat]
      BY <2>4, LateType
    <3>3. pc' \in Phase
      BY <2>4 DEF Phase
    <3>4. QED BY <1>7, <2>1, <2>6, <3>1, <3>2, <3>3 DEF OpenSynthesis, TypeOK
  <2>5. QED BY <1>7, <2>3, <2>4 DEF OpenSynthesis, StopWith
<1>8. CASE Chunk
  <2>1. CASE StopWith("ABORTED") /\ UNCHANGED round
    BY <1>8, <2>1, StopType DEF Chunk, TypeOK
  <2>2. CASE /\ \E calls \in {round.calls}
                              \cup {Append(round.calls, k) : k \in Key} :
                   round' = [calls |-> calls, chunks |-> round.chunks + 1,
                             text |-> round.text \/ calls = round.calls]
             /\ UNCHANGED <<pc, out>>
    <3>1. round' \in [calls: Seq(Key), text: BOOLEAN, chunks: Nat]
      <4>1. round \in [calls: Seq(Key), text: BOOLEAN, chunks: Nat]
        BY DEF TypeOK
      <4>2. PICK calls \in {round.calls}
                              \cup {Append(round.calls, k) : k \in Key} :
                 round' = [calls |-> calls, chunks |-> round.chunks + 1,
                           text |-> round.text \/ calls = round.calls]
        BY <2>2
      <4>3. calls \in Seq(Key)
        BY <4>1, <4>2, AppendType
      <4>4. (round.text \/ calls = round.calls) \in BOOLEAN
        OBVIOUS
      <4>5. QED BY <4>1, <4>2, <4>3, <4>4
    <3>2. QED BY <1>8, <2>2, <3>1 DEF Chunk, TypeOK
  <2>3. QED BY <1>8, <2>1, <2>2 DEF Chunk
<1>9. CASE StreamFails
  BY <1>9, StopType DEF StreamFails, TypeOK
<1>10. CASE StreamEnds
  <2>1. round' \in [calls: Seq(Key), text: BOOLEAN, chunks: Nat]
    BY <1>10 DEF StreamEnds, TypeOK
  <2>2. QED BY <1>10, <2>1 DEF StreamEnds, TypeOK, Phase
<1>11. CASE PersistAssistant
  <2>1. L!AssistantRow(step, round.calls, round.text) \in L!Row
    BY <1>0, RowTypes DEF TypeOK
  <2>2. Msg("assistant", "turn", NoKey) \in Message
    BY MessageTypes DEF Role
  <2>3. (IF round.calls = <<>> THEN "finish" ELSE "call") \in Phase
    BY DEF Phase
  <2>4. QED BY <1>11, <2>1, <2>2, <2>3, PersistType DEF PersistAssistant, TypeOK
<1>12. CASE NoRegistry
  BY <1>12, StopType DEF NoRegistry, TypeOK
<1>13. CASE Announce
  <2>1. Event("tool_call", "", CallId) \in Events
    BY NumberTypes, EventTypes
  <2>2. pc' \in Phase /\ out' \in Seq(Events)
    <3>1. CASE StopWith("ABORTED")
      BY <3>1, StopType
    <3>2. CASE pc' = "decide" /\ Emit(Event("tool_call", "", CallId))
      BY <2>1, <3>2, EmitType DEF Phase
    <3>3. QED BY <1>13, <3>1, <3>2 DEF Announce
  <2>3. QED BY <1>13, <2>2 DEF Announce, TypeOK
<1>14. CASE Skip
  BY <1>14 DEF Skip, TypeOK, Phase, Outcome, Skipped
<1>15. CASE Dispatch
  <2>1. Call \in Key
    BY <1>15 DEF Dispatch, Position, Dispatching, Call, TypeOK
  <2>2. late' \in [dispatched: Nat, rounds: Nat, rows: Nat]
    BY <1>15, LateType DEF Dispatch
  <2>3. QED BY <1>15, <2>1, <2>2 DEF Dispatch, TypeOK, Phase
<1>16. CASE ToolEnds
  <2>1. Call \in Key
    BY <1>16 DEF ToolEnds, Position, Dispatching, Call, TypeOK
  <2>2. counts' \in [{NameOf[k] : k \in Key} -> Nat]
    BY <1>16, <2>1, CountType DEF ToolEnds
  <2>3. pc' \in Phase /\ result' \in Outcome
    BY <1>16 DEF ToolEnds, Phase, Outcome, RaceOutcome
  <2>4. QED BY <1>16, <2>2, <2>3 DEF ToolEnds, TypeOK
<1>17. CASE ShowResult
  <2>1. Event("tool_result", "", CallId) \in Events
    BY NumberTypes, EventTypes
  <2>2. pc' \in Phase /\ out' \in Seq(Events)
    BY <1>17, <2>1, EmitType DEF ShowResult, Phase
  <2>3. QED BY <1>17, <2>2 DEF ShowResult, TypeOK
<1>18. CASE PersistTool
  <2>1. L!ToolRow(step, idx, result) \in L!Row
    <3>1. result \in Outcome
      BY DEF TypeOK
    <3>2. QED BY <3>1, NumberTypes, RowTypes
  <2>2. Call \in Key
    BY <1>18 DEF PersistTool, Position, Dispatching, Call, TypeOK
  <2>3. Msg("tool", "turn", Call) \in Message
    BY <2>2, MessageTypes DEF Role
  <2>4. (IF idx = Len(round.calls) THEN "head" ELSE "call") \in Phase
    BY DEF Phase
  <2>5. Persist(L!ToolRow(step, idx, result), Msg("tool", "turn", Call),
               IF idx = Len(round.calls) THEN "head" ELSE "call")
    BY <1>18 DEF PersistTool
  <2>6. /\ mem' \in Seq(L!Row) /\ msgs' \in Seq(Message)
        /\ pc' \in Phase /\ out' \in Seq(Events)
        /\ late' \in [dispatched: Nat, rounds: Nat, rows: Nat]
    BY <2>1, <2>3, <2>4, <2>5, PersistType
  <2>7. idx' \in Nat
    BY <1>18, NumberTypes DEF PersistTool
  <2>8. QED BY <1>18, <2>6, <2>7 DEF PersistTool, TypeOK
<1>19. CASE Finish
  <2>1. Event("done", "", NoId) \in Events
    BY EventTypes DEF NoId
  <2>2. Len(req.history) \in Nat
    BY HistoryAssumption DEF TypeOK, Request
  <2>3. harvest' \in Seq(Message)
    <3>1. msgs \in Seq(Message)
      BY DEF TypeOK
    <3>2. QED BY <1>19, <2>2, <3>1, SubSeqType DEF Finish
  <2>4. pc' \in Phase /\ out' \in Seq(Events)
    BY <1>19, <2>1, EmitType DEF Finish, Phase
  <2>5. QED BY <1>19, <2>3, <2>4 DEF Finish, TypeOK
<1>20. CASE Abort
  BY <1>20 DEF Abort, TypeOK
<1>21. CASE Close
  BY <1>21 DEF Close, TypeOK, Phase
<1>22. CASE UNCHANGED vars
  BY <1>22 DEF vars, TypeOK
<1>23. QED
  BY <1>1, <1>2, <1>3, <1>4, <1>5, <1>6, <1>7, <1>8, <1>9, <1>10, <1>11, <1>12,
     <1>13, <1>14, <1>15, <1>16, <1>17, <1>18, <1>19, <1>20, <1>21, <1>22
  DEF Next, Work
-----------------------------------------------------------------------------
\* What one more row does to the log.
LEMMA RowFields ==
    \A r \in L!Row :
        /\ r.role \in {"user", "assistant", "tool"}
        /\ r.role # "user" => r.step \in Nat
        /\ r.role = "assistant" => r \in L!AssistantRows
        /\ r.role = "tool" => r \in L!ToolRows
BY DEF L!Row, L!UserRow, L!AssistantRows, L!ToolRows

LEMMA AppendRow ==
    ASSUME NEW S, NEW rows \in Seq(S), NEW row
    PROVE  /\ DOMAIN Append(rows, row) = DOMAIN rows \cup {Len(rows) + 1}
           /\ Len(rows) + 1 \notin DOMAIN rows
           /\ Append(rows, row)[Len(rows) + 1] = row
           /\ \A j \in DOMAIN rows : Append(rows, row)[j] = rows[j]
           /\ \A j \in DOMAIN rows : j < Len(rows) + 1
           /\ Len(Append(rows, row)) = Len(rows) + 1
           /\ Len(rows) \in Nat
OBVIOUS

LEMMA AppendLast ==
    ASSUME NEW S, NEW rows \in Seq(S), NEW row
    PROVE  /\ Append(rows, row) # <<>>
           /\ Append(rows, row)[Len(Append(rows, row))] = row
OBVIOUS

LEMMA AnsweredAppend ==
    ASSUME NEW S, NEW rows \in Seq(S), NEW row, NEW s, NEW i
    PROVE  L!Answered(Append(rows, row), s, i) <=>
               \/ L!Answered(rows, s, i)
               \/ row.role = "tool" /\ row.step = s /\ row.idx = i
BY AppendRow DEF L!Answered

LEMMA CompleteAppend ==
    ASSUME NEW S, NEW rows \in Seq(S), NEW row, L!Complete(rows),
           row.role = "assistant" => row.calls = <<>>
    PROVE  L!Complete(Append(rows, row))
<1> SUFFICES ASSUME NEW j \in DOMAIN Append(rows, row),
                    Append(rows, row)[j].role = "assistant",
                    NEW i \in DOMAIN Append(rows, row)[j].calls
             PROVE  L!Answered(Append(rows, row), Append(rows, row)[j].step, i)
  BY DEF L!Complete
<1>1. CASE j \in DOMAIN rows
  <2>1. L!Answered(rows, rows[j].step, i)
    BY <1>1, AppendRow DEF L!Complete
  <2>2. QED BY <1>1, <2>1, AppendRow, AnsweredAppend
<1>2. CASE j = Len(rows) + 1
  BY <1>2, AppendRow
<1>3. QED BY <1>1, <1>2, AppendRow
-----------------------------------------------------------------------------
\* A step that stores nothing and opens no round keeps what IInv says of the
\* log, provided it enters no phase that promises more of it.
Recorded == /\ Position /\ StepsUsed /\ CurrentStep /\ WholeSteps
            /\ Untouched /\ Answering /\ Placed /\ Pairing

LEMMA Calm ==
    ASSUME IInv, UNCHANGED <<mem, step, idx>>,
           \/ pc' = "ended"
           \/ pc \in Dispatching /\ pc' \in Dispatching /\ UNCHANGED round
           \/ /\ pc \notin Dispatching \cup {"ended"}
              /\ pc' \notin Dispatching,
           pc' \in {"llm", "assistant"} => pc \in {"llm", "assistant"},
           pc' \in {"start", "retrieve", "user"}
               => pc \in {"start", "retrieve", "user"},
           pc' = "finish" => pc = "finish"
    PROVE  Recorded'
<1>1. Position'
  BY DEF IInv, Position, Dispatching
<1>2. StepsUsed'
  BY DEF IInv, StepsUsed
<1>3. CurrentStep'
  <2>1. CASE pc' \in Dispatching
    <3>1. pc \in Dispatching /\ UNCHANGED round
      BY <2>1 DEF Dispatching
    <3>2. QED BY <3>1 DEF IInv, CurrentStep
  <2>2. CASE pc' \notin Dispatching
    BY <2>2 DEF CurrentStep
  <2>3. QED BY <2>1, <2>2
<1>4. WholeSteps'
  BY DEF IInv, WholeSteps, Dispatching
<1>5. Untouched'
  BY DEF IInv, Untouched
<1>6. Answering'
  BY DEF IInv, Answering
<1>7. Pairing'
  BY DEF IInv, Pairing, Rows
<1>8. Placed'
  <2>1. Rows("tool")' = Rows("tool") /\ Rows("assistant")' = Rows("assistant")
    BY DEF Rows
  <2>2. CASE pc' \in Dispatching
    <3>1. pc \in Dispatching /\ UNCHANGED round
      BY <2>2 DEF Dispatching
    <3>2. QED BY <2>1, <2>2, <3>1 DEF IInv, Placed
  <2>3. CASE pc' \notin Dispatching \cup {"ended"}
    <3>1. pc \notin Dispatching \cup {"ended"}
      BY <2>3 DEF Dispatching
    <3>2. QED BY <2>1, <2>3, <3>1 DEF IInv, Placed
  <2>4. CASE pc' = "ended"
    BY <2>4 DEF Placed, Dispatching
  <2>5. QED BY <2>2, <2>3, <2>4
<1>9. QED BY <1>1, <1>2, <1>3, <1>4, <1>5, <1>6, <1>7, <1>8 DEF Recorded

\* What IInv says of the events: a done event is the last, and ends a turn
\* whose log is complete.
Reported == NotYetDone /\ DoneIsAnswered

LEMMA Reporting ==
    ASSUME IInv, pc # "ended", pc' # "ended",
           UNCHANGED out \/ \E e \in Events : Emit(e) /\ e.type # "done"
    PROVE  Reported'
<1>1. NotYetDone'
  <2>1. CASE UNCHANGED out
    BY <2>1 DEF IInv, NotYetDone
  <2>2. CASE \E e \in Events : Emit(e) /\ e.type # "done"
    <3>1. PICK e \in Events : out' = Append(out, e) /\ e.type # "done"
      BY <2>2 DEF Emit
    <3>2. out \in Seq(Events)
      BY DEF IInv, TypeOK
    <3>3. \A i \in DOMAIN out : out[i].type # "done"
      BY DEF IInv, NotYetDone
    <3>4. QED BY <3>1, <3>2, <3>3, AppendRow DEF NotYetDone
  <2>3. QED BY <2>1, <2>2
<1>2. Status' = "running"
  BY DEF Status
<1>3. QED BY <1>1, <1>2 DEF Reported, DoneIsAnswered

LEMMA Stopping ==
    ASSUME IInv, pc # "ended", pc' = "ended",
           UNCHANGED out \/ \E e \in Events : Emit(e) /\ e.type # "done"
    PROVE  Reported' /\ Status' = "failed"
<1>1. out \in Seq(Events)
  BY DEF IInv, TypeOK
<1>2. \A i \in DOMAIN out : out[i].type # "done"
  BY DEF IInv, NotYetDone
<1>3. out' = <<>> \/ out'[Len(out')].type # "done"
  <2>1. CASE UNCHANGED out
    BY <1>1, <1>2, <2>1
  <2>2. CASE \E e \in Events : Emit(e) /\ e.type # "done"
    BY <1>1, <2>2, AppendRow DEF Emit
  <2>3. QED BY <2>1, <2>2
<1>4. Status' = "failed"
  BY <1>3 DEF Status
<1>5. QED BY <1>4 DEF Reported, NotYetDone, DoneIsAnswered
-----------------------------------------------------------------------------
\* The four kinds of step that change the log or open a round.
LEMMA RoundOpens ==
    ASSUME IInv, pc = "head", pc' = "llm", step' = step + 1,
           UNCHANGED <<mem, idx>>
    PROVE  Recorded'
<1>1. StepsUsed'
  <2> SUFFICES ASSUME NEW j \in DOMAIN mem, mem[j].role # "user"
               PROVE  mem[j].step <= step + 1 /\ mem[j].step < step + 1
    BY DEF StepsUsed
  <2>1. mem[j] \in L!Row
    BY DEF IInv, TypeOK
  <2>2. mem[j].step \in Nat /\ mem[j].step <= step
    BY <2>1, RowFields DEF IInv, StepsUsed
  <2>3. QED BY <2>2, NumberTypes DEF IInv
<1>2. Position' /\ CurrentStep' /\ Untouched' /\ Answering'
  BY DEF Position, CurrentStep, Untouched, Answering, Dispatching
<1>3. WholeSteps'
  BY DEF IInv, WholeSteps, Dispatching
<1>4. Placed' /\ Pairing'
  BY DEF IInv, Placed, Pairing, Rows, Dispatching
<1>5. QED BY <1>1, <1>2, <1>3, <1>4 DEF Recorded

LEMMA StoreUser ==
    ASSUME IInv, pc = "user", pc' \in {"search", "head"},
           mem' = Append(mem, L!UserRow), UNCHANGED <<step, idx>>
    PROVE  Recorded'
<1>1. mem = <<>>
  BY DEF IInv, Untouched
<1>2. mem' = <<L!UserRow>> /\ L!UserRow.role = "user"
  BY <1>1 DEF L!UserRow
<1>3. DOMAIN mem' = {1} /\ mem'[1].role = "user"
  BY <1>2
<1>4. Position' /\ CurrentStep' /\ Untouched' /\ Answering'
  BY DEF Position, CurrentStep, Untouched, Answering, Dispatching
<1>5. StepsUsed' /\ WholeSteps' /\ Placed' /\ Pairing'
  BY <1>3 DEF StepsUsed, WholeSteps, L!Complete, Placed, Pairing, Rows,
     Dispatching
<1>6. QED BY <1>4, <1>5 DEF Recorded

\* An assistant row is written on a complete log, in a step not used before.
LEMMA AtAssistant ==
    ASSUME IInv, pc = "assistant"
    PROVE  /\ L!Complete(mem)
           /\ L!FreshStep(mem, step)
           /\ \A i \in Nat : ~L!Answered(mem, step, i)
           /\ mem \in Seq(L!Row) /\ step \in Nat
           /\ round.calls \in Seq(Key) /\ round.text \in BOOLEAN
           /\ L!AssistantRow(step, round.calls, round.text) \in L!AssistantRows
<1>1. mem \in Seq(L!Row)
  BY DEF IInv, TypeOK
<1>2. step \in Nat
  BY NumberTypes DEF IInv
<1>3. round.calls \in Seq(Key) /\ round.text \in BOOLEAN
  BY DEF IInv, TypeOK
<1>4. \A j \in DOMAIN mem : mem[j].role # "user" =>
          mem[j].step \in Nat /\ mem[j].step < step
  BY <1>1, RowFields DEF IInv, StepsUsed
<1>5. L!FreshStep(mem, step)
  BY <1>4 DEF L!FreshStep
<1>6. \A i \in Nat : ~L!Answered(mem, step, i)
  BY <1>2, <1>4 DEF L!Answered
<1>7. L!Complete(mem)
  BY DEF IInv, WholeSteps, Dispatching
<1>8. QED BY <1>1, <1>2, <1>3, <1>5, <1>6, <1>7, RowTypes

\* Placed after a step, by the positions of the two kinds of row.
LEMMA PlacedBetween ==
    ASSUME pc' \notin Dispatching,
           NEW T, NEW A, Rows("tool")' = T, Rows("assistant")' = A,
           \A a \in A : \A i \in DOMAIN mem'[a].calls : a + i \in T
    PROVE  Placed'
BY DEF Placed

LEMMA PlacedInside ==
    ASSUME pc' \in Dispatching, NEW a \in Rows("assistant")',
           mem'[a].step = step', mem'[a].calls = round'.calls,
           Len(mem') = a + idx' - 1,
           \A i \in 1..(idx' - 1) : a + i \in Rows("tool")'
    PROVE  Placed'
BY DEF Placed

LEMMA StoreAssistant ==
    ASSUME IInv, pc = "assistant", idx' = 1, UNCHANGED <<step, round>>,
           pc' = (IF round.calls = <<>> THEN "finish" ELSE "call"),
           mem' = Append(mem, L!AssistantRow(step, round.calls, round.text))
    PROVE  Recorded'
<1> DEFINE row == L!AssistantRow(step, round.calls, round.text)
           new == Len(mem) + 1
<1>1. /\ row.role = "assistant" /\ row.step = step
      /\ row.calls = round.calls /\ row.text = round.text
  BY DEF L!AssistantRow
<1>2. /\ DOMAIN mem' = DOMAIN mem \cup {new} /\ new \notin DOMAIN mem
      /\ mem'[new] = row /\ Len(mem') = new /\ new \in Nat
      /\ \A j \in DOMAIN mem : mem'[j] = mem[j] /\ j < new
  BY AtAssistant, AppendRow
<1>3. \A s, i : L!Answered(mem', s, i) <=> L!Answered(mem, s, i)
  BY <1>1, AtAssistant, AnsweredAppend
<1> HIDE DEF row, new
<1>4. Position'
  BY AtAssistant DEF Position, Dispatching
<1>5. StepsUsed'
  BY <1>1, <1>2, AtAssistant DEF IInv, StepsUsed
<1>6. CurrentStep'
  <2>1. \A i \in Nat : ~L!Answered(mem', step', i)
    BY <1>3, AtAssistant
  <2>2. 1..(idx' - 1) = {}
    OBVIOUS
  <2>3. \A a \in DOMAIN mem' : mem'[a].role = "assistant" =>
           \/ mem'[a].step = step' /\ mem'[a].calls = round'.calls
           \/ \A i \in DOMAIN mem'[a].calls : L!Answered(mem', mem'[a].step, i)
    BY <1>1, <1>2, <1>3, AtAssistant DEF L!Complete
  <2>4. \E a \in DOMAIN mem' : /\ mem'[a].role = "assistant"
                               /\ mem'[a].step = step'
                               /\ mem'[a].calls = round'.calls
    BY <1>1, <1>2
  <2>5. QED BY <2>1, <2>2, <2>3, <2>4 DEF CurrentStep
<1>7. WholeSteps'
  <2>1. CASE round.calls = <<>>
    BY <1>1, <2>1, AtAssistant, CompleteAppend DEF WholeSteps, row
  <2>2. CASE round.calls # <<>>
    BY <2>2 DEF WholeSteps, Dispatching
  <2>3. QED BY <2>1, <2>2
<1>8. Untouched'
  BY DEF Untouched
<1>9. Answering'
  BY <1>1, <1>2 DEF Answering, L!EndsWithAnswer, IInv, HasText
<1>10. Placed' /\ Pairing'
  <2>1. Rows("tool")' = Rows("tool")
    BY <1>1, <1>2 DEF Rows
  <2>2. Rows("assistant")' = Rows("assistant") \cup {new}
    BY <1>1, <1>2 DEF Rows
  <2>3. /\ Rows("tool") \subseteq DOMAIN mem
        /\ Rows("assistant") \subseteq DOMAIN mem
    BY DEF Rows
  <2>4. \A a \in Rows("assistant") :
           \A i \in DOMAIN mem[a].calls : a + i \in Rows("tool")
    BY DEF IInv, Placed, Dispatching
  <2>5. Pairing
    BY DEF IInv
  <2>6. Pairing'
    <3>1. ASSUME NEW t \in Rows("tool")
          PROVE  \E a \in Rows("assistant") \cup {new} :
                    \E i \in DOMAIN mem'[a].calls :
                       t = a + i /\ mem'[t].step = mem'[a].step /\ mem'[t].idx = i
      BY <1>2, <2>3, <2>5 DEF Pairing
    <3>2. ASSUME NEW a \in Rows("assistant") \cup {new},
                 NEW b \in Rows("assistant") \cup {new}, a < b,
                 NEW i \in DOMAIN mem'[a].calls
          PROVE  a + i \in Rows("tool") /\ a + i < b
      <4>1. a \in Rows("assistant") /\ mem'[a] = mem[a]
        BY <1>2, <2>3, <3>2
      <4>2. a + i \in Rows("tool") /\ a + i < new
        BY <1>2, <2>3, <2>4, <3>2, <4>1
      <4>3. CASE b = new
        BY <4>2, <4>3
      <4>4. CASE b \in Rows("assistant")
        BY <2>5, <3>2, <4>1, <4>4 DEF Pairing
      <4>5. QED BY <3>2, <4>3, <4>4
    <3> DEFINE T == Rows("tool")
               A == Rows("assistant") \cup {new}
    <3>3. \A t \in T : \E a \in A : \E i \in DOMAIN mem'[a].calls :
             t = a + i /\ mem'[t].step = mem'[a].step /\ mem'[t].idx = i
      BY <3>1
    <3>4. \A a, b \in A : a < b =>
             \A i \in DOMAIN mem'[a].calls : a + i \in T /\ a + i < b
      BY <3>2
    <3>5. Rows("tool")' = T /\ Rows("assistant")' = A
      BY <2>1, <2>2
    <3> HIDE DEF T, A
    <3>6. QED BY <3>3, <3>4, <3>5 DEF Pairing
  <2>7. CASE round.calls = <<>>
    <3>1. DOMAIN mem'[new].calls = {}
      BY <1>1, <1>2, <2>7
    <3>2. \A a \in Rows("assistant") : mem'[a].calls = mem[a].calls
      BY <1>2, <2>3
    <3>3. \A a \in Rows("assistant") \cup {new} :
             \A i \in DOMAIN mem'[a].calls : a + i \in Rows("tool")
      BY <2>4, <3>1, <3>2
    <3>4. pc' \notin Dispatching
      BY <2>7 DEF Dispatching
    <3>5. QED BY <2>1, <2>2, <2>6, <3>3, <3>4, PlacedBetween
  <2>8. CASE round.calls # <<>>
    <3>1. Len(mem') = new + idx' - 1 /\ 1..(idx' - 1) = {}
      BY <1>2
    <3>2. pc' = "call"
      BY <2>8
    <3>3. mem'[new].step = step' /\ mem'[new].calls = round'.calls
      BY <1>1, <1>2
    <3>4. new \in Rows("assistant")'
      BY <2>2
    <3>5. pc' \in Dispatching
      BY <3>2 DEF Dispatching
    <3>6. QED BY <2>6, <3>1, <3>3, <3>4, <3>5, PlacedInside
  <2>9. QED BY <2>6, <2>7, <2>8
<1>11. QED
  BY <1>4, <1>5, <1>6, <1>7, <1>8, <1>9, <1>10 DEF Recorded

\* A tool row answers the next open call of the step the log ends in.
LEMMA AtTool ==
    ASSUME IInv, pc = "tool"
    PROVE  /\ mem \in Seq(L!Row) /\ step \in Nat /\ idx \in Nat
           /\ round.calls \in Seq(Key) /\ idx \in DOMAIN round.calls
           /\ L!ToolRow(step, idx, result) \in L!ToolRows
           /\ L!NextOpen(mem, step, idx)
<1>1. mem \in Seq(L!Row) /\ round.calls \in Seq(Key) /\ result \in Outcome
  BY DEF IInv, TypeOK
<1>2. step \in Nat /\ idx \in Nat
  BY NumberTypes DEF IInv
<1>3. idx \in DOMAIN round.calls
  BY DEF IInv, Position, Dispatching
<1>4. L!ToolRow(step, idx, result) \in L!ToolRows
  BY <1>1, <1>2, RowTypes
<1>5. \A i \in Nat : L!Answered(mem, step, i) <=> i \in 1..(idx - 1)
  BY DEF IInv, CurrentStep, Dispatching
<1>6. ~L!Answered(mem, step, idx)
  BY <1>2, <1>5
<1>7. \A k \in 1..(idx - 1) : L!Answered(mem, step, k)
  BY <1>2, <1>5
<1>8. \E j \in DOMAIN mem : /\ mem[j].role = "assistant" /\ mem[j].step = step
                            /\ idx \in DOMAIN mem[j].calls
  BY <1>3 DEF IInv, CurrentStep, Dispatching
<1>9. QED BY <1>1, <1>2, <1>3, <1>4, <1>6, <1>7, <1>8 DEF L!NextOpen

LEMMA StoreTool ==
    ASSUME IInv, pc = "tool", idx' = idx + 1, UNCHANGED <<step, round>>,
           pc' = (IF idx = Len(round.calls) THEN "head" ELSE "call"),
           mem' = Append(mem, L!ToolRow(step, idx, result))
    PROVE  Recorded'
<1> DEFINE row == L!ToolRow(step, idx, result)
           new == Len(mem) + 1
<1>1. row.role = "tool" /\ row.step = step /\ row.idx = idx
  BY DEF L!ToolRow
<1>2. /\ DOMAIN mem' = DOMAIN mem \cup {new} /\ new \notin DOMAIN mem
      /\ mem'[new] = row /\ Len(mem') = new /\ new \in Nat
      /\ \A j \in DOMAIN mem : mem'[j] = mem[j] /\ j < new
  BY AtTool, AppendRow
<1>3. \A s, i : L!Answered(mem', s, i) <=>
                    L!Answered(mem, s, i) \/ (s = step /\ i = idx)
  <2> HIDE DEF row
  <2> SUFFICES ASSUME NEW s, NEW i
               PROVE  L!Answered(mem', s, i) <=>
                          L!Answered(mem, s, i) \/ (s = step /\ i = idx)
    OBVIOUS
  <2>1. mem' = Append(mem, row)
    BY DEF row
  <2>2. L!Answered(Append(mem, row), s, i) <=>
            \/ L!Answered(mem, s, i)
            \/ row.role = "tool" /\ row.step = s /\ row.idx = i
    BY AtTool, AnsweredAppend
  <2>3. QED BY <1>1, <2>1, <2>2
<1>4. /\ \E a \in DOMAIN mem : /\ mem[a].role = "assistant"
                               /\ mem[a].step = step
                               /\ mem[a].calls = round.calls
      /\ \A i \in Nat : L!Answered(mem, step, i) <=> i \in 1..(idx - 1)
      /\ \A a \in DOMAIN mem : mem[a].role = "assistant" =>
            \/ mem[a].step = step /\ mem[a].calls = round.calls
            \/ \A i \in DOMAIN mem[a].calls : L!Answered(mem, mem[a].step, i)
  BY DEF IInv, CurrentStep, Dispatching
<1> HIDE DEF row, new
<1>5. Position'
  BY AtTool DEF Position, Dispatching
<1>6. StepsUsed'
  BY <1>1, <1>2, AtTool DEF IInv, StepsUsed
<1>7. \A i \in Nat : L!Answered(mem', step, i) <=> i \in 1..idx
  <2> SUFFICES ASSUME NEW i \in Nat
               PROVE  L!Answered(mem', step, i) <=> i \in 1..idx
    OBVIOUS
  <2>1. L!Answered(mem, step, i) <=> i \in 1..(idx - 1)
    BY <1>4
  <2>2. L!Answered(mem', step, i) <=> L!Answered(mem, step, i) \/ i = idx
    BY <1>3
  <2>3. idx \in Nat /\ idx >= 1
    BY AtTool
  <2>4. i \in 1..idx <=> i \in 1..(idx - 1) \/ i = idx
    BY <2>3
  <2>5. QED BY <2>1, <2>2, <2>4
<1>8. \A a \in DOMAIN mem' : mem'[a].role = "assistant" =>
        \/ mem'[a].step = step /\ mem'[a].calls = round.calls
        \/ \A i \in DOMAIN mem'[a].calls : L!Answered(mem', mem'[a].step, i)
  <2> SUFFICES ASSUME NEW a \in DOMAIN mem', mem'[a].role = "assistant"
               PROVE  \/ mem'[a].step = step /\ mem'[a].calls = round.calls
                      \/ \A i \in DOMAIN mem'[a].calls :
                            L!Answered(mem', mem'[a].step, i)
    OBVIOUS
  <2>1. a \in DOMAIN mem /\ mem'[a] = mem[a]
    BY <1>1, <1>2
  <2>2. QED BY <1>3, <1>4, <2>1
<1>9. CurrentStep'
  <2>1. \E a \in DOMAIN mem' : /\ mem'[a].role = "assistant"
                               /\ mem'[a].step = step
                               /\ mem'[a].calls = round.calls
    BY <1>2, <1>4
  <2>2. idx' - 1 = idx
    BY AtTool
  <2>3. QED BY <1>7, <1>8, <2>1, <2>2 DEF CurrentStep
<1>10. WholeSteps'
  <2>1. CASE idx = Len(round.calls)
    <3>1. \A i \in DOMAIN round.calls : L!Answered(mem', step, i)
      BY <1>7, <2>1, AtTool
    <3>2. L!Complete(mem')
      BY <1>8, <3>1 DEF L!Complete
    <3>3. QED BY <3>2 DEF WholeSteps
  <2>2. CASE idx # Len(round.calls)
    BY <2>2 DEF WholeSteps, Dispatching
  <2>3. QED BY <2>1, <2>2
<1>11. Untouched' /\ Answering'
  BY DEF Untouched, Answering
<1>12. Placed' /\ Pairing'
  <2>1. PICK a \in Rows("assistant") :
           /\ mem[a].step = step /\ mem[a].calls = round.calls
           /\ Len(mem) = a + idx - 1
           /\ \A i \in 1..(idx - 1) : a + i \in Rows("tool")
    BY DEF IInv, Placed, Dispatching
  <2>2. /\ Rows("tool")' = Rows("tool") \cup {new}
        /\ Rows("assistant")' = Rows("assistant")
    BY <1>1, <1>2 DEF Rows
  <2>3. /\ Rows("tool") \subseteq DOMAIN mem
        /\ Rows("assistant") \subseteq DOMAIN mem
        /\ Rows("tool") \cap Rows("assistant") = {}
    BY DEF Rows
  <2>4. /\ idx \in Nat /\ idx >= 1 /\ a \in Nat /\ a < new /\ new = a + idx
        /\ idx \in DOMAIN round.calls
    BY <1>2, <2>1, <2>3, AtTool DEF new
  <2>5. Pairing
    BY DEF IInv
  <2>6. Pairing'
    <3>1. ASSUME NEW t \in Rows("tool") \cup {new}
          PROVE  \E b \in Rows("assistant") : \E i \in DOMAIN mem'[b].calls :
                    t = b + i /\ mem'[t].step = mem'[b].step /\ mem'[t].idx = i
      <4>1. CASE t \in Rows("tool")
        <5>1. PICK b \in Rows("assistant") : \E i \in DOMAIN mem[b].calls :
                 t = b + i /\ mem[t].step = mem[b].step /\ mem[t].idx = i
          BY <2>5, <4>1 DEF Pairing
        <5>2. mem'[b] = mem[b] /\ mem'[t] = mem[t]
          BY <1>2, <2>3, <4>1
        <5>3. QED BY <5>1, <5>2
      <4>2. CASE t = new
        <5>1. mem'[t].step = step /\ mem'[t].idx = idx
          BY <1>1, <1>2, <4>2
        <5>2. mem'[a].step = step /\ idx \in DOMAIN mem'[a].calls
          BY <1>2, <2>1, <2>3, <2>4
        <5>3. QED BY <2>4, <4>2, <5>1, <5>2
      <4>3. QED BY <4>1, <4>2
    <3>2. ASSUME NEW b \in Rows("assistant"), NEW c \in Rows("assistant"),
                 b < c, NEW i \in DOMAIN mem'[b].calls
          PROVE  b + i \in Rows("tool") \cup {new} /\ b + i < c
      <4>1. mem'[b] = mem[b]
        BY <1>2, <2>3
      <4>2. QED BY <2>5, <3>2, <4>1 DEF Pairing
    <3> DEFINE T == Rows("tool") \cup {new}
               A == Rows("assistant")
    <3>3. \A t \in T : \E b \in A : \E i \in DOMAIN mem'[b].calls :
             t = b + i /\ mem'[t].step = mem'[b].step /\ mem'[t].idx = i
      BY <3>1
    <3>4. \A b, c \in A : b < c =>
             \A i \in DOMAIN mem'[b].calls : b + i \in T /\ b + i < c
      BY <3>2
    <3>5. Rows("tool")' = T /\ Rows("assistant")' = A
      BY <2>2
    <3> HIDE DEF T, A
    <3>6. QED BY <3>3, <3>4, <3>5 DEF Pairing
  <2>7. \A b \in Rows("assistant") : b <= a
    <3> SUFFICES ASSUME NEW b \in Rows("assistant"), ~(b <= a) PROVE FALSE
      OBVIOUS
    <3>1. b - a \in 1..(idx - 1) /\ b = a + (b - a)
      BY <1>2, <2>1, <2>3, <2>4, AtTool
    <3>2. b \in Rows("tool")
      BY <2>1, <3>1
    <3>3. QED BY <2>3, <3>2
  <2>8. \A i \in 1..idx : a + i \in Rows("tool")'
    <3> SUFFICES ASSUME NEW i \in 1..idx PROVE a + i \in Rows("tool")'
      OBVIOUS
    <3>1. i \in 1..(idx - 1) \/ i = idx
      BY <2>4
    <3>2. QED BY <2>1, <2>2, <2>4, <3>1
  <2>9. CASE idx = Len(round.calls)
    <3>1. ASSUME NEW b \in Rows("assistant"), NEW i \in DOMAIN mem'[b].calls
          PROVE  b + i \in Rows("tool")'
      <4>1. mem'[b] = mem[b]
        BY <1>2, <2>3
      <4>2. CASE b = a
        <5>1. mem'[b].calls = round.calls
          BY <2>1, <4>1, <4>2
        <5>2. i \in DOMAIN round.calls
          BY <3>1, <5>1
        <5>3. i \in 1..idx
          BY <2>9, <5>2, AtTool
        <5>4. QED BY <2>8, <4>2, <5>3
      <4>3. CASE b < a
        BY <2>2, <2>5, <4>1, <4>3 DEF Pairing
      <4>4. QED BY <1>2, <2>3, <2>4, <2>7, <4>2, <4>3
    <3>2. pc' \notin Dispatching
      BY <2>9 DEF Dispatching
    <3>3. QED BY <2>2, <2>6, <3>1, <3>2, PlacedBetween
  <2>10. CASE idx # Len(round.calls)
    <3>1. pc' = "call" /\ idx' - 1 = idx /\ Len(mem') = a + idx' - 1
      BY <1>2, <2>4, <2>10
    <3>2. mem'[a].step = step' /\ mem'[a].calls = round'.calls
      BY <1>2, <2>1, <2>3
    <3>3. \A i \in 1..(idx' - 1) : a + i \in Rows("tool")'
      BY <2>8, <3>1
    <3>4. pc' \in Dispatching /\ a \in Rows("assistant")'
      BY <2>2, <3>1 DEF Dispatching
    <3>5. QED BY <2>6, <3>1, <3>2, <3>3, <3>4, PlacedInside
  <2>11. QED BY <2>9, <2>10
<1>13. QED
  BY <1>5, <1>6, <1>9, <1>10, <1>11, <1>12 DEF Recorded
-----------------------------------------------------------------------------
\* The events that do not report success.
LEMMA QuietStop ==
    ASSUME NEW c \in {"ABORTED", "MEMORY_READ_FAILED", "RETRIEVAL_FAILED",
                      "MEMORY_WRITE_FAILED", "LLM_ERROR", "INTERNAL"},
           StopWith(c)
    PROVE  \E e \in Events : Emit(e) /\ e.type # "done"
<1>1. Event("error", c, NoId) \in Events /\ Event("error", c, NoId).type # "done"
  BY EventTypes DEF NoId, Event
<1>2. QED BY <1>1 DEF StopWith

LEMMA NoIdType == NoId \in Nat \X Nat
BY DEF NoId

LEMMA QuietEvent ==
    ASSUME NEW t \in {"retrieval", "tool_call", "tool_result"},
           NEW i \in Nat \X Nat, Emit(Event(t, "", i))
    PROVE  \E e \in Events : Emit(e) /\ e.type # "done"
<1>1. Event(t, "", i) \in Events /\ Event(t, "", i).type # "done"
  BY EventTypes DEF Event
<1>2. QED BY <1>1

\* A turn that stops short.
LEMMA Stopped ==
    ASSUME IInv, pc # "ended", UNCHANGED <<mem, step, idx>>,
           (pc' = "ended" /\ UNCHANGED out)
             \/ \E c \in {"ABORTED", "MEMORY_READ_FAILED", "RETRIEVAL_FAILED",
                         "MEMORY_WRITE_FAILED", "LLM_ERROR", "INTERNAL"} :
                   StopWith(c)
    PROVE  Recorded' /\ HasText' /\ Reported' /\ Status' = "failed"
<1>1. pc' = "ended"
  BY DEF StopWith
<1>2. UNCHANGED out \/ \E e \in Events : Emit(e) /\ e.type # "done"
  BY QuietStop
<1>3. QED BY <1>1, <1>2, Calm, Stopping DEF HasText

\* A step inside the turn that stores nothing.
LEMMA Passed ==
    ASSUME IInv, UNCHANGED <<mem, step, idx, round>>, pc' # "ended", pc # "ended",
           (pc \in Dispatching /\ pc' \in Dispatching)
             \/ (pc \notin Dispatching /\ pc' \in {pc, "retrieve", "user",
                                                  "searching", "head"}),
           pc' \in {"start", "retrieve", "user"}
               => pc \in {"start", "retrieve", "user"},
           UNCHANGED out \/ \E e \in Events : Emit(e) /\ e.type # "done"
    PROVE  Recorded' /\ HasText' /\ Reported'
<1>1. HasText'
  BY DEF IInv, HasText, Dispatching
<1>2. Recorded'
  BY Calm DEF Dispatching
<1>3. Reported'
  BY Reporting
<1>4. QED BY <1>1, <1>2, <1>3
-----------------------------------------------------------------------------
LEMMA IInvInit == Init => IInv
<1> SUFFICES ASSUME Init PROVE IInv
  OBVIOUS
<1>1. mem = <<>> /\ out = <<>> /\ pc = "start"
  BY DEF Init
<1>2. DOMAIN mem = {} /\ DOMAIN out = {}
  BY <1>1
<1>3. Position /\ CurrentStep /\ Untouched /\ HasText /\ Answering
  BY <1>1 DEF Position, CurrentStep, Untouched, HasText, Answering, Dispatching
<1>4. StepsUsed /\ WholeSteps /\ NotYetDone /\ Placed /\ Pairing
  BY <1>1, <1>2 DEF StepsUsed, WholeSteps, NotYetDone, Placed, Pairing, Rows,
     Dispatching, L!Complete
<1>5. DoneIsAnswered
  BY <1>1 DEF DoneIsAnswered, Status
<1>6. QED BY <1>3, <1>4, <1>5, TypeInit DEF IInv

\* One case per action, in the order of the generator.
LEMMA IInvStep == IInv /\ [Next]_vars => IInv'
<1> SUFFICES ASSUME IInv, [Next]_vars PROVE IInv'
  OBVIOUS
<1> USE DEF given, stored, roundVars, toolVars
<1>0. TypeOK'
  BY TypeStep DEF IInv
<1> SUFFICES Recorded' /\ HasText' /\ Reported'
  BY <1>0 DEF IInv, Recorded, Reported
<1>1. CASE LoadHistory
  <2>1. CASE \E c \in {"ABORTED", "MEMORY_READ_FAILED"} : StopWith(c)
    BY <1>1, <2>1, Stopped DEF LoadHistory
  <2>2. CASE pc' = "retrieve" /\ UNCHANGED out
    BY <1>1, <2>2, Passed DEF LoadHistory, Dispatching
  <2>3. QED BY <1>1, <2>1, <2>2 DEF LoadHistory
<1>2. CASE Retrieve
  <2>1. CASE \E c \in {"ABORTED", "RETRIEVAL_FAILED"} : StopWith(c)
    BY <1>2, <2>1, Stopped DEF Retrieve
  <2>2. CASE /\ pc' = "user"
             /\ UNCHANGED out \/ Emit(Event("retrieval", "", NoId))
    <3>1. UNCHANGED out \/ \E e \in Events : Emit(e) /\ e.type # "done"
      BY <2>2, QuietEvent, NoIdType
    <3>2. QED BY <1>2, <2>2, <3>1, Passed DEF Retrieve, Dispatching
  <2>3. QED BY <1>2, <2>1, <2>2 DEF Retrieve
<1>3. CASE PersistUser
  <2>1. CASE StopWith("MEMORY_WRITE_FAILED") /\ UNCHANGED <<mem, msgs, late>>
    BY <1>3, <2>1, Stopped DEF PersistUser
  <2>2. CASE /\ mem' = Append(mem, L!UserRow) /\ UNCHANGED out
             /\ pc' \in {"search", "head"}
    BY <1>3, <2>2, StoreUser, Reporting DEF PersistUser, HasText
  <2>3. CASE pc' \in {"search", "head"} /\ UNCHANGED <<mem, out>>
    <3>1. Recorded'
      BY <1>3, <2>3, Calm DEF PersistUser, Dispatching
    <3>2. QED BY <1>3, <2>3, <3>1, Reporting DEF PersistUser, HasText
  <2>4. QED BY <1>3, <2>1, <2>2, <2>3 DEF PersistUser
<1>4. CASE StartAutoSearch
  <2>1. \E e \in Events : Emit(e) /\ e.type # "done"
    BY <1>4, QuietEvent, NoIdType DEF StartAutoSearch
  <2>2. QED BY <1>4, <2>1, Passed DEF StartAutoSearch, Dispatching
<1>5. CASE FinishAutoSearch
  <2>1. \E e \in Events : Emit(e) /\ e.type # "done"
    BY <1>5, QuietEvent, NoIdType DEF FinishAutoSearch
  <2>2. QED BY <1>5, <2>1, Passed DEF FinishAutoSearch, Dispatching
<1>6. CASE OpenRound
  <2>1. CASE /\ \E c \in {"ABORTED", "INTERNAL"} : StopWith(c)
             /\ UNCHANGED <<step, round>>
    BY <1>6, <2>1, Stopped DEF OpenRound
  <2>2. CASE pc' = "llm" /\ step' = step + 1 /\ UNCHANGED out
    BY <1>6, <2>2, RoundOpens, Reporting DEF OpenRound, HasText
  <2>3. QED BY <1>6, <2>1, <2>2 DEF OpenRound
<1>7. CASE OpenSynthesis
  <2>1. CASE StopWith("INTERNAL") /\ UNCHANGED <<step, round>>
    BY <1>7, <2>1, Stopped DEF OpenSynthesis
  <2>2. CASE pc' = "llm" /\ step' = step + 1 /\ UNCHANGED out
    BY <1>7, <2>2, RoundOpens, Reporting DEF OpenSynthesis, HasText
  <2>3. QED BY <1>7, <2>1, <2>2 DEF OpenSynthesis
<1>8. CASE Chunk
  <2>1. CASE StopWith("ABORTED")
    BY <1>8, <2>1, Stopped DEF Chunk
  <2>2. CASE UNCHANGED <<pc, out>>
    BY <1>8, <2>2, Calm, Reporting DEF Chunk, HasText, Dispatching
  <2>3. QED BY <1>8, <2>1, <2>2 DEF Chunk
<1>9. CASE StreamFails
  BY <1>9, Stopped DEF StreamFails
<1>10. CASE StreamEnds
  <2>1. HasText'
    BY <1>10 DEF StreamEnds, HasText
  <2>2. QED BY <1>10, <2>1, Calm, Reporting DEF StreamEnds, Dispatching
<1>11. CASE PersistAssistant
  <2>1. CASE StopWith("MEMORY_WRITE_FAILED") /\ UNCHANGED <<mem, msgs, late>>
    <3>1. pc' = "ended" /\ pc # "ended"
      BY <1>11, <2>1 DEF StopWith, PersistAssistant
    <3>2. Reported'
      BY <2>1, <3>1, QuietStop, Stopping
    <3>3. Recorded' /\ HasText'
      BY <1>11, <2>1, <3>1 DEF PersistAssistant, IInv, Recorded, HasText,
         Position, StepsUsed, CurrentStep, WholeSteps, Untouched, Answering,
         Placed, Pairing, Rows, Dispatching
    <3>4. QED BY <3>2, <3>3
  <2>2. CASE /\ mem' = Append(mem, L!AssistantRow(step, round.calls, round.text))
             /\ pc' = (IF round.calls = <<>> THEN "finish" ELSE "call")
             /\ UNCHANGED out
    BY <1>11, <2>2, StoreAssistant, Reporting DEF PersistAssistant, HasText
  <2>3. QED BY <1>11, <2>1, <2>2 DEF PersistAssistant, Persist
<1>12. CASE NoRegistry
  BY <1>12, Stopped DEF NoRegistry
<1>13. CASE Announce
  <2>1. CASE StopWith("ABORTED")
    BY <1>13, <2>1, Stopped DEF Announce
  <2>2. CASE pc' = "decide" /\ Emit(Event("tool_call", "", CallId))
    <3>1. \E e \in Events : Emit(e) /\ e.type # "done"
      BY <2>2, QuietEvent, NumberTypes DEF IInv
    <3>2. QED BY <1>13, <2>2, <3>1, Passed DEF Announce, Dispatching
  <2>3. QED BY <1>13, <2>1, <2>2 DEF Announce
<1>14. CASE Skip
  BY <1>14, Passed DEF Skip, Dispatching
<1>15. CASE Dispatch
  BY <1>15, Passed DEF Dispatch, Dispatching
<1>16. CASE ToolEnds
  BY <1>16, Passed DEF ToolEnds, Dispatching
<1>17. CASE ShowResult
  <2>1. \E e \in Events : Emit(e) /\ e.type # "done"
    BY <1>17, QuietEvent, NumberTypes DEF ShowResult, IInv
  <2>2. QED BY <1>17, <2>1, Passed DEF ShowResult, Dispatching
<1>18. CASE PersistTool
  <2>1. CASE StopWith("MEMORY_WRITE_FAILED") /\ UNCHANGED <<mem, msgs, late>>
    <3>1. pc' = "ended" /\ pc # "ended"
      BY <1>18, <2>1 DEF StopWith, PersistTool
    <3>2. Reported'
      BY <2>1, <3>1, QuietStop, Stopping
    <3>3. Recorded' /\ HasText'
      BY <1>18, <2>1, <3>1 DEF PersistTool, IInv, Recorded, HasText,
         Position, StepsUsed, CurrentStep, WholeSteps, Untouched, Answering,
         Placed, Pairing, Rows, Dispatching
    <3>4. QED BY <3>2, <3>3
  <2>2. CASE /\ mem' = Append(mem, L!ToolRow(step, idx, result))
             /\ pc' = (IF idx = Len(round.calls) THEN "head" ELSE "call")
             /\ UNCHANGED out
    BY <1>18, <2>2, StoreTool, Reporting DEF PersistTool, HasText
  <2>3. QED BY <1>18, <2>1, <2>2 DEF PersistTool, Persist
<1>19. CASE Finish
  <2>1. Recorded'
    BY <1>19, Calm DEF Finish
  <2>2. L!Complete(mem) /\ L!EndsWithAnswer(mem) /\ UNCHANGED mem
    BY <1>19 DEF Finish, IInv, WholeSteps, Answering, Dispatching
  <2>3. QED BY <1>19, <2>1, <2>2
            DEF Finish, HasText, Reported, NotYetDone, DoneIsAnswered
<1>20. CASE Abort
  <2>1. Recorded'
    BY <1>20, Calm DEF Abort, Dispatching
  <2>2. QED BY <1>20, <2>1, Reporting DEF Abort, IInv, HasText
<1>21. CASE Close
  BY <1>21, Stopped DEF Close
<1>22. CASE UNCHANGED vars
  BY <1>22 DEF vars, IInv, Recorded, Reported, HasText, Position, StepsUsed,
     CurrentStep, WholeSteps, Untouched, Answering, Placed, Pairing, Rows,
     NotYetDone, DoneIsAnswered, Status
<1>23. QED
  BY <1>1, <1>2, <1>3, <1>4, <1>5, <1>6, <1>7, <1>8, <1>9, <1>10, <1>11, <1>12,
     <1>13, <1>14, <1>15, <1>16, <1>17, <1>18, <1>19, <1>20, <1>21, <1>22
  DEF Next, Work
-----------------------------------------------------------------------------
LEMMA Invariance == Spec => []IInv
<1>1. QED BY IInvInit, IInvStep, PTL DEF Spec

\* Every variable of the generator keeps its type, whatever the request, the
\* model, the tools, the database and the client do to ChatService.generate.
THEOREM TypeCorrect == Spec => []TypeOK
<1>1. IInv => TypeOK
  BY DEF IInv
<1>2. QED BY <1>1, Invariance, PTL

\* However a turn stops (abort, error, closed generator), only the last step
\* it stored may be half: the tool rows of every step stand in the order of
\* its calls directly behind the assistant row that declares them, and those
\* of every step but the last are all there.
THEOREM PairingCorrect == Spec => []Pairing
<1>1. IInv => Pairing
  BY DEF IInv
<1>2. QED BY <1>1, Invariance, PTL

\* When generate yields its done event, every tool call it stored has its
\* tool row, and the log ends on an answer with text.
THEOREM DoneCorrect == Spec => []DoneIsAnswered
<1>1. IInv => DoneIsAnswered
  BY DEF IInv
<1>2. QED BY <1>1, Invariance, PTL
-----------------------------------------------------------------------------
\* A step that stores nothing is a stutter or the failure of the abstract turn.
LEMMA Stutters ==
    ASSUME UNCHANGED mem, pc # "ended", pc' # "ended"
    PROVE  UNCHANGED <<mem, Status>>
BY DEF Status

LEMMA Fails ==
    ASSUME UNCHANGED mem, pc # "ended", Status' = "failed"
    PROVE  L!Fail
BY DEF L!Fail, Status

LEMMA GrowsByRow ==
    ASSUME NEW S, mem \in Seq(S), NEW row, mem' = Append(mem, row)
    PROVE  L!Grows(mem') /\ mem'[Len(mem) + 1] = row
<1>1. /\ mem'[Len(mem) + 1] = row
      /\ Len(mem') = Len(mem) + 1
  BY AppendRow
<1>2. QED BY <1>1 DEF L!Grows

LEMMA StepRefines == IInv /\ [Next]_vars => [L!Next]_<<mem, Status>>
<1> SUFFICES ASSUME IInv, [Next]_vars PROVE [L!Next]_<<mem, Status>>
  OBVIOUS
<1> USE DEF given, stored, roundVars, toolVars
<1>1. CASE UNCHANGED vars
  BY <1>1 DEF vars, Status
<1>2. CASE pc # "ended" /\ UNCHANGED mem /\ pc' # "ended"
  BY <1>2, Stutters
<1>3. CASE /\ pc # "ended" /\ pc' = "ended" /\ UNCHANGED mem
           /\ \/ UNCHANGED out
              \/ \E c \in {"ABORTED", "MEMORY_READ_FAILED", "RETRIEVAL_FAILED",
                         "MEMORY_WRITE_FAILED", "LLM_ERROR", "INTERNAL"} :
                    StopWith(c)
  <2>1. UNCHANGED out \/ \E e \in Events : Emit(e) /\ e.type # "done"
    BY <1>3, QuietStop
  <2>2. Status' = "failed"
    BY <1>3, <2>1, Stopping
  <2>3. QED BY <1>3, <2>2, Fails DEF L!Next
<1>4. CASE PersistUser /\ mem' = Append(mem, L!UserRow) /\ pc' # "ended"
  <2>1. mem = <<>> /\ pc # "ended"
    BY <1>4 DEF PersistUser, IInv, Untouched
  <2>2. QED BY <1>4, <2>1 DEF L!AddUser, L!Next, Status
<1>5. CASE /\ PersistAssistant /\ pc' # "ended"
           /\ mem' = Append(mem, L!AssistantRow(step, round.calls, round.text))
  <2> DEFINE row == L!AssistantRow(step, round.calls, round.text)
  <2>1. pc = "assistant"
    BY <1>5 DEF PersistAssistant
  <2>2. L!Grows(mem') /\ mem'[Len(mem) + 1] = row
    BY <1>5, <2>1, AtAssistant, GrowsByRow
  <2>3. row \in L!AssistantRows /\ row.step = step
    BY <2>1, AtAssistant DEF L!AssistantRow
  <2>4. Status = "running" /\ Status' = "running"
    BY <1>5, <2>1 DEF Status
  <2>5. L!AddAssistant
    BY <2>1, <2>2, <2>3, <2>4, AtAssistant DEF L!AddAssistant
  <2>6. QED BY <2>5 DEF L!Next
<1>6. CASE /\ PersistTool /\ pc' # "ended"
           /\ mem' = Append(mem, L!ToolRow(step, idx, result))
  <2> DEFINE row == L!ToolRow(step, idx, result)
  <2>1. pc = "tool"
    BY <1>6 DEF PersistTool
  <2>2. L!Grows(mem') /\ mem'[Len(mem) + 1] = row
    BY <1>6, <2>1, AtTool, GrowsByRow
  <2>3. row \in L!ToolRows /\ row.step = step /\ row.idx = idx
    BY <2>1, AtTool DEF L!ToolRow
  <2>4. Status = "running" /\ Status' = "running"
    BY <1>6, <2>1 DEF Status
  <2>5. L!Answer
    BY <2>1, <2>2, <2>3, <2>4, AtTool DEF L!Answer
  <2>6. QED BY <2>5 DEF L!Next
<1>7. CASE Finish
  <2>1. L!Complete(mem) /\ L!EndsWithAnswer(mem) /\ UNCHANGED mem
    BY <1>7 DEF Finish, IInv, WholeSteps, Answering, Dispatching
  <2>2. Status = "running"
    BY <1>7 DEF Finish, Status
  <2>3. Status' = "done"
    <3>1. out \in Seq(Events) /\ out' = Append(out, Event("done", "", NoId))
      BY <1>7 DEF Finish, Emit, IInv, TypeOK
    <3>2. out' # <<>> /\ out'[Len(out')].type = "done"
      <4>1. Event("done", "", NoId).type = "done"
        BY DEF Event
      <4>2. QED BY <3>1, <4>1, AppendLast
    <3>3. QED BY <1>7, <3>2 DEF Finish, Status
  <2>4. QED BY <2>1, <2>2, <2>3 DEF L!Finish, L!Next
<1>8. QED
  <2>1. CASE LoadHistory \/ Retrieve \/ StartAutoSearch \/ FinishAutoSearch
    BY <1>2, <1>3, <2>1
    DEF LoadHistory, Retrieve, StartAutoSearch, FinishAutoSearch, StopWith
  <2>2. CASE OpenRound \/ OpenSynthesis \/ Chunk \/ StreamFails \/ StreamEnds
    BY <1>2, <1>3, <2>2
    DEF OpenRound, OpenSynthesis, Chunk, StreamFails, StreamEnds, StopWith
  <2>3. CASE NoRegistry \/ Announce \/ Skip \/ Dispatch \/ ToolEnds \/ ShowResult
    BY <1>2, <1>3, <2>3
    DEF NoRegistry, Announce, Skip, Dispatch, ToolEnds, ShowResult, StopWith
  <2>4. CASE PersistUser
    BY <1>2, <1>3, <1>4, <2>4 DEF PersistUser, StopWith
  <2>5. CASE PersistAssistant
    BY <1>3, <1>5, <2>5 DEF PersistAssistant, Persist, StopWith
  <2>6. CASE PersistTool
    BY <1>3, <1>6, <2>6 DEF PersistTool, Persist, StopWith
  <2>7. CASE Abort \/ Close
    BY <1>2, <1>3, <2>7 DEF Abort, Close
  <2>8. QED
    BY <1>1, <1>7, <2>1, <2>2, <2>3, <2>4, <2>5, <2>6, <2>7 DEF Next, Work

\* The generator implements the abstract turn: the rows it commits, and its
\* report of success, are at every step what TurnLog allows.
THEOREM Refinement == Spec => ImplementsTurnLog
<1>1. Init => L!Init
  BY DEF Init, L!Init, Status
<1>2. QED BY <1>1, StepRefines, Invariance, PTL DEF Spec, ImplementsTurnLog, L!Spec
-----------------------------------------------------------------------------
(***************************************************************************)
(* After an abort                                                          *)
(***************************************************************************)

\* What the turn may have begun since the abort, at each of its places: the
\* checks between them leave one call, one round and two rows.
LateBound ==
    /\ ~aborted => late = [dispatched |-> 0, rounds |-> 0, rows |-> 0]
    /\ late.dispatched <= 1 /\ late.rounds <= 1 /\ late.rows <= 2
    /\ pc \in {"start", "retrieve", "user", "search", "decide"} => late.dispatched = 0
    /\ pc \notin {"llm", "assistant", "call", "finish", "ended"} => late.rounds = 0
    /\ pc \in {"start", "retrieve", "user", "decide", "running", "result", "tool"}
          => late.rows = 0
    /\ pc \notin {"call", "finish", "ended"} => late.rows <= 1

LEMMA LateStep == TypeOK /\ LateBound /\ [Next]_vars => LateBound'
<1> SUFFICES ASSUME TypeOK, LateBound, [Next]_vars PROVE LateBound'
  OBVIOUS
<1> USE DEF given
<1>0. late \in [dispatched: Nat, rounds: Nat, rows: Nat] /\ aborted \in BOOLEAN
  BY DEF TypeOK
<1>1. CASE LoadHistory
  BY <1>0, <1>1 DEF LoadHistory, StopWith, Counted, LateBound
<1>2. CASE Retrieve
  BY <1>0, <1>2 DEF Retrieve, StopWith, Counted, LateBound
<1>3. CASE PersistUser
  BY <1>0, <1>3 DEF PersistUser, StopWith, Counted, LateBound
<1>4. CASE StartAutoSearch
  <2>1. CASE aborted
    <3>1. /\ late'.dispatched = late.dispatched + 1 /\ late'.rounds = late.rounds
          /\ late'.rows = late.rows
      BY <1>0, <1>4, <2>1 DEF StartAutoSearch, Counted
    <3>2. pc = "search" /\ pc' = "searching" /\ aborted' = aborted
      BY <1>4 DEF StartAutoSearch
    <3> QED
      BY <1>0, <2>1, <3>1, <3>2 DEF LateBound
  <2>2. CASE ~aborted
    BY <1>0, <1>4, <2>2 DEF StartAutoSearch, Counted, LateBound
  <2> QED
    BY <2>1, <2>2
<1>5. CASE FinishAutoSearch
  BY <1>0, <1>5 DEF FinishAutoSearch, StopWith, Counted, LateBound
<1>6. CASE OpenRound
  BY <1>0, <1>6 DEF OpenRound, StopWith, Counted, LateBound
<1>7. CASE OpenSynthesis
  BY <1>0, <1>7 DEF OpenSynthesis, StopWith, Counted, LateBound
<1>8. CASE Chunk
  BY <1>0, <1>8 DEF Chunk, StopWith, Counted, LateBound
<1>9. CASE StreamFails
  BY <1>0, <1>9 DEF StreamFails, StopWith, Counted, LateBound
<1>10. CASE StreamEnds
  BY <1>0, <1>10 DEF StreamEnds, StopWith, Counted, LateBound
<1>11. CASE PersistAssistant
  BY <1>0, <1>11 DEF PersistAssistant, Persist, StopWith, Counted, LateBound
<1>12. CASE NoRegistry
  BY <1>0, <1>12 DEF NoRegistry, StopWith, Counted, LateBound
<1>13. CASE Announce
  <2>1. late' = late /\ aborted' = aborted
    BY <1>13 DEF Announce
  <2>2. CASE pc' = "ended"
    BY <2>1, <2>2 DEF LateBound
  <2>3. CASE pc' = "decide" /\ ~aborted
    <3>1. late.dispatched = 0 /\ late.rounds = 0 /\ late.rows = 0
      BY <2>3 DEF LateBound
    <3> QED
      BY <2>1, <2>3, <3>1 DEF LateBound
  <2> QED
    BY <1>13, <2>2, <2>3 DEF Announce, StopWith
<1>14. CASE Skip
  BY <1>0, <1>14 DEF Skip, StopWith, Counted, LateBound
<1>15. CASE Dispatch
  BY <1>0, <1>15 DEF Dispatch, StopWith, Counted, LateBound
<1>16. CASE ToolEnds
  BY <1>0, <1>16 DEF ToolEnds, StopWith, Counted, LateBound
<1>17. CASE ShowResult
  BY <1>0, <1>17 DEF ShowResult, StopWith, Counted, LateBound
<1>18. CASE PersistTool
  BY <1>0, <1>18 DEF PersistTool, Persist, StopWith, Counted, LateBound
<1>19. CASE Finish
  BY <1>0, <1>19 DEF Finish, StopWith, Counted, LateBound
<1>20. CASE Abort
  BY <1>0, <1>20 DEF Abort, StopWith, Counted, LateBound
<1>21. CASE Close
  BY <1>0, <1>21 DEF Close, StopWith, Counted, LateBound
<1>22. CASE UNCHANGED vars
  BY <1>22 DEF vars, LateBound
<1> QED
  BY <1>1, <1>2, <1>3, <1>4, <1>5, <1>6, <1>7, <1>8, <1>9, <1>10, <1>11, <1>12, <1>13, <1>14, <1>15, <1>16, <1>17, <1>18, <1>19, <1>20, <1>21, <1>22
  DEF Next, Work

\* After the client's abort a turn begins at most one more dispatch and one more
\* round, and writes at most two more rows, wherever the abort fell (the checks
\* of abort.aborted in ChatService.generate and _stream_llm_round).
THEOREM AbortCorrect == Spec => []AbortStopsWork
<1>1. Init => LateBound
  BY DEF Init, LateBound
<1>2. LateBound => AbortStopsWork
  BY DEF LateBound, AbortStopsWork
<1>3. IInv => TypeOK
  BY DEF IInv
<1> QED
  BY <1>1, <1>2, <1>3, LateStep, Invariance, PTL DEF Spec

-----------------------------------------------------------------------------
(***************************************************************************)
(* What a turn executes                                                    *)
(***************************************************************************)

RunsOf(n) == {i \in DOMAIN ran : NameOf[ran[i]] = n}

\* The tool that runs is not yet counted.
Running(n) == \/ pc = "running" /\ NameOf[Call] = n
              \/ pc = "searching" /\ NameOf[SearchKey] = n

Budget ==
    /\ \A i \in DOMAIN ran : ran[i] \in keys
    /\ \A i, j \in DOMAIN ran : ran[i] = ran[j] => i = j
    /\ pc \in {"start", "retrieve", "user", "search"} => ran = <<>>
    /\ \A n \in DOMAIN counts :
          /\ TurnLimit(n) # NoLimit => Cardinality(RunsOf(n)) <= TurnLimit(n)
          /\ pc # "ended" => Cardinality(RunsOf(n)) <= counts[n] + IF Running(n) THEN 1 ELSE 0

\* The runs of a tool are finitely many.
LEMMA RunsFinite ==
    ASSUME NEW r \in Seq(Key), NEW S \in SUBSET DOMAIN r
    PROVE  IsFiniteSet(S) /\ Cardinality(S) \in Nat
<1>1. IsFiniteSet(1..Len(r)) /\ DOMAIN r = 1..Len(r)
  BY FS_Interval
<1> QED
  BY <1>1, FS_Subset, FS_CardinalityType

LEMMA LimitType == \A n : TurnLimit(n) \in Int /\ (TurnLimit(n) # NoLimit => TurnLimit(n) >= 1)
BY DEF TurnLimit, NoLimit

\* A step that runs nothing.
LEMMA BudgetCalm ==
    ASSUME Budget, UNCHANGED <<keys, counts, ran>>,
           \/ pc' = "ended"
           \/ pc' = pc /\ UNCHANGED <<round, idx>>
           \/ pc \notin {"running", "searching", "ended"} /\ pc' \notin {"running", "searching"},
           pc' \in {"start", "retrieve", "user", "search"}
               => pc \in {"start", "retrieve", "user", "search"}
    PROVE  Budget'
<1>1. \A n : RunsOf(n)' = RunsOf(n)
  BY DEF RunsOf
<1>2. pc' # "ended" => pc # "ended" /\ \A n : Running(n)' <=> Running(n)
  BY DEF Running, Call
<1>3. \A n \in DOMAIN counts : pc' # "ended" =>
          Cardinality(RunsOf(n)') <= counts'[n] + IF Running(n)' THEN 1 ELSE 0
  BY <1>1, <1>2 DEF Budget
<1> QED
  BY <1>1, <1>3 DEF Budget

\* A tool is run: not the same call again, and once more at most its limit.
LEMMA BudgetRun ==
    ASSUME TypeOK, Budget, NEW k \in Key, \A i \in DOMAIN ran : ran[i] # k,
           keys' = keys \cup {k}, ran' = Append(ran, k), counts' = counts,
           pc \notin {"running", "searching", "ended"}, pc' \in {"running", "searching"},
           \A n : Running(n)' <=> NameOf[k] = n,
           TurnLimit(NameOf[k]) # NoLimit =>
               Cardinality(RunsOf(NameOf[k])) + 1 <= TurnLimit(NameOf[k])
    PROVE  Budget'
<1>1. ran \in Seq(Key) /\ ran' \in Seq(Key) /\ counts \in [{NameOf[n] : n \in Key} -> Nat]
  BY DEF TypeOK
<1>2. /\ DOMAIN ran' = DOMAIN ran \cup {Len(ran) + 1} /\ Len(ran) + 1 \notin DOMAIN ran
      /\ ran'[Len(ran) + 1] = k /\ \A j \in DOMAIN ran : ran'[j] = ran[j]
  BY <1>1, AppendRow
<1>3. \A i \in DOMAIN ran' : ran'[i] \in keys'
  BY <1>2 DEF Budget
<1>4. \A i, j \in DOMAIN ran' : ran'[i] = ran'[j] => i = j
  BY <1>2 DEF Budget
<1>5. ASSUME NEW n \in DOMAIN counts
      PROVE  /\ TurnLimit(n) # NoLimit => Cardinality(RunsOf(n)') <= TurnLimit(n)
             /\ Cardinality(RunsOf(n)') <= counts[n] + IF Running(n)' THEN 1 ELSE 0
  <2>1. RunsOf(n) \in SUBSET DOMAIN ran
    BY DEF RunsOf
  <2>2. IsFiniteSet(RunsOf(n)) /\ Cardinality(RunsOf(n)) \in Nat /\ counts[n] \in Nat
    BY <1>1, <2>1, RunsFinite
  <2>3. ~Running(n)
    BY DEF Running
  <2>4. Cardinality(RunsOf(n)) <= counts[n]
    BY <2>2, <2>3 DEF Budget
  <2>5. CASE NameOf[k] = n
    <3>1. RunsOf(n)' = RunsOf(n) \cup {Len(ran) + 1} /\ Len(ran) + 1 \notin RunsOf(n)
      BY <1>2, <2>5 DEF RunsOf
    <3>2. Cardinality(RunsOf(n)') = Cardinality(RunsOf(n)) + 1
      BY <2>2, <3>1, FS_AddElement
    <3> QED
      BY <2>2, <2>4, <2>5, <3>2
  <2>6. CASE NameOf[k] # n
    <3>1. RunsOf(n)' = RunsOf(n)
      BY <1>2, <2>6 DEF RunsOf
    <3>2. ~Running(n)'
      BY <2>6
    <3>3. TurnLimit(n) # NoLimit => Cardinality(RunsOf(n)) <= TurnLimit(n)
      BY DEF Budget
    <3> QED
      BY <2>2, <2>4, <3>1, <3>2, <3>3
  <2> QED
    BY <2>5, <2>6
<1> QED
  BY <1>3, <1>4, <1>5 DEF Budget

\* The tool that ran is counted.
LEMMA BudgetCount ==
    ASSUME TypeOK, Budget, NEW k \in Key, pc # "ended",
           counts' = [counts EXCEPT ![NameOf[k]] = @ + 1], UNCHANGED <<keys, ran>>,
           \A n : Running(n) <=> NameOf[k] = n, pc' \in {"head", "result"}
    PROVE  Budget'
<1>1. counts \in [{NameOf[n] : n \in Key} -> Nat]
  BY DEF TypeOK
<1>2. \A n : RunsOf(n)' = RunsOf(n) /\ ~Running(n)'
  BY DEF RunsOf, Running
<1>3. ASSUME NEW n \in DOMAIN counts PROVE Cardinality(RunsOf(n)) <= counts'[n]
  <2>1. counts'[n] = counts[n] + IF NameOf[k] = n THEN 1 ELSE 0
    BY <1>1
  <2> QED
    BY <2>1 DEF Budget
<1>4. DOMAIN counts' = DOMAIN counts
  OBVIOUS
<1>5. \A n \in DOMAIN counts' : Cardinality(RunsOf(n)') <= counts'[n] + IF Running(n)' THEN 1 ELSE 0
  <2> SUFFICES ASSUME NEW n \in DOMAIN counts
               PROVE  Cardinality(RunsOf(n)') <= counts'[n] + IF Running(n)' THEN 1 ELSE 0
    BY <1>4
  <2>1. counts'[n] \in Nat
    BY <1>1
  <2> QED
    BY <1>2, <1>3, <2>1
<1> QED
  BY <1>2, <1>4, <1>5 DEF Budget

LEMMA BudgetStep == IInv /\ Budget /\ [Next]_vars => Budget'
<1> SUFFICES ASSUME IInv, Budget, [Next]_vars PROVE Budget'
  OBVIOUS
<1> USE DEF given, stored, roundVars, toolVars
<1>0. TypeOK /\ Position /\ SearchKey \in Key
  BY KeyAssumption DEF IInv
<1>1. CASE StartAutoSearch
  <2>1. DOMAIN ran = {}
    <3>1. pc = "search"
      BY <1>1 DEF StartAutoSearch
    <3>2. ran = <<>>
      BY <3>1 DEF Budget
    <3> QED
      BY <3>2
  <2>2. Cardinality(RunsOf(NameOf[SearchKey])) = 0
    <3>1. RunsOf(NameOf[SearchKey]) = {}
      BY <2>1 DEF RunsOf
    <3> QED
      BY <3>1, FS_EmptySet
  <2>3. \A n : Running(n)' <=> NameOf[SearchKey] = n
    BY <1>1 DEF StartAutoSearch, Running
  <2>4. TurnLimit(NameOf[SearchKey]) # NoLimit =>
               Cardinality(RunsOf(NameOf[SearchKey])) + 1 <= TurnLimit(NameOf[SearchKey])
    BY <2>2, LimitType
  <2>5. \A i \in DOMAIN ran : ran[i] # SearchKey
    BY <2>1
  <2> QED
    BY <1>0, <1>1, <2>3, <2>4, <2>5, BudgetRun DEF StartAutoSearch
<1>2. CASE FinishAutoSearch
  <2>1. \A n : Running(n) <=> NameOf[SearchKey] = n
    BY <1>2 DEF FinishAutoSearch, Running
  <2> QED
    BY <1>0, <1>2, <2>1, BudgetCount DEF FinishAutoSearch
<1>3. CASE Dispatch
  <2>1. Call \in Key
    BY <1>0, <1>3 DEF Dispatch, Position, Dispatching, Call, TypeOK
  <2>2. \A i \in DOMAIN ran : ran[i] # Call
    BY <1>3 DEF Dispatch, Duplicate, Budget
  <2>3. \A n : Running(n)' <=> NameOf[Call] = n
    BY <1>3 DEF Dispatch, Running, Call
  <2>4. TurnLimit(NameOf[Call]) # NoLimit =>
               Cardinality(RunsOf(NameOf[Call])) + 1 <= TurnLimit(NameOf[Call])
    <3>1. ~Running(NameOf[Call]) /\ NameOf[Call] \in DOMAIN counts
      BY <1>0, <1>3, <2>1 DEF Dispatch, Running, TypeOK
    <3>2. Cardinality(RunsOf(NameOf[Call])) <= counts[NameOf[Call]] + 0
      BY <1>3, <3>1 DEF Dispatch, Budget
    <3>3. RunsOf(NameOf[Call]) \in SUBSET DOMAIN ran /\ ran \in Seq(Key)
      BY <1>0 DEF RunsOf, TypeOK
    <3>4. Cardinality(RunsOf(NameOf[Call])) \in Nat
      BY <3>3, RunsFinite
    <3>5. counts[NameOf[Call]] \in Nat
      BY <1>0, <3>1 DEF TypeOK
    <3>6. TurnLimit(NameOf[Call]) # NoLimit => ~(counts[NameOf[Call]] >= TurnLimit(NameOf[Call]))
      BY <1>3 DEF Dispatch, OverLimit
    <3> QED
      BY <3>2, <3>4, <3>5, <3>6, LimitType
  <2> QED
    BY <1>0, <1>3, <2>1, <2>2, <2>3, <2>4, BudgetRun DEF Dispatch
<1>4. CASE ToolEnds
  <2>1. Call \in Key
    BY <1>0, <1>4 DEF ToolEnds, Position, Dispatching, Call, TypeOK
  <2>2. \A n : Running(n) <=> NameOf[Call] = n
    BY <1>4 DEF ToolEnds, Running
  <2> QED
    BY <1>0, <1>4, <2>1, <2>2, BudgetCount DEF ToolEnds
<1>5. CASE LoadHistory \/ Retrieve \/ PersistUser
  BY <1>5, BudgetCalm DEF LoadHistory, Retrieve, PersistUser, StopWith
<1>6. CASE OpenRound \/ OpenSynthesis \/ Chunk \/ StreamFails \/ StreamEnds
  BY <1>6, BudgetCalm DEF OpenRound, OpenSynthesis, Chunk, StreamFails, StreamEnds, StopWith
<1>7. CASE PersistAssistant \/ PersistTool
  BY <1>7, BudgetCalm DEF PersistAssistant, PersistTool, Persist, StopWith
<1>8. CASE NoRegistry \/ Announce \/ Skip \/ ShowResult \/ Finish
  BY <1>8, BudgetCalm DEF NoRegistry, Announce, Skip, ShowResult, Finish, StopWith
<1>9. CASE Abort \/ Close
  BY <1>9, BudgetCalm DEF Abort, Close
<1>10. CASE UNCHANGED vars
  BY <1>10, BudgetCalm DEF vars
<1> QED
  BY <1>1, <1>2, <1>3, <1>4, <1>5, <1>6, <1>7, <1>8, <1>9, <1>10 DEF Next, Work

\* Across all rounds of a turn and the automatic search before them, no
\* invocation is executed twice, and no tool beyond its limit (executed_tool_keys
\* and executed_tool_counts of ChatService.generate).
THEOREM BudgetCorrect == Spec => []ToolBudget
<1>1. Init => Budget
  <2> SUFFICES ASSUME Init PROVE Budget
    OBVIOUS
  <2>1. ran = <<>> /\ (\A n : RunsOf(n) = {}) /\ \A n \in DOMAIN counts : counts[n] = 0
    BY DEF Init, RunsOf
  <2>2. \A n : Cardinality(RunsOf(n)) = 0
    BY <2>1, FS_EmptySet
  <2>3. \A n \in DOMAIN counts : TurnLimit(n) # NoLimit => Cardinality(RunsOf(n)) <= TurnLimit(n)
    BY <2>2, LimitType
  <2>4. \A n \in DOMAIN counts :
            Cardinality(RunsOf(n)) <= counts[n] + IF Running(n) THEN 1 ELSE 0
    BY <2>1, <2>2
  <2> QED
    BY <2>1, <2>3, <2>4 DEF Budget
<1>2. IInv /\ Budget => ToolBudget
  <2> SUFFICES ASSUME IInv, Budget, NEW n \in DOMAIN counts, TurnLimit(n) # NoLimit,
                      NEW S \in SUBSET DOMAIN ran, \A i \in S : NameOf[ran[i]] = n
               PROVE  Cardinality(S) <= TurnLimit(n)
    BY DEF Budget, ToolBudget
  <2>1. S \subseteq RunsOf(n) /\ RunsOf(n) \in SUBSET DOMAIN ran /\ ran \in Seq(Key)
    BY DEF RunsOf, IInv, TypeOK
  <2>2. IsFiniteSet(RunsOf(n)) /\ Cardinality(RunsOf(n)) \in Nat /\ Cardinality(S) \in Nat
    BY <2>1, RunsFinite
  <2>3. Cardinality(S) <= Cardinality(RunsOf(n))
    BY <2>1, <2>2, FS_Subset
  <2>4. Cardinality(RunsOf(n)) <= TurnLimit(n)
    BY DEF Budget
  <2> QED
    BY <2>2, <2>3, <2>4, LimitType
<1> QED
  BY <1>1, <1>2, BudgetStep, Invariance, PTL DEF Spec
-----------------------------------------------------------------------------
(***************************************************************************)
(* The stream of events                                                    *)
(***************************************************************************)

Waiting == {"searching", "decide", "running", "result"}
Last == out[Len(out)]

\* The last event is a call that waits for its result exactly while the call is
\* being handled.
LastEvent ==
    /\ pc \in Waiting => /\ out # <<>> /\ Last.type = "tool_call"
                         /\ Last.id = IF pc = "searching" THEN NoId ELSE CallId
    /\ pc \notin Waiting \cup {"ended"} => out = <<>> \/ Last.type # "tool_call"

\* A result that was shown is stored, but for the one that is about to be.
ShownIsStored ==
    /\ pc = "tool" => out # <<>> /\ Last.type = "tool_result" /\ Last.id = CallId
    /\ \A i \in ShownResults : \/ L!Answered(mem, out[i].id[1], out[i].id[2])
                              \/ (i = Len(out) /\ pc = "tool")
                              \/ (pc = "ended" /\ \A j \in ShownResults : j <= i)

StreamInv == StreamProtocol /\ LastEvent /\ StoreFollowsStream /\ ShownIsStored

\* A step that sends and stores nothing.
LEMMA StreamQuiet ==
    ASSUME StreamInv, pc # "ended", UNCHANGED <<out, mem>>,
           \/ pc' = "ended"
           \/ pc' = pc /\ CallId' = CallId
           \/ pc \in {"decide", "running"} /\ pc' \in {"running", "result"} /\ CallId' = CallId
           \/ pc \notin Waiting \cup {"tool"} /\ pc' \notin Waiting \cup {"tool"}
    PROVE  StreamInv'
<1>1. ShownResults' = ShownResults /\ Rows("tool")' = Rows("tool") /\ Last' = Last
  BY DEF ShownResults, Rows, Last
<1>2. StreamProtocol'
  BY DEF StreamInv, StreamProtocol
<1>3. LastEvent'
  BY <1>1 DEF StreamInv, LastEvent, Waiting
<1>4. StoreFollowsStream'
  BY <1>1 DEF StreamInv, StoreFollowsStream
<1>5. ShownIsStored'
  <2>1. \A j \in ShownResults : j \in DOMAIN out
    BY DEF ShownResults
  <2>2. CASE pc' = "ended" /\ pc = "tool"
    <3>1. \A j \in ShownResults : j <= Len(out)
      BY <2>1 DEF StreamInv, ShownIsStored
    <3> QED
      BY <1>1, <2>2, <3>1 DEF StreamInv, ShownIsStored
  <2>3. CASE ~(pc' = "ended" /\ pc = "tool")
    BY <1>1, <2>3 DEF StreamInv, ShownIsStored, Waiting
  <2> QED
    BY <2>2, <2>3
<1> QED
  BY <1>2, <1>3, <1>4, <1>5 DEF StreamInv

\* One more event.
LEMMA EventAppended ==
    ASSUME TypeOK, NEW e \in Events, Emit(e)
    PROVE  /\ DOMAIN out' = DOMAIN out \cup {Len(out) + 1} /\ Len(out) + 1 \notin DOMAIN out
           /\ out'[Len(out) + 1] = e /\ \A j \in DOMAIN out : out'[j] = out[j]
           /\ Len(out') = Len(out) + 1 /\ Len(out) \in Nat /\ DOMAIN out = 1..Len(out)
           /\ out' # <<>> /\ Last' = e /\ (out # <<>> <=> Len(out) \in DOMAIN out)
<1>1. out \in Seq(Events) /\ out' = Append(out, e)
  BY DEF TypeOK, Emit
<1>2. /\ DOMAIN out' = DOMAIN out \cup {Len(out) + 1} /\ Len(out) + 1 \notin DOMAIN out
      /\ out'[Len(out) + 1] = e /\ \A j \in DOMAIN out : out'[j] = out[j]
      /\ Len(out') = Len(out) + 1 /\ Len(out) \in Nat
  BY <1>1, AppendRow
<1>3. out' # <<>> /\ Last' = e
  BY <1>1, AppendLast DEF Last
<1>4. DOMAIN out = 1..Len(out) /\ (out # <<>> <=> Len(out) \in DOMAIN out)
  BY <1>1
<1> QED
  BY <1>2, <1>3, <1>4

\* An event is sent that is no result: while nothing waits for one.
LEMMA StreamEvent ==
    ASSUME TypeOK, StreamInv, pc \notin Waiting \cup {"ended"}, UNCHANGED mem,
           NEW e \in Events, Emit(e), e.type # "tool_result",
           Terminal(e) => pc' = "ended", pc = "tool" => pc' = "ended", pc' # "tool",
           pc' # "ended" => (e.type = "tool_call" <=> pc' \in Waiting),
           pc' \in Waiting => e.id = IF pc' = "searching" THEN NoId ELSE CallId'
    PROVE  StreamInv'
<1>1. /\ DOMAIN out' = DOMAIN out \cup {Len(out) + 1} /\ Len(out) + 1 \notin DOMAIN out
      /\ out'[Len(out) + 1] = e /\ \A j \in DOMAIN out : out'[j] = out[j]
      /\ Len(out') = Len(out) + 1 /\ Len(out) \in Nat /\ DOMAIN out = 1..Len(out)
      /\ out' # <<>> /\ Last' = e /\ (out # <<>> <=> Len(out) \in DOMAIN out)
  BY EventAppended
<1>2. out # <<>> => out[Len(out)].type # "tool_call"
  BY DEF StreamInv, LastEvent, Last
<1>3. ShownResults' = ShownResults /\ \A i \in ShownResults : out'[i] = out[i] /\ i \in 1..Len(out)
  BY <1>1 DEF ShownResults
<1>4. StreamProtocol'
  <2>1. ASSUME NEW i \in DOMAIN out
        PROVE  /\ ~Terminal(out'[i])
               /\ out'[i].type = "tool_call" => /\ i < Len(out) /\ out'[i + 1].type = "tool_result"
                                               /\ out'[i + 1].id = out'[i].id
               /\ out'[i].type = "tool_result" => i > 1 /\ out'[i - 1].type = "tool_call"
    <3>1. out'[i] = out[i] /\ i \in 1..Len(out)
      BY <1>1
    <3>2. i < Len(out) => i + 1 \in DOMAIN out
      BY <1>1, <3>1
    <3>3. i > 1 => i - 1 \in DOMAIN out
      BY <1>1, <3>1
    <3>4. out[i].type = "tool_call" => i < Len(out)
      BY <1>1, <1>2, <3>1
    <3> QED
      BY <1>1, <3>1, <3>2, <3>3, <3>4 DEF StreamInv, StreamProtocol, Waiting
  <2>2. /\ out'[Len(out')] = e /\ e.type # "tool_result"
        /\ Terminal(e) => pc' = "ended"
        /\ \A i \in DOMAIN out' : i \in DOMAIN out \/ i = Len(out')
    BY <1>1
  <2>3. ASSUME NEW i \in DOMAIN out'
        PROVE  /\ Terminal(out'[i]) => i = Len(out') /\ pc' = "ended"
               /\ out'[i].type = "tool_call" /\ i < Len(out') =>
                     /\ out'[i + 1].type = "tool_result"
                     /\ out'[i + 1].id = out'[i].id
               /\ out'[i].type = "tool_result" =>
                     i > 1 /\ out'[i - 1].type = "tool_call"
    <3>1. CASE i \in DOMAIN out
      BY <2>1, <3>1
    <3>2. CASE i = Len(out')
      BY <2>2, <3>2
    <3> QED
      BY <2>2, <3>1, <3>2
  <2>4. \A i : Terminal(out[i])' <=> Terminal(out'[i])
    BY DEF Terminal
  <2> QED
    BY <2>3, <2>4 DEF StreamProtocol
<1>5. LastEvent'
  BY <1>1 DEF LastEvent, Waiting
<1>6. StoreFollowsStream'
  BY <1>3 DEF StreamInv, StoreFollowsStream, Rows
<1>7. ShownIsStored'
  BY <1>3 DEF StreamInv, ShownIsStored
<1> QED
  BY <1>4, <1>5, <1>6, <1>7 DEF StreamInv

LEMMA CallIdReal == IInv /\ pc \in Dispatching => CallId # NoId
BY DEF IInv, Position, CallId, NoId, TypeOK

\* The result of the call that was announced last.
LEMMA StreamResult ==
    ASSUME IInv, StreamInv, UNCHANGED <<mem, step, idx>>, NEW e \in Events, Emit(e),
           e.type = "tool_result",
           \/ pc = "searching" /\ e.id = NoId /\ pc' = "head"
           \/ pc = "result" /\ e.id = CallId /\ pc' = "tool"
    PROVE  StreamInv'
<1>0. TypeOK
  BY DEF IInv
<1>1. /\ DOMAIN out' = DOMAIN out \cup {Len(out) + 1} /\ Len(out) + 1 \notin DOMAIN out
      /\ out'[Len(out) + 1] = e /\ \A j \in DOMAIN out : out'[j] = out[j]
      /\ Len(out') = Len(out) + 1 /\ Len(out) \in Nat /\ DOMAIN out = 1..Len(out)
      /\ out' # <<>> /\ Last' = e /\ (out # <<>> <=> Len(out) \in DOMAIN out)
  BY <1>0, EventAppended
<1>2. /\ out # <<>> /\ out[Len(out)].type = "tool_call" /\ out[Len(out)].id = e.id
      /\ Len(out) \in DOMAIN out /\ Len(out) >= 1
  BY <1>1 DEF StreamInv, LastEvent, Last, Waiting
<1>3. CallId' = CallId
  BY DEF CallId
<1>4. StreamProtocol'
  <2>1. ASSUME NEW i \in DOMAIN out
        PROVE  /\ ~Terminal(out'[i])
               /\ out'[i].type = "tool_call" => /\ out'[i + 1].type = "tool_result"
                                               /\ out'[i + 1].id = out'[i].id
               /\ out'[i].type = "tool_result" => i > 1 /\ out'[i - 1].type = "tool_call"
    <3>1. out'[i] = out[i] /\ i \in 1..Len(out)
      BY <1>1
    <3>2. i < Len(out) => i + 1 \in DOMAIN out
      BY <1>1, <3>1
    <3>3. i > 1 => i - 1 \in DOMAIN out
      BY <1>1, <3>1
    <3>4. CASE i < Len(out)
      BY <1>1, <3>1, <3>2, <3>3, <3>4 DEF StreamInv, StreamProtocol, Waiting
    <3>5. CASE i = Len(out)
      BY <1>1, <1>2, <3>1, <3>3, <3>5 DEF StreamInv, StreamProtocol, Waiting
    <3> QED
      BY <3>1, <3>4, <3>5
  <2>2. /\ ~Terminal(e) /\ e.type # "tool_call" /\ Len(out) + 1 > 1
        /\ out'[(Len(out) + 1) - 1].type = "tool_call"
    BY <1>1, <1>2 DEF Terminal
  <2> QED
    BY <1>1, <2>1, <2>2 DEF StreamProtocol
<1>5. LastEvent'
  BY <1>1 DEF LastEvent, Waiting
<1>6. \A i \in ShownResults : out'[i] = out[i] /\ i \in 1..Len(out) /\ i \in ShownResults'
  BY <1>1 DEF ShownResults
<1>7. ShownResults' \subseteq ShownResults \cup (IF pc = "result" THEN {Len(out) + 1} ELSE {})
  BY <1>1 DEF ShownResults
<1>8. \A i \in ShownResults : L!Answered(mem, out[i].id[1], out[i].id[2])
  BY DEF StreamInv, ShownIsStored
<1>9. \A i \in ShownResults : L!Answered(mem, out[i].id[1], out[i].id[2])'
  BY <1>6, <1>8 DEF L!Answered
<1>10. StoreFollowsStream'
  <2>1. ASSUME NEW t \in Rows("tool")'
        PROVE  \E i \in ShownResults' : out'[i].id = <<mem'[t].step, mem'[t].idx>>
    <3>1. PICK i \in ShownResults : out[i].id = <<mem[t].step, mem[t].idx>>
      BY DEF StreamInv, StoreFollowsStream, Rows
    <3> QED
      BY <1>6, <3>1
  <2>2. ASSUME NEW i \in ShownResults', NEW j \in ShownResults', i < j
        PROVE  L!Answered(mem, out[i].id[1], out[i].id[2])'
    <3>1. i \in ShownResults
      BY <1>1, <1>6, <1>7, <2>2
    <3> QED
      BY <1>9, <3>1
  <2> QED
    BY <2>1, <2>2 DEF StoreFollowsStream
<1>11. ShownIsStored'
  BY <1>1, <1>3, <1>7, <1>9 DEF ShownIsStored
<1> QED
  BY <1>4, <1>5, <1>10, <1>11 DEF StreamInv

\* A row is stored: a tool row is that of the result shown last.
LEMMA StreamRow ==
    ASSUME IInv, StreamInv, pc \notin Waiting \cup {"ended"}, pc' \notin Waiting \cup {"tool", "ended"},
           UNCHANGED out, NEW row \in L!Row, mem' = Append(mem, row),
           row.role = "tool" <=> pc = "tool",
           pc = "tool" => row.step = step /\ row.idx = idx
    PROVE  StreamInv'
<1>1. mem \in Seq(L!Row)
  BY DEF IInv, TypeOK
<1>2. ShownResults' = ShownResults /\ Last' = Last
  BY DEF ShownResults, Last
<1>3. StreamProtocol' /\ LastEvent'
  BY <1>2 DEF StreamInv, StreamProtocol, LastEvent, Waiting
<1>4. \A x, y : L!Answered(mem, x, y) => L!Answered(mem', x, y)
  BY <1>1, AnsweredAppend
<1>5. pc = "tool" => /\ Len(out) \in ShownResults /\ out[Len(out)].id = <<step, idx>>
                     /\ L!Answered(mem', step, idx)
  <2> SUFFICES ASSUME pc = "tool"
               PROVE  /\ Len(out) \in ShownResults /\ out[Len(out)].id = <<step, idx>>
                      /\ L!Answered(mem', step, idx)
    OBVIOUS
  <2>1. out # <<>> /\ out[Len(out)].type = "tool_result" /\ out[Len(out)].id = CallId
    BY DEF StreamInv, ShownIsStored, Last
  <2>2. Len(out) \in DOMAIN out
    BY <2>1 DEF IInv, TypeOK
  <2>3. CallId # NoId
    BY CallIdReal DEF Dispatching
  <2>4. L!Answered(mem', step, idx)
    BY <1>1, AnsweredAppend
  <2> QED
    BY <2>1, <2>2, <2>3, <2>4 DEF ShownResults, CallId
<1>6. \A i \in ShownResults : L!Answered(mem', out[i].id[1], out[i].id[2])
  <2> SUFFICES ASSUME NEW i \in ShownResults
               PROVE  L!Answered(mem', out[i].id[1], out[i].id[2])
    OBVIOUS
  <2>1. CASE L!Answered(mem, out[i].id[1], out[i].id[2])
    BY <1>4, <2>1
  <2>2. CASE i = Len(out) /\ pc = "tool"
    BY <1>5, <2>2
  <2> QED
    BY <2>1, <2>2 DEF StreamInv, ShownIsStored
<1>7. ShownIsStored'
  BY <1>2, <1>6 DEF ShownIsStored
<1>8. StoreFollowsStream'
  <2>1. ASSUME NEW t \in Rows("tool")'
        PROVE  \E i \in ShownResults' : out'[i].id = <<mem'[t].step, mem'[t].idx>>
    <3>1. /\ DOMAIN mem' = DOMAIN mem \cup {Len(mem) + 1} /\ mem'[Len(mem) + 1] = row
          /\ \A j \in DOMAIN mem : mem'[j] = mem[j]
      BY <1>1, AppendRow
    <3>2. CASE t \in DOMAIN mem
      <4>1. t \in Rows("tool") /\ mem'[t] = mem[t]
        BY <3>1, <3>2 DEF Rows
      <4>2. PICK i \in ShownResults : out[i].id = <<mem[t].step, mem[t].idx>>
        BY <4>1 DEF StreamInv, StoreFollowsStream
      <4> QED
        BY <1>2, <4>1, <4>2
    <3>3. CASE t = Len(mem) + 1
      <4>1. mem'[t] = row /\ pc = "tool"
        BY <3>1, <3>3 DEF Rows
      <4> QED
        BY <1>2, <1>5, <4>1
    <3> QED
      BY <3>1, <3>2, <3>3 DEF Rows
  <2>2. ASSUME NEW i \in ShownResults', NEW j \in ShownResults', i < j
        PROVE  L!Answered(mem, out[i].id[1], out[i].id[2])'
    BY <1>2, <1>6
  <2> QED
    BY <2>1, <2>2 DEF StoreFollowsStream
<1> QED
  BY <1>3, <1>7, <1>8 DEF StreamInv

LEMMA StreamStep == IInv /\ StreamInv /\ [Next]_vars => StreamInv'
<1> SUFFICES ASSUME IInv, StreamInv, [Next]_vars
             PROVE  StreamInv'
  OBVIOUS
<1>t. TypeOK
  BY DEF IInv
<1>e. /\ \A c \in {"ABORTED", "MEMORY_READ_FAILED", "RETRIEVAL_FAILED",
                   "MEMORY_WRITE_FAILED", "LLM_ERROR", "INTERNAL"} :
            Event("error", c, NoId) \in Events
      /\ \A t \in {"retrieval", "tool_call", "tool_result", "done"} :
            Event(t, "", NoId) \in Events /\ Event(t, "", CallId) \in Events
  BY <1>t, NumberTypes, NoIdType, EventTypes
\* An error stops the turn wherever no call waits for its result.
<1>s. ASSUME NEW c \in {"ABORTED", "MEMORY_READ_FAILED", "RETRIEVAL_FAILED",
                        "MEMORY_WRITE_FAILED", "LLM_ERROR", "INTERNAL"},
             StopWith(c), UNCHANGED mem, pc \notin Waiting \cup {"ended"}
      PROVE  StreamInv'
  <2> DEFINE e == Event("error", c, NoId)
  <2>1. e \in Events /\ e.type = "error" /\ Emit(e) /\ pc' = "ended"
    BY <1>e, <1>s DEF Event, StopWith
  <2>2. pc' # "tool" /\ pc' \notin Waiting
    BY <2>1 DEF Waiting
  <2> HIDE DEF e
  <2> QED
    BY <1>t, <1>s, <2>1, <2>2, StreamEvent
<1>1. CASE LoadHistory
  <2>1. UNCHANGED mem /\ pc = "start"
    BY <1>1 DEF LoadHistory, stored
  <2>2. CASE pc' = "retrieve" /\ UNCHANGED out
    BY <2>1, <2>2, StreamQuiet DEF Waiting
  <2> QED
    BY <1>1, <1>s, <2>1, <2>2 DEF LoadHistory, Waiting
<1>2. CASE Retrieve
  <2>1. UNCHANGED mem /\ pc = "retrieve"
    BY <1>2 DEF Retrieve, stored
  <2>2. CASE pc' = "user" /\ UNCHANGED out
    BY <2>1, <2>2, StreamQuiet DEF Waiting
  <2>3. CASE pc' = "user" /\ Emit(Event("retrieval", "", NoId))
    <3> DEFINE e == Event("retrieval", "", NoId)
    <3>1. e \in Events /\ e.type = "retrieval" /\ Emit(e) /\ ~Terminal(e)
      BY <1>e, <2>3 DEF Event, Terminal
    <3>2. pc \notin Waiting \cup {"ended"} /\ pc # "tool" /\ pc' # "tool" /\ pc' \notin Waiting
      BY <2>1, <2>3 DEF Waiting
    <3> HIDE DEF e
    <3> QED
      BY <1>t, <2>1, <3>1, <3>2, StreamEvent
  <2> QED
    BY <1>2, <1>s, <2>1, <2>2, <2>3 DEF Retrieve, Waiting
<1>3. CASE PersistUser
  <2>1. pc = "user"
    BY <1>3 DEF PersistUser
  <2>2. CASE UNCHANGED <<out, mem>> /\ pc' \in {"search", "head"}
    BY <2>1, <2>2, StreamQuiet DEF Waiting
  <2>3. CASE UNCHANGED out /\ pc' \in {"search", "head"} /\ mem' = Append(mem, L!UserRow)
    <3>1. L!UserRow \in L!Row /\ L!UserRow.role = "user"
      BY RowTypes DEF L!UserRow
    <3> QED
      BY <2>1, <2>3, <3>1, StreamRow DEF Waiting
  <2>4. CASE StopWith("MEMORY_WRITE_FAILED") /\ UNCHANGED mem
    BY <1>s, <2>1, <2>4 DEF Waiting
  <2> QED
    BY <1>3, <2>2, <2>3, <2>4 DEF PersistUser, stored
<1>4. CASE StartAutoSearch
  <2>1. pc = "search" /\ pc' = "searching" /\ UNCHANGED mem
    BY <1>4 DEF StartAutoSearch, stored
  <2> DEFINE e == Event("tool_call", "", NoId)
  <2>2. e \in Events /\ e.type = "tool_call" /\ e.id = NoId /\ Emit(e) /\ ~Terminal(e)
    BY <1>4, <1>e DEF StartAutoSearch, Event, Terminal
  <2>3. pc \notin Waiting \cup {"ended"} /\ pc # "tool" /\ pc' # "tool" /\ pc' \in Waiting
    BY <2>1 DEF Waiting
  <2> HIDE DEF e
  <2> QED
    BY <1>t, <2>1, <2>2, <2>3, StreamEvent
<1>5. CASE FinishAutoSearch
  <2>1. pc = "searching" /\ pc' = "head" /\ UNCHANGED <<mem, step, idx>>
    BY <1>5 DEF FinishAutoSearch, roundVars
  <2> DEFINE e == Event("tool_result", "", NoId)
  <2>2. e \in Events /\ e.type = "tool_result" /\ e.id = NoId /\ Emit(e)
    BY <1>5, <1>e DEF FinishAutoSearch, Event
  <2> HIDE DEF e
  <2> QED
    BY <2>1, <2>2, StreamResult
<1>6. CASE OpenRound
  <2>1. pc = "head" /\ UNCHANGED mem
    BY <1>6 DEF OpenRound, stored
  <2>2. CASE pc' = "llm" /\ UNCHANGED out
    BY <2>1, <2>2, StreamQuiet DEF Waiting
  <2> QED
    BY <1>6, <1>s, <2>1, <2>2 DEF OpenRound, Waiting
<1>7. CASE OpenSynthesis
  <2>1. pc = "head" /\ UNCHANGED mem
    BY <1>7 DEF OpenSynthesis
  <2>2. CASE pc' = "llm" /\ UNCHANGED out
    BY <2>1, <2>2, StreamQuiet DEF Waiting
  <2> QED
    BY <1>7, <1>s, <2>1, <2>2 DEF OpenSynthesis, Waiting
<1>8. CASE Chunk
  <2>1. pc = "llm" /\ UNCHANGED <<mem, step, idx>>
    BY <1>8 DEF Chunk, stored
  <2>2. CASE UNCHANGED <<pc, out>>
    BY <2>1, <2>2, StreamQuiet DEF Waiting, CallId
  <2> QED
    BY <1>8, <1>s, <2>1, <2>2 DEF Chunk, Waiting
<1>9. CASE StreamFails
  BY <1>9, <1>s DEF StreamFails, stored, Waiting
<1>10. CASE StreamEnds
  BY <1>10, StreamQuiet DEF StreamEnds, stored, Waiting
<1>11. CASE PersistAssistant
  <2> DEFINE row == L!AssistantRow(step, round.calls, round.text)
  <2>1. row \in L!Row /\ row.role = "assistant"
    BY <1>t, NumberTypes, RowTypes DEF TypeOK, L!AssistantRow
  <2>2. pc = "assistant"
    BY <1>11 DEF PersistAssistant
  <2>3. CASE /\ mem' = Append(mem, row) /\ UNCHANGED out
             /\ pc' = IF round.calls = <<>> THEN "finish" ELSE "call"
    <3> HIDE DEF row
    <3>1. pc' \notin Waiting \cup {"tool", "ended"} /\ pc \notin Waiting \cup {"ended"} /\ pc # "tool"
      BY <2>2, <2>3 DEF Waiting
    <3> QED
      BY <2>1, <2>3, <3>1, StreamRow
  <2>4. CASE StopWith("MEMORY_WRITE_FAILED") /\ UNCHANGED mem
    BY <1>s, <2>2, <2>4 DEF Waiting
  <2> QED
    BY <1>11, <2>3, <2>4 DEF PersistAssistant, Persist
<1>12. CASE NoRegistry
  BY <1>12, <1>s DEF NoRegistry, stored, Waiting
<1>13. CASE Announce
  <2>1. pc = "call" /\ UNCHANGED <<mem, step, idx>>
    BY <1>13 DEF Announce, stored, roundVars
  <2>2. CASE pc' = "decide" /\ Emit(Event("tool_call", "", CallId))
    <3> DEFINE e == Event("tool_call", "", CallId)
    <3>1. e \in Events /\ e.type = "tool_call" /\ e.id = CallId' /\ Emit(e) /\ ~Terminal(e)
      BY <1>e, <2>1, <2>2 DEF Event, Terminal, CallId
    <3>2. /\ pc \notin Waiting \cup {"ended"} /\ pc # "tool" /\ pc' # "tool"
          /\ pc' \in Waiting /\ pc' # "searching" /\ pc' # "ended"
      BY <2>1, <2>2 DEF Waiting
    <3> HIDE DEF e
    <3> QED
      BY <1>t, <2>1, <3>1, <3>2, StreamEvent
  <2> QED
    BY <1>13, <1>s, <2>1, <2>2 DEF Announce, Waiting
<1>14. CASE Skip
  BY <1>14, StreamQuiet DEF Skip, stored, CallId
<1>15. CASE Dispatch
  BY <1>15, StreamQuiet DEF Dispatch, stored, roundVars, CallId
<1>16. CASE ToolEnds
  BY <1>16, StreamQuiet DEF ToolEnds, stored, CallId
<1>17. CASE ShowResult
  <2>1. pc = "result" /\ pc' = "tool" /\ UNCHANGED <<mem, step, idx>>
    BY <1>17 DEF ShowResult, stored, roundVars
  <2> DEFINE e == Event("tool_result", "", CallId)
  <2>2. e \in Events /\ e.type = "tool_result" /\ e.id = CallId /\ Emit(e)
    BY <1>17, <1>e DEF ShowResult, Event
  <2> HIDE DEF e
  <2> QED
    BY <2>1, <2>2, StreamResult
<1>18. CASE PersistTool
  <2> DEFINE row == L!ToolRow(step, idx, result)
  <2>1. row \in L!Row /\ row.role = "tool" /\ row.step = step /\ row.idx = idx
    BY <1>t, NumberTypes, RowTypes DEF TypeOK, L!ToolRow
  <2>2. pc = "tool"
    BY <1>18 DEF PersistTool
  <2>3. CASE /\ mem' = Append(mem, row) /\ UNCHANGED out
             /\ pc' = IF idx = Len(round.calls) THEN "head" ELSE "call"
    <3> HIDE DEF row
    <3>1. pc' \notin Waiting \cup {"tool", "ended"} /\ pc \notin Waiting \cup {"ended"}
      BY <2>2, <2>3 DEF Waiting
    <3> QED
      BY <2>1, <2>2, <2>3, <3>1, StreamRow
  <2>4. CASE StopWith("MEMORY_WRITE_FAILED") /\ UNCHANGED mem
    BY <1>s, <2>2, <2>4 DEF Waiting
  <2> QED
    BY <1>18, <2>3, <2>4 DEF PersistTool, Persist
<1>19. CASE Finish
  <2>1. pc = "finish" /\ pc' = "ended" /\ UNCHANGED mem
    BY <1>19 DEF Finish, stored
  <2> DEFINE e == Event("done", "", NoId)
  <2>2. e \in Events /\ e.type = "done" /\ Emit(e)
    BY <1>19, <1>e DEF Finish, Event
  <2>3. pc \notin Waiting \cup {"ended"} /\ pc # "tool" /\ pc' # "tool" /\ pc' \notin Waiting
    BY <2>1 DEF Waiting
  <2> HIDE DEF e
  <2> QED
    BY <1>t, <2>1, <2>2, <2>3, StreamEvent
<1>20. CASE Abort
  BY <1>20, StreamQuiet DEF Abort, stored, roundVars, CallId
<1>21. CASE Close
  BY <1>21, StreamQuiet DEF Close, stored
<1>22. CASE UNCHANGED vars
  BY <1>22 DEF vars, stored, roundVars, StreamInv, StreamProtocol, LastEvent, StoreFollowsStream,
               ShownIsStored, ShownResults, Rows, Last, CallId, L!Answered
<1> QED
  BY <1>1, <1>2, <1>3, <1>4, <1>5, <1>6, <1>7, <1>8, <1>9, <1>10, <1>11, <1>12, <1>13, <1>14,
     <1>15, <1>16, <1>17, <1>18, <1>19, <1>20, <1>21, <1>22 DEF Next, Work

LEMMA StreamInvariance == Spec => []StreamInv
<1>1. Init => StreamInv
  BY DEF Init, StreamInv, StreamProtocol, LastEvent, StoreFollowsStream, ShownIsStored,
         ShownResults, Rows, Waiting
<1> QED
  BY <1>1, StreamStep, Invariance, PTL DEF Spec

\* The stream the client reads is well formed: generate ends it with its one
\* done or error event, and answers a tool_call with its own result before it
\* sends anything else, unless it stops.
THEOREM StreamCorrect == Spec => []StreamProtocol
<1>1. StreamInv => StreamProtocol
  BY DEF StreamInv
<1> QED
  BY <1>1, StreamInvariance, PTL

\* What the client saw and what chat memory holds differ by at most the last
\* result shown: generate yields a result before it stores its row, and stores
\* it before it turns to the next call.
THEOREM StoreCorrect == Spec => []StoreFollowsStream
<1>1. StreamInv => StoreFollowsStream
  BY DEF StreamInv
<1> QED
  BY <1>1, StreamInvariance, PTL
=============================================================================

------------------------------ MODULE ChatTurn ------------------------------
(***************************************************************************)
(* One run of ChatService.generate (service/chat/service.py): the ReAct    *)
(* loop that answers one user message.  The generator is suspended at      *)
(* every await and every yield; between two of its steps the client may    *)
(* set the abort flag (AbortContext) or go away (the transport closes the  *)
(* generator), the model streams what it likes, a tool succeeds, fails,    *)
(* hangs, and a row of chat memory is written or is not.                   *)
(*                                                                         *)
(* Data is abstracted to what control depends on: a tool call is its       *)
(* dedup key (name and arguments), a chunk of the model's stream carries   *)
(* text or one tool call, a row keeps its role and its pairing.            *)
(***************************************************************************)
EXTENDS Integers, Sequences, FiniteSets

CONSTANTS Key,           \* tool invocations: tool_call_key, name + arguments
          NameOf,        \* the tool a key invokes
          SearchKey,     \* the web_search call that the auto search makes
          MaxSteps,      \* effective_max_steps
          CallCap,       \* ResourceLimits.max_tool_calls_per_step
          MaxChunks,     \* bound of the model: chunks per round of the LLM
          Histories,     \* the transcripts a turn may start from
          PreludeLens    \* lengths PromptBuilder.build may return

ASSUME KeyAssumption == NameOf \in [Key -> STRING] /\ SearchKey \in Key
ASSUME LimitAssumption == /\ MaxSteps \in Nat
                          /\ CallCap \in Nat \ {0}
                          /\ MaxChunks \in Nat
                          /\ PreludeLens \subseteq Nat

\* Roles of a stored message.
Role == {"user", "assistant", "tool", "system"}
ASSUME HistoryAssumption == Histories \subseteq Seq(Role)

\* What a tool row reports: the registry's result (ok or error), the two
\* results of the race in _run_tool_with_timeout, the three synthetic ones.
Ran == {"output", "cancelled", "timed_out"}
Skipped == {"over_cap", "over_limit", "duplicate"}
Outcome == Ran \cup Skipped

NoLimit == -1
TurnLimit(name) == CASE name = "web_search" -> 1
                     [] name = "web_fetch"  -> 2
                     [] OTHER -> NoLimit

VARIABLES
    req,        \* the request: how generate was called, on which history
    pc,         \* where the generator is suspended
    aborted,    \* AbortContext: set once, never cleared
    mem,        \* rows this turn has persisted
    msgs,       \* the list `messages' sent to the model
    step,       \* LLM rounds opened: the ReAct loop's, then the synthesis
    round,      \* _LLMRoundResult of the current round
    idx,        \* position in the round's tool calls
    result,     \* outcome of the tool call being reported
    keys,       \* executed_tool_keys
    counts,     \* executed_tool_counts
    ran,        \* history: keys handed to ToolRegistry.dispatch, in order
    out,        \* events yielded to the client (tokens and thoughts left out)
    harvest,    \* messages[len(history):] as the epilogue reads it
    late        \* history: work begun after the abort flag was set

given     == <<req, aborted>>
stored    == <<mem, msgs>>
roundVars == <<step, round, idx, result>>
toolVars  == <<keys, counts, ran>>
vars == <<given, pc, stored, roundVars, toolVars, out, harvest, late>>

\* How the turn ended, read off what the client was sent.
Status == IF pc # "ended" THEN "running"
          ELSE IF out # <<>> /\ out[Len(out)].type = "done" THEN "done"
          ELSE "failed"

L == INSTANCE TurnLog WITH log <- mem, status <- Status

\* ------------------------------------------------------------- the request
Request == [history: Histories, persistUser: BOOLEAN, useRag: BOOLEAN,
            registry: BOOLEAN, autoSearch: BOOLEAN, prelude: PreludeLens]

\* Regenerate runs with persist_user=False on a history that ends with the
\* user's message; the auto search needs the tool armed.
WellFormed(r) ==
    /\ ~r.persistUser => /\ r.history # <<>>
                         /\ r.history[Len(r.history)] = "user"
    /\ r.autoSearch => r.registry

EmptyRound == [calls |-> <<>>, text |-> FALSE, chunks |-> 0]
Msg(role, origin, key) == [role |-> role, origin |-> origin, key |-> key]
NoKey == "no key"
Event(t, code, id) == [type |-> t, code |-> code, id |-> id]
NoId == <<0, 0>>

Init ==
    /\ req \in {r \in Request : WellFormed(r)}
    /\ pc = "start"
    /\ aborted = FALSE
    /\ mem = <<>> /\ msgs = <<>>
    /\ step = 0 /\ round = EmptyRound /\ idx = 0 /\ result = "output"
    /\ keys = {} /\ counts = [n \in {NameOf[k] : k \in Key} |-> 0]
    /\ ran = <<>> /\ out = <<>> /\ harvest = <<>>
    /\ late = [dispatched |-> 0, rounds |-> 0, rows |-> 0]

\* ----------------------------------------------------------------- helpers
Emit(e) == out' = Append(out, e)

\* The generator yields one error event and returns.
StopWith(code) == pc' = "ended" /\ Emit(Event("error", code, NoId))

Counted(field) ==
    late' = IF aborted THEN [late EXCEPT ![field] = @ + 1] ELSE late

\* Variant: a failed append is swallowed and the turn goes on.
PersistSoftly(row, msg, next) ==
    /\ pc' = next
    /\ UNCHANGED out
    /\ \/ /\ mem' = Append(mem, row)
          /\ msgs' = Append(msgs, msg)
          /\ Counted("rows")
       \/ UNCHANGED <<mem, msgs, late>>

\* ChatMemory.append: one row in its own transaction; it commits, and the
\* message joins `messages', or it raises and the turn stops.
Persist(row, msg, next) ==
    \/ /\ mem' = Append(mem, row)
       /\ msgs' = Append(msgs, msg)
       /\ pc' = next
       /\ Counted("rows")
       /\ UNCHANGED out
    \/ /\ StopWith("MEMORY_WRITE_FAILED")
       /\ UNCHANGED <<mem, msgs, late>>

Prompt(history) ==
    [i \in 1..req.prelude |-> Msg("system", "prelude", NoKey)]
    \o [i \in 1..Len(history) |-> Msg(history[i], "history", NoKey)]

\* The synthesis round runs when the loop is exhausted, without tools.
InSynthesis == step > MaxSteps
CallId == <<step, idx>>
Call == round.calls[idx]

\* ------------------------------------------------------ before the loop
\* First abort check, then ChatMemory.get.
LoadHistory ==
    /\ pc = "start"
    /\ \/ aborted /\ StopWith("ABORTED")
       \/ ~aborted /\ StopWith("MEMORY_READ_FAILED")
       \/ ~aborted /\ pc' = "retrieve" /\ UNCHANGED out
    /\ UNCHANGED <<given, stored, roundVars, toolVars, harvest, late>>

\* _retrieve_for_turn; user memories are loaded after it and fail softly.
Retrieve ==
    /\ pc = "retrieve"
    /\ \/ ~req.useRag /\ pc' = "user" /\ UNCHANGED out
       \/ req.useRag /\ aborted /\ StopWith("ABORTED")
       \/ req.useRag /\ ~aborted /\ StopWith("RETRIEVAL_FAILED")
       \/ /\ req.useRag /\ ~aborted
          /\ pc' = "user"
          /\ Emit(Event("retrieval", "", NoId))
    /\ UNCHANGED <<given, stored, roundVars, toolVars, harvest, late>>

\* The user row is written before the loop; the prompt is assembled after.
PersistUser ==
    /\ pc = "user"
    /\ LET next == IF req.autoSearch THEN "search" ELSE "head"
           user == Msg("user", "turn", NoKey)
       IN IF req.persistUser
          THEN \/ /\ mem' = Append(mem, L!UserRow)
                  /\ msgs' = Append(Prompt(req.history), user)
                  /\ pc' = next
                  /\ Counted("rows")
                  /\ UNCHANGED out
               \/ /\ StopWith("MEMORY_WRITE_FAILED")
                  /\ UNCHANGED <<stored, late>>
          ELSE /\ msgs' = Prompt(req.history)
               /\ pc' = next
               /\ UNCHANGED <<mem, out, late>>
    /\ UNCHANGED <<given, roundVars, toolVars, harvest>>

\* The pre-answer web search: announced, then dispatched without a check.
StartAutoSearch ==
    /\ pc = "search"
    /\ keys' = keys \cup {SearchKey}
    /\ Emit(Event("tool_call", "", NoId))
    /\ ran' = Append(ran, SearchKey)
    /\ Counted("dispatched")
    /\ pc' = "searching"
    /\ UNCHANGED <<given, stored, roundVars, counts, harvest>>

\* How the race of a tool task with the abort flag and the timeout may end:
\* a finished task wins even when the flag is set as well, and without one
\* the flag tells which of the two it was.
RaceOutcome(o) == /\ o \in Ran
                  /\ o = "cancelled" => aborted
                  /\ o = "timed_out" => ~aborted

\* Its result goes to the model, with a fabricated assistant message that
\* asks for it, and not to chat memory.
FinishAutoSearch ==
    /\ pc = "searching"
    /\ \E o \in Ran : RaceOutcome(o)
    /\ counts' = [counts EXCEPT ![NameOf[SearchKey]] = @ + 1]
    /\ Emit(Event("tool_result", "", NoId))
    /\ msgs' = msgs \o << Msg("system", "turn", NoKey),
                          Msg("assistant", "turn", NoKey),
                          Msg("tool", "turn", SearchKey) >>
    /\ pc' = "head"
    /\ UNCHANGED <<given, mem, roundVars, keys, ran, harvest, late>>

\* --------------------------------------------------------- the ReAct loop
\* Loop head: abort check, then _fit_to_budget (which leaves `messages' and
\* memory alone, and may raise) and the next round.
OpenRound ==
    /\ pc = "head"
    /\ step < MaxSteps
    /\ \/ aborted /\ StopWith("ABORTED") /\ UNCHANGED <<step, round, late>>
       \/ ~aborted /\ StopWith("INTERNAL") /\ UNCHANGED <<step, round, late>>
       \/ /\ ~aborted
          /\ pc' = "llm"
          /\ step' = step + 1
          /\ round' = EmptyRound
          /\ Counted("rounds")
          /\ UNCHANGED out
    /\ UNCHANGED <<given, stored, idx, result, toolVars, harvest>>

\* The loop's else branch: told to stop calling tools, the model gets one
\* more round.  There is no abort check here.
OpenSynthesis ==
    /\ pc = "head"
    /\ step = MaxSteps
    /\ \/ StopWith("INTERNAL") /\ UNCHANGED <<step, round, late>>
       \/ /\ pc' = "llm"
          /\ step' = step + 1
          /\ round' = EmptyRound
          /\ Counted("rounds")
          /\ UNCHANGED out
    /\ msgs' = Append(msgs, Msg("system", "turn", NoKey))
    /\ UNCHANGED <<given, mem, idx, result, toolVars, harvest>>

\* _stream_llm_round, one chunk: the abort check precedes the chunk's use.
Chunk ==
    /\ pc = "llm"
    /\ round.chunks < MaxChunks
    /\ \/ aborted /\ StopWith("ABORTED") /\ UNCHANGED round
       \/ /\ ~aborted
          /\ \E calls \in {round.calls} \cup {Append(round.calls, k) : k \in Key} :
                round' = [calls |-> calls, chunks |-> round.chunks + 1,
                          text |-> round.text \/ calls = round.calls]
          /\ UNCHANGED <<pc, out>>
    /\ UNCHANGED <<given, stored, step, idx, result, toolVars, harvest, late>>

StreamFails ==
    /\ pc = "llm"
    /\ StopWith("LLM_ERROR")
    /\ UNCHANGED <<given, stored, roundVars, toolVars, harvest, late>>

\* Variant: no fallback for an empty answer.
StreamEndsBare ==
    /\ pc = "llm"
    /\ pc' = "assistant"
    /\ round' = IF InSynthesis THEN [round EXCEPT !.calls = <<>>] ELSE round
    /\ UNCHANGED <<given, stored, step, idx, result, toolVars, out, harvest,
                   late>>

\* Variant: an empty answer is asked for again, in a round that is not
\* counted.
StreamEndsRetried ==
    /\ pc = "llm"
    /\ LET again == ~InSynthesis /\ round.calls = <<>> /\ ~round.text
       IN  /\ pc' = IF again THEN "head" ELSE "assistant"
           /\ step' = IF again THEN step - 1 ELSE step
           /\ round' = IF InSynthesis
                       THEN [round EXCEPT !.calls = <<>>, !.text = TRUE]
                       ELSE [round EXCEPT !.text = @ \/ round.calls = <<>>]
    /\ UNCHANGED <<given, stored, idx, result, toolVars, out, harvest, late>>

\* The stream is over.  An empty answer is replaced by the fallback text;
\* the synthesis round ignores tool calls.
StreamEnds ==
    /\ pc = "llm"
    /\ pc' = "assistant"
    /\ LET calls == IF InSynthesis THEN <<>> ELSE round.calls
       IN  round' = [calls |-> calls, chunks |-> round.chunks,
                     text |-> round.text \/ calls = <<>>]
    /\ UNCHANGED <<given, stored, step, idx, result, toolVars,
                   out, harvest, late>>

\* The assistant row is written before its calls are dispatched.  No calls:
\* the loop breaks.
PersistAssistant ==
    /\ pc = "assistant"
    /\ Persist(L!AssistantRow(step, round.calls, round.text),
               Msg("assistant", "turn", NoKey),
               IF round.calls = <<>> THEN "finish" ELSE "call")
    /\ idx' = 1
    /\ UNCHANGED <<given, step, round, result, toolVars, harvest>>

\* `assert self._tools is not None': the model asked for a tool that was
\* never offered.
NoRegistry ==
    /\ pc = "call"
    /\ ~req.registry
    /\ StopWith("INTERNAL")
    /\ UNCHANGED <<given, stored, roundVars, toolVars, harvest, late>>

\* Variants: no abort check before a call; an abort breaks out of the loop
\* instead of returning.
AnnounceUnchecked ==
    /\ pc = "call" /\ req.registry
    /\ pc' = "decide"
    /\ Emit(Event("tool_call", "", CallId))
    /\ UNCHANGED <<given, stored, roundVars, toolVars, harvest, late>>
AnnounceBreaks ==
    /\ pc = "call" /\ req.registry
    /\ \/ aborted /\ pc' = "finish" /\ UNCHANGED out
       \/ ~aborted /\ pc' = "decide" /\ Emit(Event("tool_call", "", CallId))
    /\ UNCHANGED <<given, stored, roundVars, toolVars, harvest, late>>

\* Abort check, then the call is announced to the client.
Announce ==
    /\ pc = "call"
    /\ req.registry
    /\ \/ aborted /\ StopWith("ABORTED")
       \/ /\ ~aborted
          /\ pc' = "decide"
          /\ Emit(Event("tool_call", "", CallId))
    /\ UNCHANGED <<given, stored, roundVars, toolVars, harvest, late>>

OverCap == idx > CallCap
\* Variant: one call too many.
OverLimitByOne == /\ TurnLimit(NameOf[Call]) # NoLimit
                  /\ counts[NameOf[Call]] > TurnLimit(NameOf[Call])

OverLimit == /\ TurnLimit(NameOf[Call]) # NoLimit
             /\ counts[NameOf[Call]] >= TurnLimit(NameOf[Call])
Duplicate == Call \in keys

\* Variant: a skipped call's result is stored without being shown.
SkipSilently ==
    /\ pc = "decide"
    /\ OverCap \/ OverLimit \/ Duplicate
    /\ result' = "duplicate"
    /\ pc' = "tool"
    /\ UNCHANGED <<given, stored, step, round, idx, toolVars, out, harvest,
                   late>>

\* Past the cap, past the tool's limit, or made already: not executed.
Skip ==
    /\ pc = "decide"
    /\ OverCap \/ OverLimit \/ Duplicate
    /\ result' = IF OverCap THEN "over_cap"
                 ELSE IF OverLimit THEN "over_limit" ELSE "duplicate"
    /\ pc' = "result"
    /\ UNCHANGED <<given, stored, step, round, idx, toolVars,
                   out, harvest, late>>

Dispatch ==
    /\ pc = "decide"
    /\ ~OverCap /\ ~OverLimit /\ ~Duplicate
    /\ keys' = keys \cup {Call}
    /\ ran' = Append(ran, Call)
    /\ Counted("dispatched")
    /\ pc' = "running"
    /\ UNCHANGED <<given, stored, roundVars, counts, out, harvest>>

ToolEnds ==
    /\ pc = "running"
    /\ \E o \in Ran : RaceOutcome(o) /\ result' = o
    /\ counts' = [counts EXCEPT ![NameOf[Call]] = @ + 1]
    /\ pc' = "result"
    /\ UNCHANGED <<given, stored, step, round, idx, keys, ran,
                   out, harvest, late>>

\* The result is shown to the client, then written.
ShowResult ==
    /\ pc = "result"
    /\ Emit(Event("tool_result", "", CallId))
    /\ pc' = "tool"
    /\ UNCHANGED <<given, stored, roundVars, toolVars, harvest, late>>

PersistTool ==
    /\ pc = "tool"
    /\ Persist(L!ToolRow(step, idx, result), Msg("tool", "turn", Call),
               IF idx = Len(round.calls) THEN "head" ELSE "call")
    /\ idx' = idx + 1
    /\ UNCHANGED <<given, step, round, result, toolVars, harvest>>

\* Fact extraction and usage accounting read the same slice, softly; then
\* the done event.
Finish ==
    /\ pc = "finish"
    /\ harvest' = SubSeq(msgs, Len(req.history) + 1, Len(msgs))
    /\ Emit(Event("done", "", NoId))
    /\ pc' = "ended"
    /\ UNCHANGED <<given, stored, roundVars, toolVars, late>>

\* ------------------------------------------------------------ environment
\* AbortContext.abort: idempotent, from the reader of the transport.
Abort ==
    /\ pc # "ended" /\ ~aborted
    /\ aborted' = TRUE
    /\ UNCHANGED <<req, pc, stored, roundVars, toolVars, out, harvest, late>>

\* The client is gone or the process stops: the generator is closed where
\* it is suspended, and nobody hears of it.
Close ==
    /\ pc # "ended"
    /\ pc' = "ended"
    /\ UNCHANGED <<given, stored, roundVars, toolVars, out, harvest, late>>

Work == \/ LoadHistory \/ Retrieve \/ PersistUser
        \/ StartAutoSearch \/ FinishAutoSearch
        \/ OpenRound \/ OpenSynthesis \/ Chunk \/ StreamFails \/ StreamEnds
        \/ PersistAssistant \/ NoRegistry \/ Announce \/ Skip \/ Dispatch
        \/ ToolEnds \/ ShowResult \/ PersistTool \/ Finish

Next == Work \/ Abort \/ Close

Spec == Init /\ [][Next]_vars

\* The event loop resumes a generator whose await is ready: every await of
\* the turn ends (streams and database calls by their own timeouts, tools
\* by tool_timeout_s), so an unfinished turn keeps taking steps.
FairSpec == Spec /\ WF_vars(Work)

-----------------------------------------------------------------------------
(***************************************************************************)
(* Properties                                                              *)
(***************************************************************************)
Events == [type: {"retrieval", "tool_call", "tool_result", "error", "done"},
           code: {"", "ABORTED", "MEMORY_READ_FAILED", "RETRIEVAL_FAILED",
                  "MEMORY_WRITE_FAILED", "LLM_ERROR", "INTERNAL"},
           id: Nat \X Nat]
Message == [role: Role, origin: {"prelude", "history", "turn"},
            key: Key \cup {NoKey}]
Phase == {"start", "retrieve", "user", "search", "searching", "head", "llm",
          "assistant", "call", "decide", "running", "result", "tool",
          "finish", "ended"}

\* The type of every variable of the generator.
TypeOK ==
    /\ req \in Request /\ WellFormed(req)
    /\ pc \in Phase /\ aborted \in BOOLEAN
    /\ mem \in Seq(L!Row) /\ msgs \in Seq(Message)
    /\ step \in 0..(MaxSteps + 1) /\ idx \in Nat /\ result \in Outcome
    /\ round \in [calls: Seq(Key), text: BOOLEAN, chunks: Nat]
    /\ keys \subseteq Key /\ ran \in Seq(Key)
    /\ counts \in [{NameOf[k] : k \in Key} -> Nat]
    /\ out \in Seq(Events) /\ harvest \in Seq(Message)
    /\ late \in [dispatched: Nat, rounds: Nat, rows: Nat]

Rows(role) == {j \in DOMAIN mem : mem[j].role = role}

\* Whatever stops the turn, only its last step may be stored by half: each
\* tool row stands where the call it answers puts it, in the order of the
\* calls behind the assistant row that declares them, and the next assistant
\* row comes after all of them.  (What the last step may lack is below,
\* AbortDropsIteration: it is not dropped, as generate's docstring says.)
Pairing ==
    /\ \A t \in Rows("tool") : \E a \in Rows("assistant") :
           \E i \in DOMAIN mem[a].calls :
               t = a + i /\ mem[t].step = mem[a].step /\ mem[t].idx = i
    /\ \A a, b \in Rows("assistant") : a < b =>
           \A i \in DOMAIN mem[a].calls : a + i \in Rows("tool") /\ a + i < b

\* A turn reported done has answered every tool call it stored and ends on
\* an assistant row with text and no calls.
DoneIsAnswered ==
    Status = "done" => L!Complete(mem) /\ L!EndsWithAnswer(mem)

\* Across all rounds of a turn and the automatic search before them, no
\* invocation is executed twice and no tool beyond its per-turn limit.
ToolBudget ==
    /\ \A i, j \in DOMAIN ran : ran[i] = ran[j] => i = j
    /\ \A n \in DOMAIN counts : TurnLimit(n) # NoLimit =>
           \A S \in SUBSET DOMAIN ran :
               (\A i \in S : NameOf[ran[i]] = n)
                   => Cardinality(S) <= TurnLimit(n)

\* The stream the client reads: nothing follows a terminal event, and the
\* only event after a tool_call is its own result, unless the turn stops.
Terminal(e) == e.type \in {"done", "error"}
StreamProtocol ==
    \A i \in DOMAIN out :
        /\ Terminal(out[i]) => i = Len(out) /\ pc = "ended"
        /\ out[i].type = "tool_call" /\ i < Len(out) =>
               /\ out[i + 1].type = "tool_result"
               /\ out[i + 1].id = out[i].id
        /\ out[i].type = "tool_result" =>
               i > 1 /\ out[i - 1].type = "tool_call"

\* What the client was shown and what is stored stay within one row of each
\* other: a stored tool row was shown before, and of the results shown (the
\* automatic search's aside) at most the last is not stored.
ShownResults == {i \in DOMAIN out : out[i].type = "tool_result"
                                    /\ out[i].id # NoId}
StoreFollowsStream ==
    /\ \A t \in Rows("tool") :
           \E i \in ShownResults : out[i].id = <<mem[t].step, mem[t].idx>>
    /\ \A i, j \in ShownResults :
           i < j => L!Answered(mem, out[i].id[1], out[i].id[2])

\* After the client's abort a turn begins at most one more dispatch and one
\* more round and writes at most two more rows, wherever the abort fell.
AbortStopsWork ==
    late.dispatched <= 1 /\ late.rounds <= 1 /\ late.rows <= 2

\* Every turn ends: the step bound and the tool timeout leave no way to run
\* for ever, whatever the model asks for.
EventuallyEnds == <>(pc = "ended")

\* The generator implements the abstract turn: what it stores, and when it
\* reports done, is a behaviour of TurnLog.
ImplementsTurnLog == L!Spec

\* Claims of the source that do not hold ---------------------------------

\* generate's docstring: an abort drops the rows of the current iteration,
\* so that no later turn sees a truncated trace.
AbortDropsIteration ==
    out # <<>> /\ out[Len(out)].code = "ABORTED" => L!Complete(mem)

\* Comment at the fact extraction: only messages of this turn are read.
FactsFromThisTurn == \A i \in DOMAIN harvest : harvest[i].origin = "turn"
=============================================================================

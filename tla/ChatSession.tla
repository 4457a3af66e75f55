---------------------------- MODULE ChatSession ----------------------------
(***************************************************************************)
(* Requests that share one chat session: streamed and posted messages,     *)
(* regenerate, the background title task, and the user's other tabs that   *)
(* rename the session or delete a message or the session                   *)
(* (api/routers/chat.py, chat_stream.py, service/memory/chat_memory.py).   *)
(* Nothing serialises them: each database call is a transaction of its     *)
(* own, and everything kept between two calls may be stale.                *)
(*                                                                         *)
(* A turn is taken at the level of TurnLog, which ChatTurn implements: it  *)
(* writes its user row, rounds of tool calls with their results, and an    *)
(* answer, and may fail anywhere.  wrote[r] is what request r has written; *)
(* the table holds references into these logs, ordered by created_at.      *)
(***************************************************************************)
EXTENDS Naturals, Sequences, SequencesExt, FiniteSets, FiniteSetsExt

CONSTANTS Req,        \* requests
          Seed,       \* stands for whoever wrote the rows found at the start
          Key,        \* tool invocations
          Kinds,      \* kinds of requests: "stream", "post", "regenerate"
          Seeds,      \* tables to start from: [log, tied]
          MaxCalls,   \* assistant rows with tool calls in one turn
          MaxEdits    \* renames and deletions by the user's other tabs

ASSUME KindsAssumption == Kinds \subseteq {"stream", "post", "regenerate"}
ASSUME BoundAssumption == /\ Seed \notin Req
                          /\ MaxCalls \in Nat /\ MaxEdits \in Nat

VARIABLES kind, tied,  \* given: tied, the seed rows have one created_at
          pc, fate,    \* where a request is; how its turn went, see TurnLog
          wrote,       \* the rows each request has appended, as in TurnLog
          table,       \* rows of the session, by created_at
          exists,      \* the chat_sessions row
          picked,      \* the row a regenerate is about to delete, or a post
                       \* to return
          history,     \* what a turn read when it began
          reply,       \* the row a post returned
          title,       \* chat_sessions.title: "none", "user" or "llm"
          task,        \* the title task of a turn
          edits,
          opened,      \* history: the table when a request began
          calm         \* history: nothing overlapped the request

given == <<kind, tied>>
vars == <<given, pc, fate, wrote, table, exists, picked, history, reply,
          title, task, edits, opened, calm>>

L == INSTANCE TurnLog WITH log <- <<>>, status <- "running",
                           Outcome <- {"output"}

\* The rows found at the start are rows turns have written.
ASSUME SeedsAssumption ==
    \A s \in Seeds : s.log \in Seq(L!Row) /\ s.tied \in BOOLEAN

NoRow == <<Seed, 0>>
RowOf(ref) == wrote[ref[1]][ref[2]]
Role(ref) == RowOf(ref).role
Has(role, refs) == \E i \in DOMAIN refs : Role(refs[i]) = role

Init ==
    /\ kind \in [Req -> Kinds]
    /\ \E s \in Seeds :
          /\ tied = s.tied
          /\ wrote = [r \in Req \cup {Seed} |-> IF r = Seed THEN s.log ELSE <<>>]
          /\ table = [i \in DOMAIN s.log |-> <<Seed, i>>]
    /\ pc = [r \in Req |-> "new"] /\ fate = [r \in Req |-> "running"]
    /\ exists = TRUE
    /\ picked = [r \in Req |-> NoRow] /\ reply = [r \in Req |-> NoRow]
    /\ history = [r \in Req |-> <<>>] /\ opened = [r \in Req |-> <<>>]
    /\ title = "none" /\ task = [r \in Req |-> "none"]
    /\ edits = 0 /\ calm = [r \in Req |-> TRUE]

\* ----------------------------------------------------------------- helpers
\* ORDER BY created_at: rows of one transaction have one created_at, and come
\* in either order.
Tie(t) == tied /\ Len(t) >= 2 /\ t[1] = <<Seed, 1>> /\ t[2] = <<Seed, 2>>
Readings(t) == IF Tie(t) THEN {t, <<t[2], t[1]>> \o SubSeq(t, 3, Len(t))}
               ELSE {t}

\* A row is deleted, or is gone already.
Deleted(ref) == \/ \E i \in DOMAIN table : /\ table[i] = ref
                                           /\ table' = RemoveAt(table, i)
                \/ ~Contains(table, ref) /\ UNCHANGED table
Active(r) == pc[r] \notin {"new", "ended"}
Goto(r, label) == pc' = [pc EXCEPT ![r] = label]
Disturbed(S) == calm' = [q \in Req |-> calm[q] /\ q \notin S]

\* ------------------------------------------------------- opening a request
\* require_session_owner: 404, or on to the quota, for a regenerate after the
\* walk back.
Open(r) ==
    /\ pc[r] = "new"
    /\ IF exists
       THEN Goto(r, IF kind[r] = "regenerate" THEN "walk" ELSE "quota")
            /\ UNCHANGED fate
       ELSE Goto(r, "ended") /\ fate' = [fate EXCEPT ![r] = "failed"]
    /\ opened' = [opened EXCEPT ![r] = table]
    /\ LET others == {q \in Req \ {r} : Active(q)}
       IN  Disturbed(IF others = {} THEN {} ELSE others \cup {r})
    /\ UNCHANGED <<given, wrote, table, exists, picked, history, reply,
                   title, task, edits>>

\* Variant: only assistant rows are looked at on the way back.
WalkBackOverAnswers(r) ==
    /\ pc[r] = "walk"
    /\ \E seen \in Readings(table) :
          LET rest == SelectSeq(seen, LAMBDA x : Role(x) # "tool")
          IN  IF rest # <<>> /\ Role(rest[Len(rest)]) # "user"
              THEN /\ picked' = [picked EXCEPT ![r] = rest[Len(rest)]]
                   /\ Goto(r, "drop")
                   /\ UNCHANGED fate
              ELSE /\ Goto(r, IF rest = <<>> THEN "ended" ELSE "quota")
                   /\ fate' = IF rest = <<>>
                              THEN [fate EXCEPT ![r] = "failed"] ELSE fate
                   /\ UNCHANGED picked
    /\ UNCHANGED <<given, wrote, table, exists, history, reply, title, task,
                   edits, opened, calm>>

\* Variant: the anchor is deleted too.
WalkBackPastAnchor(r) ==
    /\ pc[r] = "walk"
    /\ \E seen \in Readings(table) :
          IF seen # <<>>
          THEN /\ picked' = [picked EXCEPT ![r] = seen[Len(seen)]]
               /\ Goto(r, "drop")
               /\ UNCHANGED fate
          ELSE /\ Goto(r, "ended")
               /\ fate' = [fate EXCEPT ![r] = "failed"]
               /\ UNCHANGED picked
    /\ UNCHANGED <<given, wrote, table, exists, history, reply, title, task,
                   edits, opened, calm>>

\* Regenerate reads the newest row: none (400), a user row (the anchor), or a
\* row to delete.
WalkBack(r) ==
    /\ pc[r] = "walk"
    /\ \E seen \in Readings(table) :
          \/ /\ seen = <<>>
             /\ Goto(r, "ended")
             /\ fate' = [fate EXCEPT ![r] = "failed"]
             /\ UNCHANGED picked
          \/ /\ seen # <<>> /\ Role(seen[Len(seen)]) = "user"
             /\ Goto(r, "quota")
             /\ UNCHANGED <<fate, picked>>
          \/ /\ seen # <<>> /\ Role(seen[Len(seen)]) # "user"
             /\ picked' = [picked EXCEPT ![r] = seen[Len(seen)]]
             /\ Goto(r, "drop")
             /\ UNCHANGED fate
    /\ UNCHANGED <<given, wrote, table, exists, history, reply, title, task,
                   edits, opened, calm>>

\* Variant: the deletion is not committed.
DropUncommitted(r) ==
    /\ pc[r] = "drop"
    /\ Goto(r, "walk")
    /\ picked' = [picked EXCEPT ![r] = NoRow]
    /\ UNCHANGED <<given, fate, wrote, table, exists, history, reply, title,
                   task, edits, opened, calm>>

\* Variant: the newest row is deleted, not the one that was read.
DropNewest(r) ==
    /\ pc[r] = "drop"
    /\ table' = IF table = <<>> THEN table ELSE RemoveAt(table, Len(table))
    /\ picked' = [picked EXCEPT ![r] = NoRow]
    /\ Goto(r, "walk")
    /\ UNCHANGED <<given, fate, wrote, exists, history, reply, title, task,
                   edits, opened, calm>>

\* It is deleted in a transaction of its own; a row that is gone already is
\* no error.
Drop(r) ==
    /\ pc[r] = "drop"
    /\ Deleted(picked[r])
    /\ picked' = [picked EXCEPT ![r] = NoRow]
    /\ Goto(r, "walk")
    /\ UNCHANGED <<given, fate, wrote, exists, history, reply, title, task,
                   edits, opened, calm>>

\* enforce_user_llm_quota.  A post that is refused never reaches its aclose,
\* which has nothing to cancel yet.
Quota(r) ==
    /\ pc[r] = "quota"
    /\ \/ Goto(r, "load") /\ UNCHANGED fate
       \/ Goto(r, "close") /\ fate' = [fate EXCEPT ![r] = "failed"]
    /\ UNCHANGED <<given, wrote, table, exists, picked, history, reply, title,
                   task, edits, opened, calm>>

\* ---------------------------------------------------------------- the turn
LoadHistory(r) ==
    /\ pc[r] = "load"
    /\ \E seen \in Readings(table) : history' = [history EXCEPT ![r] = seen]
    /\ Goto(r, IF kind[r] = "regenerate" THEN "round" ELSE "user")
    /\ UNCHANGED <<given, fate, wrote, table, exists, picked, reply, title,
                   task, edits, opened, calm>>

\* ChatMemory.append: the foreign key refuses a row of a deleted session.
AppendRow(r, row, next) ==
    /\ exists
    /\ wrote' = [wrote EXCEPT ![r] = Append(@, row)]
    /\ table' = Append(table, <<r, Len(wrote[r]) + 1>>)
    /\ Goto(r, next)

WriteUser(r) ==
    /\ pc[r] = "user"
    /\ AppendRow(r, L!UserRow, "round")
    /\ UNCHANGED <<given, fate, exists, picked, history, reply, title, task,
                   edits, opened, calm>>

Steps(r) == Cardinality({i \in DOMAIN wrote[r] : wrote[r][i].role = "assistant"})

CallTool(r) ==
    /\ pc[r] = "round" /\ Steps(r) < MaxCalls
    /\ \E k \in Key :
          AppendRow(r, L!AssistantRow(Steps(r) + 1, <<k>>, FALSE), "tool")
    /\ UNCHANGED <<given, fate, exists, picked, history, reply, title, task,
                   edits, opened, calm>>

WriteTool(r) ==
    /\ pc[r] = "tool"
    /\ AppendRow(r, L!ToolRow(Steps(r), 1, "output"), "round")
    /\ UNCHANGED <<given, fate, exists, picked, history, reply, title, task,
                   edits, opened, calm>>

Answer(r) ==
    /\ pc[r] = "round"
    /\ AppendRow(r, L!AssistantRow(Steps(r) + 1, <<>>, TRUE), "finish")
    /\ UNCHANGED <<given, fate, exists, picked, history, reply, title, task,
                   edits, opened, calm>>

\* The model, the database, an abort or a disconnect ends the turn.
TurnFails(r) ==
    /\ pc[r] \in {"load", "user", "round", "tool"}
    /\ Goto(r, "close")
    /\ fate' = [fate EXCEPT ![r] = "failed"]
    /\ UNCHANGED <<given, wrote, table, exists, picked, history, reply, title,
                   task, edits, opened, calm>>

\* The done event; a first reply starts the title task.
Finish(r) ==
    /\ pc[r] = "finish"
    /\ fate' = [fate EXCEPT ![r] = "done"]
    /\ task' = IF Has("assistant", history[r]) THEN task
               ELSE [task EXCEPT ![r] = "check"]
    /\ Goto(r, "close")
    /\ UNCHANGED <<given, wrote, table, exists, picked, history, reply, title,
                   edits, opened, calm>>

\* aclose cancels the title task wherever it is; the locals of the turn are
\* gone.  A post then looks for the row to return.
Close(r) ==
    /\ pc[r] = "close"
    /\ task' = IF task[r] \in {"check", "set"}
               THEN [task EXCEPT ![r] = "cancelled"] ELSE task
    /\ Goto(r, IF kind[r] = "post" /\ fate[r] = "done" THEN "fetch" ELSE "ended")
    /\ history' = [history EXCEPT ![r] = <<>>]
    /\ opened' = [opened EXCEPT ![r] = <<>>]
    /\ UNCHANGED <<given, fate, wrote, table, exists, picked, reply, title,
                   edits, calm>>

\* Variant: the oldest assistant row.
FetchOldest(r) ==
    /\ pc[r] = "fetch"
    /\ \E seen \in Readings(table) :
          LET own == {i \in DOMAIN seen : Role(seen[i]) = "assistant"}
          IN  reply' = IF own = {} THEN reply
                       ELSE [reply EXCEPT ![r] = seen[Min(own)]]
    /\ Goto(r, "ended")
    /\ UNCHANGED <<given, fate, wrote, table, exists, picked, history, title,
                   task, edits, opened, calm>>

\* post_message looks for the session's newest assistant row: without one it
\* answers 502.  It returns the row, or first adds the tokens of the turn to
\* it, if the provider reported them and the row has none.
Fetch(r) ==
    /\ pc[r] = "fetch"
    /\ \E seen \in Readings(table) :
          LET own == {i \in DOMAIN seen : Role(seen[i]) = "assistant"}
          IN  \/ /\ own = {}
                 /\ Goto(r, "ended")
                 /\ UNCHANGED <<picked, reply>>
              \/ /\ own # {}
                 /\ Goto(r, "ended")
                 /\ reply' = [reply EXCEPT ![r] = seen[Max(own)]]
                 /\ UNCHANGED picked
              \/ /\ own # {}
                 /\ Goto(r, "patch")
                 /\ picked' = [picked EXCEPT ![r] = seen[Max(own)]]
                 /\ UNCHANGED reply
    /\ UNCHANGED <<given, fate, wrote, table, exists, history, title, task,
                   edits, opened, calm>>

\* The tokens are committed and the row is read again, which fails (500)
\* when it has been deleted since.
SetTokens(r) ==
    /\ pc[r] = "patch"
    /\ reply' = IF Contains(table, picked[r])
                THEN [reply EXCEPT ![r] = picked[r]] ELSE reply
    /\ picked' = [picked EXCEPT ![r] = NoRow]
    /\ Goto(r, "ended")
    /\ UNCHANGED <<given, fate, wrote, table, exists, history, title, task,
                   edits, opened, calm>>

\* ---------------------------------------------------------- the title task
\* get_title reads the title (None of a session that is gone), and without
\* one the model is asked, which may fail; set_title writes.
AskTitle(r) ==
    /\ task[r] = "check"
    /\ \E next \in (IF exists /\ title # "none" THEN {"over"}
                    ELSE {"set", "over"}) : task' = [task EXCEPT ![r] = next]
    /\ UNCHANGED <<given, pc, fate, wrote, table, exists, picked, history,
                   reply, title, edits, opened, calm>>

SetTitle(r) ==
    /\ task[r] = "set"
    /\ task' = [task EXCEPT ![r] = "over"]
    /\ title' \in IF exists THEN {"llm", title} ELSE {title}
    /\ UNCHANGED <<given, pc, fate, wrote, table, exists, picked, history,
                   reply, edits, opened, calm>>

\* ------------------------------------------------------ the user's own edits
Edits(other) == /\ exists /\ edits < MaxEdits
                /\ edits' = edits + 1
                /\ Disturbed({r \in Req : Active(r)})
                /\ UNCHANGED <<given, pc, fate, wrote, picked, history, reply,
                               task, opened>>
                /\ UNCHANGED other

Rename == Edits(<<table, exists>>) /\ title' = "user"

DeleteMessage == /\ Edits(<<exists, title>>)
                 /\ \E i \in DOMAIN table : Deleted(table[i])

\* The rows go with the session, by the foreign key's cascade.
DeleteSession == Edits(title) /\ exists' = FALSE /\ table' = <<>>

RequestStep(r) ==
    \/ Open(r) \/ WalkBack(r) \/ Drop(r) \/ Quota(r) \/ LoadHistory(r)
    \/ WriteUser(r) \/ CallTool(r) \/ WriteTool(r) \/ Answer(r)
    \/ TurnFails(r) \/ Finish(r) \/ Close(r) \/ Fetch(r)
    \/ SetTokens(r)
TitleStep(r) == AskTitle(r) \/ SetTitle(r)

Next == \/ \E r \in Req : RequestStep(r) \/ TitleStep(r)
        \/ Rename \/ DeleteMessage \/ DeleteSession

Spec == Init /\ [][Next]_vars

\* A request that was opened runs on: the event loop, and the timeouts of the
\* model, the tools and the database driver, see to it.
FairSpec == Spec /\ \A r \in Req : WF_vars(RequestStep(r) /\ pc[r] # "new")

-----------------------------------------------------------------------------
(***************************************************************************)
(* Properties                                                              *)
(***************************************************************************)

\* The types; a regenerate never has a user row picked for deletion, and the
\* table never refers to a row that was not written.
TypeOK ==
    /\ kind \in [Req -> Kinds] /\ tied \in BOOLEAN
    /\ pc \in [Req -> {"new", "walk", "drop", "quota", "load", "user", "round",
                       "tool", "finish", "close", "fetch", "patch",
                       "ended"}]
    /\ fate \in [Req -> {"running", "done", "failed"}]
    /\ \A r \in Req : wrote[r] \in Seq(L!Row)
    /\ \A i \in DOMAIN table : table[i][2] \in DOMAIN wrote[table[i][1]]
    /\ \A r \in Req : pc[r] = "drop" => Role(picked[r]) # "user"
    /\ exists \in BOOLEAN /\ edits \in 0..MaxEdits
    /\ title \in {"none", "user", "llm"}
    /\ task \in [Req -> {"none", "check", "set", "over", "cancelled"}]
    /\ calm \in [Req -> BOOLEAN]

\* A question is never lost to a regenerate, however requests overlap: user
\* rows go only when the user deletes a message or the session.
QuestionsSurvive ==
    [][\A i \in DOMAIN table :
          Role(table[i]) = "user" /\ ~Contains(table', table[i]) =>
              DeleteMessage \/ DeleteSession]_vars

\* The position of the newest user row, 0 without one.
Anchor(t) == Max({0} \cup {i \in DOMAIN t : Role(t[i]) = "user"})
OwnRows(r) == [i \in DOMAIN wrote[r] |-> <<r, i>>]

\* What a regenerate may delete, however requests overlap: of the turns up to
\* the newest question it found when it began, nothing, as long as the user
\* leaves that question.  (Rows after it it may, also those of a turn that is
\* still running, see ToolRowsHaveCalls.)
EarlierTurnsSurvive ==
    [][\A r \in Req : Drop(r) /\ ~tied =>
          LET a == Anchor(opened[r])
          IN  a # 0 /\ Contains(table, opened[r][a]) =>
                  \A i \in 1..a : Contains(table, opened[r][i])
                                     => Contains(table', opened[r][i])]_vars

\* A regenerate that nothing overlapped replaces what followed the newest
\* question, and nothing else: the model sees the transcript up to that
\* question, and the session ends with the question and the new rows, also
\* when the turn is refused or fails.  (The old answer is gone then.)
CalmRegenerate ==
    \A r \in Req :
        LET before == SubSeq(opened[r], 1, Anchor(opened[r]))
        IN  kind[r] = "regenerate" /\ Active(r) /\ calm[r] /\ ~tied =>
                /\ pc[r] \in {"round", "tool", "finish"} =>
                       history[r] = before /\ before # <<>>
                /\ pc[r] \in {"quota", "load", "round", "tool", "finish",
                             "close"} =>
                       table = before \o OwnRows(r)

\* A post whose turn is done, and that nothing overlapped, returns the answer
\* of its own turn, though it asks for the newest answer there is.
CalmReply ==
    \A r \in Req : /\ pc[r] = "ended" /\ calm[r]
                   /\ kind[r] = "post" /\ fate[r] = "done"
                   => reply[r] = <<r, Len(wrote[r])>>

\* The assistant row with the call a tool row answers.
Asks(a, t) == /\ a[1] = t[1] /\ Role(a) = "assistant" /\ Role(t) = "tool"
              /\ RowOf(a).step = RowOf(t).step
ToolRowsHaveCalls ==
    \A j \in DOMAIN table : Role(table[j]) = "tool" =>
        \E i \in 1..(j - 1) : Asks(table[i], table[j])

\* Every request that was opened ends; a regenerate does not chase rows that
\* other turns keep adding for ever.
EveryRequestEnds == \A r \in Req : Active(r) ~> pc[r] = "ended"

\* Claims of the source that do not hold ---------------------------------

\* chat_stream_regenerate: the next call generates against a history that
\* ends with the user's message.
RegenerateIsClean ==
    \A r \in Req : kind[r] = "regenerate" /\ pc[r] = "round"
                   /\ wrote[r] = <<>> =>
        history[r] # <<>> /\ Role(history[r][Len(history[r])]) = "user"
=============================================================================

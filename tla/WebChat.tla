------------------------------- MODULE WebChat -------------------------------
(***************************************************************************)
(* The chat page of the web client (websites/src/features/chat): the       *)
(* transcript its store keeps, the turn that streams into it, the adoption *)
(* of the server's identifiers after a turn, the regenerate that a page    *)
(* starts by itself, and moving between sessions.                          *)
(*                                                                         *)
(* The browser is one thread; what it asks of the server is answered at    *)
(* some later moment.  A message is known by a number the model gives it:  *)
(* the key of a row is the message it shows, its id the server's message   *)
(* it stands for, NoId while the row has only a local identifier.          *)
(*                                                                         *)
(* At the server a turn writes its question, perhaps a round of tool       *)
(* calls, and an answer, or fails anywhere (TurnLog, ChatSession).  The    *)
(* messages of a session are read a page at a time, the oldest first, and  *)
(* the web client asks for the first page only.                            *)
(*                                                                         *)
(* The rejection of an aborted stream is handled before any other event,   *)
(* so an abort and its end are one step.                                   *)
(***************************************************************************)
EXTENDS Naturals, Sequences, SequencesExt, FiniteSetsExt

CONSTANTS Session,
          Size,     \* messages in a page
          Seeds,    \* what the sessions may hold at first
          MaxId     \* bound of the model: messages there ever are

ASSUME SizeAssumption == Size \in Nat \ {0} /\ MaxId \in Nat

VARIABLES db,       \* the server's messages of each session
          turn,     \* turns under way, by the key of their answer
          at, msgs, \* sessionId, messages
          stream,   \* streaming, abortController: the key of the row that is
                    \* written to, and whether the answer is complete
          sync,     \* reads of a session's messages at the end of a turn
          visit,    \* the page that is being loaded
          fired,    \* autoFiredSessionRef is this session
          fresh,    \* the next number
          calm      \* history: see Hurry

server == <<db, turn>>
store == <<at, msgs, stream>>
vars == <<server, store, sync, visit, fired, fresh, calm>>

NoId == 0
None == [row |-> NoId, done |-> FALSE]
Id == 1..MaxId
Message == [role: {"user", "assistant"}, id: Id,
            to: Id,             \* the question that is answered
            final: BOOLEAN]     \* an answer, not a round of tool calls

\* The sessions found at the start are what turns have left: the messages are
\* numbered from 1, a question is known by its own number and asked once, and
\* an answer comes after its question and is the only one.
Answers(m, q) == m.final /\ m.to = q.to
Kept(rows) ==
    /\ \A i, j \in DOMAIN rows :
          rows[i].role = "user" /\ rows[j].role = "user" /\ rows[i].to = rows[j].to => i = j
    /\ \A j \in DOMAIN rows : rows[j].final =>
          \E i \in 1..(j - 1) : rows[i].role = "user" /\ Answers(rows[j], rows[i])
    /\ \A i, j \in DOMAIN rows : rows[i].final /\ Answers(rows[j], rows[i]) => i = j
Total(seed) == FoldFunction(LAMBDA rows, n : n + Len(rows), 0, seed)

ASSUME SeedsAssumption ==
    \A seed \in Seeds :
       /\ seed \in [Session -> Seq(Message)] /\ Total(seed) \in 0..MaxId
       /\ \A s \in Session :
             /\ Kept(seed[s])
             /\ \A i \in DOMAIN seed[s] : {seed[s][i].id, seed[s][i].to} \subseteq 1..Total(seed)

NoVisit == [sid |-> CHOOSE s \in Session : TRUE, rows |-> <<>>, on |-> FALSE]

\* ----------------------------------------------------------------- helpers
Row(m) == [role |-> m.role, key |-> m.id, id |-> m.id, live |-> FALSE]
Local(role, key) == [role |-> role, key |-> key, id |-> NoId, live |-> role = "assistant"]
LastWhere(s, Test(_)) == Max({0} \cup {i \in DOMAIN s : Test(s[i])})
Running(s) == \E t \in turn : t.sid = s

\* getMessages: the first page, though the route says "Full message history".
getMessages(s) == SubSeq(db[s], 1, Min({Size, Len(db[s])}))

\* A page that shows rows: one that is opened loads them all anew.
hydrateMessages(rows) == [i \in DOMAIN rows |-> Row(rows[i])]

Init ==
    /\ \E seed \in Seeds :
          /\ db = seed
          /\ fresh = 1 + Total(seed)
    /\ turn = {}
    /\ at \in Session
    /\ msgs = hydrateMessages(getMessages(at))
    /\ stream = None /\ sync = {} /\ visit = NoVisit
    /\ fired = FALSE
    /\ calm = (\A s \in Session : Len(db[s]) <= Size)

\* What makes a user hurried: a turn that begins before the identifiers of the
\* turn before it are there, or before the server has done with it, a session
\* that is opened before that, and a turn from another client meanwhile.  No
\* session of an unhurried user has outgrown a page.
Hurry(s) == Running(s) \/ \E f \in sync : f.sid = s

\* React runs the effects of a change before any other event.
AutoReady == /\ ~fired /\ stream = None /\ msgs # <<>>
             /\ Last(msgs).role = "user" /\ Last(msgs).id # NoId
Settled == ~AutoReady

\* --------------------------------------------------------------- the store
Begin(regen, rows, q, a) ==
    /\ a <= MaxId
    /\ msgs' = Append(rows, Local("assistant", a))
    /\ turn' = turn \cup {[sid |-> at, q |-> q, a |-> a, regen |-> regen,
                           phase |-> "sent"]}
    /\ stream' = [row |-> a, done |-> FALSE] /\ fresh' = a + 1
    /\ calm' = (calm /\ ~Hurry(at))
    /\ UNCHANGED <<db, at, sync, visit>>

\* A question from the composer, unless a turn streams.
Send ==
    /\ Settled /\ stream = None
    /\ Begin(FALSE, Append(msgs, Local("user", fresh)), fresh, fresh + 1)
    /\ UNCHANGED fired

\* The last answer gives way to the placeholder of a new one.
Regenerate ==
    Begin(TRUE, IF msgs # <<>> /\ Last(msgs).role = "assistant" THEN Front(msgs) ELSE msgs,
          NoId, fresh)

\* The button is there under a last answer that has the server's identifier.
PressRegenerate ==
    /\ Settled /\ stream = None
    /\ msgs # <<>> /\ Last(msgs).role = "assistant" /\ Last(msgs).id # NoId /\ ~Last(msgs).live
    /\ Regenerate /\ UNCHANGED fired

\* The page starts a turn for a last question that has no answer, once.
AutoRegenerate == AutoReady /\ Regenerate /\ fired' = TRUE

\* The row a stream writes to is found by the identifier it was given.
Mark(live) == [i \in DOMAIN msgs |->
                  IF msgs[i].key = stream.row /\ msgs[i].id = NoId
                  THEN [msgs[i] EXCEPT !.live = live] ELSE msgs[i]]

\* The done event, and the end of the stream: the messages are read again.
Completed ==
    /\ stream.done /\ msgs' = Mark(FALSE) /\ stream' = None
    /\ sync' = sync \cup {[sid |-> at, rows |-> getMessages(at)]}
    /\ UNCHANGED <<server, at, visit, fired, fresh, calm>>

\* Variant: the row of a stream that was stopped keeps its dots.
FailedKeeps ==
    /\ stream # None /\ stream' = None
    /\ UNCHANGED <<server, at, msgs, sync, visit, fired, fresh, calm>>

\* An error event, a failed request, a broken connection, or the user's stop.
\* The turn may go on at the server, which learns of it late.
Failed ==
    /\ stream # None
    /\ msgs' = Mark(FALSE) /\ stream' = None
    /\ UNCHANGED <<server, at, sync, visit, fired, fresh, calm>>

\* The newest message of a role that no row has, given to the last row of the
\* role that has none.
Adopt(rows, role, list) ==
    LET known == {list[i].id : i \in DOMAIN list}
        m == LastWhere(rows, LAMBDA r : r.role = role /\ r.id \notin known)
        i == LastWhere(list, LAMBDA r : r.role = role /\ r.id = NoId)
    IN  IF m = 0 \/ i = 0 THEN list ELSE [list EXCEPT ![i].id = rows[m].id]

\* Variant: the identifiers are adopted whatever session is shown by now.
SyncedAnywhere(f) ==
    /\ f \in sync /\ Settled
    /\ \E rows \in {f.rows, getMessages(f.sid)} :
          msgs' = Adopt(rows, "user", Adopt(rows, "assistant", msgs))
    /\ sync' = sync \ {f}
    /\ UNCHANGED <<server, at, stream, visit, fired, fresh, calm>>

\* The messages, as they were at some moment since they were asked for.
Synced(f) ==
    /\ f \in sync /\ Settled
    /\ \/ f.sid # at /\ UNCHANGED msgs
       \/ f.sid = at /\ \E rows \in {f.rows, getMessages(f.sid)} :
             msgs' = Adopt(rows, "user", Adopt(rows, "assistant", msgs))
       \/ UNCHANGED msgs  \* the read failed
    /\ sync' = sync \ {f}
    /\ UNCHANGED <<server, at, stream, visit, fired, fresh, calm>>

\* ------------------------------------------------------------------ visits
\* A session is opened from the list, or a new one made; the page is rendered
\* at the server.  The last one asked for is shown.
Visit(s) ==
    /\ Settled /\ s # at /\ ~visit.on
    /\ visit' = [sid |-> s, rows |-> getMessages(s), on |-> TRUE]
    /\ calm' = (calm /\ ~Running(s))
    /\ UNCHANGED <<server, store, sync, fired, fresh>>

\* The page is mounted: initSession aborts the stream and loads the rows.
InitSession ==
    /\ visit.on /\ Settled /\ visit' = NoVisit
    /\ at' = visit.sid /\ msgs' = hydrateMessages(visit.rows)
    /\ stream' = None /\ fired' = FALSE
    /\ UNCHANGED <<server, sync, fresh, calm>>

\* -------------------------------------------------------------- the server
Question(n) == [role |-> "user", id |-> n, to |-> n, final |-> FALSE]
Answer(n, q, final) == [role |-> "assistant", id |-> n, to |-> q, final |-> final]
Advance(t, u) == turn' = (turn \ {t}) \cup {u}
Store(s, rows, quiet) == /\ db' = [db EXCEPT ![s] = rows]
                         /\ calm' = (calm /\ quiet /\ Len(rows) <= Size)

\* Variant: nothing is deleted.
UpToLastQuestionAll(rows) == rows

UpToLastQuestion(rows) ==
    SubSeq(rows, 1, LastWhere(rows, LAMBDA m : m.role = "user"))

\* The question is written; or everything after the last one is deleted.
Arrive(t) ==
    /\ t \in turn /\ t.phase = "sent"
    /\ \/ /\ ~t.regen /\ Store(t.sid, Append(db[t.sid], Question(t.q)), TRUE)
          /\ Advance(t, [t EXCEPT !.phase = "run"])
       \/ /\ t.regen /\ UpToLastQuestion(db[t.sid]) # <<>>
          /\ Store(t.sid, UpToLastQuestion(db[t.sid]), TRUE)
          /\ Advance(t, [t EXCEPT !.phase = "run",
                                  !.q = Last(UpToLastQuestion(db[t.sid])).to])
    /\ UNCHANGED <<store, sync, visit, fired, fresh>>

\* A round of tool calls.
Round(t) ==
    /\ t \in turn /\ t.phase = "run" /\ fresh <= MaxId
    /\ Store(t.sid, Append(db[t.sid], Answer(fresh, t.q, FALSE)), TRUE)
    /\ Advance(t, [t EXCEPT !.phase = "called"]) /\ fresh' = fresh + 1
    /\ UNCHANGED <<store, sync, visit, fired>>

Write(t) ==
    /\ t \in turn /\ t.phase \in {"run", "called"}
    /\ Store(t.sid, Append(db[t.sid], Answer(t.a, t.q, TRUE)), TRUE)
    /\ turn' = turn \ {t}
    /\ stream' = IF t.a = stream.row THEN [stream EXCEPT !.done = TRUE] ELSE stream
    /\ UNCHANGED <<at, msgs, sync, visit, fired, fresh>>

\* Variant: the page is not told.
FailUnseen(t) ==
    /\ t \in turn /\ turn' = turn \ {t}
    /\ UNCHANGED <<db, store, sync, visit, fired, fresh, calm>>

\* The turn fails, or notices that its client has gone.
Fail(t) ==
    /\ t \in turn /\ turn' = turn \ {t}
    /\ IF t.a = stream.row THEN msgs' = Mark(FALSE) /\ stream' = None
       ELSE UNCHANGED <<msgs, stream>>
    /\ UNCHANGED <<db, at, sync, visit, fired, fresh, calm>>

\* A turn from another of the user's clients.
Elsewhere(s) ==
    /\ Settled /\ fresh + 1 <= MaxId /\ fresh' = fresh + 2
    /\ Store(s, db[s] \o <<Question(fresh), Answer(fresh + 1, fresh, TRUE)>>,
             s # at /\ ~(visit.on /\ visit.sid = s))
    /\ UNCHANGED <<turn, store, sync, visit, fired>>

Serve(t) == Arrive(t) \/ Round(t) \/ Write(t) \/ Fail(t)

Next ==
    \/ Send \/ PressRegenerate \/ AutoRegenerate \/ Completed \/ Failed
    \/ InitSession
    \/ \E t \in turn : Serve(t)
    \/ \E f \in sync : Synced(f)
    \/ \E s \in Session : Visit(s) \/ Elsewhere(s)

\* The server goes on with a turn; what it sends is read.
Spec == Init /\ [][Next]_vars
        /\ WF_vars(Completed)
        /\ WF_vars(\E t \in turn : Arrive(t) \/ Write(t) \/ Fail(t))

-----------------------------------------------------------------------------
(***************************************************************************)
(* Properties                                                              *)
(***************************************************************************)

\* The types; a stream writes to a row that is there, unless its identifier was
\* given away.
TypeOK ==
    /\ db \in [Session -> Seq(Message)]
    /\ turn \subseteq [sid: Session, q: Id \cup {NoId}, a: Id, regen: BOOLEAN,
                       phase: {"sent", "run", "called"}]
    /\ at \in Session
    /\ msgs \in Seq([role: {"user", "assistant"}, key: Id, id: Id \cup {NoId},
                     live: BOOLEAN])
    /\ stream \in [row: Id \cup {NoId}, done: BOOLEAN]
    /\ stream # None => \E i \in DOMAIN msgs : msgs[i].key = stream.row
    /\ sync \subseteq [sid: Session, rows: Seq(Message)]
    /\ visit.on \in BOOLEAN /\ fired \in BOOLEAN /\ calm \in BOOLEAN
    /\ fresh \in 1..MaxId + 2

\* What the buttons under an answer send to be shared or bookmarked: the answer
\* and the question before it.
Offered == {i \in DOMAIN msgs : msgs[i].role = "assistant" /\ msgs[i].id # NoId
                               /\ ~msgs[i].live}
AskedBy(i) == LastWhere(SubSeq(msgs, 1, i), LAMBDA r : r.role = "user")

\* For a user who is in no hurry, see Hurry, what is sent is what is shown: the answer's
\* identifier is its own, and so is that of the question above it.
CalmOffers ==
    calm => \A i \in Offered :
               /\ msgs[i].id = msgs[i].key
               /\ LET q == AskedBy(i)
                  IN  q # 0 => msgs[q].id = msgs[q].key

\* For such a user, an answer that is written can be stopped, and an answer that
\* is not written does not look as if it was.
CalmRowsSettle ==
    calm => \A i \in DOMAIN msgs : msgs[i].live => msgs[i].key = stream.row

\* For such a user, a question has one answer.
CalmOneAnswer ==
    calm => \A s \in Session : \A i, j \in DOMAIN db[s] :
               db[s][i].final /\ db[s][j].final /\ db[s][i].to = db[s][j].to => i = j

\* Stop works: a stream that is shown ends.
TurnEnds == stream # None ~> stream = None

\* Claims of the source that do not hold ---------------------------------

\* chat_stream.py: "the session was seeded with a user message but no reply was
\* ever generated; the chat view auto-fires this on first hydrate."
AutoFiresUnanswered ==
    [][AutoRegenerate => ~\E i \in DOMAIN db[at] : db[at][i].to = Last(msgs).id
                                                 /\ db[at][i].final]_vars
=============================================================================

------------------------------- MODULE Terminal -------------------------------
(***************************************************************************)
(* The terminal client's session list, transcript and stream, and the keys *)
(* and commands that drive them (clients/tui/src/store, components,        *)
(* commands), for users who sign in and out.                               *)
(*                                                                         *)
(* The program is one thread.  What awaits an answer of the server is a    *)
(* task; its answer comes at some later moment, and nothing makes one task *)
(* wait for another, so answers come in any order.  The user's other       *)
(* clients add and delete sessions at any time, so a list may hold any of  *)
(* the account's.  A row is known by the session it belongs to.            *)
(*                                                                         *)
(* Which pane has the focus decides which keys are heard; Tab moves it at  *)
(* any time, so it is left out, and so is the help that covers the shell.  *)
(* TokenRefresh is about the tokens; the list of providers is left out.    *)
(***************************************************************************)
EXTENDS FiniteSets

CONSTANTS Account, Session,
          Owner,    \* the account a session belongs to
          Task,     \* bound of the model: requests under way at a time
          None

ASSUME OwnerAssumption == Owner \in [Session -> Account]

VARIABLES user,
          list, active, seen,  \* session store; the activeId its effect saw
          shown,      \* messages: rows loaded of a session, rows of turns that
                      \* are over, and turns whose placeholder is there
          streaming, controller,
          task,
          wiped,      \* history: a reset met a running stream
          calm        \* history: rows were always awaited, see Hurry

sessions == <<list, active, seen>>
chat == <<shown, streaming, controller, wiped>>
vars == <<user, sessions, chat, task, calm>>

Idle == [kind |-> "idle", sid |-> None, hit |-> None, as |-> None,
         open |-> FALSE, cut |-> FALSE]
Empty == [loaded |-> None, own |-> {}, live |-> {}]
Mine(a) == {s \in Session : Owner[s] = a}
Of(kinds) == {k \in Task : task[k].kind \in kinds}
Streams == Of({"stream"})
Loads == Of({"load", "edit", "rmsg"})  \* the last two end in a load

Init ==
    /\ user = None
    /\ list = {} /\ active = None /\ seen = None
    /\ shown = Empty /\ streaming = FALSE /\ controller = None
    /\ task = [k \in Task |-> Idle]
    /\ wiped = FALSE /\ calm = TRUE

\* ----------------------------------------------------------------- helpers
New(kind, s) == [Idle EXCEPT !.kind = kind, !.sid = s, !.as = user]
Start(k, kind, s) == /\ task[k].kind = "idle"
                     /\ task' = [task EXCEPT ![k] = New(kind, s)]
Finish(k) == task' = [task EXCEPT ![k] = Idle]

\* A load that begins while rows of another session are on their way or a turn
\* streams; a turn or a change that begins while rows are on their way.
Hurry(k, s) == Streams # {} \/ \E j \in Loads \ {k} : task[j].sid # s
HurryRow == Loads # {}

\* The rest of a task that ends in loadSession(s).
ThenLoad(k, s) ==
    /\ task' = [task EXCEPT ![k] = New("load", s)]
    /\ calm' = (calm /\ ~Hurry(k, s))

\* React runs the effects of a change before the next key, or the next answer
\* that could change activeId again.  Keys reach the shell while it is mounted;
\* no command is typed while an answer streams.
Rendered == user # None => active = seen
Keys == user # None /\ Rendered
Command == Keys /\ ~streaming

\* ------------------------------------------------------------ session store
\* The cursor keys of the session pane; they work while an answer streams.
SelectSession(s) ==
    /\ Keys /\ s \in list /\ active' = s
    /\ Of({"idle"}) # {}  \* bound of the model: room for the effect
    /\ UNCHANGED <<user, list, seen, chat, task, calm>>

\* The effect on activeId: another session is active, load it.
ActiveEffect(k) ==
    /\ user # None /\ active # seen /\ seen' = active
    /\ \/ active = None /\ UNCHANGED <<task, calm>>
       \/ /\ active # None /\ Start(k, "load", active)
          /\ calm' = (calm /\ ~Hurry(k, active))
    /\ UNCHANGED <<user, list, active, chat>>

\* /sessions.
Refresh(k) ==
    /\ Command /\ Start(k, "list", None)
    /\ UNCHANGED <<user, sessions, chat, calm>>

\* The list replaces the one there is; the active session stays if it is in it,
\* else the first one becomes active.  The list of a shell that has just been
\* mounted is followed by a load; a request that failed changes nothing.
Listed(k) ==
    /\ task[k].kind \in {"list", "boot"} /\ Rendered
    /\ \/ /\ list' \in SUBSET Mine(task[k].as)
          /\ active' \in IF active \in list' THEN {active}
                         ELSE IF list' = {} THEN {None} ELSE list'
       \/ UNCHANGED <<list, active>>
    /\ IF task[k].kind = "boot" /\ active' # None THEN ThenLoad(k, active')
       ELSE Finish(k) /\ UNCHANGED calm
    /\ UNCHANGED <<user, seen, chat>>

\* Ctrl-N, or /new.
CreateSession(k) ==
    /\ Keys /\ Start(k, "create", None)
    /\ UNCHANGED <<user, sessions, chat, calm>>

Created(k) ==
    /\ task[k].kind = "create" /\ Rendered
    /\ \/ \E s \in Mine(task[k].as) \ list :
             list' = list \cup {s} /\ active' = s /\ ThenLoad(k, s)
       \/ Finish(k) /\ UNCHANGED <<list, active, calm>>
    /\ UNCHANGED <<user, seen, chat>>

\* /switch selects and loads.
Switch(k, s) ==
    /\ Command /\ s \in list
    /\ active' = s /\ Start(k, "load", s) /\ calm' = (calm /\ ~Hurry(k, s))
    /\ UNCHANGED <<user, list, seen, chat>>

\* /model changes the active session and puts back what the server answers,
\* listed or not.
Pin(k) ==
    /\ Command /\ active # None /\ Start(k, "pin", active)
    /\ UNCHANGED <<user, sessions, chat, calm>>

Pinned(k) ==
    /\ task[k].kind = "pin"
    /\ list' \in {list, list \cup {task[k].sid}}
    /\ Finish(k)
    /\ UNCHANGED <<user, active, seen, chat, calm>>

\* /delete.
Delete(k) ==
    /\ Command /\ active # None /\ Start(k, "remove", active)
    /\ UNCHANGED <<user, sessions, chat, calm>>

\* chat-store's reset aborts the stream, whose end comes later.
Reset(t) ==
    /\ shown' = Empty /\ streaming' = FALSE /\ controller' = None
    /\ wiped' = (wiped \/ Streams # {})
    /\ task' = [k \in Task |-> IF k = controller THEN [t[k] EXCEPT !.cut = TRUE]
                               ELSE t[k]]

\* Whether the session was deleted or not, the active one is loaded; with none
\* left, the chat is reset.
Removed(k) ==
    /\ task[k].kind = "remove" /\ Rendered
    /\ \/ /\ list' = list \ {task[k].sid}
          /\ active' \in IF active # task[k].sid THEN {active}
                         ELSE IF list' = {} THEN {None} ELSE list'
       \/ UNCHANGED <<list, active>>
    /\ IF active' # None THEN ThenLoad(k, active') /\ UNCHANGED chat
       ELSE Reset([task EXCEPT ![k] = Idle]) /\ UNCHANGED calm
    /\ UNCHANGED <<user, seen>>

\* --------------------------------------------------------------- chat store
\* Variant: the rows of turns stay.
LoadedKeeps(k) ==
    /\ task[k].kind = "load"
    /\ \E s \in {task[k].sid, None} : shown' = [shown EXCEPT !.loaded = s]
    /\ Finish(k)
    /\ UNCHANGED <<user, sessions, streaming, controller, wiped, calm>>

\* loadSession: what it gets, nothing if it failed, replaces the rows there
\* are, whatever is active by now.
Loaded(k) ==
    /\ task[k].kind = "load"
    /\ \E s \in {task[k].sid, None} : shown' = [Empty EXCEPT !.loaded = s]
    /\ Finish(k)
    /\ UNCHANGED <<user, sessions, streaming, controller, wiped, calm>>

\* /clear.
ClearLocal ==
    /\ Command /\ active # None /\ shown' = Empty
    /\ UNCHANGED <<user, sessions, streaming, controller, wiped, task, calm>>

\* A message is sent from the composer, or the answer regenerated by Ctrl-R or
\* /regenerate, unless a turn streams: the placeholder is appended and the
\* stream opened.
Send(k) ==
    /\ Keys /\ active # None /\ ~streaming
    /\ Start(k, "stream", active)
    /\ shown' = [shown EXCEPT !.live = @ \cup {k}]
    /\ streaming' = TRUE /\ controller' = k
    /\ calm' = (calm /\ ~HurryRow)
    /\ UNCHANGED <<user, sessions, wiped>>

\* The server answers with a stream of events.  They go to the row, as long as
\* it is there.
Open(k) ==
    /\ task[k].kind = "stream" /\ ~task[k].open /\ ~task[k].cut
    /\ task' = [task EXCEPT ![k].open = TRUE]
    /\ UNCHANGED <<user, sessions, chat, calm>>

Over(k, real) ==
    IF k \notin shown.live THEN shown
    ELSE [shown EXCEPT !.live = @ \ {k},
                       !.own = @ \cup {[to |-> task[k].sid, real |-> real]}]

\* The done event gives the answer its real identifier.
Done(k) ==
    /\ task[k].kind = "stream" /\ task[k].open
    /\ k \in shown.live /\ shown' = Over(k, TRUE)
    /\ UNCHANGED <<user, sessions, streaming, controller, wiped, task, calm>>

\* Variant: the end of a stream whose row is gone leaves the flags alone.
SettleShown(k) ==
    /\ task[k].kind = "stream"
    /\ shown' = Over(k, FALSE)
    /\ IF k \in shown.live THEN streaming' = FALSE /\ controller' = None
       ELSE UNCHANGED <<streaming, controller>>
    /\ Finish(k)
    /\ UNCHANGED <<user, sessions, wiped, calm>>

\* The stream ends, fails or is aborted: consumeStream and handleStreamError
\* clear the flags, whichever stream they are about by now.
Settle(k) ==
    /\ task[k].kind = "stream"
    /\ shown' = Over(k, FALSE)
    /\ streaming' = FALSE /\ controller' = None
    /\ Finish(k)
    /\ UNCHANGED <<user, sessions, wiped, calm>>

\* Ctrl-C, or /stop.
Stop ==
    /\ Keys /\ streaming
    /\ task' = [k \in Task |-> IF k = controller THEN [task[k] EXCEPT !.cut = TRUE]
                               ELSE task[k]]
    /\ UNCHANGED <<user, sessions, chat, calm>>

\* /edit and /rmsg look for the last question and the last answer among the
\* rows, skipping temporary identifiers, which a turn's question keeps.
lastUserId == {shown.loaded} \ {None}
lastAssistantId == LET own == {r.to : r \in {r \in shown.own : r.real}}
                   IN  IF own # {} THEN own ELSE {shown.loaded} \ {None}

Change(k, kind, targets) ==
    /\ Command /\ active # None /\ task[k].kind = "idle"
    /\ \E s \in targets :
          task' = [task EXCEPT ![k] = [New(kind, active) EXCEPT !.hit = s]]
    /\ calm' = (calm /\ ~HurryRow)
    /\ UNCHANGED <<user, sessions, chat>>
Edit(k) == Change(k, "edit", lastUserId)
DeleteMessage(k) == Change(k, "rmsg", lastAssistantId)

\* Then the session that was active is loaded.
Changed(k) ==
    /\ task[k].kind \in {"edit", "rmsg"}
    /\ \/ ThenLoad(k, task[k].sid)
       \/ Finish(k) /\ UNCHANGED calm
    /\ UNCHANGED <<user, sessions, chat>>

\* --------------------------------------------------------- signing in and out
\* The shell is mounted: it asks for the list, and then loads a session.
Login(k, a) ==
    /\ user = None /\ user' = a /\ seen' = None
    /\ task[k].kind = "idle" /\ Of({"idle"}) # {k}
    /\ task' = [task EXCEPT ![k] = [Idle EXCEPT !.kind = "boot", !.as = a]]
    /\ UNCHANGED <<list, active, chat, calm>>

\* /logout waits for the server.
Logout(k) ==
    /\ Command /\ Of({"logout"}) = {} /\ Start(k, "logout", None)
    /\ UNCHANGED <<user, sessions, chat, calm>>

\* Then the stores are reset and the shell is unmounted, which cancels the load
\* that would have followed its list.
LoggedOut(k) ==
    /\ task[k].kind = "logout" /\ Rendered
    /\ user' = None /\ list' = {} /\ active' = None
    /\ Reset([j \in Task |-> IF j = k THEN Idle
                             ELSE IF task[j].kind = "boot"
                                  THEN [task[j] EXCEPT !.kind = "list"]
                             ELSE task[j]])
    /\ UNCHANGED <<seen, calm>>

Press(k) == \/ Refresh(k) \/ CreateSession(k) \/ Pin(k) \/ Delete(k) \/ Send(k)
            \/ Edit(k) \/ DeleteMessage(k) \/ Logout(k)
            \/ \E s \in Session : Switch(k, s)
            \/ \E a \in Account : Login(k, a)
Handle(k) == \/ Listed(k) \/ Created(k) \/ Pinned(k) \/ Removed(k) \/ Loaded(k)
             \/ Open(k) \/ Done(k) \/ Settle(k) \/ Changed(k) \/ LoggedOut(k)

Next ==
    \/ \E k \in Task : Press(k) \/ Handle(k) \/ ActiveEffect(k)
    \/ \E s \in Session : SelectSession(s)
    \/ ClearLocal \/ Stop

Spec == Init /\ [][Next]_vars

-----------------------------------------------------------------------------
(***************************************************************************)
(* Properties                                                              *)
(***************************************************************************)

\* The types; the active session is listed, whatever answer comes last.
TypeOK ==
    /\ user \in Account \cup {None}
    /\ list \subseteq Session /\ active \in list \cup {None}
    /\ seen \in Session \cup {None}
    /\ shown \in [loaded: Session \cup {None},
                  own: SUBSET [to: Session, real: BOOLEAN], live: SUBSET Task]
    /\ streaming \in BOOLEAN /\ controller \in Task \cup {None}
    /\ task \in [Task -> [kind: {"idle", "list", "boot", "create", "load", "pin",
                                 "remove", "stream", "edit", "rmsg", "logout"},
                          sid: Session \cup {None}, hit: Session \cup {None},
                          as: Account \cup {None}, open: BOOLEAN, cut: BOOLEAN]]
    /\ wiped \in BOOLEAN /\ calm \in BOOLEAN

\* While the screen says that an answer streams there is one, and Ctrl-C
\* reaches it.  Unless the chat was reset under a running stream, there is no
\* other, and none runs unseen.
StopReachesStream ==
    /\ streaming => controller \in Streams
    /\ ~wiped => Streams \subseteq IF streaming THEN {controller} ELSE {}

\* A user who lets rows arrive before going on sees the rows of the active
\* session and no other, through any number of lists, deletions, failures and
\* accounts, and edits and deletes messages of that session only.
CalmShowsActive ==
    calm => /\ Keys /\ active # None /\ Loads = {} =>
                  /\ shown.loaded \in {active, None}
                  /\ \A r \in shown.own : r.to = active
                  /\ \A k \in shown.live : task[k].sid = active
            /\ \A k \in Of({"edit", "rmsg"}) : task[k].hit = task[k].sid

\* Claims of the source that do not hold ---------------------------------

\* The help of /edit: "Edit your last user message in the active session".
\* The question of a turn sent since the rows were loaded is the last one.
EditsLastQuestion ==
    [][\A k \in Task : Edit(k) => shown.own = {}]_vars
=============================================================================

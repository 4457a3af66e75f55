--------------------------- MODULE TerminalProofs ---------------------------
(***************************************************************************)
(* What the terminal client shows, and whether its keys reach it, for any  *)
(* number of accounts, sessions and requests under way.                    *)
(*                                                                         *)
(* A stream is reached because the flag, the controller and the request    *)
(* are set and cleared together.  That the rows are those of the active    *)
(* session is not inductive: it speaks of a moment without loads, and what *)
(* the rows become is decided by loads that began earlier.  CalmRows says  *)
(* what a calm user may rely on meanwhile: every load under way is of the  *)
(* active session, and without one the rows are.                           *)
(***************************************************************************)
EXTENDS Terminal, TLAPS

\* Something is active and the effects of the last change have run.
Settled == user # None /\ active = seen /\ active # None

\* Rows that are there belong to session s.
RowsOf(s) ==
    /\ shown.loaded \in {s, None}
    /\ \A r \in shown.own : r.to = s
    /\ \A k \in shown.live : task[k].sid = s

\* A placeholder is there only while its stream runs.
LiveStreams == shown.live \subseteq Streams

CalmRows ==
    calm => /\ Settled => /\ \A k \in Loads : task[k].sid = active
                          /\ Of({"load"}) = {} => RowsOf(active)
            /\ \A k \in Of({"edit", "rmsg"}) : task[k].hit = task[k].sid

\* A model is pinned to a session, a turn and a change are of one.
HasSession == \A k \in Of({"pin", "stream", "edit", "rmsg"}) : task[k].sid \in Session

IInv == TypeOK /\ HasSession /\ StopReachesStream /\ LiveStreams /\ CalmRows

-----------------------------------------------------------------------------
(***************************************************************************)
(* What a step does to the requests under way                              *)
(***************************************************************************)

Kind == {"idle", "list", "boot", "create", "load", "pin", "remove", "stream",
         "edit", "rmsg", "logout"}

Request == [kind: Kind, sid: Session \cup {None}, hit: Session \cup {None},
            as: Account \cup {None}, open: BOOLEAN, cut: BOOLEAN]

\* A new request is of the signed-in account.
LEMMA NewTyped ==
    ASSUME TypeOK, NEW kind \in Kind, NEW s \in Session \cup {None}
    PROVE  /\ New(kind, s) \in Request /\ Idle \in Request
           /\ New(kind, s).kind = kind /\ New(kind, s).sid = s
           /\ Idle.kind = "idle"
BY DEF TypeOK, New, Idle, Request, Kind

\* A step that replaces one request leaves the others.
LEMMA OneRequest ==
    ASSUME IInv, NEW k \in Task, NEW r \in Request, task' = [task EXCEPT ![k] = r]
    PROVE  /\ task' \in [Task -> Request] /\ task'[k] = r
           /\ \A j \in Task \ {k} : task'[j] = task[j]
           /\ (r.kind \in {"pin", "stream", "edit", "rmsg"} => r.sid \in Session) => HasSession'
<1>1. /\ task' \in [Task -> Request] /\ task'[k] = r
      /\ \A j \in Task \ {k} : task'[j] = task[j]
  BY DEF IInv, TypeOK, Request, Kind
<1>2. (r.kind \in {"pin", "stream", "edit", "rmsg"} => r.sid \in Session) => HasSession'
  BY <1>1 DEF IInv, HasSession, Of
<1> QED
  BY <1>1, <1>2

\* A request that is no stream may come and go without any effect on the stream
\* that is shown.
LEMMA StreamsStay ==
    ASSUME IInv, NEW k \in Task, NEW r \in Request, task' = [task EXCEPT ![k] = r],
           task[k].kind # "stream", r.kind # "stream",
           UNCHANGED <<streaming, controller, wiped>>,
           shown'.live \in {shown.live, {}}
    PROVE  StopReachesStream' /\ LiveStreams'
<1>1. task'[k] = r /\ \A j \in Task \ {k} : task'[j] = task[j]
  BY OneRequest
<1>2. Streams' = Streams
  BY <1>1 DEF Streams, Of
<1> QED
  BY <1>2 DEF IInv, StopReachesStream, LiveStreams

\* Rows stay what they are while nothing that has to do with them changes.
LEMMA RowsStay ==
    ASSUME IInv, NEW k \in Task, NEW r \in Request, task' = [task EXCEPT ![k] = r],
           task[k].kind \notin {"load", "stream"}, r.kind \notin {"load", "edit", "rmsg"},
           calm' = calm, shown' = shown, Settled' => Settled /\ active' = active
    PROVE  CalmRows'
<1>1. task'[k] = r /\ \A j \in Task \ {k} : task'[j] = task[j]
  BY OneRequest
<1>2. Of({"load"})' = Of({"load"}) /\ Loads' \subseteq Loads \ {k}
  BY <1>1 DEF Of, Loads
<1>3. \A j \in Of({"edit", "rmsg"})' : j \in Of({"edit", "rmsg"}) /\ task'[j] = task[j]
  BY <1>1 DEF Of
<1>4. RowsOf(active) => \A j \in shown.live : j # k /\ task'[j] = task[j]
  BY <1>1 DEF IInv, LiveStreams, Streams, Of
<1>5. Settled' /\ calm => Settled /\ active' = active
  OBVIOUS
<1>6. \A j \in Loads' : j \in Loads /\ task'[j] = task[j]
  BY <1>1, <1>2 DEF Of, Loads
<1>7. Settled' /\ calm' /\ Of({"load"})' = {} => RowsOf(active)'
  BY <1>2, <1>4, <1>5 DEF IInv, CalmRows, RowsOf
<1> QED
  BY <1>3, <1>5, <1>6, <1>7 DEF IInv, CalmRows

\* A load that begins is the first, or of the session of all the others, or its
\* user is no longer calm.
LEMMA LoadBegins ==
    ASSUME IInv, NEW k \in Task, NEW s \in Session, ThenLoad(k, s),
           calm /\ Settled' => active' = s
    PROVE  CalmRows'
<1>1. New("load", s) \in Request /\ New("load", s).kind = "load" /\ New("load", s).sid = s
  BY NewTyped DEF IInv, Kind
<1>2. task'[k] = New("load", s) /\ \A j \in Task \ {k} : task'[j] = task[j]
  BY <1>1, OneRequest DEF ThenLoad
<1>3. k \in Of({"load"})'
  BY <1>1, <1>2 DEF Of
<1>4. calm' => calm /\ \A j \in Loads \ {k} : task[j].sid = s
  BY DEF ThenLoad, Hurry
<1>5. \A j \in Loads' : j = k \/ (j \in Loads \ {k} /\ task'[j] = task[j])
  BY <1>2 DEF Loads, Of
<1>6. calm' => \A j \in Loads' : task'[j].sid = s
  BY <1>1, <1>2, <1>4, <1>5
<1>7. \A j \in Of({"edit", "rmsg"})' : j \in Of({"edit", "rmsg"}) /\ task'[j] = task[j]
  BY <1>1, <1>2 DEF Of
<1> QED
  BY <1>3, <1>4, <1>6, <1>7 DEF IInv, CalmRows

\* With no session active, nothing is promised of the rows.
LEMMA NothingActive ==
    ASSUME IInv, calm' => calm, ~Settled',
           \A j \in Task : task'[j].kind \in {"edit", "rmsg"} =>
                /\ task[j].kind = task'[j].kind
                /\ task'[j].sid = task[j].sid /\ task'[j].hit = task[j].hit
    PROVE  CalmRows'
BY DEF IInv, CalmRows, Of

-----------------------------------------------------------------------------
(***************************************************************************)
(* The shapes of a step                                                    *)
(***************************************************************************)

\* A request that has to do with no rows is made.
LEMMA QuietBegin ==
    ASSUME IInv, NEW k \in Task, NEW s \in Session \cup {None},
           NEW kind \in {"list", "create", "pin", "remove", "logout"},
           kind = "pin" => s \in Session,
           Start(k, kind, s), UNCHANGED <<user, sessions, chat, calm>>
    PROVE  IInv'
<1>1. New(kind, s) \in Request /\ New(kind, s).kind = kind /\ New(kind, s).sid = s
  BY NewTyped DEF IInv, Kind
<1>2. task' = [task EXCEPT ![k] = New(kind, s)] /\ task[k].kind = "idle"
  BY DEF Start
<1>3. HasSession'
  <2>1. New(kind, s).kind \in {"pin", "stream", "edit", "rmsg"} => New(kind, s).sid \in Session
    BY <1>1
  <2> QED
    BY <1>1, <1>2, <2>1, OneRequest
<1>4. TypeOK'
  BY <1>1, <1>2, OneRequest DEF IInv, TypeOK, Request, Kind, sessions, chat
<1>5. StopReachesStream' /\ LiveStreams'
  BY <1>1, <1>2, StreamsStay DEF chat
<1>6. CalmRows'
  BY <1>1, <1>2, RowsStay DEF chat, sessions, Settled
<1> QED
  BY <1>3, <1>4, <1>5, <1>6 DEF IInv

\* A request ends that was no load and no stream, whatever its answer makes of
\* the list.
LEMMA QuietEnd ==
    ASSUME IInv, NEW k \in Task, task[k].kind \notin {"load", "stream"}, Finish(k),
           list' \subseteq Session, active' \in list' \cup {None},
           active' = active \/ Rendered, UNCHANGED <<user, seen, chat, calm>>
    PROVE  IInv'
<1>1. Idle \in Request /\ Idle.kind = "idle"
  BY DEF Idle, Request, Kind
<1>2. task' = [task EXCEPT ![k] = Idle]
  BY DEF Finish
<1>3. TypeOK' /\ HasSession'
  BY <1>1, <1>2, OneRequest DEF IInv, TypeOK, Request, Kind, chat
<1>4. StopReachesStream' /\ LiveStreams'
  BY <1>1, <1>2, StreamsStay DEF chat
<1>5. Settled' => Settled /\ active' = active
  BY DEF Settled, Rendered
<1>6. CalmRows'
  BY <1>1, <1>2, <1>5, RowsStay DEF chat
<1> QED
  BY <1>3, <1>4, <1>6 DEF IInv

\* A request that was no stream ends in a load, or there was none.
LEMMA ThenLoads ==
    ASSUME IInv, NEW k \in Task, task[k].kind # "stream", NEW s \in Session,
           ThenLoad(k, s), list' \subseteq Session, active' \in list' \cup {None},
           user' = user, seen' \in Session \cup {None}, UNCHANGED chat,
           calm /\ Settled' => active' = s
    PROVE  IInv'
<1>1. New("load", s) \in Request /\ New("load", s).kind = "load"
  BY NewTyped DEF IInv, Kind
<1>2. task' = [task EXCEPT ![k] = New("load", s)]
  BY DEF ThenLoad
<1>3. calm' \in BOOLEAN
  BY DEF ThenLoad, IInv, TypeOK
<1>4. TypeOK' /\ HasSession'
  BY <1>1, <1>2, <1>3, OneRequest DEF IInv, TypeOK, Request, Kind, chat
<1>5. StopReachesStream' /\ LiveStreams'
  BY <1>1, <1>2, StreamsStay DEF chat
<1>6. CalmRows'
  BY LoadBegins
<1> QED
  BY <1>4, <1>5, <1>6 DEF IInv

\* A reset leaves nothing shown, and notes a stream that it cuts off.
LEMMA ResetStep ==
    ASSUME IInv, NEW t \in [Task -> Request], Reset(t), calm' = calm, ~Settled',
           \A j \in Task : t[j].kind \in {"edit", "rmsg", "stream", "pin"} => t[j] = task[j],
           user' \in Account \cup {None}, seen' = seen,
           list' \subseteq Session, active' \in list' \cup {None}
    PROVE  IInv'
<1>1. /\ task' \in [Task -> Request]
      /\ \A j \in Task : /\ task'[j].kind = t[j].kind
                         /\ task'[j].sid = t[j].sid /\ task'[j].hit = t[j].hit
  BY DEF Reset, Request
<1>2. Empty \in [loaded: Session \cup {None},
                 own: SUBSET [to: Session, real: BOOLEAN], live: SUBSET Task]
  BY DEF Empty
<1>3. shown' = Empty /\ streaming' = FALSE /\ controller' = None /\ wiped' \in BOOLEAN
  BY DEF Reset, IInv, TypeOK
<1>4. TypeOK' /\ HasSession'
  BY <1>1, <1>2, <1>3 DEF IInv, TypeOK, Request, Kind, HasSession, Of
<1>5. ~wiped' => Streams' = {}
  <2>1. ~wiped' => Streams = {}
    BY DEF Reset
  <2>2. Streams' \subseteq Streams
    BY <1>1 DEF Streams, Of
  <2> QED
    BY <2>1, <2>2
<1>6. StopReachesStream' /\ LiveStreams'
  BY <1>3, <1>5 DEF StopReachesStream, LiveStreams, Empty
<1>7. CalmRows'
  <2>1. \A j \in Task : task'[j].kind \in {"edit", "rmsg"} =>
                /\ task[j].kind = task'[j].kind
                /\ task'[j].sid = task[j].sid /\ task'[j].hit = task[j].hit
    BY <1>1
  <2> QED
    BY <2>1, NothingActive
<1> QED
  BY <1>4, <1>6, <1>7 DEF IInv

\* Requests stay what they are, and all else is the same.
LEMMA SameRequests ==
    ASSUME IInv, task' \in [Task -> Request],
           \A j \in Task : /\ task'[j].kind = task[j].kind
                         /\ task'[j].sid = task[j].sid /\ task'[j].hit = task[j].hit,
           UNCHANGED <<user, list, active, seen, shown, streaming, controller, wiped, calm>>
    PROVE  IInv'
<1>1. TypeOK' /\ HasSession'
  BY DEF IInv, TypeOK, HasSession, Of, Request, Kind
<1>2. StopReachesStream' /\ LiveStreams'
  BY DEF IInv, StopReachesStream, LiveStreams, Streams, Of
<1>3. CalmRows'
  BY DEF IInv, TypeOK, CalmRows, Settled, RowsOf, Loads, Of
<1> QED
  BY <1>1, <1>2, <1>3 DEF IInv

-----------------------------------------------------------------------------
(***************************************************************************)
(* The session store                                                       *)
(***************************************************************************)

LEMMA SelectSessionKeeps ==
    ASSUME IInv, NEW s \in Session, SelectSession(s)
    PROVE  IInv'
<1>1. TypeOK' /\ HasSession'
  BY DEF SelectSession, IInv, TypeOK, chat, HasSession, Of
<1>2. StopReachesStream' /\ LiveStreams'
  BY DEF SelectSession, IInv, chat, StopReachesStream, LiveStreams, Streams, Of
<1>3. Settled' => Settled /\ active' = active
  BY DEF SelectSession, Settled, Keys, Rendered
<1>4. CalmRows'
  BY <1>3 DEF SelectSession, IInv, chat, CalmRows, Loads, Of, RowsOf
<1> QED
  BY <1>1, <1>2, <1>4 DEF IInv

LEMMA ActiveEffectKeeps ==
    ASSUME IInv, NEW k \in Task, ActiveEffect(k)
    PROVE  IInv'
<1>1. CASE active = None /\ UNCHANGED <<task, calm>>
  <2>1. TypeOK' /\ HasSession'
    BY <1>1 DEF ActiveEffect, IInv, TypeOK, chat, HasSession, Of
  <2>2. StopReachesStream' /\ LiveStreams'
    BY <1>1 DEF ActiveEffect, IInv, chat, StopReachesStream, LiveStreams, Streams, Of
  <2>3. ~Settled'
    BY <1>1 DEF ActiveEffect, Settled
  <2>4. CalmRows'
    BY <1>1, <2>3 DEF IInv, CalmRows, Of
  <2> QED
    BY <2>1, <2>2, <2>4 DEF IInv
<1>2. CASE /\ active # None /\ Start(k, "load", active)
           /\ calm' = (calm /\ ~Hurry(k, active))
  <2>1. active \in Session
    BY <1>2 DEF IInv, TypeOK
  <2>2. ThenLoad(k, active) /\ task[k].kind = "idle"
    BY <1>2 DEF ThenLoad, Start
  <2> QED
    BY <2>1, <2>2, ThenLoads DEF ActiveEffect, IInv, TypeOK
<1> QED
  BY <1>1, <1>2 DEF ActiveEffect

LEMMA ListedKeeps ==
    ASSUME IInv, NEW k \in Task, Listed(k)
    PROVE  IInv'
<1>1. list' \subseteq Session /\ active' \in list' \cup {None}
  BY DEF Listed, Mine, IInv, TypeOK
<1>2. CASE task[k].kind = "boot" /\ active' # None
  <2>1. ThenLoad(k, active') /\ active' \in Session
    BY <1>1, <1>2 DEF Listed
  <2> QED
    BY <1>1, <1>2, <2>1, ThenLoads DEF Listed, IInv, TypeOK
<1>3. CASE ~(task[k].kind = "boot" /\ active' # None)
  BY <1>1, <1>3, QuietEnd DEF Listed
<1> QED
  BY <1>2, <1>3

LEMMA CreatedKeeps ==
    ASSUME IInv, NEW k \in Task, Created(k)
    PROVE  IInv'
<1>1. CASE \E s \in Mine(task[k].as) \ list :
               list' = list \cup {s} /\ active' = s /\ ThenLoad(k, s)
  <2>1. PICK s \in Session : list' = list \cup {s} /\ active' = s /\ ThenLoad(k, s)
    BY <1>1 DEF Mine
  <2>2. list' \subseteq Session /\ active' \in list' \cup {None}
    BY <2>1 DEF IInv, TypeOK
  <2> QED
    BY <2>1, <2>2, ThenLoads DEF Created, IInv, TypeOK
<1>2. CASE Finish(k) /\ UNCHANGED <<list, active, calm>>
  BY <1>2, QuietEnd DEF Created, IInv, TypeOK
<1> QED
  BY <1>1, <1>2 DEF Created

LEMMA SwitchKeeps ==
    ASSUME IInv, NEW k \in Task, NEW s \in Session, Switch(k, s)
    PROVE  IInv'
<1>1. ThenLoad(k, s) /\ task[k].kind = "idle"
  BY DEF Switch, Start, ThenLoad
<1> QED
  BY <1>1, ThenLoads DEF Switch, IInv, TypeOK

LEMMA PinnedKeeps ==
    ASSUME IInv, NEW k \in Task, Pinned(k)
    PROVE  IInv'
<1>1. task[k].sid \in Session
  BY DEF Pinned, IInv, HasSession, Of
<1> QED
  BY <1>1, QuietEnd DEF Pinned, IInv, TypeOK

LEMMA RemovedKeeps ==
    ASSUME IInv, NEW k \in Task, Removed(k)
    PROVE  IInv'
<1>1. list' \subseteq Session /\ active' \in list' \cup {None}
  BY DEF Removed, IInv, TypeOK
<1>2. CASE active' # None
  <2>1. ThenLoad(k, active') /\ active' \in Session /\ UNCHANGED chat
    BY <1>1, <1>2 DEF Removed
  <2> QED
    BY <1>1, <2>1, ThenLoads DEF Removed, IInv, TypeOK
<1>3. CASE active' = None
  <2> DEFINE t == [task EXCEPT ![k] = Idle]
  <2>1. Idle \in Request /\ Idle.kind = "idle"
    BY DEF Idle, Request, Kind
  <2>2. t \in [Task -> Request]
    BY <2>1 DEF IInv, TypeOK, Request, Kind
  <2>3. \A j \in Task : t[j].kind \in {"edit", "rmsg", "stream", "pin"} => t[j] = task[j]
    BY <2>1 DEF IInv, TypeOK
  <2>4. ~Settled'
    BY <1>3 DEF Settled
  <2>5. Reset(t) /\ calm' = calm /\ user' = user /\ seen' = seen
    BY <1>3 DEF Removed
  <2> QED
    BY <1>1, <2>2, <2>3, <2>4, <2>5, ResetStep DEF IInv, TypeOK
<1> QED
  BY <1>2, <1>3

-----------------------------------------------------------------------------
(***************************************************************************)
(* The chat store                                                          *)
(***************************************************************************)

\* What is loaded replaces the rows, placeholders included.
LEMMA LoadedReplaces ==
    ASSUME IInv, NEW k \in Task, Loaded(k)
    PROVE  IInv'
<1>1. Idle \in Request /\ Idle.kind = "idle" /\ task' = [task EXCEPT ![k] = Idle]
  BY DEF Idle, Request, Kind, Loaded, Finish
<1>2. task'[k] = Idle /\ \A j \in Task \ {k} : task'[j] = task[j]
  BY <1>1, OneRequest
<1>3. PICK s \in {task[k].sid, None} : shown' = [Empty EXCEPT !.loaded = s]
  BY DEF Loaded
<1>4. task[k].kind = "load" /\ task[k].sid \in Session \cup {None}
  BY DEF Loaded, IInv, TypeOK
<1>5. shown'.live = {} /\ shown'.own = {} /\ shown'.loaded = s
  BY <1>3 DEF Empty
<1>6. HasSession'
  BY <1>1, OneRequest
<1>7. TypeOK'
  <2>1. shown' \in [loaded: Session \cup {None},
                    own: SUBSET [to: Session, real: BOOLEAN], live: SUBSET Task]
    BY <1>3, <1>4 DEF Empty
  <2> QED
    BY <1>1, <2>1, OneRequest DEF Loaded, IInv, TypeOK, Request, Kind, sessions
<1>8. StopReachesStream' /\ LiveStreams'
  BY <1>1, <1>4, <1>5, StreamsStay DEF Loaded
<1>9. CalmRows'
  <2>1. Settled' /\ calm' => /\ Settled /\ calm /\ active' = active /\ task[k].sid = active
    BY <1>4 DEF Loaded, Settled, sessions, IInv, CalmRows, Loads, Of
  <2>2. Settled' /\ calm' => RowsOf(active)'
    BY <1>5, <2>1 DEF RowsOf
  <2>3. Settled' /\ calm' => \A j \in Loads' : task'[j].sid = active'
    BY <1>1, <1>2, <2>1 DEF IInv, CalmRows, Loads, Of
  <2>4. calm' => \A j \in Of({"edit", "rmsg"})' : task'[j].hit = task'[j].sid
    BY <1>1, <1>2 DEF Loaded, IInv, CalmRows, Of
  <2> QED
    BY <2>2, <2>3, <2>4 DEF CalmRows
<1> QED
  BY <1>6, <1>7, <1>8, <1>9 DEF IInv

LEMMA ClearLocalKeeps ==
    ASSUME IInv, ClearLocal
    PROVE  IInv'
<1>1. shown' = Empty /\ shown'.live = {} /\ shown'.own = {} /\ shown'.loaded = None
  BY DEF ClearLocal, Empty
<1>2. TypeOK' /\ HasSession'
  BY <1>1 DEF ClearLocal, IInv, TypeOK, sessions, Empty, HasSession, Of
<1>3. StopReachesStream' /\ LiveStreams'
  BY <1>1 DEF ClearLocal, IInv, StopReachesStream, LiveStreams, Streams, Of
<1>4. CalmRows'
  BY <1>1 DEF ClearLocal, IInv, sessions, CalmRows, Settled, RowsOf, Loads, Of
<1> QED
  BY <1>2, <1>3, <1>4 DEF IInv

\* The placeholder is of the active session, as the rows are.
LEMMA SendKeeps ==
    ASSUME IInv, NEW k \in Task, Send(k)
    PROVE  IInv'
<1> DEFINE r == New("stream", active)
<1>1. active \in Session /\ ~streaming
  BY DEF Send, IInv, TypeOK
<1>2. r \in Request /\ r.kind = "stream" /\ r.sid = active
  BY <1>1, NewTyped DEF IInv, Kind
<1>3. task' = [task EXCEPT ![k] = r] /\ task[k].kind = "idle"
  BY DEF Send, Start
<1> HIDE DEF r
<1>4. task'[k] = r /\ \A j \in Task \ {k} : task'[j] = task[j]
  BY <1>2, <1>3, OneRequest
<1>5. /\ shown' = [shown EXCEPT !.live = @ \cup {k}] /\ streaming' = TRUE
      /\ controller' = k /\ wiped' = wiped /\ calm' = (calm /\ ~HurryRow)
      /\ UNCHANGED <<user, list, active, seen>>
  BY DEF Send, sessions
<1>6. /\ shown'.live = shown.live \cup {k}
      /\ shown'.own = shown.own /\ shown'.loaded = shown.loaded
  BY <1>5 DEF IInv, TypeOK
<1>7. HasSession'
  BY <1>1, <1>2, <1>3, OneRequest
<1>8. TypeOK'
  BY <1>2, <1>3, <1>5, OneRequest DEF IInv, TypeOK, Request, Kind
<1>9. Streams' = Streams \cup {k}
  BY <1>2, <1>4 DEF Streams, Of
<1>10. StopReachesStream' /\ LiveStreams'
  BY <1>1, <1>5, <1>6, <1>9 DEF IInv, StopReachesStream, LiveStreams
<1>11. CalmRows'
  <2>1. calm' => calm /\ Loads = {}
    BY <1>5 DEF HurryRow
  <2>2. Loads' = Loads /\ Of({"load"})' = Of({"load"})
    BY <1>2, <1>3, <1>4 DEF Loads, Of
  <2>3. Of({"edit", "rmsg"}) \subseteq Loads /\ Of({"load"}) \subseteq Loads
        /\ Of({"edit", "rmsg"})' \subseteq Loads'
    BY DEF Of, Loads
  <2>4. calm' /\ Settled' => RowsOf(active)
    BY <1>5, <2>1, <2>3 DEF IInv, CalmRows, Settled
  <2>5. \A j \in shown.live : j # k
    BY <1>3 DEF IInv, LiveStreams, Streams, Of
  <2>6. calm' /\ Settled' => RowsOf(active)'
    BY <1>2, <1>4, <1>5, <1>6, <2>4, <2>5 DEF RowsOf, IInv, TypeOK
  <2> QED
    BY <2>1, <2>2, <2>3, <2>6 DEF CalmRows
<1> QED
  BY <1>7, <1>8, <1>10, <1>11 DEF IInv

\* Events of a stream: its requests stay streams of the same sessions.
LEMMA OpenKeeps ==
    ASSUME IInv, NEW k \in Task, Open(k)
    PROVE  IInv'
<1>1. /\ task' \in [Task -> Request]
      /\ \A j \in Task : /\ task'[j].kind = task[j].kind
                         /\ task'[j].sid = task[j].sid /\ task'[j].hit = task[j].hit
  BY DEF Open, IInv, TypeOK, Request, Kind
<1>2. UNCHANGED <<user, list, active, seen, shown, streaming, controller, wiped, calm>>
  BY DEF Open, sessions, chat
<1> QED
  BY <1>1, <1>2, SameRequests

\* A row that is over stays one of its session.
LEMMA OverRows ==
    ASSUME IInv, NEW k \in Streams, NEW real \in BOOLEAN, task[k].sid \in Session
    PROVE  /\ Over(k, real) \in [loaded: Session \cup {None},
                    own: SUBSET [to: Session, real: BOOLEAN], live: SUBSET Task]
           /\ Over(k, real).live = shown.live \ {k}
           /\ Over(k, real).loaded = shown.loaded
           /\ \A r \in Over(k, real).own :
                 r \in shown.own \/ (k \in shown.live /\ r.to = task[k].sid)
<1> DEFINE row == [to |-> task[k].sid, real |-> real]
<1>1. row \in [to: Session, real: BOOLEAN] /\ row.to = task[k].sid
  OBVIOUS
<1>2. CASE k \notin shown.live
  <2>1. Over(k, real) = shown
    BY <1>2 DEF Over
  <2>2. shown.live \ {k} = shown.live
    BY <1>2
  <2>3. Over(k, real) \in [loaded: Session \cup {None},
                    own: SUBSET [to: Session, real: BOOLEAN], live: SUBSET Task]
    BY <2>1 DEF IInv, TypeOK
  <2>4. Over(k, real).live = shown.live \ {k} /\ Over(k, real).loaded = shown.loaded
    BY <2>1, <2>2
  <2> QED
    BY <2>1, <2>3, <2>4
<1>3. CASE k \in shown.live
  <2>1. Over(k, real) = [shown EXCEPT !.live = @ \ {k}, !.own = @ \cup {row}]
    BY <1>3 DEF Over
  <2> HIDE DEF row
  <2>2. /\ Over(k, real).live = shown.live \ {k} /\ Over(k, real).loaded = shown.loaded
        /\ Over(k, real).own = shown.own \cup {row}
    BY <2>1 DEF IInv, TypeOK
  <2>3. Over(k, real) \in [loaded: Session \cup {None},
                    own: SUBSET [to: Session, real: BOOLEAN], live: SUBSET Task]
    <3>1. /\ shown \in [loaded: Session \cup {None},
                        own: SUBSET [to: Session, real: BOOLEAN], live: SUBSET Task]
      BY DEF IInv, TypeOK
    <3>2. /\ shown.own \cup {row} \in SUBSET [to: Session, real: BOOLEAN]
          /\ shown.live \ {k} \in SUBSET Task
      BY <1>1, <3>1
    <3> QED
      BY <2>1, <3>1, <3>2
  <2> QED
    BY <1>1, <1>3, <2>2, <2>3
<1> QED
  BY <1>2, <1>3

\* A row that ends while rows may be relied upon changes nothing of that.
LEMMA OverKeeps ==
    ASSUME IInv, NEW k \in Streams, NEW real \in BOOLEAN, task[k].sid \in Session,
           shown' = Over(k, real), \A j \in Task \ {k} : task'[j] = task[j],
           task'[k].kind \in {"idle", "stream"},
           UNCHANGED <<user, active, seen, calm>>
    PROVE  CalmRows'
<1>1. /\ shown'.live = shown.live \ {k} /\ shown'.loaded = shown.loaded
      /\ \A r \in shown'.own : r \in shown.own \/ (k \in shown.live /\ r.to = task[k].sid)
  BY OverRows
<1>2. RowsOf(active) => RowsOf(active)'
  BY <1>1 DEF RowsOf, Streams, Of, IInv, LiveStreams
<1>3. task[k].kind = "stream" /\ k \in Task
  BY DEF Streams, Of
<1>4. Loads' = Loads /\ Of({"load"})' = Of({"load"})
  BY <1>3 DEF Loads, Of
<1>5. \A j \in Loads : task'[j] = task[j]
  BY <1>3 DEF Loads, Of
<1>6. Of({"edit", "rmsg"})' = Of({"edit", "rmsg"}) /\ Of({"edit", "rmsg"}) \subseteq Loads
  BY <1>3 DEF Loads, Of
<1> QED
  BY <1>2, <1>4, <1>5, <1>6 DEF IInv, CalmRows, Settled

LEMMA DoneKeeps ==
    ASSUME IInv, NEW k \in Task, Done(k)
    PROVE  IInv'
<1>1. k \in Streams /\ task' = task /\ task[k].sid \in Session /\ shown' = Over(k, TRUE)
  BY DEF Done, Streams, Of, IInv, HasSession
<1>2. UNCHANGED <<user, list, active, seen, streaming, controller, wiped, calm>>
  BY DEF Done, sessions
<1>3. /\ shown' \in [loaded: Session \cup {None},
                    own: SUBSET [to: Session, real: BOOLEAN], live: SUBSET Task]
      /\ shown'.live \subseteq shown.live
  BY <1>1, OverRows
<1>4. TypeOK' /\ HasSession'
  BY <1>1, <1>2, <1>3 DEF IInv, TypeOK, HasSession, Of
<1>5. StopReachesStream' /\ LiveStreams'
  BY <1>1, <1>2, <1>3 DEF IInv, StopReachesStream, LiveStreams, Streams, Of
<1>6. CalmRows'
  <2>1. task'[k].kind \in {"idle", "stream"} /\ k \in Streams
    BY <1>1 DEF Streams, Of
  <2> QED
    BY <1>1, <1>2, <2>1, OverKeeps
<1> QED
  BY <1>4, <1>5, <1>6 DEF IInv

\* The flags are cleared whichever stream ends; unless a reset met one, there is
\* but the one that is shown.
LEMMA SettleKeeps ==
    ASSUME IInv, NEW k \in Task, Settle(k)
    PROVE  IInv'
<1>1. k \in Streams /\ task[k].sid \in Session /\ shown' = Over(k, FALSE)
  BY DEF Settle, Streams, Of, IInv, HasSession
<1>2. Idle \in Request /\ Idle.kind = "idle" /\ task' = [task EXCEPT ![k] = Idle]
  BY DEF Idle, Request, Kind, Settle, Finish
<1>3. /\ UNCHANGED <<user, list, active, seen, wiped, calm>>
      /\ streaming' = FALSE /\ controller' = None
  BY DEF Settle, sessions
<1>4. task'[k] = Idle /\ \A j \in Task \ {k} : task'[j] = task[j]
  BY <1>2, OneRequest
<1>5. /\ shown' \in [loaded: Session \cup {None},
                    own: SUBSET [to: Session, real: BOOLEAN], live: SUBSET Task]
      /\ shown'.live = shown.live \ {k}
  BY <1>1, OverRows
<1>6. HasSession'
  BY <1>2, OneRequest
<1>7. TypeOK'
  BY <1>2, <1>3, <1>5, OneRequest DEF IInv, TypeOK, Request, Kind
<1>8. Streams' = Streams \ {k}
  BY <1>2, <1>4 DEF Streams, Of
<1>9. StopReachesStream' /\ LiveStreams'
  BY <1>1, <1>3, <1>5, <1>8 DEF IInv, StopReachesStream, LiveStreams
<1>10. CalmRows'
  BY <1>1, <1>2, <1>3, <1>4, OverKeeps
<1> QED
  BY <1>6, <1>7, <1>9, <1>10 DEF IInv

LEMMA StopKeeps ==
    ASSUME IInv, Stop
    PROVE  IInv'
<1>1. /\ task' \in [Task -> Request]
      /\ \A j \in Task : /\ task'[j].kind = task[j].kind
                         /\ task'[j].sid = task[j].sid /\ task'[j].hit = task[j].hit
  <2>1. task \in [Task -> Request]
    BY DEF IInv, TypeOK, Request, Kind
  <2>2. \A j \in Task : task'[j] = IF j = controller THEN [task[j] EXCEPT !.cut = TRUE]
                                 ELSE task[j]
    BY DEF Stop
  <2>3. \A j \in Task : [task[j] EXCEPT !.cut = TRUE] \in Request
    BY <2>1 DEF Request
  <2>4. task' \in [Task -> Request]
    BY <2>1, <2>3 DEF Stop
  <2> QED
    BY <2>1, <2>2, <2>4 DEF Request
<1>2. UNCHANGED <<user, list, active, seen, shown, streaming, controller, wiped, calm>>
  BY DEF Stop, sessions, chat
<1> QED
  BY <1>1, <1>2, SameRequests

\* What is edited or deleted is a row of the active session, if the user let the
\* rows arrive.
LEMMA ChangeKeeps ==
    ASSUME IInv, NEW k \in Task, NEW kind \in {"edit", "rmsg"},
           NEW targets \in SUBSET Session, Change(k, kind, targets),
           RowsOf(active) => targets \subseteq {active}
    PROVE  IInv'
<1>1. PICK s \in targets : task' = [task EXCEPT ![k] = [New(kind, active) EXCEPT !.hit = s]]
  BY DEF Change
<1> DEFINE r == [New(kind, active) EXCEPT !.hit = s]
<1>2. active \in Session /\ s \in Session
  BY DEF Change, IInv, TypeOK
<1>3. r \in Request /\ r.kind = kind /\ r.sid = active /\ r.hit = s
  BY <1>2 DEF New, Idle, Request, Kind, IInv, TypeOK
<1>4. task' = [task EXCEPT ![k] = r]
  BY <1>1
<1> HIDE DEF r
<1>5. task'[k] = r /\ \A j \in Task \ {k} : task'[j] = task[j]
  BY <1>3, <1>4, OneRequest
<1>6. /\ UNCHANGED <<user, list, active, seen, shown, streaming, controller, wiped>>
      /\ calm' = (calm /\ ~HurryRow) /\ task[k].kind = "idle" /\ Settled
  BY DEF Change, sessions, chat, Command, Keys, Rendered, Settled
<1>7. HasSession'
  BY <1>2, <1>3, <1>4, OneRequest
<1>8. TypeOK'
  BY <1>3, <1>4, <1>6, OneRequest DEF IInv, TypeOK, Request, Kind
<1>9. StopReachesStream' /\ LiveStreams'
  BY <1>3, <1>4, <1>6, StreamsStay
<1>10. CalmRows'
  <2>1. calm' => calm /\ Loads = {}
    BY <1>6 DEF HurryRow
  <2>2. Loads' \subseteq Loads \cup {k} /\ Of({"load"})' = Of({"load"})
        /\ Of({"edit", "rmsg"})' \subseteq Loads'
        /\ Of({"load"}) \subseteq Loads
    BY <1>3, <1>5, <1>6 DEF Loads, Of
  <2>3. calm' => RowsOf(active)
    BY <1>6, <2>1, <2>2 DEF IInv, CalmRows
  <2>4. \A j \in shown.live : j # k
    BY <1>6 DEF IInv, LiveStreams, Streams, Of
  <2>5. RowsOf(active) => RowsOf(active)'
    BY <1>5, <1>6, <2>4 DEF RowsOf, IInv, TypeOK
  <2>6. calm' => r.hit = active
    BY <1>3, <2>3
  <2> QED
    BY <1>3, <1>5, <1>6, <2>1, <2>2, <2>3, <2>5, <2>6 DEF CalmRows
<1> QED
  BY <1>7, <1>8, <1>9, <1>10 DEF IInv

LEMMA EditKeeps ==
    ASSUME IInv, NEW k \in Task, Edit(k)
    PROVE  IInv'
<1>1. lastUserId \in SUBSET Session
  BY DEF lastUserId, IInv, TypeOK
<1>2. RowsOf(active) => lastUserId \subseteq {active}
  BY DEF RowsOf, lastUserId
<1> QED
  BY <1>1, <1>2, ChangeKeeps DEF Edit

LEMMA DeleteMessageKeeps ==
    ASSUME IInv, NEW k \in Task, DeleteMessage(k)
    PROVE  IInv'
<1>1. lastAssistantId \in SUBSET Session
  BY DEF lastAssistantId, IInv, TypeOK
<1>2. RowsOf(active) => lastAssistantId \subseteq {active}
  BY DEF RowsOf, lastAssistantId
<1> QED
  BY <1>1, <1>2, ChangeKeeps DEF DeleteMessage

\* The load after a change is of the session that was active when it was asked
\* for, which is the one a calm user is still in.
LEMMA ChangedKeeps ==
    ASSUME IInv, NEW k \in Task, Changed(k)
    PROVE  IInv'
<1>1. task[k].kind \in {"edit", "rmsg"} /\ task[k].sid \in Session
  BY DEF Changed, Of, IInv, HasSession
<1>2. CASE ThenLoad(k, task[k].sid)
  <2>1. calm /\ Settled => task[k].sid = active
    BY <1>1 DEF IInv, CalmRows, Loads, Of
  <2>2. Settled' => Settled
    BY DEF Changed, sessions, Settled
  <2> QED
    BY <1>1, <1>2, <2>1, <2>2, ThenLoads DEF Changed, sessions, IInv, TypeOK
<1>3. CASE Finish(k) /\ UNCHANGED calm
  BY <1>1, <1>3, QuietEnd DEF Changed, sessions, IInv, TypeOK
<1> QED
  BY <1>2, <1>3 DEF Changed

-----------------------------------------------------------------------------
(***************************************************************************)
(* Signing in and out                                                      *)
(***************************************************************************)

LEMMA LoginKeeps ==
    ASSUME IInv, NEW k \in Task, NEW a \in Account, Login(k, a)
    PROVE  IInv'
<1> DEFINE r == [Idle EXCEPT !.kind = "boot", !.as = a]
<1>1. r \in Request /\ r.kind = "boot"
  BY DEF Idle, Request, Kind
<1>2. task' = [task EXCEPT ![k] = r] /\ task[k].kind = "idle"
  BY DEF Login
<1> HIDE DEF r
<1>3. HasSession'
  <2>1. r.kind \notin {"pin", "stream", "edit", "rmsg"}
    BY <1>1
  <2> QED
    BY <1>1, <1>2, <2>1, OneRequest
<1>4. TypeOK'
  BY <1>1, <1>2, OneRequest DEF Login, IInv, TypeOK, Request, Kind, chat
<1>5. StopReachesStream' /\ LiveStreams'
  BY <1>1, <1>2, StreamsStay DEF Login, chat
<1>6. CalmRows'
  <2>1. ~Settled'
    BY DEF Login, Settled
  <2>2. task'[k] = r /\ \A j \in Task \ {k} : task'[j] = task[j]
    BY <1>1, <1>2, OneRequest
  <2> QED
    BY <1>1, <2>1, <2>2, NothingActive DEF Login
<1> QED
  BY <1>3, <1>4, <1>5, <1>6 DEF IInv

LEMMA LoggedOutKeeps ==
    ASSUME IInv, NEW k \in Task, LoggedOut(k)
    PROVE  IInv'
<1> DEFINE t == [j \in Task |-> IF j = k THEN Idle
                             ELSE IF task[j].kind = "boot"
                                  THEN [task[j] EXCEPT !.kind = "list"]
                             ELSE task[j]]
<1>1. Idle \in Request /\ Idle.kind = "idle"
  BY DEF Idle, Request, Kind
<1>2. t \in [Task -> Request]
  BY <1>1 DEF IInv, TypeOK, Request, Kind
<1>3. \A j \in Task : t[j].kind \in {"edit", "rmsg", "stream", "pin"} => t[j] = task[j]
  BY <1>1 DEF IInv, TypeOK
<1>4. Reset(t) /\ user' = None /\ list' = {} /\ active' = None /\ seen' = seen /\ calm' = calm
  BY DEF LoggedOut
<1>5. ~Settled'
  BY <1>4 DEF Settled
<1> QED
  BY <1>2, <1>3, <1>4, <1>5, ResetStep

-----------------------------------------------------------------------------
(***************************************************************************)
(* The theorems                                                            *)
(***************************************************************************)

LEMMA InitIInv == Init => IInv
<1> SUFFICES ASSUME Init PROVE IInv
  OBVIOUS
<1>1. Idle \in Request /\ Idle.kind = "idle"
  BY DEF Idle, Request, Kind
<1>2. \A k \in Task : task[k] = Idle
  BY DEF Init
<1>3. TypeOK
  BY <1>1 DEF Init, TypeOK, Empty, Request, Kind
<1>4. HasSession /\ StopReachesStream /\ LiveStreams /\ CalmRows
  BY <1>1, <1>2 DEF Init, HasSession, StopReachesStream, LiveStreams, CalmRows, Streams,
                    Of, Empty, Settled
<1> QED
  BY <1>3, <1>4 DEF IInv

LEMMA PressKeeps ==
    ASSUME IInv, NEW k \in Task, Press(k)
    PROVE  IInv'
<1>1. CASE Refresh(k)
  BY <1>1, QuietBegin DEF Refresh
<1>2. CASE CreateSession(k)
  BY <1>2, QuietBegin DEF CreateSession
<1>3. CASE Pin(k)
  BY <1>3, QuietBegin DEF Pin, IInv, TypeOK
<1>4. CASE Delete(k)
  BY <1>4, QuietBegin DEF Delete, IInv, TypeOK
<1>5. CASE Send(k)
  BY <1>5, SendKeeps
<1>6. CASE Edit(k)
  BY <1>6, EditKeeps
<1>7. CASE DeleteMessage(k)
  BY <1>7, DeleteMessageKeeps
<1>8. CASE Logout(k)
  BY <1>8, QuietBegin DEF Logout
<1>9. CASE \E s \in Session : Switch(k, s)
  BY <1>9, SwitchKeeps
<1>10. CASE \E a \in Account : Login(k, a)
  BY <1>10, LoginKeeps
<1> QED
  BY <1>1, <1>2, <1>3, <1>4, <1>5, <1>6, <1>7, <1>8, <1>9, <1>10 DEF Press

LEMMA HandleKeeps ==
    ASSUME IInv, NEW k \in Task, Handle(k)
    PROVE  IInv'
BY ListedKeeps, CreatedKeeps, PinnedKeeps, RemovedKeeps, LoadedReplaces, OpenKeeps,
   DoneKeeps, SettleKeeps, ChangedKeeps, LoggedOutKeeps DEF Handle

LEMMA NextIInv == IInv /\ [Next]_vars => IInv'
<1> SUFFICES ASSUME IInv, [Next]_vars PROVE IInv'
  OBVIOUS
<1>1. CASE Next
  BY <1>1, PressKeeps, HandleKeeps, ActiveEffectKeeps, SelectSessionKeeps,
     ClearLocalKeeps, StopKeeps DEF Next
<1>2. CASE UNCHANGED vars
  <2>1. task \in [Task -> Request]
    BY DEF IInv, TypeOK, Request, Kind
  <2> QED
    BY <1>2, <2>1, SameRequests DEF vars, sessions, chat
<1> QED
  BY <1>1, <1>2

\* The stores keep their types, and the active session is one of the list,
\* whatever lists, deletions and new sessions arrive in whatever order
\* (session-store.ts).
THEOREM ActiveIsListed == Spec => []TypeOK
<1>1. IInv => TypeOK
  BY DEF IInv
<1> QED
  BY InitIInv, NextIInv, <1>1, PTL DEF Spec

\* While the screen says that an answer streams, there is one and Ctrl-C
\* reaches it; unless the chat was reset under a running stream, no other runs
\* unseen (chat-store.ts, send, stop, reset and consumeStream).
THEOREM CtrlCReachesTheStream == Spec => []StopReachesStream
<1>1. IInv => StopReachesStream
  BY DEF IInv
<1> QED
  BY InitIInv, NextIInv, <1>1, PTL DEF Spec

\* A user who lets rows arrive before going on sees those of the active session
\* and no other, and edits and deletes messages of that session only
\* (loadSession of chat-store.ts, the effects of app-shell.tsx, /edit, /rmsg).
THEOREM CalmUserSeesTheActiveSession == Spec => []CalmShowsActive
<1>1. IInv => CalmShowsActive
  <2>1. Keys /\ active # None => Settled
    BY DEF Keys, Rendered, Settled
  <2>2. Loads = {} => Of({"load"}) = {}
    BY DEF Loads, Of
  <2> QED
    BY <2>1, <2>2 DEF IInv, CalmRows, RowsOf, CalmShowsActive
<1> QED
  BY InitIInv, NextIInv, <1>1, PTL DEF Spec
=============================================================================

-------------------------- MODULE WebFormsProofs --------------------------
(***************************************************************************)
(* What the web client's editors and forms promise the person who uses     *)
(* them.  The two components share no name and no state: each has its own  *)
(* half here.                                                              *)
(*                                                                         *)
(* WikiEditor: an editor of the wiki never forgets that it has something   *)
(* to save, and never has two saves under way; and someone who does not    *)
(* hurry can trust the indicator and the chat.  For any number of editors  *)
(* and edits.  The first two are inductive with the types.  A step changes *)
(* one editor, so the argument is about what each operation makes of one   *)
(* editor's record.  The other two need to know how the one editor with    *)
(* unsaved work, its request and the row go together: CalmInv.             *)
(*                                                                         *)
(* Providers: a user has one default provider, and the settings page and   *)
(* the model selector come to show what is stored.  For any number of      *)
(* providers, models, calls and gestures.  What is shown was read earlier  *)
(* and by somebody else, so the invariant, SettingsInv, says of every call *)
(* under way what it has read or will answer.                              *)
(***************************************************************************)
EXTENDS WikiEditor, Providers, FiniteSetTheorems, TLAPS

\* The claim of DirtyIsPending about one editor, and that one which is yet to
\* be opened has nothing under way.
Ok(s) ==
    /\ s.at = "open" /\ s.dirty => s.own \/ s.stray > 0 \/ s.flight
    /\ s.at = "unopened" => ~s.flight /\ ~s.own /\ s.stray = 0 /\ s.image = "none"

EditorsOk == \A e \in Ed : Ok(ed[e])

IInv == TypeOK /\ EditorsOk /\ OneSave

-----------------------------------------------------------------------------
(***************************************************************************)
(* What the helpers make of an editor                                      *)
(***************************************************************************)

\* A row just read makes an editor with nothing to save.
LEMMA EditorFresh ==
    ASSUME NEW r \in Row
    PROVE  /\ Editor(r) \in EditorType /\ Ok(Editor(r)) /\ ~Editor(r).flight
           /\ [Editor(r) EXCEPT !.at = "unopened"] \in EditorType
           /\ Ok([Editor(r) EXCEPT !.at = "unopened"])
BY DEF Editor, Row, EditorType, Ok

\* An edit sets a timer.
LEMMA ScheduleKeeps ==
    ASSUME NEW s \in EditorType, s.at # "unopened"
    PROVE  /\ scheduleSave(s) \in EditorType /\ Ok(scheduleSave(s))
           /\ scheduleSave(s).flight = s.flight
BY DEF scheduleSave, EditorType, Ok

\* Whether a placeholder holds the body back or not, nothing is forgotten.
LEMMA EmitKeeps ==
    ASSUME NEW s \in EditorType, Ok(s), s.at # "unopened"
    PROVE  Emit(s) \in EditorType /\ Ok(Emit(s)) /\ Emit(s).flight = s.flight
<1> DEFINE t == [s EXCEPT !.body = s.view]
<1>1. t \in EditorType /\ t.flight = s.flight /\ t.at # "unopened"
  BY DEF EditorType
<1>2. /\ scheduleSave(t) \in EditorType /\ Ok(scheduleSave(t))
      /\ scheduleSave(t).flight = t.flight
  BY <1>1, ScheduleKeeps
<1> QED
  BY <1>1, <1>2 DEF Emit

\* The end of a save sets a timer for what came meanwhile.
LEMMA FinallyKeeps ==
    ASSUME NEW s \in EditorType, s.at # "unopened"
    PROVE  Finally(s) \in EditorType /\ Ok(Finally(s))
<1> DEFINE own == s.own \/ s.dirty
           stray == IF s.own /\ s.dirty THEN s.stray + 1 ELSE s.stray
           ask == IF s.ask = "flush" THEN "create" ELSE s.ask
           t == Finally(s)
<1>1. own \in BOOLEAN /\ stray \in Nat /\ ask \in {"no", "flush", "create"}
  BY DEF EditorType
<1>2. t = [s EXCEPT !.flight = FALSE, !.own = own, !.stray = stray, !.ask = ask]
  BY DEF Finally
<1>3. t \in EditorType /\ t.own = own /\ t.dirty = s.dirty /\ t.at = s.at
  <2> HIDE DEF own, stray, ask, t
  <2> QED
    BY <1>1, <1>2 DEF EditorType
<1>4. t.dirty => t.own
  BY <1>3
<1> QED
  BY <1>3, <1>4 DEF Ok

\* A closed editor owes nothing.
LEMMA ClosedKeeps ==
    ASSUME NEW s \in EditorType
    PROVE  Closed(s) \in EditorType /\ Ok(Closed(s)) /\ Closed(s).flight = s.flight
BY DEF Closed, EditorType, Ok

LEMMA FailedKeeps ==
    ASSUME NEW s \in EditorType
    PROVE  Failed(s) \in EditorType /\ Failed(s).at = s.at
BY DEF Failed, EditorType

-----------------------------------------------------------------------------
(***************************************************************************)
(* The shapes of a step                                                    *)
(***************************************************************************)

\* A step that changes one editor and no request, and neither begins nor ends a
\* save.
LEMMA EditorStep ==
    ASSUME IInv, NEW e \in Ed, NEW s \in EditorType, Ok(s),
           s.flight = ed[e].flight, ed' = [ed EXCEPT ![e] = s], req' = req
    PROVE  ed' \in [Ed -> EditorType] /\ EditorsOk' /\ OneSave'
<1>1. ed' \in [Ed -> EditorType]
  BY DEF IInv, TypeOK
<1>2. EditorsOk'
  BY <1>1 DEF IInv, TypeOK, EditorsOk
<1>3. \A o \in Ed : ed'[o].flight = ed[o].flight
  BY DEF IInv, TypeOK
<1>4. \A q \in req : q.ed \in Ed
  BY DEF IInv, TypeOK, RequestType
<1>5. OneSave'
  BY <1>3, <1>4 DEF IInv, OneSave
<1> QED
  BY <1>1, <1>2, <1>5

\* A request gets one stage further.
LEMMA AdvanceStep ==
    ASSUME IInv, NEW q \in req, NEW stage \in {"read", "written", "answered", "conflict",
                                               "refetch", "refetched", "failed"},
           NEW seen \in Row, Advance(q, stage, seen),
           \A o \in Ed : ed'[o].flight = ed[o].flight
    PROVE  req' \subseteq RequestType /\ OneSave'
<1> DEFINE p == [ed |-> q.ed, stage |-> stage, rev |-> 0, seen |-> seen,
                 text |-> IF stage = "read" THEN q.text ELSE {},
                 untitled |-> stage = "read" /\ q.untitled]
<1>1. req' = (req \ {q}) \cup {p}
  BY DEF Advance
<1>2. q \in RequestType /\ req \subseteq RequestType
  BY DEF IInv, TypeOK
<1>3. p \in RequestType /\ p.ed = q.ed
  BY <1>2 DEF RequestType
<1>4. \A r \in req : r.ed \in Ed
  BY <1>2 DEF RequestType
<1>5. \A r \in req' : ed'[r.ed].flight
  BY <1>1, <1>3, <1>4 DEF IInv, OneSave
<1>6. \A r, u \in req' : u.ed = r.ed => u = r
  <2> HIDE DEF p
  <2> QED
    BY <1>1, <1>3 DEF IInv, OneSave
<1>7. OneSave'
  BY <1>5, <1>6 DEF OneSave
<1> QED
  BY <1>1, <1>2, <1>3, <1>7

\* A save ends.
LEMMA EndStep ==
    ASSUME IInv, NEW q \in req, NEW s \in EditorType,
           s.at = ed[q.ed].at,
           req' = req \ {q}, ed' = [ed EXCEPT ![q.ed] = Finally(s)]
    PROVE  ed' \in [Ed -> EditorType] /\ req' \subseteq RequestType
           /\ EditorsOk' /\ OneSave'
<1>1. q.ed \in Ed /\ \A r \in req : r.ed \in Ed
  BY DEF IInv, TypeOK, RequestType
<1>2. Finally(s) \in EditorType /\ Ok(Finally(s))
  <2>1. ed[q.ed].flight
    BY DEF IInv, OneSave
  <2>2. s.at # "unopened"
    BY <1>1, <2>1 DEF IInv, EditorsOk, Ok
  <2> QED
    BY <2>2, FinallyKeeps
<1>3. ed' \in [Ed -> EditorType]
  BY <1>1, <1>2 DEF IInv, TypeOK
<1>4. EditorsOk'
  BY <1>1, <1>2, <1>3 DEF IInv, TypeOK, EditorsOk
<1>5. \A r \in req' : r.ed # q.ed
  BY DEF IInv, OneSave
<1>6. OneSave'
  BY <1>1, <1>5 DEF IInv, TypeOK, OneSave
<1> QED
  BY <1>3, <1>4, <1>6 DEF IInv, TypeOK

\* A save begins, or is left to the end of the one under way.
LEMMA FlushStep ==
    ASSUME IInv, NEW e \in Ed, NEW s \in EditorType,
           s.flight = ed[e].flight, s.at # "unopened", Flush(e, s)
    PROVE  ed' \in [Ed -> EditorType] /\ req' \subseteq RequestType
           /\ EditorsOk' /\ OneSave'
<1>1. CASE s.flight
  <2> DEFINE t == [s EXCEPT !.dirty = TRUE]
  <2>1. t \in EditorType /\ Ok(t) /\ t.flight = ed[e].flight
    BY <1>1 DEF EditorType, Ok
  <2>2. ed' = [ed EXCEPT ![e] = t] /\ req' = req
    BY <1>1 DEF Flush
  <2>3. ed' \in [Ed -> EditorType] /\ EditorsOk' /\ OneSave'
    BY <2>1, <2>2, EditorStep
  <2> QED
    BY <2>2, <2>3 DEF IInv, TypeOK
<1>2. CASE ~s.flight
  <2> DEFINE t == [s EXCEPT !.flight = TRUE, !.dirty = FALSE, !.status = "saving"]
             p == Request(e, s)
  <2>1. t \in EditorType /\ Ok(t) /\ t.flight
    BY DEF EditorType, Ok
  <2>2. ed' = [ed EXCEPT ![e] = t] /\ req' = req \cup {p}
    BY <1>2 DEF Flush
  <2>3. p \in RequestType /\ p.ed = e
    BY DEF Request, RequestType, EditorType, NoRow, Row
  <2>4. ed' \in [Ed -> EditorType]
    BY <2>1, <2>2 DEF IInv, TypeOK
  <2>5. EditorsOk'
    BY <2>1, <2>2, <2>4 DEF IInv, TypeOK, EditorsOk
  <2>6. \A r \in req : r.ed # e /\ r.ed \in Ed
    BY <1>2 DEF IInv, TypeOK, RequestType, OneSave
  <2>7. OneSave'
    BY <2>1, <2>2, <2>3, <2>6 DEF IInv, TypeOK, OneSave
  <2> QED
    BY <2>2, <2>3, <2>4, <2>5, <2>7 DEF IInv, TypeOK
<1> QED
  BY <1>1, <1>2 DEF EditorType

-----------------------------------------------------------------------------
(***************************************************************************)
(* The steps                                                               *)
(***************************************************************************)

\* What every step makes of the editors and the requests.
Kept == ed' \in [Ed -> EditorType] /\ req' \subseteq RequestType /\ EditorsOk' /\ OneSave'

\* A person opens an editor, or edits in one.
LEMMA EditStep ==
    ASSUME IInv, NEW e \in Ed,
           \/ Open(e) \/ updateTitle(e) \/ clearTitle(e) \/ updateBody(e)
           \/ insertUploadingImage(e) \/ Cut(e) \/ Undo(e)
    PROVE  TypeOK' /\ Kept
<1>1. ed[e] \in EditorType /\ Ok(ed[e]) /\ req \subseteq RequestType
  BY DEF IInv, TypeOK, EditorsOk
<1>2. CASE Open(e)
  <2>1. /\ Editor(row) \in EditorType /\ Ok(Editor(row))
        /\ Editor(row).flight = ed[e].flight
    <3>1. ed[e].flight = FALSE
      BY <1>1, <1>2 DEF Open, Ok, EditorType
    <3>2. Editor(row).flight = FALSE
      BY DEF Editor
    <3> QED
      BY <3>1, <3>2, EditorFresh DEF IInv, TypeOK
  <2>2. ed' = [ed EXCEPT ![e] = Editor(row)] /\ req' = req
    BY <1>2 DEF Open
  <2>3. Kept
    BY <1>1, <2>1, <2>2, EditorStep DEF Kept
  <2> QED
    BY <1>2, <2>3 DEF Kept, Open, IInv, TypeOK
<1>3. ASSUME NEW s \in EditorType, Ok(s), s.flight = ed[e].flight, Change(e, s),
             titles' \subseteq Edit
      PROVE  TypeOK' /\ Kept
  <2>1. Kept
    BY <1>1, <1>3, EditorStep DEF Kept, Change
  <2>2. events' \in 0..MaxEvents /\ calm' \in BOOLEAN
    BY <1>3, EditAssumption DEF Change, IInv, TypeOK
  <2> QED
    BY <1>3, <2>1, <2>2 DEF Kept, Change, IInv, TypeOK
<1>4. ASSUME Working(e), events < MaxEvents
      PROVE  /\ Typed(e) \in EditorType /\ Ok(Typed(e))
             /\ Typed(e).flight = ed[e].flight /\ Typed(e).at = "open"
             /\ events + 1 \in Edit
  BY <1>1, <1>4, EditAssumption DEF Typed, EditorType, Ok, Working, Edit, IInv, TypeOK
<1>5. ASSUME NEW blank \in BOOLEAN, Retitle(e, blank)
      PROVE  TypeOK' /\ Kept
  <2> DEFINE t == [Typed(e) EXCEPT !.body = @ \cup {events + 1}, !.blank = blank]
  <2>1. Change(e, scheduleSave(t)) /\ Working(e) /\ events < MaxEvents
    BY <1>5 DEF Retitle, Change
  <2>4. titles' \subseteq Edit
    BY <1>4, <1>5, <2>1 DEF Retitle, IInv, TypeOK
  <2>2. t \in EditorType /\ t.at = "open" /\ t.flight = ed[e].flight
    BY <1>4, <2>1 DEF EditorType
  <2>3. /\ scheduleSave(t) \in EditorType /\ Ok(scheduleSave(t))
        /\ scheduleSave(t).flight = ed[e].flight
    BY <2>2, ScheduleKeeps
  <2> QED
    BY <1>3, <2>1, <2>3, <2>4
<1>6. CASE updateBody(e)
  <2>1. /\ Change(e, Emit(Typed(e))) /\ Working(e) /\ events < MaxEvents
        /\ titles' \subseteq Edit
    BY <1>6 DEF updateBody, Change, IInv, TypeOK
  <2>2. /\ Emit(Typed(e)) \in EditorType /\ Ok(Emit(Typed(e)))
        /\ Emit(Typed(e)).flight = ed[e].flight
    BY <1>4, <2>1, EmitKeeps
  <2> QED
    BY <1>3, <2>1, <2>2
<1>7. ASSUME NEW from, NEW to \in {"up", "cut", "stuck"}, Image(e, from, to)
      PROVE  TypeOK' /\ Kept
  <2> DEFINE t == [ed[e] EXCEPT !.image = to]
  <2>1. t \in EditorType /\ Ok(t) /\ t.at # "unopened" /\ t.flight = ed[e].flight
    BY <1>1, <1>7 DEF Image, Working, EditorType, Ok
  <2>2. Emit(t) \in EditorType /\ Ok(Emit(t)) /\ Emit(t).flight = ed[e].flight
    BY <2>1, EmitKeeps
  <2>3. ed' = [ed EXCEPT ![e] = Emit(t)] /\ req' = req
    BY <1>7 DEF Image
  <2>4. Kept
    BY <1>1, <2>2, <2>3, EditorStep DEF Kept
  <2>5. events' \in 0..MaxEvents /\ calm' \in BOOLEAN
    BY <1>7, EditAssumption DEF Image, IInv, TypeOK
  <2> QED
    BY <1>7, <2>4, <2>5 DEF Kept, Image, IInv, TypeOK
<1>8. CASE insertUploadingImage(e) \/ Cut(e) \/ Undo(e)
  BY <1>7, <1>8 DEF insertUploadingImage, Cut, Undo
<1> QED
  BY <1>2, <1>5, <1>6, <1>8 DEF updateTitle, clearTitle

\* A person leaves an editor or deletes its text, or the chat is gone to.
LEMMA CloseStep ==
    ASSUME IInv, NEW e \in Ed, Leave(e) \/ deletePage(e) \/ createChatFromPage(e)
    PROVE  TypeOK' /\ Kept
<1>1. ed[e] \in EditorType /\ Ok(ed[e]) /\ req \subseteq RequestType
  BY DEF IInv, TypeOK, EditorsOk
<1>2. /\ Closed(ed[e]) \in EditorType /\ Ok(Closed(ed[e]))
      /\ Closed(ed[e]).flight = ed[e].flight
  BY <1>1, ClosedKeeps
<1>3. CASE Leave(e)
  <2>1. Kept
    BY <1>1, <1>2, <1>3, EditorStep DEF Kept, Leave
  <2> QED
    BY <1>3, <2>1 DEF Kept, Leave, IInv, TypeOK
<1>4. CASE deletePage(e)
  <2>1. Kept
    BY <1>1, <1>2, <1>4, EditorStep DEF Kept, deletePage
  <2> QED
    BY <1>4, <2>1 DEF Kept, deletePage, IInv, TypeOK
<1>5. CASE createChatFromPage(e)
  <2> DEFINE t == [ed[e] EXCEPT !.ask = "no", !.wanted = {}]
             c == [Closed(ed[e]) EXCEPT !.wanted = ed[e].wanted]
             u == IF there THEN c ELSE t
  <2>1. t \in EditorType /\ Ok(t) /\ t.flight = ed[e].flight
    BY <1>1 DEF EditorType, Ok
  <2>6. c \in EditorType /\ Ok(c) /\ c.flight = ed[e].flight
    BY <1>1, <1>2 DEF EditorType, Ok
  <2>2. u \in EditorType /\ Ok(u) /\ u.flight = ed[e].flight
    BY <2>1, <2>6
  <2>3. ed' = [ed EXCEPT ![e] = u] /\ req' = req
    BY <1>5 DEF createChatFromPage
  <2>4. Kept
    BY <1>1, <2>2, <2>3, EditorStep DEF Kept
  <2>5. chat' \in [Ed -> SUBSET Edit] /\ calm' \in BOOLEAN
    BY <1>5 DEF createChatFromPage, IInv, TypeOK, Row
  <2> QED
    BY <1>5, <2>4, <2>5 DEF Kept, createChatFromPage, IInv, TypeOK
<1> QED
  BY <1>3, <1>4, <1>5

\* The timers, askAI, and the end of an upload.
LEMMA WorkStep ==
    ASSUME IInv, NEW e \in Ed, Autosave(e) \/ askAI(e) \/ UploadSettled(e)
    PROVE  TypeOK' /\ Kept
<1>1. ed[e] \in EditorType /\ Ok(ed[e]) /\ req \subseteq RequestType
  BY DEF IInv, TypeOK, EditorsOk
<1>2. CASE Autosave(e)
  <2>1. PICK s : /\ \/ ed[e].own /\ s = [ed[e] EXCEPT !.own = FALSE]
                    \/ ed[e].stray > 0 /\ s = [ed[e] EXCEPT !.stray = @ - 1]
                 /\ Flush(e, s)
    BY <1>2 DEF Autosave
  <2>2. s \in EditorType /\ s.flight = ed[e].flight /\ s.at # "unopened"
    <3>1. ed[e].at # "unopened"
      BY <1>1, <2>1 DEF EditorType, Ok
    <3>2. CASE ed[e].own /\ s = [ed[e] EXCEPT !.own = FALSE]
      BY <1>1, <3>1, <3>2 DEF EditorType
    <3>3. CASE ed[e].stray > 0 /\ s = [ed[e] EXCEPT !.stray = @ - 1]
      BY <1>1, <3>1, <3>3 DEF EditorType
    <3> QED
      BY <2>1, <3>2, <3>3
  <2>3. Kept
    BY <2>1, <2>2, FlushStep DEF Kept
  <2> QED
    BY <1>2, <2>3 DEF Kept, Autosave, IInv, TypeOK
<1>3. CASE askAI(e)
  <2> DEFINE s == [ed[e] EXCEPT !.own = FALSE, !.wanted = ed[e].body]
             t == [s EXCEPT !.ask = "flush"]
             u == [s EXCEPT !.ask = "create"]
  <2>1. t \in EditorType /\ t.flight = ed[e].flight /\ t.at # "unopened"
    BY <1>1, <1>3 DEF askAI, Working, EditorType
  <2>2. Kept
    <3>1. CASE ed[e].dirty /\ ~ed[e].flight
      <4>1. Flush(e, t)
        BY <1>3, <3>1 DEF askAI
      <4> QED
        BY <2>1, <4>1, FlushStep DEF Kept
    <3>2. CASE ~(ed[e].dirty /\ ~ed[e].flight)
      <4>1. u \in EditorType /\ Ok(u) /\ u.flight = ed[e].flight
        BY <1>1, <1>3, <3>2 DEF askAI, Working, EditorType, Ok
      <4>2. ed' = [ed EXCEPT ![e] = u] /\ req' = req
        BY <1>3, <3>2 DEF askAI
      <4> QED
        BY <1>1, <4>1, <4>2, EditorStep DEF Kept
    <3> QED
      BY <3>1, <3>2
  <2>3. calm' \in BOOLEAN
    BY <1>3 DEF askAI, IInv, TypeOK
  <2> QED
    BY <1>3, <2>2, <2>3 DEF Kept, askAI, IInv, TypeOK
<1>4. CASE UploadSettled(e)
  <2> DEFINE s == [ed[e] EXCEPT !.image = "over"]
             u == IF ed[e].image = "up" THEN Emit(s) ELSE s
  <2>1. s \in EditorType /\ Ok(s) /\ s.at # "unopened" /\ s.flight = ed[e].flight
    BY <1>1, <1>4 DEF UploadSettled, EditorType, Ok
  <2>2. u \in EditorType /\ Ok(u) /\ u.flight = ed[e].flight
    BY <2>1, EmitKeeps
  <2>3. ed' = [ed EXCEPT ![e] = u] /\ req' = req
    BY <1>4 DEF UploadSettled
  <2>4. Kept
    BY <1>1, <2>2, <2>3, EditorStep DEF Kept
  <2> QED
    BY <1>4, <2>4 DEF Kept, UploadSettled, IInv, TypeOK
<1> QED
  BY <1>2, <1>3, <1>4

\* The server gets on with a request.
LEMMA ServerStep ==
    ASSUME IInv, NEW q \in req, Read(q) \/ Commit(q) \/ Refresh(q) \/ Conflict(q)
    PROVE  TypeOK' /\ Kept
<1>1. q \in RequestType /\ q.ed \in Ed /\ row \in Row /\ NoRow \in Row
  BY DEF IInv, TypeOK, RequestType, NoRow, Row
<1>2. ASSUME NEW stage \in {"read", "written", "answered", "conflict",
                           "refetch", "refetched", "failed"},
             NEW seen \in Row, Advance(q, stage, seen), ed' = ed
      PROVE  Kept
  <2>1. req' \subseteq RequestType /\ OneSave'
    BY <1>2, AdvanceStep
  <2> QED
    BY <1>2, <2>1 DEF Kept, IInv, TypeOK, EditorsOk
<1>3. CASE Read(q)
  <2>1. Kept
    BY <1>1, <1>2, <1>3 DEF Read
  <2> QED
    BY <1>3, <2>1 DEF Kept, Read, IInv, TypeOK
<1>4. CASE Commit(q)
  <2>1. Kept
    BY <1>1, <1>2, <1>4 DEF Commit
  <2>2. row' \in Row
    <3> DEFINE text == IF Put(q, q.seen.text) = q.seen.text THEN row.text
                       ELSE Put(q, row.text)
               rev == IF kind = "page" THEN q.seen.rev + 1 ELSE row.rev
    <3>1. text \in SUBSET Edit /\ rev \in Nat
      BY <1>1 DEF RequestType, Row, Put
    <3>2. row' = IF ~there THEN row ELSE [text |-> text, rev |-> rev]
      BY <1>4 DEF Commit
    <3> QED
      BY <1>1, <3>1, <3>2 DEF Row
  <2> QED
    BY <1>4, <2>1, <2>2 DEF Kept, Commit, IInv, TypeOK
<1>5. CASE Refresh(q)
  <2>1. Kept
    BY <1>1, <1>2, <1>5 DEF Refresh
  <2> QED
    BY <1>5, <2>1 DEF Kept, Refresh, IInv, TypeOK
<1>6. CASE Conflict(q)
  <2> DEFINE s == [ed[q.ed] EXCEPT !.status = "conflict"]
  <2>1. ed[q.ed] \in EditorType /\ Ok(ed[q.ed])
    BY <1>1 DEF IInv, TypeOK, EditorsOk
  <2>2. s \in EditorType /\ Ok(s) /\ s.flight = ed[q.ed].flight
    BY <2>1 DEF EditorType, Ok
  <2>3. ed' = [ed EXCEPT ![q.ed] = s]
    BY <1>6 DEF Conflict
  <2>4. ed' \in [Ed -> EditorType] /\ \A o \in Ed : ed'[o].flight = ed[o].flight
    BY <1>1, <2>2, <2>3 DEF IInv, TypeOK
  <2>5. req' \subseteq RequestType /\ OneSave'
    BY <1>1, <1>6, <2>4, AdvanceStep DEF Conflict
  <2>6. EditorsOk'
    BY <1>1, <2>2, <2>3, <2>4 DEF IInv, TypeOK, EditorsOk
  <2> QED
    BY <1>6, <2>4, <2>5, <2>6 DEF Kept, Conflict, IInv, TypeOK
<1> QED
  BY <1>3, <1>4, <1>5, <1>6

\* The browser has its answer, or knows that it will have none.
LEMMA AnswerStep ==
    ASSUME IInv, NEW q \in req, Saved(q) \/ Refetched(q) \/ SaveFailed(q) \/ Lose(q)
    PROVE  TypeOK' /\ Kept
<1> DEFINE s == ed[q.ed]
<1>1. q \in RequestType /\ q.ed \in Ed /\ s \in EditorType
  BY DEF IInv, TypeOK, RequestType
<1>2. ASSUME NEW t \in EditorType, t.at = s.at, NEW stage, Answer(q, stage, t)
      PROVE  TypeOK' /\ Kept
  <2>1. Kept
    BY <1>2, EndStep DEF Kept, Answer
  <2> QED
    BY <1>2, <2>1 DEF Kept, Answer, IInv, TypeOK
<1>3. CASE Saved(q)
  <2> DEFINE status == IF s.dirty THEN "dirty" ELSE "saved"
             t == [s EXCEPT !.rev = Revision(q), !.status = status]
  <2>1. Revision(q) \in Nat
    BY <1>1 DEF Revision, RequestType, EditorType, Row
  <2>2. t \in EditorType /\ t.at = s.at
    BY <1>1, <2>1 DEF EditorType
  <2> QED
    BY <1>2, <1>3, <2>2 DEF Saved
<1>4. CASE Refetched(q)
  <2> DEFINE t == [s EXCEPT !.rev = q.seen.rev]
  <2>1. t \in EditorType /\ t.at = s.at
    BY <1>1 DEF EditorType, RequestType, Row
  <2> QED
    BY <1>2, <1>4, <2>1 DEF Refetched
<1>5. Failed(s) \in EditorType /\ Failed(s).at = s.at
  BY <1>1, FailedKeeps
<1>6. CASE SaveFailed(q)
  BY <1>2, <1>5, <1>6 DEF SaveFailed
<1>7. CASE Lose(q)
  <2>1. Kept
    BY <1>5, <1>7, EndStep DEF Kept, Lose
  <2>2. events' \in 0..MaxEvents
    BY <1>7, EditAssumption DEF Lose, IInv, TypeOK
  <2>3. calm' \in BOOLEAN
    BY <1>7 DEF Lose
  <2> QED
    BY <1>7, <2>1, <2>2, <2>3 DEF Kept, Lose, IInv, TypeOK
<1> QED
  BY <1>3, <1>4, <1>6, <1>7

-----------------------------------------------------------------------------
(***************************************************************************)
(* The theorems                                                            *)
(***************************************************************************)

LEMMA InitIInv == Init => IInv
<1> SUFFICES ASSUME Init PROVE IInv
  OBVIOUS
<1> DEFINE s == [Editor(row) EXCEPT !.at = "unopened"]
<1>1. row \in Row
  BY DEF Init, Row
<1>2. s \in EditorType /\ Ok(s)
  BY <1>1, EditorFresh
<1>3. ed = [e \in Ed |-> s]
  BY DEF Init
<1>4. ed \in [Ed -> EditorType] /\ EditorsOk
  BY <1>2, <1>3 DEF EditorsOk
<1> QED
  BY <1>1, <1>4, EditAssumption DEF Init, IInv, TypeOK, OneSave

LEMMA NextIInv == IInv /\ [Next]_vars => IInv'
<1> SUFFICES ASSUME IInv, [Next]_vars PROVE IInv'
  OBVIOUS
<1>1. CASE UNCHANGED vars
  BY <1>1 DEF vars, IInv, TypeOK, EditorsOk, OneSave
<1>2. CASE \E e \in Ed : Person(e) \/ Autosave(e) \/ createChatFromPage(e) \/ UploadSettled(e)
  BY <1>2, EditStep, CloseStep, WorkStep DEF Person, Kept, IInv
<1>3. CASE \E q \in req : Serve(q) \/ Lose(q)
  BY <1>3, ServerStep, AnswerStep DEF Serve, Kept, IInv
<1> QED
  BY <1>1, <1>2, <1>3 DEF Next, System

\* What the proofs about editors rest on, in every state.
THEOREM Inductive == Spec => []IInv
BY InitIInv, NextIInv, PTL DEF Spec

\* The variables have their types, in every state.
THEOREM Types == Spec => []TypeOK
<1>1. IInv => TypeOK
  BY DEF IInv
<1> QED
  BY Inductive, <1>1, PTL

\* The guard of flush keeps an editor from overtaking itself: never two saves
\* at once, and none that the editor has forgotten.
THEOREM SavesDoNotOverlap == Spec => []OneSave
<1>1. IInv => OneSave
  BY DEF IInv
<1> QED
  BY Inductive, <1>1, PTL
-----------------------------------------------------------------------------
(***************************************************************************)
(* Someone who does not hurry                                              *)
(*                                                                         *)
(* What is called saved is in the row because of everything that may not   *)
(* happen while the one editor with unsaved work is at it.                 *)
(***************************************************************************)

\* What holds of an editor whoever hurries: the body is part of what is shown,
\* it is called saved only when nothing is left to save, and a chat waits for a
\* save only while there is one, in an editor that is open.
Sane(s) == /\ s.body \subseteq s.view
           /\ s.status = "saved" => ~s.dirty /\ ~s.flight
           /\ s.ask = "flush" => s.flight
           /\ s.ask # "no" => s.at = "open"

\* While nobody hurries: an editor with work under way is the only one, knows
\* the whole row and, between two saves, its revision; one with nothing unsaved
\* has its body in the row, and so has a chat that is to be made; what is called
\* unsaved is marked dirty, and a document has a title.
Safe(s) == /\ ~Quiet(s) => /\ there /\ row.text \subseteq s.body
                           /\ kind = "page" /\ ~s.flight => s.rev = row.rev
           /\ ~s.dirty /\ ~s.flight => s.body \subseteq row.text
           /\ s.status # "conflict" /\ (s.status = "dirty" => s.dirty)
           /\ s.ask = "create" => s.wanted \subseteq row.text
           /\ ~s.blank

\* A save carries the row and what was unsaved when it began, and what is not
\* marked dirty again since is all that the editor holds.
Carries(q, s) == /\ row.text \subseteq q.text /\ q.text \subseteq s.body
                 /\ ~s.dirty => q.text = s.body
                 /\ s.ask = "flush" => s.wanted \subseteq q.text
Arrived(s) == /\ ~s.dirty => s.body \subseteq row.text
              /\ s.ask = "flush" => s.wanted \subseteq row.text
Follows(q, s) ==
    \/ q.stage = "sent" /\ Carries(q, s) /\ ~q.untitled /\ (kind = "page" => q.rev = row.rev)
    \/ q.stage = "read" /\ Carries(q, s) /\ ~q.untitled /\ q.seen = row
    \/ q.stage = "written" /\ Arrived(s)
    \/ q.stage = "answered" /\ Arrived(s) /\ q.seen = row

Alone == \A e, o \in Ed : e # o => Quiet(ed[e]) \/ Quiet(ed[o])

CalmInv == /\ \A e \in Ed : Sane(ed[e]) /\ (ed[e].at # "closed" => chat[e] = {})
           /\ calm => /\ Alone
                      /\ \A e \in Ed : Safe(ed[e])
                      /\ \A q \in req : Follows(q, ed[q.ed])
           /\ CalmAsk

\* One editor changes; the rows of nobody else's work do.
LEMMA CalmStep ==
    ASSUME IInv, CalmInv, NEW e \in Ed, NEW t \in EditorType, ed' = [ed EXCEPT ![e] = t],
           Sane(t), chat' \in [Ed -> SUBSET Edit], t.at # "closed" => chat'[e] = {},
           \A o \in Ed \ {e} : chat'[o] = chat[o],
           kind' = kind, calm' => calm,
           calm' => /\ Quiet(t) \/ \A o \in Ed \ {e} : Quiet(ed[o])
                    /\ Safe(t)'
                    /\ row.text \subseteq row'.text
                    /\ (row' = row /\ there' = there) \/ \A o \in Ed \ {e} : Quiet(ed[o])
                    /\ \A q \in req' : \/ q.ed = e /\ Follows(q, t)'
                                       \/ q.ed # e /\ q \in req
                    /\ t.at = "closed" => t.wanted \subseteq chat'[e]
    PROVE  CalmInv'
<1>1. ed \in [Ed -> EditorType] /\ \A q \in req : q.ed \in Ed /\ ed[q.ed].flight
  BY DEF IInv, TypeOK, RequestType, OneSave
<1>2. ed'[e] = t /\ \A o \in Ed \ {e} : ed'[o] = ed[o]
  BY <1>1
<1>3. \A o \in Ed : Sane(ed'[o]) /\ (ed'[o].at # "closed" => chat'[o] = {})
  BY <1>2 DEF CalmInv
<1>4. CalmAsk'
  BY <1>2 DEF CalmInv, CalmAsk
<1>5. ASSUME calm' PROVE Alone'
  <2> SUFFICES ASSUME NEW a \in Ed, NEW o \in Ed, a # o
               PROVE  Quiet(ed'[a]) \/ Quiet(ed'[o])
    BY DEF Alone, Quiet
  <2> QED
    BY <1>2, <1>5 DEF CalmInv, Alone
<1>6. ASSUME calm', NEW o \in Ed PROVE Safe(ed[o])'
  <2>1. CASE o = e
    BY <1>2, <1>6, <2>1 DEF Safe, Quiet
  <2>2. CASE o # e
    <3>1. ed'[o] = ed[o] /\ Safe(ed[o])
      BY <1>2, <1>6, <2>2 DEF CalmInv
    <3>2. CASE row' = row /\ there' = there
      BY <3>1, <3>2 DEF Safe, Quiet
    <3>3. CASE Quiet(ed[o])
      BY <1>6, <3>1, <3>3 DEF Safe, Quiet
    <3> QED
      BY <1>6, <2>2, <3>2, <3>3
  <2> QED
    BY <2>1, <2>2
<1>7. ASSUME calm', NEW q \in req' PROVE Follows(q, ed[q.ed])'
  <2>1. CASE q.ed = e /\ Follows(q, t)'
    BY <1>2, <2>1 DEF Follows, Carries, Arrived
  <2>2. CASE q.ed # e /\ q \in req
    <3>1. q.ed \in Ed \ {e} /\ ed'[q.ed] = ed[q.ed] /\ Follows(q, ed[q.ed])
      BY <1>1, <1>2, <1>7, <2>2 DEF CalmInv
    <3>2. ~Quiet(ed[q.ed])
      BY <1>1, <2>2 DEF Quiet
    <3>3. row' = row
      BY <1>7, <3>1, <3>2
    <3> QED
      BY <3>1, <3>3 DEF Follows, Carries, Arrived
  <2> QED
    BY <1>7, <2>1, <2>2
<1> QED
  BY <1>3, <1>4, <1>5, <1>6, <1>7 DEF CalmInv, Sane

\* What typing, and what happens to an image, makes of an editor.
Edited(s, t) ==
    /\ t.at = s.at /\ t.rev = s.rev /\ t.flight = s.flight
    /\ t.ask = s.ask /\ t.wanted = s.wanted
    /\ s.body \subseteq t.body /\ t.body \subseteq t.view
    /\ \/ t.dirty /\ t.status = "dirty"
       \/ /\ t.body = s.body /\ t.dirty = s.dirty /\ t.status = s.status
          /\ t.own = s.own /\ t.stray = s.stray

LEMMA EditedTwice ==
    ASSUME NEW s, NEW t, NEW u, Edited(s, t), Edited(t, u)
    PROVE  Edited(s, u)
BY DEF Edited

LEMMA EditedByEmit ==
    ASSUME NEW s \in EditorType, s.body \subseteq s.view
    PROVE  Edited(s, Emit(s)) /\ Emit(s).blank = s.blank
<1>1. CASE Hole(s)
  BY <1>1 DEF Emit, Edited
<1>2. CASE ~Hole(s)
  <2> DEFINE t == [s EXCEPT !.body = s.view]
  <2>1. Emit(s) = [t EXCEPT !.dirty = TRUE, !.status = "dirty", !.own = TRUE]
    BY <1>2 DEF Emit, scheduleSave
  <2>2. /\ t.at = s.at /\ t.rev = s.rev /\ t.flight = s.flight /\ t.ask = s.ask
        /\ t.wanted = s.wanted /\ t.body = s.view /\ t.view = s.view
        /\ t.blank = s.blank /\ t \in EditorType
    BY DEF EditorType
  <2> HIDE DEF t
  <2> QED
    BY <2>1, <2>2 DEF Edited, EditorType
<1> QED
  BY <1>1, <1>2

LEMMA CalmEdited ==
    ASSUME IInv, CalmInv, NEW e \in Ed, NEW t \in EditorType, Edited(ed[e], t),
           ed' = [ed EXCEPT ![e] = t], UNCHANGED <<kind, row, there, req, chat>>,
           calm' => calm /\ Unhurried(e) /\ ~t.blank
    PROVE  CalmInv'
<1>1. Sane(t) /\ (t.at # "closed" => chat[e] = {})
  BY DEF CalmInv, Sane, Edited
<1>2. ASSUME calm' PROVE Safe(t)
  <2>1. /\ calm /\ there /\ row.text \subseteq ed[e].body /\ Safe(ed[e]) /\ ~t.blank
        /\ Quiet(ed[e]) => ed[e].rev = row.rev
    BY <1>2 DEF CalmInv, Unhurried
  <2> QED
    BY <2>1 DEF Safe, Edited, Quiet
<1>3. ASSUME calm', NEW q \in req, q.ed = e PROVE Follows(q, t)
  <2>1. Follows(q, ed[e])
    BY <1>3 DEF CalmInv
  <2>2. Carries(q, ed[e]) => Carries(q, t)
    BY DEF Carries, Edited
  <2>3. Arrived(ed[e]) => Arrived(t)
    BY DEF Arrived, Edited
  <2> QED
    BY <2>1, <2>2, <2>3 DEF Follows
<1>4. ASSUME calm' PROVE Safe(t)' /\ \A q \in req' : q.ed = e => Follows(q, t)'
  <2>1. Safe(t)'
    BY <1>2, <1>4 DEF Safe, Quiet
  <2>2. \A q \in req' : q.ed = e => Follows(q, t)'
    BY <1>3, <1>4 DEF Follows, Carries, Arrived
  <2> QED
    BY <2>1, <2>2
<1>5. calm' => \A o \in Ed \ {e} : Quiet(ed[o])
  BY DEF Unhurried
<1>6. t.at = "closed" /\ calm' => t.wanted \subseteq chat[e]
  BY DEF CalmInv, CalmAsk, Edited
<1>7. chat' \in [Ed -> SUBSET Edit]
  BY DEF IInv, TypeOK
<1> QED
  BY <1>1, <1>4, <1>5, <1>6, <1>7, CalmStep
\* A person opens an editor, or edits in one, or an upload is over.
LEMMA CalmWriting ==
    ASSUME IInv, CalmInv, NEW e \in Ed,
           \/ Open(e) \/ updateTitle(e) \/ clearTitle(e) \/ updateBody(e) \/ UploadSettled(e)
           \/ insertUploadingImage(e) \/ Cut(e) \/ Undo(e)
    PROVE  CalmInv'
<1>1. /\ ed[e] \in EditorType /\ Sane(ed[e]) /\ ed[e].body \subseteq ed[e].view /\ Ok(ed[e])
      /\ row \in Row /\ chat \in [Ed -> SUBSET Edit] /\ events \in 0..MaxEvents
      /\ calm => ~ed[e].blank
  BY DEF IInv, TypeOK, CalmInv, Sane, Safe, EditorsOk
<1>2. CASE Open(e)
  <2>0. PICK t \in EditorType : t = Editor(row)
    BY <1>1, EditorFresh
  <2>1. /\ t.at = "open" /\ t.body = row.text /\ t.view = row.text
        /\ t.status = "idle" /\ ~t.dirty /\ ~t.flight /\ ~t.own /\ t.stray = 0 /\ t.ask = "no"
        /\ ~t.blank
    BY <2>0 DEF Editor
  <2>2. ed' = [ed EXCEPT ![e] = t] /\ UNCHANGED <<kind, row, there, req, chat, calm>>
    BY <1>2, <2>0 DEF Open
  <2>3. ~ed[e].flight /\ chat[e] = {} /\ \A q \in req : q.ed # e
    <3>1. ed[e].at = "unopened"
      BY <1>2 DEF Open
    <3>2. ~ed[e].flight
      BY <1>1, <3>1 DEF Ok
    <3> QED
      BY <3>1, <3>2 DEF CalmInv, IInv, OneSave
  <2>4. Sane(t) /\ Quiet(t)
    BY <2>1 DEF Sane, Quiet
  <2>5. Safe(t)'
    BY <2>1, <2>2, <2>4 DEF Safe, Quiet
  <2> QED
    BY <1>1, <2>1, <2>2, <2>3, <2>4, <2>5, CalmStep
<1>3. ASSUME NEW t \in EditorType, Edited(ed[e], t), Change(e, t)
      PROVE  CalmInv'
  BY <1>3, CalmEdited DEF Change
<1>4. ASSUME Working(e), events < MaxEvents
      PROVE  /\ Typed(e) \in EditorType /\ Edited(ed[e], Typed(e))
             /\ Typed(e).body \subseteq Typed(e).view /\ Ok(Typed(e)) /\ Typed(e).at = "open"
             /\ Typed(e).view = ed[e].view \cup {events + 1} /\ events + 1 \in Edit
  <2>1. events + 1 \in Edit
    BY <1>1, <1>4, EditAssumption DEF Edit
  <2> QED
    BY <1>1, <1>4, <2>1 DEF Typed, EditorType, Edited, Ok, Working
<1>5. ASSUME NEW blank \in BOOLEAN, Retitle(e, blank) PROVE CalmInv'
  <2> DEFINE t == [Typed(e) EXCEPT !.body = @ \cup {events + 1}, !.blank = blank]
             u == scheduleSave(t)
  <2>1. Change(e, u) /\ Working(e) /\ events < MaxEvents
    BY <1>5 DEF Retitle, Change
  <2>2. /\ t \in EditorType /\ t.at = ed[e].at /\ t.rev = ed[e].rev /\ t.flight = ed[e].flight
        /\ t.ask = ed[e].ask /\ t.wanted = ed[e].wanted /\ t.at = "open"
    BY <1>4, <2>1 DEF EditorType, Edited
  <2>3. t.body = ed[e].body \cup {events + 1} /\ t.view = ed[e].view \cup {events + 1}
    <3>1. Typed(e) = [ed[e] EXCEPT !.view = @ \cup {events + 1}]
      BY DEF Typed
    <3> QED
      BY <1>1, <1>4, <2>1, <3>1 DEF EditorType
  <2> HIDE DEF t
  <2>4. u \in EditorType
    BY <2>2, ScheduleKeeps
  <2>5. Edited(ed[e], u)
    BY <1>1, <2>2, <2>3 DEF scheduleSave, Edited, EditorType
  <2> HIDE DEF u
  <2> QED
    BY <1>3, <2>1, <2>4, <2>5
<1>6. CASE updateBody(e)
  <2>1. Change(e, Emit(Typed(e))) /\ Working(e) /\ events < MaxEvents
    BY <1>6 DEF updateBody, Change
  <2>2. Emit(Typed(e)) \in EditorType
    BY <1>4, <2>1, EmitKeeps
  <2>3. Edited(ed[e], Emit(Typed(e)))
    BY <1>4, <2>1, EditedByEmit, EditedTwice
  <2> QED
    BY <1>3, <2>1, <2>2, <2>3
<1>7. ASSUME NEW to \in {"up", "cut", "stuck", "over"}, Working(e) \/ ed[e].image \in {"up", "cut"}
      PROVE  LET t == [ed[e] EXCEPT !.image = to]
             IN  /\ t \in EditorType /\ Edited(ed[e], t) /\ t.blank = ed[e].blank
                 /\ Emit(t) \in EditorType /\ Edited(ed[e], Emit(t))
                 /\ Emit(t).blank = ed[e].blank
  <2> DEFINE t == [ed[e] EXCEPT !.image = to]
  <2>0. ed[e].at # "unopened"
    BY <1>1, <1>7 DEF Ok, Working
  <2>1. /\ t \in EditorType /\ Edited(ed[e], t) /\ t.body \subseteq t.view /\ Ok(t)
        /\ t.at # "unopened" /\ t.blank = ed[e].blank
    BY <1>1, <2>0 DEF EditorType, Edited, Ok
  <2> HIDE DEF t
  <2>2. Emit(t) \in EditorType /\ Edited(t, Emit(t)) /\ Emit(t).blank = t.blank
    BY <2>1, EmitKeeps, EditedByEmit
  <2>3. Edited(ed[e], Emit(t))
    BY <2>1, <2>2, EditedTwice
  <2> QED
    BY <2>1, <2>2, <2>3 DEF t
<1>8. ASSUME NEW from, NEW to \in {"up", "cut", "stuck"}, Image(e, from, to)
      PROVE  CalmInv'
  <2> DEFINE t == [ed[e] EXCEPT !.image = to]
             u == Emit(t)
  <2>1. u \in EditorType /\ Edited(ed[e], u) /\ u.blank = ed[e].blank
    BY <1>7, <1>8 DEF Image
  <2>2. /\ ed' = [ed EXCEPT ![e] = u] /\ UNCHANGED <<kind, row, there, req, chat>>
        /\ calm' => calm /\ Unhurried(e)
    BY <1>8 DEF Image
  <2> HIDE DEF u
  <2>3. calm' => ~u.blank
    BY <1>1, <2>1, <2>2
  <2> QED
    BY <2>1, <2>2, <2>3, CalmEdited
<1>9. CASE insertUploadingImage(e) \/ Cut(e) \/ Undo(e)
  BY <1>8, <1>9 DEF insertUploadingImage, Cut, Undo
<1>10. CASE UploadSettled(e)
  <2> DEFINE t == [ed[e] EXCEPT !.image = "over"]
             u == IF ed[e].image = "up" THEN Emit(t) ELSE t
  <2>1. u \in EditorType /\ Edited(ed[e], u) /\ u.blank = ed[e].blank
    BY <1>7, <1>10 DEF UploadSettled
  <2>2. /\ ed' = [ed EXCEPT ![e] = u] /\ UNCHANGED <<kind, row, there, req, chat>>
        /\ calm' => calm /\ Unhurried(e)
    BY <1>10 DEF UploadSettled
  <2> HIDE DEF u
  <2>3. calm' => ~u.blank
    BY <1>1, <2>1, <2>2
  <2> QED
    BY <2>1, <2>2, <2>3, CalmEdited
<1> QED
  BY <1>2, <1>5, <1>6, <1>9, <1>10 DEF updateTitle, clearTitle

\* A save begins, or is left to the end of the one under way: of an editor with
\* work under way, or from which a chat is asked for.
LEMMA CalmFlush ==
    ASSUME IInv, CalmInv, NEW e \in Ed, NEW s \in EditorType, Flush(e, s),
           UNCHANGED <<kind, row, there, chat>>,
           s.view = ed[e].view, s.body = ed[e].body, s.rev = ed[e].rev, s.at = ed[e].at,
           s.status = ed[e].status, s.dirty = ed[e].dirty, s.flight = ed[e].flight,
           s.blank = ed[e].blank,
           \/ s.ask = ed[e].ask /\ s.wanted = ed[e].wanted
           \/ s.ask = "flush" /\ s.wanted = s.body /\ s.at = "open" /\ ~s.flight,
           calm' => /\ calm /\ ~Quiet(ed[e]) /\ \A o \in Ed \ {e} : Quiet(ed[o])
    PROVE  CalmInv'
<1>1. /\ Sane(ed[e]) /\ (ed[e].at # "closed" => chat[e] = {})
      /\ chat' \in [Ed -> SUBSET Edit] /\ chat' = chat
      /\ calm => Safe(ed[e]) /\ CalmAsk
  BY DEF IInv, TypeOK, CalmInv
<1>2. CASE s.flight
  <2> DEFINE t == [s EXCEPT !.dirty = TRUE]
  <2>1. ed' = [ed EXCEPT ![e] = t] /\ req' = req
    BY <1>2 DEF Flush
  <2>2. /\ t \in EditorType /\ t.dirty /\ t.flight /\ t.body = s.body /\ t.view = s.view
        /\ t.at = s.at /\ t.status = s.status /\ t.ask = ed[e].ask /\ t.wanted = ed[e].wanted
        /\ t.blank = ed[e].blank
    BY <1>2 DEF EditorType
  <2> HIDE DEF t
  <2>3. Sane(t)
    BY <1>1, <1>2, <2>2 DEF Sane
  <2>4. ASSUME calm' PROVE Safe(t)' /\ \A q \in req' : q.ed = e => Follows(q, t)'
    <3>1. Safe(t)'
      BY <1>1, <2>2, <2>4 DEF Safe, Quiet
    <3>2. ASSUME NEW q \in req, q.ed = e PROVE Follows(q, t)'
      <4>1. Follows(q, ed[e])
        BY <2>4, <3>2 DEF CalmInv
      <4> QED
        BY <2>2, <4>1 DEF Follows, Carries, Arrived
    <3> QED
      BY <2>1, <3>1, <3>2
  <2>5. calm' /\ t.at = "closed" => t.wanted \subseteq chat[e]
    BY <1>1, <2>2 DEF CalmAsk
  <2> QED
    BY <1>1, <2>1, <2>2, <2>3, <2>4, <2>5, CalmStep
<1>3. CASE ~s.flight
  <2> DEFINE t == [s EXCEPT !.flight = TRUE, !.dirty = FALSE, !.status = "saving"]
             p == Request(e, s)
  <2>1. ed' = [ed EXCEPT ![e] = t] /\ req' = req \cup {p}
    BY <1>3 DEF Flush
  <2>2. /\ t \in EditorType /\ ~t.dirty /\ t.flight /\ t.body = s.body /\ t.view = s.view
        /\ t.at = s.at /\ t.status = "saving" /\ t.ask = s.ask /\ t.wanted = s.wanted
        /\ t.blank = ed[e].blank
    BY DEF EditorType
  <2>3. p.ed = e /\ p.stage = "sent" /\ p.text = s.body /\ p.untitled = ed[e].blank /\ p.rev = s.rev
    BY DEF Request
  <2> HIDE DEF t, p
  <2>4. \A q \in req : q.ed # e
    BY <1>3 DEF IInv, OneSave
  <2>5. Sane(t) /\ (t.ask = "flush" => t.wanted = s.body) /\ (t.ask = "create" => t.ask = ed[e].ask /\ t.wanted = ed[e].wanted)
    BY <1>1, <1>3, <2>2 DEF Sane
  <2>6. ASSUME calm' PROVE Safe(t)' /\ Follows(p, t)'
    <3>1. Safe(t)'
      BY <1>1, <2>2, <2>5, <2>6 DEF Safe, Quiet
    <3>2. row.text \subseteq s.body /\ ~ed[e].blank /\ (kind = "page" => s.rev = row.rev)
      BY <1>1, <1>3, <2>6 DEF Safe
    <3> QED
      BY <2>2, <2>3, <2>5, <3>1, <3>2 DEF Follows, Carries
  <2>7. calm' /\ t.at = "closed" => t.wanted \subseteq chat[e]
    BY <1>1, <2>2 DEF CalmAsk
  <2>8. \A q \in req' : q = p \/ (q.ed # e /\ q \in req)
    BY <2>1, <2>4
  <2>9. ASSUME calm', NEW q \in req'
        PROVE  (q.ed = e /\ Follows(q, t)') \/ (q.ed # e /\ q \in req)
    BY <2>3, <2>6, <2>8, <2>9
  <2>10. /\ t.at # "closed" => chat'[e] = {}
         /\ calm' => /\ calm /\ Safe(t)' /\ \A o \in Ed \ {e} : Quiet(ed[o])
                     /\ row.text \subseteq row'.text
                     /\ t.at = "closed" => t.wanted \subseteq chat'[e]
    BY <1>1, <2>2, <2>6, <2>7
  <2> QED
    BY <1>1, <2>1, <2>2, <2>5, <2>9, <2>10, CalmStep
<1> QED
  BY <1>2, <1>3 DEF EditorType

\* The timers, and askAI.
LEMMA CalmSaving ==
    ASSUME IInv, CalmInv, NEW e \in Ed, Autosave(e) \/ askAI(e)
    PROVE  CalmInv'
<1>1. /\ ed[e] \in EditorType /\ Sane(ed[e]) /\ (ed[e].at # "closed" => chat[e] = {})
      /\ chat \in [Ed -> SUBSET Edit] /\ (calm => Safe(ed[e]) /\ CalmAsk /\ Alone)
  BY DEF IInv, TypeOK, CalmInv
<1>2. CASE Autosave(e)
  <2>1. PICK s : /\ \/ ed[e].own /\ s = [ed[e] EXCEPT !.own = FALSE]
                    \/ ed[e].stray > 0 /\ s = [ed[e] EXCEPT !.stray = @ - 1]
                 /\ Flush(e, s)
    BY <1>2 DEF Autosave
  <2>2. /\ s \in EditorType /\ s.view = ed[e].view /\ s.body = ed[e].body /\ s.rev = ed[e].rev
        /\ s.at = ed[e].at /\ s.status = ed[e].status /\ s.dirty = ed[e].dirty
        /\ s.flight = ed[e].flight /\ s.ask = ed[e].ask /\ s.wanted = ed[e].wanted
        /\ s.blank = ed[e].blank
    <3>1. CASE ed[e].own /\ s = [ed[e] EXCEPT !.own = FALSE]
      BY <1>1, <3>1 DEF EditorType
    <3>2. CASE ed[e].stray > 0 /\ s = [ed[e] EXCEPT !.stray = @ - 1]
      BY <1>1, <3>2 DEF EditorType
    <3> QED
      BY <2>1, <3>1, <3>2
  <2>3. ~Quiet(ed[e])
    BY <1>1, <2>1 DEF Quiet, EditorType
  <2>4. UNCHANGED <<kind, row, there, chat, calm>>
    BY <1>2 DEF Autosave
  <2>5. calm => \A o \in Ed \ {e} : Quiet(ed[o])
    BY <1>1, <2>3 DEF Alone
  <2> QED
    BY <2>1, <2>2, <2>3, <2>4, <2>5, CalmFlush
<1>3. CASE askAI(e)
  <2> DEFINE s == [ed[e] EXCEPT !.own = FALSE, !.wanted = ed[e].body]
             t == [s EXCEPT !.ask = "flush"]
             u == [s EXCEPT !.ask = "create"]
  <2>1. /\ ed[e].at = "open" /\ ed[e].ask = "no" /\ UNCHANGED <<kind, row, there, chat>>
        /\ calm' => calm /\ Unhurried(e) /\ ~ed[e].flight
    BY <1>3 DEF askAI, Working
  <2>2. CASE ed[e].dirty /\ ~ed[e].flight
    <3>1. Flush(e, t)
      BY <1>3, <2>2 DEF askAI
    <3>2. /\ t \in EditorType /\ t.view = ed[e].view /\ t.body = ed[e].body /\ t.rev = ed[e].rev
          /\ t.at = ed[e].at /\ t.status = ed[e].status /\ t.dirty = ed[e].dirty
          /\ t.flight = ed[e].flight /\ t.ask = "flush" /\ t.wanted = ed[e].body
          /\ t.blank = ed[e].blank
      BY <1>1 DEF EditorType
    <3>3. calm' => calm /\ ~Quiet(ed[e]) /\ \A o \in Ed \ {e} : Quiet(ed[o])
      BY <2>1, <2>2 DEF Quiet, Unhurried
    <3> HIDE DEF t
    <3> QED
      BY <2>1, <2>2, <3>1, <3>2, <3>3, CalmFlush
  <2>3. CASE ~(ed[e].dirty /\ ~ed[e].flight)
    <3>0. PICK v \in EditorType : v = u
      <4>1. u \in EditorType
        BY <1>1 DEF EditorType
      <4> QED
        BY <4>1
    <3>1. ed' = [ed EXCEPT ![e] = v] /\ req' = req
      BY <1>3, <2>3, <3>0 DEF askAI
    <3>2. /\ v.view = ed[e].view /\ v.body = ed[e].body /\ v.rev = ed[e].rev
          /\ v.at = "open" /\ v.status = ed[e].status /\ v.dirty = ed[e].dirty /\ ~v.own
          /\ v.stray = ed[e].stray /\ v.flight = ed[e].flight /\ v.ask = "create" /\ v.wanted = ed[e].body
          /\ v.blank = ed[e].blank
      BY <1>1, <2>1, <3>0 DEF EditorType
    <3>3. Sane(v)
      BY <1>1, <3>2 DEF Sane
    <3>4. ASSUME calm' PROVE Safe(v)' /\ \A q \in req : q.ed # e
      <4>1. ~ed[e].dirty /\ ~ed[e].flight /\ Safe(ed[e])
        BY <1>1, <2>1, <2>3, <3>4
      <4>2. \A q \in req : q.ed # e
        BY <4>1 DEF IInv, OneSave
      <4>3. Safe(v)'
        BY <2>1, <3>2, <4>1 DEF Safe, Quiet
      <4> QED
        BY <4>2, <4>3
    <3>5. calm' => \A o \in Ed \ {e} : Quiet(ed[o])
      BY <2>1 DEF Unhurried
    <3> QED
      BY <1>1, <2>1, <3>1, <3>2, <3>3, <3>4, <3>5, CalmStep
  <2> QED
    BY <2>2, <2>3
<1> QED
  BY <1>2, <1>3
\* An editor is left, its text is deleted, or its chat is gone to.
LEMMA CalmClosing ==
    ASSUME IInv, CalmInv, NEW e \in Ed, Leave(e) \/ deletePage(e) \/ createChatFromPage(e)
    PROVE  CalmInv'
<1>1. /\ ed[e] \in EditorType /\ Sane(ed[e]) /\ ed[e].body \subseteq ed[e].view
      /\ (ed[e].at # "closed" => chat[e] = {}) /\ row.text \in SUBSET Edit
      /\ chat \in [Ed -> SUBSET Edit] /\ (calm => Safe(ed[e]) /\ CalmAsk /\ Alone)
  BY DEF IInv, TypeOK, CalmInv, Sane, Row
<1>2. PICK t \in EditorType : t = Closed(ed[e])
  BY <1>1, ClosedKeeps
<1>3. /\ t.at = "closed" /\ ~t.own /\ t.ask = "no" /\ t.view = t.body /\ t.body = ed[e].body
      /\ t.rev = ed[e].rev /\ t.status = ed[e].status /\ t.dirty = ed[e].dirty
      /\ t.flight = ed[e].flight /\ t.stray = ed[e].stray /\ t.wanted = {} /\ t.blank = ed[e].blank
  BY <1>1, <1>2 DEF Closed, EditorType
<1>4. Sane(t) /\ (Quiet(ed[e]) => Quiet(t))
  BY <1>1, <1>3 DEF Sane, Quiet
<1>5. CASE Leave(e)
  <2>1. /\ ed[e].at = "open" /\ UNCHANGED <<kind, row, there, req, chat>>
        /\ ed' = [ed EXCEPT ![e] = t] /\ (calm' => calm /\ Quiet(ed[e]))
    BY <1>2, <1>5 DEF Leave, Working
  <2>2. ASSUME calm' PROVE Safe(t)' /\ Quiet(t) /\ \A q \in req : q.ed # e
    <3>1. Quiet(t) /\ Safe(ed[e]) /\ ~ed[e].flight
      BY <1>1, <1>4, <2>1, <2>2 DEF Quiet
    <3>2. Safe(t)'
      BY <1>3, <2>1, <3>1 DEF Safe, Quiet
    <3> QED
      BY <3>1, <3>2 DEF IInv, OneSave
  <2> QED
    BY <1>1, <1>3, <1>4, <2>1, <2>2, CalmStep
<1>6. CASE deletePage(e)
  <2>1. /\ ed[e].at = "open" /\ UNCHANGED <<kind, row, req, chat>>
        /\ ed' = [ed EXCEPT ![e] = t] /\ (calm' => calm /\ \A o \in Ed : Quiet(ed[o]))
    BY <1>2, <1>6 DEF deletePage, Working
  <2>2. ASSUME calm' PROVE Safe(t)' /\ Quiet(t) /\ \A q \in req : q.ed # e
    <3>1. Quiet(t) /\ Safe(ed[e]) /\ ~ed[e].flight
      BY <1>1, <1>4, <2>1, <2>2 DEF Quiet
    <3>2. Safe(t)'
      BY <1>3, <2>1, <3>1 DEF Safe, Quiet
    <3> QED
      BY <3>1, <3>2 DEF IInv, OneSave
  <2> QED
    BY <1>1, <1>3, <1>4, <2>1, <2>2, CalmStep
<1>7. CASE createChatFromPage(e)
  <2>1. /\ ed[e].ask = "create" /\ ed[e].at = "open" /\ chat[e] = {}
        /\ UNCHANGED <<kind, row, there, req>> /\ (calm' => calm)
    BY <1>1, <1>7 DEF createChatFromPage, Sane
  <2>2. CASE there
    <3>0. PICK u \in EditorType : u = [t EXCEPT !.wanted = ed[e].wanted]
      <4>1. [t EXCEPT !.wanted = ed[e].wanted] \in EditorType
        BY <1>1 DEF EditorType
      <4> QED
        BY <4>1
    <3>5. /\ u.at = "closed" /\ u.own = t.own /\ u.ask = "no" /\ u.view = t.view /\ u.body = t.body
          /\ u.rev = t.rev /\ u.status = t.status /\ u.dirty = t.dirty /\ u.blank = t.blank
          /\ u.flight = t.flight /\ u.stray = t.stray /\ u.wanted = ed[e].wanted
      BY <1>3, <3>0 DEF EditorType
    <3>6. Sane(u) /\ (Quiet(ed[e]) => Quiet(u))
      BY <1>4, <3>5 DEF Sane, Quiet
    <3>1. ed' = [ed EXCEPT ![e] = u] /\ chat' = [chat EXCEPT ![e] = row.text]
      BY <1>2, <1>7, <2>2, <3>0 DEF createChatFromPage
    <3>2. /\ chat' \in [Ed -> SUBSET Edit] /\ chat'[e] = row.text
          /\ \A o \in Ed \ {e} : chat'[o] = chat[o]
      BY <1>1, <3>1
    <3>3. ASSUME calm'
          PROVE  /\ Safe(u)' /\ u.wanted \subseteq row.text
                 /\ Quiet(u) \/ \A o \in Ed \ {e} : Quiet(ed[o])
      <4>1. Safe(ed[e]) /\ Alone
        BY <1>1, <2>1, <3>3
      <4>2. Safe(u)'
        BY <1>3, <2>1, <3>5, <3>6, <4>1 DEF Safe, Quiet
      <4>3. u.wanted \subseteq row.text
        BY <2>1, <3>5, <4>1 DEF Safe
      <4> QED
        BY <3>6, <4>1, <4>2, <4>3 DEF Alone
    <3>4. ASSUME calm', NEW q \in req, q.ed = e PROVE Follows(q, u)'
      <4>1. Follows(q, ed[e])
        BY <2>1, <3>4 DEF CalmInv
      <4> QED
        BY <1>3, <2>1, <3>5, <4>1 DEF Follows, Carries, Arrived
    <3> QED
      BY <2>1, <3>1, <3>2, <3>3, <3>4, <3>5, <3>6, CalmStep
  <2>3. CASE ~there
    <3>0. PICK u \in EditorType : u = [ed[e] EXCEPT !.ask = "no", !.wanted = {}]
      <4>1. [ed[e] EXCEPT !.ask = "no", !.wanted = {}] \in EditorType
        BY <1>1 DEF EditorType
      <4> QED
        BY <4>1
    <3>1. /\ u.at = ed[e].at /\ u.ask = "no" /\ u.view = ed[e].view /\ u.body = ed[e].body
          /\ u.rev = ed[e].rev /\ u.status = ed[e].status /\ u.dirty = ed[e].dirty /\ u.own = ed[e].own
          /\ u.flight = ed[e].flight /\ u.stray = ed[e].stray /\ u.wanted = {}
          /\ u.blank = ed[e].blank
      BY <1>1, <3>0 DEF EditorType
    <3>2. ed' = [ed EXCEPT ![e] = u] /\ chat' = chat
      BY <1>7, <2>3, <3>0 DEF createChatFromPage
    <3>3. Sane(u)
      BY <1>1, <3>1 DEF Sane
    <3>4. ASSUME calm' PROVE Safe(u)' /\ Quiet(u) /\ \A q \in req : q.ed # e
      <4>1. Safe(ed[e]) /\ Quiet(ed[e])
        BY <1>1, <2>1, <2>3, <3>4 DEF Safe
      <4>2. Safe(u)' /\ Quiet(u) /\ ~ed[e].flight
        BY <2>1, <3>1, <4>1 DEF Safe, Quiet
      <4> QED
        BY <4>2 DEF IInv, OneSave
    <3> QED
      BY <1>1, <2>1, <3>1, <3>2, <3>3, <3>4, CalmStep
  <2> QED
    BY <2>2, <2>3
<1> QED
  BY <1>5, <1>6, <1>7

\* The server gets on with a request: of the one editor with work under way.
LEMMA CalmServing ==
    ASSUME IInv, CalmInv, NEW q \in req, Read(q) \/ Commit(q) \/ Refresh(q) \/ Conflict(q)
    PROVE  CalmInv'
<1> DEFINE e == q.ed
<1>1. /\ q.ed \in Ed /\ q.ed = e /\ ed[e].flight /\ \A p \in req : p.ed = e => p = q
      /\ row \in Row /\ q \in RequestType /\ chat \in [Ed -> SUBSET Edit] /\ ed \in [Ed -> EditorType]
  BY DEF IInv, TypeOK, RequestType, OneSave
<1>2. /\ Sane(ed[e]) /\ (ed[e].at # "closed" => chat[e] = {})
      /\ calm => Safe(ed[e]) /\ Follows(q, ed[e]) /\ CalmAsk /\ Alone
  BY <1>1 DEF CalmInv
<1>3. calm => /\ there /\ row.text \subseteq ed[e].body /\ \A o \in Ed \ {e} : Quiet(ed[o])
  BY <1>1, <1>2 DEF Safe, Quiet, Alone
<1>4. PICK t \in EditorType : t = ed[e]
  BY <1>1
<1>5. ASSUME NEW p, req' = (req \ {q}) \cup {p}, p.ed = e, ed' = ed,
             UNCHANGED <<kind, there, chat, calm>>,
             calm => row.text \subseteq row'.text /\ row'.text \subseteq t.body /\ Follows(p, t)'
      PROVE  CalmInv'
  <2>1. ed' = [ed EXCEPT ![e] = t]
    BY <1>1, <1>4, <1>5
  <2>2. \A r \in req' : r = p \/ (r.ed # e /\ r \in req)
    BY <1>1, <1>5
  <2>3. ASSUME calm PROVE Safe(t)'
    <3>1. Safe(t) /\ t.flight
      BY <1>1, <1>2, <1>4, <2>3
    <3> QED
      BY <1>3, <1>5, <2>3, <3>1 DEF Safe, Quiet
  <2>4. calm /\ t.at = "closed" => t.wanted \subseteq chat[e]
    BY <1>1, <1>2, <1>4 DEF CalmAsk
  <2>5. ASSUME calm, NEW r \in req'
        PROVE  (r.ed = e /\ Follows(r, t)') \/ (r.ed # e /\ r \in req)
    BY <1>5, <2>2, <2>5
  <2>6. /\ Sane(t) /\ chat' = chat /\ kind' = kind
        /\ t.at # "closed" => chat'[e] = {}
        /\ calm' => /\ calm /\ Safe(t)' /\ \A o \in Ed \ {e} : Quiet(ed[o])
                    /\ row.text \subseteq row'.text
                    /\ t.at = "closed" => t.wanted \subseteq chat'[e]
    BY <1>2, <1>3, <1>4, <1>5, <2>3, <2>4
  <2> QED
    BY <1>1, <2>1, <2>5, <2>6, CalmStep
<1>6. ASSUME NEW stage, NEW seen, Advance(q, stage, seen)
      PROVE  \E p : /\ req' = (req \ {q}) \cup {p} /\ p.ed = e /\ p.stage = stage /\ p.seen = seen
                    /\ p.text = IF stage = "read" THEN q.text ELSE {}
                    /\ p.untitled = (stage = "read" /\ q.untitled)
  <2> DEFINE p == [ed |-> q.ed, stage |-> stage, rev |-> 0, seen |-> seen,
                   text |-> IF stage = "read" THEN q.text ELSE {},
                   untitled |-> stage = "read" /\ q.untitled]
  <2>1. req' = (req \ {q}) \cup {p}
    BY <1>6 DEF Advance
  <2>2. /\ p.ed = e /\ p.stage = stage /\ p.seen = seen
        /\ p.text = IF stage = "read" THEN q.text ELSE {}
        /\ p.untitled = (stage = "read" /\ q.untitled)
    OBVIOUS
  <2> QED
    BY <2>1, <2>2
<1>7. CASE Read(q)
  <2>1. UNCHANGED <<kind, row, there, ed, chat, calm>> /\ q.stage = "sent"
    BY <1>7 DEF Read
  <2>2. PICK stage, seen : /\ Advance(q, stage, seen)
                           /\ calm => stage = "read" /\ seen = row
    BY <1>2, <1>3, <1>7, <2>1 DEF Read, Follows
  <2>3. PICK p : /\ req' = (req \ {q}) \cup {p} /\ p.ed = e /\ p.stage = stage /\ p.seen = seen
                 /\ p.text = IF stage = "read" THEN q.text ELSE {}
                 /\ p.untitled = (stage = "read" /\ q.untitled)
    BY <1>6, <2>2
  <2>4. calm => Follows(p, t)'
    BY <1>2, <1>4, <2>1, <2>2, <2>3 DEF Follows, Carries
  <2> QED
    BY <1>3, <1>4, <1>5, <2>1, <2>3, <2>4
<1>8. CASE Commit(q)
  <2>1. UNCHANGED <<kind, there, ed, chat, calm>> /\ q.stage = "read"
    BY <1>8 DEF Commit
  <2>2. PICK stage, seen : Advance(q, stage, seen) /\ (calm => stage = "written")
    BY <1>3, <1>8 DEF Commit
  <2>3. PICK p : req' = (req \ {q}) \cup {p} /\ p.ed = e /\ p.stage = stage
    BY <1>6, <2>2
  <2>4. ASSUME calm
        PROVE  row.text \subseteq row'.text /\ row'.text \subseteq t.body /\ Follows(p, t)'
    <3>1. Carries(q, t) /\ q.seen = row /\ ~q.untitled
      BY <1>2, <1>4, <2>1, <2>4 DEF Follows
    <3>2. row'.text = q.text
      <4>1. row' = [text |-> IF Put(q, q.seen.text) = q.seen.text THEN row.text
                             ELSE Put(q, row.text),
                    rev  |-> IF kind = "page" THEN q.seen.rev + 1 ELSE row.rev]
        BY <1>3, <1>8, <2>4 DEF Commit
      <4>2. Put(q, q.seen.text) = q.text /\ Put(q, row.text) = q.text
        BY <3>1 DEF Put
      <4> QED
        BY <3>1, <4>1, <4>2
    <3>3. Arrived(t)'
      BY <3>1, <3>2 DEF Carries, Arrived
    <3> QED
      BY <2>2, <2>3, <2>4, <3>1, <3>2, <3>3 DEF Carries, Follows
  <2> QED
    BY <1>5, <2>1, <2>3, <2>4
<1>9. CASE Refresh(q)
  <2>1. UNCHANGED <<kind, row, there, ed, chat, calm>> /\ q.stage \in {"written", "refetch"}
    BY <1>9 DEF Refresh
  <2>2. PICK stage, seen : /\ Advance(q, stage, seen)
                           /\ calm => stage = "answered" /\ seen = row
    BY <1>2, <1>3, <1>9, <2>1 DEF Refresh, Follows
  <2>3. PICK p : req' = (req \ {q}) \cup {p} /\ p.ed = e /\ p.stage = stage /\ p.seen = seen
    BY <1>6, <2>2
  <2>4. calm => Follows(p, t)'
    BY <1>2, <1>4, <2>1, <2>2, <2>3 DEF Follows, Arrived
  <2> QED
    BY <1>3, <1>4, <1>5, <2>1, <2>3, <2>4
<1>10. CASE Conflict(q)
  <2>1. /\ ~calm /\ calm' = calm /\ kind' = kind /\ chat' = chat
        /\ ed' = [ed EXCEPT ![e].status = "conflict"]
    BY <1>2, <1>10 DEF Conflict, Follows
  <2>2. PICK u \in EditorType : u = [ed[e] EXCEPT !.status = "conflict"]
    <3>1. [ed[e] EXCEPT !.status = "conflict"] \in EditorType
      BY <1>1 DEF EditorType
    <3> QED
      BY <3>1
  <2>3. /\ u.at = ed[e].at /\ u.ask = ed[e].ask /\ u.flight = ed[e].flight
        /\ u.body = ed[e].body /\ u.view = ed[e].view /\ u.status = "conflict"
    BY <1>1, <2>2 DEF EditorType
  <2>4. Sane(u) /\ ed' = [ed EXCEPT ![e] = u]
    BY <1>2, <2>1, <2>2, <2>3 DEF Sane
  <2> QED
    BY <1>1, <1>2, <2>1, <2>3, <2>4, CalmStep
<1> QED
  BY <1>7, <1>8, <1>9, <1>10

\* The browser has its answer, or knows that it will have none.
LEMMA CalmAnswered ==
    ASSUME IInv, CalmInv, NEW q \in req, Saved(q) \/ Refetched(q) \/ SaveFailed(q) \/ Lose(q)
    PROVE  CalmInv'
<1> DEFINE e == q.ed
           s == ed[e]
<1>1. /\ q.ed \in Ed /\ s.flight /\ \A p \in req : p.ed = e => p = q
      /\ row \in Row /\ q \in RequestType /\ chat \in [Ed -> SUBSET Edit] /\ s \in EditorType
  BY DEF IInv, TypeOK, RequestType, OneSave
<1>2. /\ Sane(s) /\ (s.at # "closed" => chat[e] = {})
      /\ calm => Safe(s) /\ Follows(q, s) /\ CalmAsk /\ Alone
  BY <1>1 DEF CalmInv
<1>3. calm => /\ there /\ row.text \subseteq s.body /\ \A o \in Ed \ {e} : Quiet(ed[o])
  BY <1>1, <1>2 DEF Safe, Quiet, Alone
\* What the end of a save leaves of an editor.
<1>4. ASSUME NEW r \in EditorType, r.at = s.at
      PROVE  \E t \in EditorType :
                 /\ t = Finally(r) /\ t.view = r.view /\ t.body = r.body /\ t.rev = r.rev
                 /\ t.status = r.status /\ t.dirty = r.dirty /\ ~t.flight /\ t.at = r.at
                 /\ t.wanted = r.wanted /\ (r.dirty => t.own) /\ t.blank = r.blank
                 /\ t.ask = IF r.ask = "flush" THEN "create" ELSE r.ask
  <2>1. s.at # "unopened"
    BY <1>1 DEF IInv, EditorsOk, Ok
  <2>2. Finally(r) \in EditorType
    BY <1>4, <2>1, FinallyKeeps
  <2> DEFINE own == r.own \/ r.dirty
             stray == IF r.own /\ r.dirty THEN r.stray + 1 ELSE r.stray
             ask == IF r.ask = "flush" THEN "create" ELSE r.ask
  <2>3. Finally(r) = [r EXCEPT !.flight = FALSE, !.own = own, !.stray = stray, !.ask = ask]
    BY DEF Finally
  <2>4. own \in BOOLEAN /\ (r.dirty => own)
    BY DEF EditorType
  <2> HIDE DEF own, stray, ask
  <2>5. /\ Finally(r).view = r.view /\ Finally(r).body = r.body /\ Finally(r).rev = r.rev
        /\ Finally(r).status = r.status /\ Finally(r).dirty = r.dirty
        /\ ~Finally(r).flight /\ Finally(r).at = r.at
        /\ Finally(r).wanted = r.wanted /\ Finally(r).own = own /\ Finally(r).ask = ask
        /\ Finally(r).blank = r.blank
    BY <2>3 DEF EditorType
  <2> QED
    BY <2>2, <2>4, <2>5 DEF ask
\* An answer nobody in no hurry gets.
<1>5. ASSUME NEW r \in EditorType, r.at = s.at, r.ask = s.ask, r.body = s.body, r.view = s.view,
             r.dirty = s.dirty, r.status # "saved", ~calm', kind' = kind, chat' = chat,
             ed' = [ed EXCEPT ![e] = Finally(r)]
      PROVE  CalmInv'
  <2>1. PICK t \in EditorType :
                 /\ t = Finally(r) /\ t.view = r.view /\ t.body = r.body
                 /\ t.status = r.status /\ ~t.flight /\ t.at = r.at
                 /\ t.ask = IF r.ask = "flush" THEN "create" ELSE r.ask
    BY <1>4, <1>5
  <2>2. Sane(t)
    BY <1>2, <1>5, <2>1 DEF Sane
  <2> QED
    BY <1>1, <1>2, <1>5, <2>1, <2>2, CalmStep
<1>6. /\ Failed(s) \in EditorType /\ Failed(s).at = s.at /\ Failed(s).ask = s.ask
      /\ Failed(s).body = s.body /\ Failed(s).view = s.view /\ Failed(s).dirty = s.dirty
      /\ Failed(s).status # "saved"
  BY <1>1 DEF Failed, EditorType
<1>7. CASE Saved(q)
  <2> DEFINE status == IF s.dirty THEN "dirty" ELSE "saved"
  <2>1. PICK r \in EditorType : r = [s EXCEPT !.rev = Revision(q), !.status = status]
    <3>1. Revision(q) \in Nat /\ status \in {"dirty", "saved"}
      BY <1>1 DEF Revision, RequestType, EditorType, Row
    <3> HIDE DEF status
    <3>2. [s EXCEPT !.rev = Revision(q), !.status = status] \in EditorType
      BY <1>1, <3>1 DEF EditorType
    <3> QED
      BY <3>2
  <2>2. /\ r.at = s.at /\ r.view = s.view /\ r.body = s.body /\ r.dirty = s.dirty
        /\ r.rev = Revision(q) /\ r.status = status /\ r.ask = s.ask /\ r.wanted = s.wanted
        /\ r.blank = s.blank
    <3> HIDE DEF status
    <3> QED
      BY <1>1, <2>1 DEF EditorType
  <2>3. PICK t \in EditorType :
                 /\ t = Finally(r) /\ t.view = r.view /\ t.body = r.body /\ t.rev = r.rev
                 /\ t.status = r.status /\ t.dirty = r.dirty /\ ~t.flight /\ t.at = r.at
                 /\ t.wanted = r.wanted /\ (r.dirty => t.own) /\ t.blank = r.blank
                 /\ t.ask = IF r.ask = "flush" THEN "create" ELSE r.ask
    BY <1>4, <2>2
  <2>4. /\ ed' = [ed EXCEPT ![e] = t] /\ req' = req \ {q}
        /\ UNCHANGED <<kind, row, there, chat, calm>> /\ q.stage = "answered"
    BY <1>7, <2>1, <2>3 DEF Saved, Answer
  <2>5. Sane(t)
    BY <1>2, <2>2, <2>3 DEF Sane
  <2>6. ASSUME calm PROVE Safe(t)'
    <3>1. Arrived(s) /\ q.seen = row /\ Safe(s)
      BY <1>2, <2>4, <2>6 DEF Follows
    <3>5. ~t.blank /\ (t.status = "dirty" => t.dirty)
      BY <2>2, <2>3, <3>1 DEF Safe
    <3>2. kind = "page" => t.rev = row.rev
      BY <2>2, <2>3, <3>1 DEF Revision
    <3>3. t.ask = "create" => t.wanted \subseteq row.text
      BY <2>2, <2>3, <3>1 DEF Arrived, Safe
    <3>4. ~t.dirty => t.body \subseteq row.text
      BY <2>2, <2>3, <3>1 DEF Arrived
    <3> QED
      BY <1>3, <2>2, <2>3, <2>4, <2>6, <3>2, <3>3, <3>4, <3>5 DEF Safe, Quiet
  <2>7. \A p \in req' : p.ed # e /\ p \in req
    BY <1>1, <2>4
  <2>8. calm /\ t.at = "closed" => t.wanted \subseteq chat[e]
    BY <1>1, <1>2, <2>2, <2>3 DEF CalmAsk
  <2> QED
    BY <1>1, <1>2, <1>3, <2>2, <2>3, <2>4, <2>5, <2>6, <2>7, <2>8, CalmStep
<1>8. CASE Refetched(q)
  <2>1. PICK r \in EditorType : r = [s EXCEPT !.rev = q.seen.rev]
    <3>1. [s EXCEPT !.rev = q.seen.rev] \in EditorType
      BY <1>1 DEF EditorType, RequestType, Row
    <3> QED
      BY <3>1
  <2>2. /\ r.at = s.at /\ r.ask = s.ask /\ r.body = s.body /\ r.view = s.view
        /\ r.dirty = s.dirty /\ r.status = s.status
    BY <1>1, <2>1 DEF EditorType
  <2>3. s.status # "saved"
    BY <1>1, <1>2 DEF Sane
  <2>4. ~calm' /\ kind' = kind /\ chat' = chat /\ ed' = [ed EXCEPT ![e] = Finally(r)]
    BY <1>2, <1>8, <2>1 DEF Refetched, Answer, Follows
  <2> QED
    BY <1>5, <2>2, <2>3, <2>4
<1>9. CASE SaveFailed(q)
  <2>1. ~calm' /\ kind' = kind /\ chat' = chat /\ ed' = [ed EXCEPT ![e] = Finally(Failed(s))]
    BY <1>2, <1>9 DEF SaveFailed, Answer, Follows
  <2> QED
    BY <1>5, <1>6, <2>1
<1>10. CASE Lose(q)
  <2>1. ~calm' /\ kind' = kind /\ chat' = chat /\ ed' = [ed EXCEPT ![e] = Finally(Failed(s))]
    BY <1>10 DEF Lose
  <2> QED
    BY <1>5, <1>6, <2>1
<1> QED
  BY <1>7, <1>8, <1>9, <1>10

LEMMA CalmInit == Init => CalmInv
<1> SUFFICES ASSUME Init PROVE CalmInv
  OBVIOUS
<1>1. \A e \in Ed : /\ ed[e].body = {} /\ ed[e].status = "idle" /\ ed[e].at = "unopened"
                    /\ ~ed[e].dirty /\ ~ed[e].flight /\ ~ed[e].own /\ ed[e].stray = 0
                    /\ ed[e].ask = "no" /\ chat[e] = {} /\ ed[e].wanted = {} /\ ~ed[e].blank
  BY DEF Init, Editor
<1>2. \A e \in Ed : Quiet(ed[e]) /\ Sane(ed[e]) /\ Safe(ed[e])
  BY <1>1 DEF Quiet, Sane, Safe
<1> QED
  BY <1>1, <1>2 DEF Init, CalmInv, Alone, CalmAsk

LEMMA CalmNext == IInv /\ CalmInv /\ [Next]_vars => CalmInv'
<1> SUFFICES ASSUME IInv, CalmInv, [Next]_vars PROVE CalmInv'
  OBVIOUS
<1>1. CASE UNCHANGED vars
  BY <1>1 DEF vars, CalmInv, Sane, Alone, Quiet, Safe, Follows, Carries, Arrived, CalmAsk
<1>2. CASE \E e \in Ed : Person(e) \/ Autosave(e) \/ createChatFromPage(e) \/ UploadSettled(e)
  BY <1>2, CalmWriting, CalmSaving, CalmClosing DEF Person
<1>3. CASE \E q \in req : Serve(q) \/ Lose(q)
  BY <1>3, CalmServing, CalmAnswered DEF Serve
<1> QED
  BY <1>1, <1>2, <1>3 DEF Next, System

LEMMA CalmHolds == Spec => []CalmInv
BY CalmInit, CalmNext, Inductive, PTL DEF Spec

\* For someone who does not hurry the indicator tells the truth: what flush
\* (use-wiki-page-editor.ts, document-editor-client.tsx) calls saved is in the
\* row, and no revision of theirs is refused.
THEOREM SavedIsSaved == Spec => []CalmSaved
<1>1. IInv /\ CalmInv => CalmSaved
  BY DEF IInv, CalmInv, CalmSaved, Sane, Safe
<1> QED
  BY Inductive, CalmHolds, <1>1, PTL

\* An open editor whose dirtyRef is set has a save coming, whatever is typed,
\* lost, refused or answered late: use-wiki-page-editor.ts and
\* document-editor-client.tsx set and clear their timers right.  And to someone
\* who does not hurry, whose requests do not fail, the indicator says "Unsaved"
\* only of an editor that has a save coming.
THEOREM UnsavedIsPending == Spec => []DirtyIsPending
<1>1. IInv /\ CalmInv => DirtyIsPending
  BY DEF IInv, CalmInv, Safe, EditorsOk, Ok, DirtyIsPending, Working
<1> QED
  BY Inductive, CalmHolds, <1>1, PTL

\* And the chat that askAI opens from the page quotes what was in hand.
THEOREM ChatQuotesTheText == Spec => []CalmAsk
<1>1. CalmInv => CalmAsk
  BY DEF CalmInv
<1> QED
  BY CalmHolds, <1>1, PTL
-----------------------------------------------------------------------------

(***************************************************************************)
(* Providers: types                                                        *)
(*                                                                         *)
(* Of the calls under way the invariant needs more than ProvidersTypeOK    *)
(* says of the variables: what a request of each kind carries.             *)
(***************************************************************************)

Rows == [rows : SUBSET Provider, dflt : SUBSET Provider, on : SUBSET Provider]
Choice == [prov : Maybe(Provider), model : Maybe(Model)]
Prefs == [made : BOOLEAN, prov : Maybe(Provider), model : Maybe(Model)]

LoadCall == [by : {"mount", "refetch", "chat"}, op : {"load"},
             list : {"sent", "seed", "commit", "again", "done", "failed"},
             rows : Rows, seen : Choice \cup Prefs,
             pref : {"sent", "insert", "done", "failed"}, got : Choice]
WriteCall == [by : {"page", "chat"},
              op : {"create", "default", "enable", "key", "delete", "put", "pin"},
              p : Maybe(Provider), val : BOOLEAN \cup Maybe(Model),
              at : {"sent", "insert", "read", "refused", "failed", "done"},
              rows : Rows, seen : Choice, clean : BOOLEAN]
Flagged(c) == c.op \in {"create", "default", "enable"}
Sound(c) == /\ c.by = "chat" <=> c.op = "pin"
            /\ Flagged(c) => c.val \in BOOLEAN
            /\ c.op \in {"put", "pin"} => c.val \in Maybe(Model)
            /\ c.op \notin {"put", "pin"} => c.p \in Provider
            /\ c.at = "insert" => c.op = "put"
            /\ c.op = "put" /\ c.at = "done" /\ c.clean => c.seen = [prov |-> c.p, model |-> c.val]

LoadsOk == load \in [Load -> LoadCall \cup {Idle}]
WritesOk == /\ write \in [Write -> WriteCall \cup {Idle}]
            /\ \A w \in Write : write[w].by # None => Sound(write[w])
PageOk == page \in [up : BOOLEAN, list : Rows, pref : Choice, form : Choice]
SelectorOk == selector \in [up : BOOLEAN, list : SUBSET Provider, pin : Choice]
RowsOk == /\ table \in Rows /\ used \subseteq Provider
          /\ table.rows \subseteq used
          /\ table.dflt \subseteq table.rows /\ table.on \subseteq table.rows
PrefOk == pref \in Prefs /\ pref.prov \in Maybe(table.rows)
PinOk == pin \in Choice /\ pin.prov \in Maybe(table.rows)
Counts == /\ gestures \in 0 .. MaxGestures /\ losses \in 0 .. MaxLost
          /\ raced \in BOOLEAN /\ crossed \cup failed \subseteq {"page", "chat"}

SettingsTypes == LoadsOk /\ WritesOk /\ PageOk /\ SelectorOk /\ RowsOk /\ PrefOk /\ PinOk /\ Counts

LEMMA TypesInit == ProvidersInit => SettingsTypes
<1> SUFFICES ASSUME ProvidersInit PROVE SettingsTypes
  OBVIOUS
<1> USE NameAssumption, BoundAssumption DEF None, Maybe
<1>1. PICK rows \in {{}, Old} : LET here == rows # {} IN
          /\ table = [rows |-> rows, dflt |-> {}, on |-> rows] /\ used = rows
          /\ pref = [made |-> here, prov |-> None, model |-> None]
          /\ page = [up |-> here, list |-> table, pref |-> Unset, form |-> Unset]
          /\ selector = [up |-> here, list |-> rows, pin |-> Unset]
  BY DEF ProvidersInit
<1>2. rows \subseteq Provider
  OBVIOUS
<1>3. LoadsOk /\ WritesOk
  BY DEF ProvidersInit, LoadsOk, WritesOk, Idle
<1>4. RowsOk /\ PrefOk /\ PinOk
  BY <1>1, <1>2 DEF ProvidersInit, RowsOk, PrefOk, PinOk, Unset, Rows, Prefs, Choice
<1>5. PageOk /\ SelectorOk
  BY <1>1, <1>2 DEF ProvidersInit, PageOk, SelectorOk, Unset, Rows, Choice
<1>6. Counts
  <2>1. raced \in BOOLEAN
    BY Zenon DEF ProvidersInit
  <2> QED
    BY <2>1 DEF ProvidersInit, Counts
<1> QED
  BY <1>3, <1>4, <1>5, <1>6 DEF SettingsTypes

\* What the calls under way look like.
LEMMA LoadIs ==
  ASSUME SettingsTypes, NEW l \in Load, load[l].by # None
  PROVE  /\ load[l] \in LoadCall /\ load[l].op = "load"
         /\ load[l].by \in {"mount", "refetch", "chat"}
BY DEF SettingsTypes, LoadsOk, Idle, None, LoadCall

LEMMA LoadOf ==
  ASSUME SettingsTypes, NEW l \in Load, load[l].op = "load"
  PROVE  load[l].by # None
BY DEF SettingsTypes, LoadsOk, Idle, None, LoadCall

LEMMA WriteOf ==
  ASSUME SettingsTypes, NEW w \in Write, write[w].op # "none" PROVE write[w].by # None
BY DEF SettingsTypes, WritesOk, Idle, None, WriteCall

LEMMA WriteIs ==
  ASSUME SettingsTypes, NEW w \in Write, write[w].by # None
  PROVE  write[w] \in WriteCall /\ Sound(write[w])
BY DEF SettingsTypes, WritesOk, Idle, None

\* A call whose record becomes c.
LEMMA LoadPut ==
  ASSUME LoadsOk, NEW l \in Load, NEW c \in LoadCall \cup {Idle},
         load' = [load EXCEPT ![l] = c]
  PROVE  LoadsOk' /\ load'[l] = c /\ \A k \in Load \ {l} : load'[k] = load[k]
BY DEF LoadsOk

LEMMA WritePut ==
  ASSUME WritesOk, NEW w \in Write, NEW c \in WriteCall \cup {Idle},
         c.by # None => Sound(c), write' = [write EXCEPT ![w] = c]
  PROVE  WritesOk' /\ write'[w] = c /\ \A v \in Write \ {w} : write'[v] = write[v]
BY DEF WritesOk, Sound, Flagged

-----------------------------------------------------------------------------
(***************************************************************************)
(* Providers: the invariant                                                *)
(***************************************************************************)

\* The providers that are being created, and those there have been.
Creating(c) == c.op = "create" /\ c.at \in {"sent", "read"}
Unborn == { write[w].p : w \in {v \in Write : Creating(write[v])} }
Born == used \ Unborn

\* An id is drawn once: a provider that is still being created is in no list,
\* shown or on its way, and is nobody's pin; one that is gone does not return.
Ids ==
    /\ \A w \in Write : Creating(write[w]) => write[w].p \in used
    /\ \A v, w \in Write : Creating(write[v]) /\ Creating(write[w]) =>
          (write[v].p = write[w].p => v = w)
    /\ table.rows \subseteq Born
    /\ selector.list \subseteq Born /\ selector.pin.prov \in Maybe(Born)
    /\ \A l \in Load : load[l].by # None => load[l].rows.rows \subseteq Born
    /\ \A w \in Write : write[w].by = "chat" =>
          write[w].p \in Maybe(Born) /\ write[w].seen.prov \in Maybe(Born)

\* Unless two were to set a default at once, there is one at most, and whoever
\* is about to set one has read the one there is and will take it away.
Defaults ==
    ~raced => /\ \A p, q \in table.dflt : p = q
              /\ \A w \in Write : SetsDefault(write[w]) =>
                    table.dflt \subseteq write[w].rows.dflt
              /\ \A l \in Load : Seeding(load[l]) => table.dflt = {}

\* The settings page, while its calls do not overlap: it is read or written by
\* one call at a time; when a call is answered the page's share of the tables
\* is what the call has read; and the rest of the page is as the tables are.
ForPage(c) == c.by \in {"mount", "refetch"}
PageLoads == \E l \in Load : ForPage(load[l])
OnePageCall ==
    /\ \A l \in Load : ForPage(load[l]) =>
          /\ page.up <=> load[l].by = "refetch"
          /\ \A k \in Load : ForPage(load[k]) => k = l
    /\ \A w \in Write : write[w].by = "page" =>
          /\ page.up /\ ~PageLoads
          /\ \A v \in Write : write[v].by = "page" => v = w
PageShows ==
    page.up /\ ~PageLoads =>
       /\ (\A w \in Write : write[w].by = "page" => write[w].op = "put") => page.list = table
       /\ (\A w \in Write : write[w].by # "page") => page.pref = Shown(pref)
PageWillShow ==
    /\ \A w \in Write : write[w].op = "put" /\ write[w].at = "done" =>
          write[w].seen = Shown(pref)
    /\ \A l \in Load : ForPage(load[l]) =>
          /\ load[l].list = "done" => load[l].rows = table
          /\ load[l].pref \in {"done", "insert"} => load[l].got = Shown(pref)
PageCalm == "page" \notin crossed \cup failed
PageInv == PageCalm => OnePageCall /\ PageShows /\ PageWillShow

\* The selector, while its choices do not overlap: what is shown, or will be,
\* is the session's pin, or one that a deletion has cleared since.
Agrees(x) == /\ x.model = pin.model
             /\ \/ x.prov = pin.prov
                \/ pin.prov = None /\ x.prov \notin table.rows
Chosen(c) == [prov |-> c.p, model |-> c.val]
OneChoice ==
    /\ \A l \in Load : load[l].by = "chat" =>
          ~selector.up /\ \A k \in Load : load[k].by = "chat" => k = l
    /\ \A w \in Write : write[w].by = "chat" =>
          selector.up /\ \A v \in Write : write[v].by = "chat" => v = w
SelectorShows ==
    /\ selector.up \/ \E l \in Load : load[l].by = "chat"
    /\ \A w \in Write : write[w].by # "chat"
    => Agrees(selector.pin)
SelectorWillShow ==
    \A w \in Write : write[w].by = "chat" =>
       /\ write[w].at = "read" => Agrees(write[w].seen)
       /\ write[w].at = "done" => Agrees(Chosen(write[w]))
SelectorCalm == "chat" \notin crossed \cup failed
SelectorInv == SelectorCalm => OneChoice /\ SelectorShows /\ SelectorWillShow

\* The invariant.
SettingsInv == SettingsTypes /\ Ids /\ Defaults /\ PageInv /\ SelectorInv

-----------------------------------------------------------------------------
(***************************************************************************)
(* Providers: the loads                                                    *)
(***************************************************************************)

\* A load's answers come in; the tables and the tabs stay.
LEMMA LoadMoves ==
  ASSUME SettingsInv, NEW l \in Load, NEW c \in LoadCall, load[l].op = "load",
         load' = [load EXCEPT ![l] = c], c.by = load[l].by,
         UNCHANGED <<table, used, pin, write, tabs, raced, failed>>,
         pref' \in Prefs, Shown(pref') = Shown(pref),
         crossed \subseteq crossed', crossed' \subseteq {"page", "chat"},
         Seeding(c) => Seeding(load[l]) \/ table.dflt = {},
         c.rows.rows \subseteq Born,
         PageCalm' /\ ForPage(c) =>
            /\ c.list = "done" => c.rows = table
            /\ c.pref \in {"done", "insert"} => c.got = Shown(pref)
  PROVE  SettingsInv'
<1>1. /\ load'[l] = c /\ \A k \in Load \ {l} : load'[k] = load[k]
      /\ LoadsOk'
  BY LoadPut DEF SettingsInv, SettingsTypes
<1>2. SettingsTypes'
  <2>1. pref'.prov = pref.prov
    BY DEF Shown, SettingsInv, SettingsTypes, PrefOk, Prefs
  <2> QED
    BY <1>1, <2>1 DEF SettingsInv, SettingsTypes, WritesOk, PageOk, SelectorOk, RowsOk, PrefOk, PinOk, Counts, tabs, history,
        Sound, Flagged
<1>3. load[l].by # None /\ load[l] \in LoadCall
  BY LoadOf, LoadIs DEF SettingsInv
<1>4. Born' = Born /\ \A k \in Load : load'[k].by = load[k].by
  BY <1>1 DEF Born, Unborn, Creating
<1>5. Ids'
  BY <1>1, <1>3, <1>4 DEF SettingsInv, Ids, tabs, Creating, Maybe
<1>6. Defaults'
  BY <1>1, <1>3 DEF SettingsInv, Defaults, SetsDefault, Seeding
<1>7. PageInv'
  BY <1>1, <1>3, <1>4 DEF SettingsInv, PageInv, PageCalm, OnePageCall, PageShows, PageWillShow, PageLoads, ForPage, tabs
<1>8. SelectorInv'
  BY <1>1, <1>3, <1>4 DEF SettingsInv, SelectorInv, SelectorCalm, OneChoice, SelectorShows, SelectorWillShow, Agrees, Chosen, tabs
<1> QED
  BY <1>2, <1>5, <1>6, <1>7, <1>8 DEF SettingsInv

LEMMA list_providersKeeps ==
  ASSUME SettingsInv, NEW l \in Load, list_providers(l) PROVE SettingsInv'
<1>1. load[l] \in LoadCall /\ load[l].op = "load" /\ table \in Rows
  BY LoadOf, LoadIs DEF SettingsInv, SettingsTypes, RowsOk, list_providers
<1>2. PICK c : /\ c = [load[l] EXCEPT !.list = IF table.rows = {} /\ @ = "sent" THEN "seed"
                                               ELSE "done",
                                      !.rows = table]
               /\ load' = [load EXCEPT ![l] = c]
  BY DEF list_providers, SettingsInv, SettingsTypes, LoadsOk
<1>3. /\ c \in LoadCall /\ c.by = load[l].by /\ c.rows = table
      /\ c.list \in {"seed", "done"} /\ c.pref = load[l].pref /\ c.got = load[l].got
  BY <1>1, <1>2 DEF LoadCall
<1>4. ForPage(c) /\ PageCalm =>
         (c.pref \in {"done", "insert"} => c.got = Shown(pref))
  BY <1>3 DEF SettingsInv, PageInv, PageWillShow, ForPage
<1>5. /\ UNCHANGED <<table, used, pin, write, tabs, raced, failed, pref>>
      /\ crossed \subseteq crossed' /\ crossed' \subseteq {"page", "chat"}
  BY DEF list_providers, database, history, SettingsInv, SettingsTypes, Counts
<1>6. (Seeding(c) => Seeding(load[l]) \/ table.dflt = {}) /\ c.rows.rows \subseteq Born
  BY <1>1, <1>2, <1>3, <1>4 DEF Seeding, SettingsInv, Ids
<1>7. pref' \in Prefs /\ Shown(pref') = Shown(pref)
  BY <1>1, <1>2, <1>3, <1>4, <1>5 DEF SettingsInv, SettingsTypes, PrefOk, Shown
<1>8. PageCalm' => PageCalm
  BY <1>5 DEF PageCalm
<1> QED
  BY <1>1, <1>2, <1>3, <1>4, <1>5, <1>6, <1>7, <1>8, LoadMoves

LEMMA seed_defaultKeeps ==
  ASSUME SettingsInv, NEW l \in Load, seed_default(l) PROVE SettingsInv'
<1>1. /\ load[l] \in LoadCall /\ load[l].op = "load" /\ load[l].by # None
      /\ pref \in Choice \cup Prefs
  BY LoadOf, LoadIs DEF SettingsInv, SettingsTypes, PrefOk, seed_default
<1>2. PICK c : /\ c = [load[l] EXCEPT !.list = IF table.rows = {} THEN "commit" ELSE "done",
                                      !.seen = pref]
               /\ load' = [load EXCEPT ![l] = c]
  BY DEF seed_default, SettingsInv, SettingsTypes, LoadsOk
<1>3. /\ c \in LoadCall /\ c.by = load[l].by /\ c.rows = load[l].rows
      /\ c.list \in {"commit", "done"} /\ c.pref = load[l].pref /\ c.got = load[l].got
      /\ c.list = IF table.rows = {} THEN "commit" ELSE "done"
  BY <1>1, <1>2 DEF LoadCall
<1>4. ForPage(c) /\ PageCalm =>
         (c.pref \in {"done", "insert"} => c.got = Shown(pref))
  BY <1>3 DEF SettingsInv, PageInv, PageWillShow, ForPage
<1>5. PageCalm' => PageCalm /\ c.list = "commit"
  BY <1>3 DEF PageCalm, seed_default, history
<1>6. c.list = "commit" => table.dflt = {}
  BY <1>3 DEF SettingsInv, SettingsTypes, RowsOk
<1>7. /\ UNCHANGED <<table, used, pin, write, tabs, raced, failed, pref>>
      /\ crossed \subseteq crossed' /\ crossed' \subseteq {"page", "chat"}
  BY DEF seed_default, database, history, SettingsInv, SettingsTypes, Counts
<1>8. (Seeding(c) => Seeding(load[l]) \/ table.dflt = {}) /\ c.rows.rows \subseteq Born
  BY <1>1, <1>2, <1>3, <1>4, <1>5, <1>6 DEF Seeding, SettingsInv, Ids
<1>9. pref' \in Prefs /\ Shown(pref') = Shown(pref)
  BY <1>1, <1>2, <1>3, <1>4, <1>5, <1>6, <1>7 DEF SettingsInv, SettingsTypes, PrefOk, Shown
<1>10. PageCalm' => PageCalm
  BY <1>7 DEF PageCalm
<1> QED
  BY <1>1, <1>2, <1>3, <1>4, <1>5, <1>6, <1>7, <1>8, <1>9, <1>10, LoadMoves

LEMMA get_preferencesKeeps ==
  ASSUME SettingsInv, NEW l \in Load, get_preferences(l) PROVE SettingsInv'
<1>1. /\ load[l] \in LoadCall /\ load[l].op = "load" /\ load[l].by # None
      /\ Shown(pref) \in Choice
  BY LoadOf, LoadIs DEF SettingsInv, SettingsTypes, PrefOk, get_preferences, Shown, Prefs, Choice
<1>2. PICK c : /\ c = [load[l] EXCEPT !.pref = IF pref.made THEN "done" ELSE "insert",
                                      !.got = Shown(pref)]
               /\ load' = [load EXCEPT ![l] = c]
  BY DEF get_preferences, SettingsInv, SettingsTypes, LoadsOk
<1>3. /\ c \in LoadCall /\ c.by = load[l].by /\ c.rows = load[l].rows
      /\ c.list = load[l].list /\ c.got = Shown(pref)
  BY <1>1, <1>2 DEF LoadCall
<1>4. ForPage(c) /\ PageCalm => (c.list = "done" => c.rows = table)
  BY <1>3 DEF SettingsInv, PageInv, PageWillShow, ForPage
<1>5. /\ UNCHANGED <<table, used, pin, write, tabs, raced, failed, pref>>
      /\ crossed \subseteq crossed' /\ crossed' \subseteq {"page", "chat"}
  BY DEF get_preferences, database, history, SettingsInv, SettingsTypes, Counts
<1>6. (Seeding(c) => Seeding(load[l]) \/ table.dflt = {}) /\ c.rows.rows \subseteq Born
  BY <1>1, <1>2, <1>3, <1>4 DEF Seeding, SettingsInv, Ids
<1>7. pref' \in Prefs /\ Shown(pref') = Shown(pref)
  BY <1>1, <1>2, <1>3, <1>4, <1>5 DEF SettingsInv, SettingsTypes, PrefOk, Shown
<1>8. PageCalm' => PageCalm
  BY <1>5 DEF PageCalm
<1> QED
  BY <1>1, <1>2, <1>3, <1>4, <1>5, <1>6, <1>7, <1>8, LoadMoves

LEMMA get_or_create_prefKeeps ==
  ASSUME SettingsInv, NEW l \in Load, get_or_create_pref(l) PROVE SettingsInv'
<1>1. load[l] \in LoadCall /\ load[l].op = "load" /\ load[l].by # None /\ pref \in Prefs
  BY LoadOf, LoadIs DEF SettingsInv, SettingsTypes, PrefOk, get_or_create_pref
<1>2. PICK c : /\ c = [load[l] EXCEPT !.pref = IF pref.made THEN "failed" ELSE "done"]
               /\ load' = [load EXCEPT ![l] = c]
  BY DEF get_or_create_pref, SettingsInv, SettingsTypes, LoadsOk
<1>3. /\ c \in LoadCall /\ c.by = load[l].by /\ c.rows = load[l].rows
      /\ c.list = load[l].list /\ c.got = load[l].got
  BY <1>1, <1>2 DEF LoadCall
<1>4. ForPage(c) /\ PageCalm => /\ c.list = "done" => c.rows = table
                                /\ c.got = Shown(pref)
  BY <1>3 DEF SettingsInv, PageInv, PageWillShow, ForPage, get_or_create_pref
<1>5. pref' \in Prefs /\ Shown(pref') = Shown(pref)
  BY <1>1 DEF get_or_create_pref, Prefs, Shown
<1>6. /\ UNCHANGED <<table, used, pin, write, tabs, raced, failed>>
      /\ crossed \subseteq crossed' /\ crossed' \subseteq {"page", "chat"}
  BY DEF get_or_create_pref, database, history, SettingsInv, SettingsTypes, Counts
<1>7. (Seeding(c) => Seeding(load[l]) \/ table.dflt = {}) /\ c.rows.rows \subseteq Born
  BY <1>1, <1>2, <1>3, <1>4, <1>5 DEF Seeding, SettingsInv, Ids
<1>8. pref' \in Prefs /\ Shown(pref') = Shown(pref)
  BY <1>1, <1>2, <1>3, <1>4, <1>5, <1>6 DEF SettingsInv, SettingsTypes, PrefOk, Shown
<1>9. PageCalm' => PageCalm
  BY <1>6 DEF PageCalm
<1> QED
  BY <1>1, <1>2, <1>3, <1>4, <1>5, <1>6, <1>7, <1>8, <1>9, LoadMoves


\* A row that is added has an id that nothing has seen.
LEMMA StillAgrees ==
  ASSUME NEW x, Agrees(x), x.prov \in Maybe(Born), NEW p, p \notin Born, p # None,
         table'.rows = table.rows \cup {p}, pin' = pin
  PROVE  Agrees(x)'
BY DEF Agrees, Maybe

LEMMA seed_commitKeeps ==
  ASSUME SettingsInv, NEW l \in Load, seed_commit(l) PROVE SettingsInv'
<1>1. /\ load[l] \in LoadCall /\ load[l].op = "load" /\ load[l].by # None
      /\ load[l].by \in {"mount", "refetch", "chat"} /\ load[l].list = "commit"
      /\ Seeding(load[l]) /\ Unset \in Choice
  BY LoadOf, LoadIs DEF SettingsInv, seed_commit, Seeding, Unset, Choice, Maybe
<1>2. PICK s \in Seed :
         \/ /\ load' = [load EXCEPT ![l].list = "failed", ![l].seen = Unset]
            /\ UNCHANGED <<database, write, tabs, history>>
         \/ /\ s \notin used /\ ~Conflicts(l, s)
            /\ table' = [rows |-> table.rows \cup {s}, dflt |-> table.dflt \cup {s},
                         on |-> table.on \cup {s}]
            /\ used' = used \cup {s}
            /\ pref' = [made |-> TRUE, prov |-> s,
                        model |-> IF load[l].seen.model = None THEN SeedModel
                                  ELSE pref.model]
            /\ load' = [load EXCEPT ![l].list = "again", ![l].seen = Unset]
            /\ raced' = (raced \/ DefaultPending(l))
            /\ crossed' = IF Owner(load[l].by) = "page" /\ load[l].pref = "sent"
                          THEN crossed ELSE crossed \cup {"page"}
            /\ UNCHANGED <<pin, write, tabs, failed>>
  BY DEF seed_commit
<1>3. PICK to \in {"failed", "again"}, c \in LoadCall :
         /\ c = [load[l] EXCEPT !.list = to, !.seen = Unset]
         /\ load' = [load EXCEPT ![l] = c]
         /\ to = "failed" => UNCHANGED <<database, write, tabs, history>>
         /\ to = "again" =>
            /\ s \notin used
            /\ table' = [rows |-> table.rows \cup {s}, dflt |-> table.dflt \cup {s},
                         on |-> table.on \cup {s}]
            /\ used' = used \cup {s}
            /\ pref' = [made |-> TRUE, prov |-> s,
                        model |-> IF load[l].seen.model = None THEN SeedModel
                                  ELSE pref.model]
            /\ raced' = (raced \/ DefaultPending(l))
            /\ crossed' = IF Owner(load[l].by) = "page" /\ load[l].pref = "sent"
                          THEN crossed ELSE crossed \cup {"page"}
            /\ UNCHANGED <<pin, write, tabs, failed>>
  BY <1>1, <1>2 DEF SettingsInv, SettingsTypes, LoadsOk, LoadCall
<1>4. /\ c \in LoadCall /\ c.by = load[l].by /\ c.rows = load[l].rows
      /\ c.list = to /\ c.pref = load[l].pref /\ c.got = load[l].got /\ c.op = "load"
  BY <1>1, <1>3 DEF LoadCall
<1>5. CASE to = "failed"
  <2>1. /\ UNCHANGED <<table, used, pin, write, tabs, raced, failed, pref, crossed>>
        /\ crossed \subseteq {"page", "chat"}
    BY <1>3, <1>5 DEF database, history, SettingsInv, SettingsTypes, Counts
  <2>2. (Seeding(c) => Seeding(load[l]) \/ table.dflt = {}) /\ c.rows.rows \subseteq Born
    BY <1>1, <1>4 DEF Seeding, SettingsInv, Ids
  <2>3. pref' \in Prefs /\ Shown(pref') = Shown(pref)
    BY <2>1 DEF SettingsInv, SettingsTypes, PrefOk, Shown
  <2>4. ForPage(c) /\ PageCalm =>
           (c.pref \in {"done", "insert"} => c.got = Shown(pref))
    BY <1>4 DEF SettingsInv, PageInv, PageWillShow, ForPage
  <2>5. PageCalm' => PageCalm
    BY <2>1 DEF PageCalm
  <2> QED
    BY <1>1, <1>3, <1>4, <1>5, <2>1, <2>2, <2>3, <2>4, <2>5, LoadMoves
<1>6. CASE to = "again"
  <2>1. /\ load'[l] = c /\ \A k \in Load \ {l} : load'[k] = load[k]
        /\ LoadsOk' /\ \A k \in Load : load'[k].by = load[k].by
    BY <1>3, <1>4, LoadPut DEF SettingsInv, SettingsTypes
  <2>2. s \in Provider /\ s # None /\ s \notin used
    BY <1>3, <1>6, NameAssumption
  <2>3. SettingsTypes'
    <3>1. RowsOk'
      BY <1>3, <1>6, <2>2 DEF SettingsInv, SettingsTypes, RowsOk, Rows
    <3>2. PrefOk'
      <4>1. pref'.model \in Maybe(Model) /\ pref'.made = TRUE /\ pref'.prov = s
        BY <1>3, <1>6, NameAssumption DEF SettingsInv, SettingsTypes, PrefOk, Prefs, Maybe
      <4>2. pref' = [made |-> pref'.made, prov |-> pref'.prov, model |-> pref'.model]
        BY <1>3, <1>6
      <4>3. s \in table'.rows
        BY <1>3, <1>6
      <4> QED
        BY <2>2, <4>1, <4>2, <4>3 DEF PrefOk, Prefs, Maybe
    <3>3. PinOk'
      BY <1>3, <1>6 DEF SettingsInv, SettingsTypes, PinOk, Maybe
    <3>4. Counts'
      <4>1. raced' \in BOOLEAN
        BY <1>3, <1>6, Zenon DEF SettingsInv, SettingsTypes, Counts
      <4> QED
        BY <1>3, <1>6, <4>1 DEF SettingsInv, SettingsTypes, Counts, tabs
    <3> QED
      BY <1>3, <1>6, <2>1, <3>1, <3>2, <3>3, <3>4
         DEF SettingsInv, SettingsTypes, WritesOk, PageOk, SelectorOk, tabs, Sound, Flagged
  <2>4. Unborn' = Unborn /\ s \notin Unborn /\ Born' = Born \cup {s} /\ s \notin Born
    BY <1>3, <1>6, <2>2 DEF SettingsInv, Ids, Born, Unborn, Creating
  <2>5. Ids'
    BY <1>1, <1>3, <1>4, <1>6, <2>1, <2>2, <2>4 DEF SettingsInv, Ids, Creating, Maybe, tabs
  <2>6. Defaults'
    <3> SUFFICES ASSUME ~raced' PROVE Defaults'
      BY DEF Defaults
    <3>1. ~raced /\ ~DefaultPending(l)
      BY <1>3, <1>6
    <3>2. /\ \A w \in Write : ~SetsDefault(write[w])
          /\ \A k \in Load \ {l} : ~Seeding(load[k])
      BY <3>1, SlotAssumption DEF DefaultPending
    <3>3. table.dflt = {}
      BY <1>1, <3>1 DEF SettingsInv, Defaults
    <3>4. table'.dflt = {s} /\ write' = write
      BY <1>3, <1>6, <3>3
    <3>5. ~Seeding(c)
      BY <1>4, <1>6 DEF Seeding
    <3> QED
      BY <2>1, <3>2, <3>4, <3>5 DEF Defaults, SetsDefault, Seeding
  <2>7. PageInv'
    <3> SUFFICES ASSUME PageCalm' PROVE PageInv'
      BY DEF PageInv
    <3>1. PageCalm /\ Owner(load[l].by) = "page" /\ load[l].pref = "sent"
      BY <1>3, <1>6 DEF PageCalm
    <3>2. ForPage(load[l])
      BY <1>1, <3>1 DEF Owner, ForPage
    <3>3. /\ \A k \in Load : ForPage(load[k]) => k = l
          /\ \A w \in Write : write[w].by # "page"
      BY <3>1, <3>2 DEF SettingsInv, PageInv, OnePageCall, PageLoads
    <3>4. \A w \in Write : write[w].op # "put"
      <4> SUFFICES ASSUME NEW w \in Write, write[w].op = "put" PROVE FALSE
        OBVIOUS
      <4>1. write[w].by # None
        BY WriteOf DEF SettingsInv
      <4> QED
        BY <3>3, <4>1, WriteIs DEF SettingsInv, WriteCall, Sound
    <3>5. write' = write /\ page' = page
      BY <1>3, <1>6 DEF tabs
    <3>6. \A k \in Load : ForPage(load'[k]) <=> ForPage(load[k])
      BY <2>1 DEF ForPage
    <3>7. OnePageCall' /\ PageShows'
      BY <2>1, <3>1, <3>2, <3>3, <3>5, <3>6
         DEF SettingsInv, PageInv, OnePageCall, PageShows, PageLoads
    <3>8. PageWillShow'
      BY <1>4, <1>6, <2>1, <3>1, <3>3, <3>4, <3>5, <3>6 DEF PageWillShow
    <3> QED
      BY <3>7, <3>8 DEF PageInv
  <2>8. SelectorInv'
    <3> SUFFICES ASSUME SelectorCalm' PROVE SelectorInv'
      BY DEF SelectorInv
    <3>1. SelectorCalm /\ pin' = pin /\ write' = write /\ selector' = selector
      BY <1>3, <1>6 DEF SelectorCalm, tabs
    <3>2. OneChoice'
      BY <2>1, <3>1 DEF SettingsInv, SelectorInv, OneChoice
    <3>3. \A x : Agrees(x) /\ x.prov \in Maybe(Born) => Agrees(x)'
      BY <1>3, <1>6, <2>2, <2>4, StillAgrees
    <3>4. SelectorShows'
      BY <2>1, <3>1, <3>3 DEF SettingsInv, Ids, SelectorInv, SelectorShows
    <3>5. SelectorWillShow'
      BY <3>1, <3>3 DEF SettingsInv, Ids, SelectorInv, SelectorWillShow, Chosen
    <3> QED
      BY <3>2, <3>4, <3>5 DEF SelectorInv
  <2> QED
    BY <2>3, <2>5, <2>6, <2>7, <2>8 DEF SettingsInv
<1> QED
  BY <1>5, <1>6

\* A load begins with nothing read.
LEMMA LoadingIs ==
  ASSUME NEW by \in {"mount", "refetch", "chat"}
  PROVE  /\ Loading(by) \in LoadCall /\ Loading(by).by = by /\ Loading(by).op = "load"
         /\ Loading(by).rows.rows = {} /\ Loading(by).list = "sent"
         /\ Loading(by).pref = "sent" /\ ~Seeding(Loading(by))
BY DEF Loading, LoadCall, NoRows, Unset, Rows, Choice, Maybe, Seeding

LEMMA ProvidersPageKeeps ==
  ASSUME SettingsInv, NEW l \in Load, ProvidersPage(l) PROVE SettingsInv'
<1>1. PICK c : c = Loading("mount")
  OBVIOUS
<1>2. /\ c \in LoadCall /\ c.by = "mount" /\ c.rows.rows = {}
      /\ c.list = "sent" /\ c.pref = "sent" /\ ~Seeding(c)
  BY <1>1, LoadingIs
<1>3. /\ load' = [load EXCEPT ![l] = c] /\ load[l].by = None
      /\ ~page.up /\ \A k \in Load : load[k].by # "mount"
      /\ UNCHANGED <<database, write, page, selector, losses, history>>
      /\ gestures' \in 0..MaxGestures
  BY <1>1, BoundAssumption DEF ProvidersPage, Begin, Free, SettingsInv, SettingsTypes, Counts
<1>4. /\ load'[l] = c /\ \A k \in Load \ {l} : load'[k] = load[k]
      /\ LoadsOk'
  BY <1>2, <1>3, LoadPut DEF SettingsInv, SettingsTypes
<1>5. SettingsTypes'
  BY <1>3, <1>4 DEF SettingsInv, SettingsTypes, WritesOk, PageOk, SelectorOk, RowsOk, PrefOk, PinOk, Counts,
     database, history, Sound, Flagged
<1>6. Ids'
  <2>1. Born' = Born
    BY <1>3 DEF Born, Unborn, Creating, database
  <2> QED
    BY <1>2, <1>3, <1>4, <2>1 DEF SettingsInv, Ids, database, Creating, Maybe
<1>7. Defaults'
  BY <1>2, <1>3, <1>4 DEF SettingsInv, Defaults, SetsDefault, Seeding, database, history
<1>8. PageInv'
  <2> SUFFICES ASSUME PageCalm' PROVE PageInv'
    BY DEF PageInv
  <2>1. PageCalm
    BY <1>3 DEF PageCalm, history
  <2>2. /\ \A k \in Load : ~ForPage(load[k])
        /\ \A w \in Write : write[w].by # "page"
    BY <1>3, <2>1 DEF SettingsInv, PageInv, OnePageCall, ForPage, SettingsTypes, PageOk
  <2>3. \A k \in Load : ForPage(load'[k]) <=> k = l
    BY <1>2, <1>4, <2>2 DEF ForPage
  <2>4. OnePageCall'
    BY <1>2, <1>3, <1>4, <2>2, <2>3 DEF OnePageCall
  <2>5. PageShows'
    BY <1>3 DEF PageShows
  <2>6. PageWillShow'
    BY <1>2, <1>3, <1>4, <2>1, <2>3 DEF SettingsInv, PageInv, PageWillShow, database, Shown
  <2> QED
    BY <2>4, <2>5, <2>6 DEF PageInv
<1>9. SelectorInv'
  <2>1. \A k \in Load : load'[k].by = "chat" <=> load[k].by = "chat"
    BY <1>2, <1>3, <1>4 DEF None
  <2> QED
    BY <1>3, <2>1 DEF SettingsInv, SelectorInv, SelectorCalm, OneChoice, SelectorShows,
       SelectorWillShow, Agrees, Chosen, database, history
<1> QED
  BY <1>5, <1>6, <1>7, <1>8, <1>9 DEF SettingsInv

LEMMA ChatSessionPageKeeps ==
  ASSUME SettingsInv, NEW l \in Load, ChatSessionPage(l) PROVE SettingsInv'
<1>1. PICK c : c = Loading("chat")
  OBVIOUS
<1>2. /\ c \in LoadCall /\ c.by = "chat" /\ c.rows.rows = {}
      /\ c.list = "sent" /\ c.pref = "sent" /\ ~Seeding(c)
  BY <1>1, LoadingIs
<1>3. /\ load' = [load EXCEPT ![l] = c] /\ load[l].by = None
      /\ ~selector.up /\ \A k \in Load : load[k].by # "chat"
      /\ UNCHANGED <<database, write, page, raced, crossed>>
      /\ gestures' \in 0..MaxGestures /\ losses' \in 0..MaxLost
      /\ \/ selector' = [selector EXCEPT !.pin = pin] /\ failed' = failed
         \/ selector' = selector /\ failed' = failed \cup {"chat"}
  BY <1>1, BoundAssumption DEF ChatSessionPage, Begin, Free, SettingsInv, SettingsTypes, Counts
<1>4. /\ load'[l] = c /\ \A k \in Load \ {l} : load'[k] = load[k]
      /\ LoadsOk'
  BY <1>2, <1>3, LoadPut DEF SettingsInv, SettingsTypes
<1>5. SettingsTypes'
  <2>1. SelectorOk'
    BY <1>3 DEF SettingsInv, SettingsTypes, SelectorOk, PinOk
  <2> QED
    BY <1>3, <1>4, <2>1 DEF SettingsInv, SettingsTypes, WritesOk, PageOk, RowsOk, PrefOk, PinOk, Counts,
       database, Sound, Flagged
<1>6. Ids'
  <2>1. Born' = Born
    BY <1>3 DEF Born, Unborn, Creating, database
  <2>2. selector'.list = selector.list /\ selector'.pin \in {selector.pin, pin}
    BY <1>3 DEF SettingsInv, SettingsTypes, SelectorOk
  <2>3. pin.prov \in Maybe(Born)
    BY DEF SettingsInv, SettingsTypes, PinOk, Ids, Maybe
  <2> QED
    BY <1>2, <1>3, <1>4, <2>1, <2>2, <2>3 DEF SettingsInv, Ids, database, Creating
<1>7. Defaults'
  BY <1>2, <1>3, <1>4 DEF SettingsInv, Defaults, SetsDefault, Seeding, database
<1>8. PageInv'
  <2>1. \A k \in Load : ForPage(load'[k]) <=> ForPage(load[k])
    BY <1>2, <1>3, <1>4 DEF ForPage, None
  <2>2. PageCalm' => PageCalm
    BY <1>3 DEF PageCalm
  <2>3. \A k \in Load : ForPage(load[k]) => load'[k] = load[k]
    BY <1>3, <1>4 DEF ForPage, None
  <2> QED
    BY <1>3, <2>1, <2>2, <2>3 DEF SettingsInv, PageInv, OnePageCall, PageShows, PageWillShow, PageLoads,
       database, Shown
<1>9. SelectorInv'
  <2> SUFFICES ASSUME SelectorCalm' PROVE SelectorInv'
    BY DEF SelectorInv
  <2>1. SelectorCalm /\ selector' = [selector EXCEPT !.pin = pin]
    BY <1>3 DEF SelectorCalm
  <2>2. /\ \A k \in Load : load'[k].by = "chat" <=> k = l
        /\ \A w \in Write : write[w].by # "chat"
    BY <1>2, <1>3, <1>4, <2>1 DEF SettingsInv, SelectorInv, OneChoice
  <2>3. selector'.pin = pin /\ selector'.up = selector.up
    BY <2>1 DEF SettingsInv, SettingsTypes, SelectorOk
  <2> QED
    BY <1>3, <2>2, <2>3 DEF SelectorInv, OneChoice, SelectorShows, SelectorWillShow, Agrees,
       database
<1> QED
  BY <1>5, <1>6, <1>7, <1>8, <1>9 DEF SettingsInv

LEMMA IdleIs == Idle.by = None /\ Idle.by # "chat" /\ Idle.by # "page" /\ ~ForPage(Idle)
                /\ ~Seeding(Idle) /\ ~SetsDefault(Idle) /\ ~Creating(Idle) /\ Idle.op # "put"
BY DEF Idle, None, ForPage, Seeding, SetsDefault, Creating

\* A load is over: rows and got are shown, or nothing is.
LEMMA LoadEnds ==
  ASSUME SettingsInv, NEW l \in Load, load[l].by # None, load' = [load EXCEPT ![l] = Idle],
         UNCHANGED <<database, write, gestures, raced, crossed>>, losses' \in 0..MaxLost,
         failed \subseteq failed', failed' \subseteq {"page", "chat"},
         NEW rows \in Rows, rows.rows \subseteq Born, NEW got \in Choice,
         \/ setLoaded(l, rows, got)
         \/ "page" \in failed' /\ UNCHANGED <<page, selector>> /\ load[l].by # "chat",
         ForPage(load[l]) /\ PageCalm' => rows = table /\ got = Shown(pref)
  PROVE  SettingsInv'
<1>1. /\ load'[l] = Idle /\ \A k \in Load \ {l} : load'[k] = load[k]
      /\ LoadsOk' /\ load[l].by \in {"mount", "refetch", "chat"}
  BY LoadPut, LoadIs DEF SettingsInv, SettingsTypes
<1>2. \/ /\ ForPage(load[l]) /\ selector' = selector
         /\ page' = [up |-> TRUE, list |-> rows, pref |-> got, form |-> got]
      \/ /\ load[l].by = "chat" /\ page' = page
         /\ selector' = [selector EXCEPT !.up = TRUE, !.list = rows.rows]
      \/ ForPage(load[l]) /\ "page" \in failed' /\ UNCHANGED <<page, selector>>
  BY <1>1 DEF setLoaded, Owner, ForPage
<1>3. SettingsTypes'
  <2>1. PageOk'
    <3>1. page' \in {page, [up |-> TRUE, list |-> rows, pref |-> got, form |-> got]}
      BY <1>2
    <3>2. page \in [up : BOOLEAN, list : Rows, pref : Choice, form : Choice]
      BY DEF SettingsInv, SettingsTypes, PageOk
    <3>3. [up |-> TRUE, list |-> rows, pref |-> got, form |-> got]
             \in [up : BOOLEAN, list : Rows, pref : Choice, form : Choice]
      OBVIOUS
    <3> QED
      BY <3>1, <3>2, <3>3 DEF PageOk
  <2>2. rows.rows \subseteq Provider
    BY DEF Rows
  <2>3. SelectorOk'
    BY <1>2, <2>2 DEF SettingsInv, SettingsTypes, SelectorOk
  <2> QED
    BY <1>1, <2>1, <2>3 DEF SettingsInv, SettingsTypes, WritesOk, RowsOk, PrefOk, PinOk, Counts, database,
       Sound, Flagged
<1>4. Ids'
  <2>1. Born' = Born
    BY DEF Born, Unborn, Creating, database
  <2>2. selector'.list \subseteq Born /\ selector'.pin = selector.pin
    BY <1>2 DEF SettingsInv, SettingsTypes, SelectorOk, Ids
  <2> QED
    BY <1>1, <2>1, <2>2, IdleIs DEF SettingsInv, Ids, database, Creating
<1>5. Defaults'
  BY <1>1, IdleIs DEF SettingsInv, Defaults, SetsDefault, Seeding, database
<1>6. PageInv'
  <2> SUFFICES ASSUME PageCalm' PROVE PageInv'
    BY DEF PageInv
  <2>1. PageCalm /\ "page" \notin failed'
    BY DEF PageCalm
  <2>2. CASE ForPage(load[l])
    <3>1. /\ \A k \in Load : ~ForPage(load'[k])
          /\ \A w \in Write : write[w].by # "page"
      BY <1>1, <2>1, <2>2, IdleIs DEF SettingsInv, PageInv, OnePageCall, PageLoads
    <3>2. page'.list = table /\ page'.pref = Shown(pref)
      BY <1>2, <2>1, <2>2 DEF ForPage
    <3> QED
      BY <2>1, <3>1, <3>2 DEF SettingsInv, PageInv, OnePageCall, PageShows, PageWillShow, PageLoads,
         database, Shown
  <2>3. CASE ~ForPage(load[l])
    <3>1. \A k \in Load : /\ ForPage(load'[k]) <=> ForPage(load[k])
                          /\ ForPage(load[k]) => load'[k] = load[k]
      BY <1>1, <2>3, IdleIs
    <3>2. page' = page
      BY <1>2, <2>3
    <3> QED
      BY <2>1, <3>1, <3>2 DEF SettingsInv, PageInv, OnePageCall, PageShows, PageWillShow, PageLoads,
         database, Shown
  <2> QED
    BY <2>2, <2>3
<1>7. SelectorInv'
  <2> SUFFICES ASSUME SelectorCalm' PROVE SelectorInv'
    BY DEF SelectorInv
  <2>1. SelectorCalm
    BY DEF SelectorCalm
  <2>2. CASE load[l].by = "chat"
    <3>1. /\ \A k \in Load : load'[k].by # "chat"
          /\ \A w \in Write : write[w].by # "chat"
      BY <1>1, <2>1, <2>2, IdleIs DEF SettingsInv, SelectorInv, OneChoice
    <3>2. selector'.pin = selector.pin /\ Agrees(selector.pin)
      BY <1>2, <2>1, <2>2, <3>1 DEF SettingsInv, SettingsTypes, SelectorOk, SelectorInv, SelectorShows, ForPage
    <3> QED
      BY <3>1, <3>2 DEF SelectorInv, OneChoice, SelectorShows, SelectorWillShow, Agrees, database
  <2>3. CASE load[l].by # "chat"
    <3>1. /\ \A k \in Load : load'[k].by = "chat" <=> load[k].by = "chat"
          /\ selector' = selector
      BY <1>1, <1>2, <2>3, IdleIs
    <3> QED
      BY <2>1, <3>1 DEF SettingsInv, SelectorInv, OneChoice, SelectorShows, SelectorWillShow, Agrees,
         Chosen, database
  <2> QED
    BY <2>2, <2>3
<1> QED
  BY <1>3, <1>4, <1>5, <1>6, <1>7 DEF SettingsInv

LEMMA loadSettingsKeeps ==
  ASSUME SettingsInv, NEW l \in Load, loadSettings(l) PROVE SettingsInv'
<1>1. load[l].by # None /\ load[l].list = "done" /\ load[l].pref = "done"
  BY DEF loadSettings, Both
<1>2. load[l] \in LoadCall
  BY <1>1, LoadIs DEF SettingsInv
<1>3. PICK rows, got : /\ rows \in Rows /\ got \in Choice
                       /\ rows = load[l].rows /\ got = load[l].got
  BY <1>2 DEF LoadCall
<1>4. setLoaded(l, rows, got) /\ rows.rows \subseteq Born
  BY <1>1, <1>3 DEF loadSettings, SettingsInv, Ids
<1>5. /\ load' = [load EXCEPT ![l] = Idle] /\ losses' \in 0..MaxLost
      /\ UNCHANGED <<database, write, gestures, raced, crossed>>
      /\ failed \subseteq failed' /\ failed' \subseteq {"page", "chat"}
  BY DEF loadSettings, history, SettingsInv, SettingsTypes, Counts
<1>6. ForPage(load[l]) /\ PageCalm' => rows = table /\ got = Shown(pref)
  BY <1>1, <1>3, <1>5 DEF SettingsInv, PageInv, PageCalm, PageWillShow
<1> QED
  BY <1>1, <1>3, <1>4, <1>5, <1>6, LoadEnds

LEMMA loadFailsKeeps ==
  ASSUME SettingsInv, NEW l \in Load, loadFails(l) PROVE SettingsInv'
<1>1. load[l].by \in {"mount", "refetch", "chat"} /\ load[l].by # None
  BY LoadIs DEF loadFails, SettingsInv
<1>2. /\ load' = [load EXCEPT ![l] = Idle]
      /\ UNCHANGED <<database, write, gestures, raced, crossed>>
      /\ failed' = failed \cup {Owner(load[l].by)} /\ failed \subseteq failed'
  BY DEF loadFails
<1>3. losses' \in 0..MaxLost /\ failed' \subseteq {"page", "chat"}
  BY <1>2, BoundAssumption DEF loadFails, SettingsInv, SettingsTypes, Counts, Owner
<1>4. PICK rows \in Rows, got \in Choice : rows = NoRows /\ got = Unset
  BY DEF Rows, NoRows, Choice, Unset, Maybe
<1>5. rows.rows \subseteq Born
  BY <1>4 DEF NoRows
<1>6. ForPage(load[l]) => "page" \in failed'
  BY <1>2 DEF Owner, ForPage
<1>7. \/ setLoaded(l, rows, got)
      \/ "page" \in failed' /\ UNCHANGED <<page, selector>> /\ load[l].by # "chat"
  BY <1>1, <1>2, <1>4 DEF loadFails, Owner
<1>8. ~(ForPage(load[l]) /\ PageCalm')
  BY <1>6 DEF PageCalm
<1> QED
  BY <1>1, <1>2, <1>3, <1>4, <1>5, <1>7, <1>8, LoadEnds

-----------------------------------------------------------------------------
(***************************************************************************)
(* Providers: the requests                                                 *)
(***************************************************************************)

LEMMA UnderwayIs ==
  ASSUME SettingsInv
  PROVE  /\ Underway("page") = {} => /\ \A l \in Load : ~ForPage(load[l])
                                     /\ \A w \in Write : write[w].by # "page"
         /\ Underway("chat") = {} => /\ \A l \in Load : load[l].by # "chat"
                                     /\ \A w \in Write : write[w].by # "chat"
BY DEF Underway, Waits, Owner, ForPage, None

LEMMA WriteBegins ==
  ASSUME SettingsInv, NEW w \in Write, write[w].by = None, NEW c \in WriteCall, Sound(c),
         c.at = "sent", c.seen = Unset, write' = [write EXCEPT ![w] = c],
         UNCHANGED <<table, pref, pin, load, page, selector, losses, raced, failed>>,
         gestures' \in 0..MaxGestures,
         crossed' = IF Underway(c.by) = {} THEN crossed ELSE crossed \cup {c.by},
         \/ c.op # "create" /\ used' = used
         \/ c.op = "create" /\ c.p \in Provider \ used /\ used' = used \cup {c.p},
         c.by = "page" => page.up,
         c.by = "chat" => selector.up /\ c.p \in Maybe(Born)
  PROVE  SettingsInv'
<1>1. /\ write'[w] = c /\ \A v \in Write \ {w} : write'[v] = write[v]
      /\ WritesOk' /\ c.by # None
  BY WritePut DEF SettingsInv, SettingsTypes, WriteCall, None
<1>2. c.by \in {"page", "chat"} /\ crossed \subseteq crossed' /\ crossed' \subseteq {"page", "chat"}
  BY DEF WriteCall, SettingsInv, SettingsTypes, Counts
<1>3. SettingsTypes'
  <2>1. RowsOk'
    BY DEF SettingsInv, SettingsTypes, RowsOk
  <2> QED
    BY <1>1, <1>2, <2>1 DEF SettingsInv, SettingsTypes, LoadsOk, PageOk, SelectorOk, PrefOk, PinOk, Counts
<1>4. ~Creating(write[w]) /\ ~SetsDefault(c)
  BY <1>1, WriteIs, WriteOf DEF SettingsInv, Creating, SetsDefault
<1>5. Born' = Born
  <2>1. CASE c.op # "create" /\ used' = used
    <3>1. \A v \in Write : Creating(write'[v]) <=> Creating(write[v])
      BY <1>1, <1>4, <2>1 DEF Creating
    <3>2. Unborn' = Unborn
      BY <1>1, <1>4, <3>1 DEF Unborn
    <3> QED
      BY <2>1, <3>2 DEF Born
  <2>2. CASE c.op = "create" /\ c.p \in Provider \ used /\ used' = used \cup {c.p}
    <3>1. \A v \in Write : Creating(write'[v]) <=> v = w \/ Creating(write[v])
      BY <1>1, <2>2 DEF Creating
    <3>2. Unborn' = Unborn \cup {c.p}
      BY <1>1, <1>4, <3>1 DEF Unborn
    <3> QED
      BY <2>2, <3>2 DEF Born
  <2> QED
    BY <2>1, <2>2
<1>6. Ids'
  <2>1. \A v \in Write : Creating(write'[v]) => write'[v].p \in used'
    BY <1>1 DEF SettingsInv, Ids, Creating
  <2>2. \A u, v \in Write : Creating(write'[u]) /\ Creating(write'[v]) =>
           (write'[u].p = write'[v].p => u = v)
    <3>1. \A v \in Write \ {w} : Creating(write'[v]) => Creating(write[v]) /\ write[v].p \in used
      BY <1>1 DEF SettingsInv, Ids
    <3>2. Creating(write'[w]) => write'[w].p \notin used
      BY <1>1 DEF Creating
    <3>3. \A u, v \in Write : Creating(write[u]) /\ Creating(write[v]) =>
             (write[u].p = write[v].p => u = v)
      BY DEF SettingsInv, Ids
    <3> SUFFICES ASSUME NEW u \in Write, NEW v \in Write, Creating(write'[u]), Creating(write'[v]),
                        write'[u].p = write'[v].p
                 PROVE  u = v
      OBVIOUS
    <3>4. CASE u = w \/ v = w
      BY <1>1, <3>1, <3>2, <3>4
    <3>5. CASE u # w /\ v # w
      BY <1>1, <3>1, <3>3, <3>5
    <3> QED
      BY <3>4, <3>5
  <2>3. \A v \in Write : write'[v].by = "chat" =>
           write'[v].p \in Maybe(Born) /\ write'[v].seen.prov \in Maybe(Born)
    BY <1>1 DEF SettingsInv, Ids, Unset, Maybe
  <2> QED
    BY <1>5, <2>1, <2>2, <2>3 DEF SettingsInv, Ids
<1>7. Defaults'
  BY <1>1, <1>4 DEF SettingsInv, Defaults
<1>8. PageInv'
  <2> SUFFICES ASSUME PageCalm' PROVE PageInv'
    BY DEF PageInv
  <2>1. PageCalm
    BY <1>2 DEF PageCalm
  <2>2. CASE c.by = "page"
    <3>1. /\ \A l \in Load : ~ForPage(load[l])
          /\ \A v \in Write : write[v].by # "page"
      BY <2>2, UnderwayIs DEF PageCalm
    <3>2. \A v \in Write : write'[v].by = "page" <=> v = w
      BY <1>1, <2>2, <3>1
    <3>3. \A v \in Write : write'[v].op = "put" /\ write'[v].at = "done" => v # w /\ write'[v] = write[v]
      BY <1>1
    <3> QED
      BY <2>1, <2>2, <3>1, <3>2, <3>3
         DEF SettingsInv, PageInv, OnePageCall, PageShows, PageWillShow, PageLoads
  <2>3. CASE c.by = "chat"
    <3>1. \A v \in Write : /\ write'[v].by = "page" <=> write[v].by = "page"
                           /\ write'[v].by = "page" => write'[v] = write[v]
      BY <1>1, <2>3 DEF None
    <3>2. \A v \in Write : write'[v].op = "put" /\ write'[v].at = "done" => write'[v] = write[v]
      BY <1>1
    <3> QED
      BY <2>1, <3>1, <3>2 DEF SettingsInv, PageInv, OnePageCall, PageShows, PageWillShow, PageLoads
  <2> QED
    BY <1>2, <2>2, <2>3
<1>9. SelectorInv'
  <2> SUFFICES ASSUME SelectorCalm' PROVE SelectorInv'
    BY DEF SelectorInv
  <2>1. SelectorCalm
    BY <1>2 DEF SelectorCalm
  <2>2. CASE c.by = "chat"
    <3>1. /\ \A l \in Load : load[l].by # "chat"
          /\ \A v \in Write : write[v].by # "chat"
      BY <2>2, UnderwayIs DEF SelectorCalm
    <3>2. \A v \in Write : write'[v].by = "chat" <=> v = w
      BY <1>1, <2>2, <3>1
    <3> QED
      BY <1>1, <2>1, <2>2, <3>1, <3>2
         DEF SelectorInv, OneChoice, SelectorShows, SelectorWillShow
  <2>3. CASE c.by = "page"
    <3>1. \A v \in Write : /\ write'[v].by = "chat" <=> write[v].by = "chat"
                           /\ write'[v].by = "chat" => write'[v] = write[v]
      BY <1>1, <2>3 DEF None
    <3> QED
      BY <2>1, <3>1 DEF SettingsInv, SelectorInv, OneChoice, SelectorShows, SelectorWillShow, Agrees, Chosen
  <2> QED
    BY <1>2, <2>2, <2>3
<1> QED
  BY <1>3, <1>6, <1>7, <1>8, <1>9 DEF SettingsInv

\* What a gesture sends.
LEMMA SendBegins ==
  ASSUME SettingsInv, NEW w \in Write, NEW by \in {"page", "chat"}, NEW op, NEW p \in Maybe(Provider), NEW val,
         Send(w, by, op, p, val),
         \/ by = "page" /\ page.up /\ op \in {"create", "default", "enable"}
            /\ p \in Provider /\ val \in BOOLEAN
         \/ by = "page" /\ page.up /\ op \in {"key", "delete"} /\ p \in Provider /\ val \in BOOLEAN
         \/ by = "page" /\ page.up /\ op = "put" /\ val \in Maybe(Model)
         \/ by = "chat" /\ selector.up /\ op = "pin" /\ val \in Maybe(Model) /\ p \in Maybe(Born),
         UNCHANGED <<table, pref, pin, load, page, selector, losses, raced, failed>>,
         \/ op # "create" /\ used' = used
         \/ op = "create" /\ p \in Provider \ used /\ used' = used \cup {p}
  PROVE  SettingsInv'
<1>1. PICK c : c = [by |-> by, op |-> op, p |-> p, val |-> val, at |-> "sent",
                    rows |-> NoRows, seen |-> Unset, clean |-> FALSE]
  OBVIOUS
<1>2. /\ c.by = by /\ c.op = op /\ c.p = p /\ c.val = val /\ c.at = "sent" /\ c.seen = Unset
  BY <1>1
<1>3. c \in WriteCall
  <2>1. val \in BOOLEAN \cup Maybe(Model) /\ op \in {"create", "default", "enable", "key", "delete", "put", "pin"}
    OBVIOUS
  <2>2. NoRows \in Rows /\ Unset \in Choice
    BY DEF Rows, NoRows, Choice, Unset, Maybe
  <2> QED
    BY <1>1, <2>1, <2>2 DEF WriteCall
<1>4. Sound(c)
  BY <1>2 DEF Sound, Flagged
<1>5. write[w].by = None /\ write' = [write EXCEPT ![w] = c] /\ gestures' \in 0..MaxGestures
  BY <1>1, BoundAssumption DEF Send, Free, SettingsInv, SettingsTypes, Counts
<1>6. crossed' = IF Underway(c.by) = {} THEN crossed ELSE crossed \cup {c.by}
  BY <1>2 DEF Send
<1> QED
  BY <1>2, <1>3, <1>4, <1>5, <1>6, WriteBegins

LEMMA GestureKeeps ==
  ASSUME SettingsInv, NEW w \in Write, Gesture(w) PROVE SettingsInv'
<1>1. page.list.rows \subseteq Provider /\ page.form \in Choice /\ Provider \subseteq Maybe(Provider)
  BY DEF SettingsInv, SettingsTypes, PageOk, Rows, Maybe
<1>2. CASE save(w) /\ UNCHANGED <<database, load, page, selector, losses, raced, failed>>
  <2>1. PICK p \in Maybe(Provider), val \in Maybe(Model) : p = page.form.prov /\ val = page.form.model
    BY <1>1 DEF Choice
  <2> QED
    BY <1>2, <2>1, SendBegins DEF save, database
<1>3. ASSUME NEW p \in Provider,
             onToggleDefault(w, p) \/ onToggleEnabled(w, p) \/ doDelete(w, p) \/ onSaveKey(w, p),
             UNCHANGED <<database, load, page, selector, losses, raced, failed>>
      PROVE  SettingsInv'
  <2>1. PICK op \in {"default", "enable", "delete", "key"}, val \in BOOLEAN :
           page.up /\ Send(w, "page", op, p, val)
    BY <1>3, Zenon DEF onToggleDefault, onToggleEnabled, doDelete, onSaveKey
  <2> QED
    BY <1>1, <1>3, <2>1, SendBegins DEF database
<1>4. ASSUME NEW p \in Maybe(Provider), NEW m \in Maybe(Model),
             applyPin(w, [prov |-> p, model |-> m]),
             UNCHANGED <<database, load, page, selector, losses, raced, failed>>
      PROVE  SettingsInv'
  <2>1. /\ selector.up /\ Send(w, "chat", "pin", p, m)
        /\ p \in Maybe(selector.list)
    BY <1>4 DEF applyPin, Unset, Maybe
  <2>2. p \in Maybe(Born)
    BY <2>1 DEF SettingsInv, Ids, Maybe
  <2> QED
    BY <1>4, <2>1, <2>2, SendBegins DEF database
<1>5. ASSUME NEW p \in Provider, onSubmit(w, p),
             UNCHANGED <<table, pref, pin, load, page, selector, losses, raced, failed>>
      PROVE  SettingsInv'
  <2>1. PICK val \in BOOLEAN : Send(w, "page", "create", p, val)
    BY <1>5 DEF onSubmit
  <2>2. page.up /\ p \in Provider \ used /\ used' = used \cup {p}
    BY <1>5 DEF onSubmit
  <2> QED
    BY <1>1, <1>5, <2>1, <2>2, SendBegins
<1> QED
  BY <1>2, <1>3, <1>4, <1>5 DEF Gesture

LEMMA editKeeps ==
  ASSUME SettingsInv, NEW form \in Choice, edit(form) PROVE SettingsInv'
<1>1. /\ page' = [page EXCEPT !.form = form] /\ gestures' \in 0..MaxGestures
      /\ UNCHANGED <<database, load, write, selector, losses, history>>
  BY BoundAssumption DEF edit, SettingsInv, SettingsTypes, Counts
<1>2. /\ page'.up = page.up /\ page'.list = page.list /\ page'.pref = page.pref
      /\ PageOk'
  BY <1>1 DEF SettingsInv, SettingsTypes, PageOk
<1>3. SettingsTypes'
  BY <1>1, <1>2 DEF SettingsInv, SettingsTypes, LoadsOk, WritesOk, SelectorOk, RowsOk, PrefOk, PinOk, Counts,
     database, history, Sound, Flagged
<1>4. Ids'
  BY <1>1 DEF SettingsInv, Ids, Born, Unborn, Creating, database
<1>5. Defaults'
  BY <1>1 DEF SettingsInv, Defaults, SetsDefault, Seeding, database, history
<1>6. PageInv'
  BY <1>1, <1>2 DEF SettingsInv, PageInv, PageCalm, OnePageCall, PageShows, PageWillShow, PageLoads,
     ForPage, database, history, Shown
<1>7. SelectorInv'
  BY <1>1 DEF SettingsInv, SelectorInv, SelectorCalm, OneChoice, SelectorShows, SelectorWillShow, Agrees,
     Chosen, database, history
<1> QED
  BY <1>3, <1>4, <1>5, <1>6, <1>7 DEF SettingsInv

\* A request moves on, and may change the database.
LEMMA RequestMoves ==
  ASSUME SettingsInv, NEW w \in Write, write[w].by # None, NEW c \in WriteCall, Sound(c),
         write' = [write EXCEPT ![w] = c], c.by = write[w].by, c.op = write[w].op,
         c.p = write[w].p, Creating(c) => Creating(write[w]),
         c.by = "chat" => c.seen.prov \in Maybe(Born),
         UNCHANGED <<used, load, tabs, crossed, failed>>, raced' \in BOOLEAN,
         RowsOk', PrefOk', PinOk', Defaults', table'.rows \subseteq Born',
         \/ table' = table /\ Shown(pref') = Shown(pref)
         \/ table' = table /\ c.by = "page"
         \/ c.by = "page" /\ c.op # "put",
         c.op = "put" /\ c.at = "done" => c.seen = Shown(pref'),
         c.by = "page" => \A x : Agrees(x) /\ x.prov \in Maybe(Born) => Agrees(x)',
         SelectorCalm /\ c.by = "chat" => /\ c.at = "read" => Agrees(c.seen)'
                                          /\ c.at = "done" => Agrees(Chosen(c))'
  PROVE  SettingsInv'
<1>1. /\ write'[w] = c /\ \A v \in Write \ {w} : write'[v] = write[v]
      /\ WritesOk' /\ \A v \in Write : write'[v].by = write[v].by
  BY WritePut DEF SettingsInv, SettingsTypes
<1>2. SettingsTypes'
  BY <1>1 DEF SettingsInv, SettingsTypes, LoadsOk, PageOk, SelectorOk, Counts, tabs
<1>3. Born \subseteq Born'
  <2>1. \A v \in Write : Creating(write'[v]) => Creating(write[v]) /\ write'[v].p = write[v].p
    BY <1>1
  <2>2. Unborn' \subseteq Unborn
    BY <2>1 DEF Unborn
  <2> QED
    BY <2>2 DEF Born
<1>4. Ids'
  <2>1. \A v \in Write : Creating(write'[v]) => Creating(write[v]) /\ write'[v].p = write[v].p
    BY <1>1
  <2>2. \A v \in Write : write'[v].by = "chat" =>
           write'[v].p \in Maybe(Born') /\ write'[v].seen.prov \in Maybe(Born')
    BY <1>1, <1>3 DEF SettingsInv, Ids, Maybe
  <2>3. /\ selector.list \subseteq Born' /\ selector.pin.prov \in Maybe(Born')
        /\ \A l \in Load : load[l].by # None => load[l].rows.rows \subseteq Born'
    BY <1>3 DEF SettingsInv, Ids, Maybe
  <2> QED
    BY <2>1, <2>2, <2>3 DEF SettingsInv, Ids, tabs
<1>5. PageInv'
  <2> SUFFICES ASSUME PageCalm' PROVE PageInv'
    BY DEF PageInv
  <2>1. PageCalm /\ OnePageCall'
    BY <1>1 DEF PageCalm, SettingsInv, PageInv, OnePageCall, PageLoads, tabs
  <2>2. CASE table' = table /\ Shown(pref') = Shown(pref)
    <3>1. PageShows'
      BY <1>1, <2>1, <2>2 DEF SettingsInv, PageInv, PageShows, PageLoads, tabs
    <3>2. PageWillShow'
      BY <1>1, <2>1, <2>2 DEF SettingsInv, PageInv, PageWillShow
    <3> QED
      BY <2>1, <3>1, <3>2 DEF PageInv
  <2>3. CASE c.by = "page" /\ (table' = table \/ c.op # "put")
    <3>1. /\ \A l \in Load : ~ForPage(load[l])
          /\ \A v \in Write : write[v].by = "page" => v = w
      BY <2>1, <2>3 DEF SettingsInv, PageInv, OnePageCall, PageLoads
    <3>2. \A v \in Write : write'[v].op = "put" => v = w
      <4> SUFFICES ASSUME NEW v \in Write, v # w, write[v].op = "put" PROVE FALSE
        BY <1>1
      <4>1. write[v].by # None
        BY WriteOf DEF SettingsInv
      <4>2. write[v] \in WriteCall /\ Sound(write[v])
        BY <4>1, WriteIs DEF SettingsInv
      <4>3. write[v].by = "page"
        BY <4>2 DEF WriteCall, Sound
      <4> QED
        BY <3>1, <4>3
    <3>3. PageShows'
      BY <1>1, <2>1, <2>3 DEF SettingsInv, PageInv, PageShows, PageLoads, tabs
    <3>4. PageWillShow'
      BY <1>1, <3>1, <3>2 DEF PageWillShow, ForPage
    <3> QED
      BY <2>1, <3>3, <3>4 DEF PageInv
  <2> QED
    BY <2>2, <2>3
<1>6. SelectorInv'
  <2> SUFFICES ASSUME SelectorCalm' PROVE SelectorInv'
    BY DEF SelectorInv
  <2>1. SelectorCalm /\ OneChoice'
    BY <1>1 DEF SelectorCalm, SettingsInv, SelectorInv, OneChoice, tabs
  <2>2. CASE c.by = "chat"
    <3>1. \A v \in Write : write'[v].by = "chat" => v = w
      BY <1>1, <2>1, <2>2 DEF OneChoice
    <3>2. SelectorShows'
      BY <1>1, <2>2 DEF SelectorShows
    <3>3. SelectorWillShow'
      BY <1>1, <2>1, <2>2, <3>1 DEF SelectorWillShow, Agrees, Chosen
    <3> QED
      BY <2>1, <3>2, <3>3 DEF SelectorInv
  <2>3. CASE c.by = "page"
    <3>1. \A v \in Write : write'[v].by = "chat" => write'[v] = write[v]
      BY <1>1, <2>3
    <3>2. SelectorShows'
      <4>1. SelectorShows /\ selector.pin.prov \in Maybe(Born)
        BY <2>1 DEF SettingsInv, SelectorInv, Ids
      <4>2. Agrees(selector.pin) => Agrees(selector.pin)'
        BY <2>3, <4>1 DEF Agrees, tabs
      <4> QED
        BY <1>1, <4>1, <4>2 DEF SelectorShows, tabs
    <3>3. SelectorWillShow'
      BY <1>1, <2>1, <2>3, <3>1 DEF SettingsInv, Ids, SelectorInv, SelectorWillShow, Chosen
    <3> QED
      BY <2>1, <3>2, <3>3 DEF SelectorInv
  <2> QED
    BY <2>2, <2>3 DEF WriteCall
<1> QED
  BY <1>2, <1>4, <1>5, <1>6 DEF SettingsInv

\* Nothing changes but the request, and whether there is a row of preferences.
LEMMA RequestMovesAlone ==
  ASSUME SettingsInv, NEW w \in Write, write[w].by # None, NEW c \in WriteCall, Sound(c),
         write' = [write EXCEPT ![w] = c], c.by = write[w].by, c.op = write[w].op,
         c.p = write[w].p, Creating(c) => Creating(write[w]), c.at # "done",
         c.by = "chat" => c.seen.prov \in Maybe(Born),
         UNCHANGED <<table, used, pin, load, tabs, history>>,
         pref' \in Prefs, Shown(pref') = Shown(pref),
         SetsDefault(c) => table.dflt \subseteq c.rows.dflt,
         SelectorCalm /\ c.by = "chat" /\ c.at = "read" => Agrees(c.seen)
  PROVE  SettingsInv'
<1>1. RowsOk' /\ PinOk' /\ raced' \in BOOLEAN
  <2>1. raced' \in BOOLEAN
    BY Zenon DEF history, SettingsInv, SettingsTypes, Counts
  <2> QED
    BY <2>1 DEF SettingsInv, SettingsTypes, RowsOk, PinOk
<1>2. PrefOk'
  BY DEF SettingsInv, SettingsTypes, PrefOk, Shown, Prefs
<1>3. Defaults'
  <2>1. /\ write'[w] = c /\ \A v \in Write \ {w} : write'[v] = write[v]
    BY WritePut DEF SettingsInv, SettingsTypes
  <2> QED
    BY <2>1 DEF SettingsInv, Defaults, history, Seeding
<1>4. table'.rows \subseteq Born'
  <2>1. /\ write'[w] = c /\ \A v \in Write \ {w} : write'[v] = write[v]
    BY WritePut DEF SettingsInv, SettingsTypes
  <2>2. Unborn' \subseteq Unborn
    BY <2>1 DEF Unborn
  <2> QED
    BY <2>2 DEF SettingsInv, Ids, Born
<1>5. \A x : Agrees(x) => Agrees(x)'
  BY DEF Agrees
<1>6. /\ SelectorCalm /\ c.by = "chat" => /\ c.at = "read" => Agrees(c.seen)'
                                          /\ c.at = "done" => Agrees(Chosen(c))'
      /\ c.by = "page" => \A x : Agrees(x) /\ x.prov \in Maybe(Born) => Agrees(x)'
  BY <1>5
<1>7. UNCHANGED <<used, load, tabs, crossed, failed>> /\ table' = table
  BY DEF history
<1> QED
  BY <1>1, <1>2, <1>3, <1>4, <1>6, <1>7, RequestMoves

\* A handler gives up.
LEMMA EndsKeeps ==
  ASSUME SettingsInv, NEW w \in Write, write[w].by # None, NEW at \in {"refused", "failed"},
         Ends(w, at), UNCHANGED <<database, load, tabs, history>>
  PROVE  SettingsInv'
<1>1. write[w] \in WriteCall /\ Sound(write[w])
  BY WriteIs DEF SettingsInv
<1>2. NoRows \in Rows /\ Unset \in Choice
  BY DEF NoRows, Rows, Unset, Choice, Maybe
<1>3. PICK c : /\ c = [write[w] EXCEPT !.at = at, !.rows = NoRows, !.seen = Unset]
               /\ write' = [write EXCEPT ![w] = c]
  BY DEF Ends, SettingsInv, SettingsTypes, WritesOk
<1>4. /\ c \in WriteCall /\ c.by = write[w].by /\ c.op = write[w].op /\ c.p = write[w].p
      /\ c.val = write[w].val /\ c.at = at /\ c.seen = Unset
  BY <1>1, <1>2, <1>3 DEF WriteCall
<1>5. /\ Sound(c) /\ ~Creating(c) /\ ~SetsDefault(c) /\ c.at \notin {"done", "read"}
      /\ c.seen.prov \in Maybe(Born)
  BY <1>1, <1>4 DEF Sound, Flagged, Creating, SetsDefault, Unset, Maybe
<1>6. /\ UNCHANGED <<table, used, pin, load, tabs, history>>
      /\ pref' \in Prefs /\ Shown(pref') = Shown(pref)
  BY DEF database, SettingsInv, SettingsTypes, PrefOk, Shown
<1> QED
  BY <1>3, <1>4, <1>5, <1>6, RequestMovesAlone

LEMMA ReadsKeeps ==
  ASSUME SettingsInv, NEW w \in Write, Reads(w) PROVE SettingsInv'
<1>1. /\ write[w].by # None /\ write[w].at = "sent" /\ write[w] \in WriteCall /\ Sound(write[w])
      /\ UNCHANGED <<table, used, pin, load, tabs, history>> /\ UNCHANGED database
      /\ pref' \in Prefs /\ Shown(pref') = Shown(pref)
  BY WriteIs DEF Reads, Active, SettingsInv, SettingsTypes, PrefOk, Shown, database
<1>2. CASE write' = [write EXCEPT ![w].at = "insert"] /\ write[w].op = "put"
  <2>1. PICK c : /\ c = [write[w] EXCEPT !.at = "insert"]
                 /\ write' = [write EXCEPT ![w] = c]
    BY <1>2 DEF SettingsInv, SettingsTypes, WritesOk
  <2>2. /\ c \in WriteCall /\ c.by = write[w].by /\ c.op = write[w].op /\ c.p = write[w].p
        /\ c.val = write[w].val /\ c.at = "insert" /\ c.seen = write[w].seen
    BY <1>1, <2>1 DEF WriteCall
  <2>3. /\ Sound(c) /\ ~Creating(c) /\ ~SetsDefault(c)
        /\ c.by = "chat" => c.seen.prov \in Maybe(Born)
    BY <1>1, <1>2, <2>2 DEF Sound, Flagged, Creating, SetsDefault, SettingsInv, Ids
  <2> QED
    BY <1>1, <2>1, <2>2, <2>3, RequestMovesAlone
<1>3. CASE write' = [write EXCEPT ![w].at = "read",
                ![w].seen = CASE write[w].op = "put" -> Shown(pref)
                              [] write[w].op = "pin" -> pin
                              [] OTHER -> Unset,
                ![w].rows = IF write[w].op \in {"create", "default", "enable"} THEN table
                            ELSE NoRows]
  <2>1. PICK seen, rows :
           /\ seen = CASE write[w].op = "put" -> Shown(pref)
                       [] write[w].op = "pin" -> pin
                       [] OTHER -> Unset
           /\ rows = IF write[w].op \in {"create", "default", "enable"} THEN table
                     ELSE NoRows
    OBVIOUS
  <2>2. /\ seen \in Choice /\ rows \in Rows
        /\ write[w].op = "pin" => seen = pin
        /\ write[w].op \in {"create", "default"} => rows = table
    <3>1. Shown(pref) \in Choice /\ pin \in Choice /\ Unset \in Choice
      BY DEF SettingsInv, SettingsTypes, PrefOk, PinOk, Prefs, Choice, Shown, Unset, Maybe
    <3>2. table \in Rows /\ NoRows \in Rows
      BY DEF SettingsInv, SettingsTypes, RowsOk, Rows, NoRows
    <3> QED
      BY <2>1, <3>1, <3>2
  <2>3. PICK c : /\ c = [write[w] EXCEPT !.at = "read", !.seen = seen, !.rows = rows]
                 /\ write' = [write EXCEPT ![w] = c]
    BY <1>3, <2>1 DEF SettingsInv, SettingsTypes, WritesOk
  <2>4. /\ c \in WriteCall /\ c.by = write[w].by /\ c.op = write[w].op /\ c.p = write[w].p
        /\ c.val = write[w].val /\ c.at = "read" /\ c.seen = seen /\ c.rows = rows
    BY <1>1, <2>2, <2>3 DEF WriteCall
  <2>5. Sound(c) /\ (Creating(c) => Creating(write[w]))
    BY <1>1, <2>4 DEF Sound, Flagged, Creating
  <2>6. SetsDefault(c) => table.dflt \subseteq c.rows.dflt
    BY <2>2, <2>4 DEF SetsDefault
  <2>7. c.by = "chat" => Agrees(c.seen) /\ c.seen.prov \in Maybe(Born)
    BY <1>1, <2>2, <2>4 DEF Agrees, Sound, SettingsInv, SettingsTypes, PinOk, Ids, Maybe
  <2> QED
    BY <1>1, <2>3, <2>4, <2>5, <2>6, <2>7, RequestMovesAlone
<1>4. CASE Ends(w, "refused")
  BY <1>1, <1>4, EndsKeeps
<1> QED
  BY <1>2, <1>3, <1>4 DEF Reads

LEMMA put_get_or_createKeeps ==
  ASSUME SettingsInv, NEW w \in Write, put_get_or_create(w) PROVE SettingsInv'
<1>1. /\ write[w].by # None /\ write[w].at = "insert" /\ write[w] \in WriteCall /\ Sound(write[w])
      /\ UNCHANGED <<table, used, pin, load, tabs, history>>
      /\ pref' \in Prefs /\ Shown(pref') = Shown(pref)
  BY WriteIs DEF put_get_or_create, Active, SettingsInv, SettingsTypes, PrefOk, Prefs, Shown
<1>2. PICK at \in {"failed", "sent"}, c \in WriteCall :
         /\ c = [write[w] EXCEPT !.at = at]
         /\ write' = [write EXCEPT ![w] = c]
  BY <1>1 DEF put_get_or_create, SettingsInv, SettingsTypes, WritesOk, WriteCall
<1>3. /\ c \in WriteCall /\ c.by = write[w].by /\ c.op = write[w].op /\ c.p = write[w].p
      /\ c.val = write[w].val /\ c.at = at /\ c.seen = write[w].seen
  BY <1>1, <1>2 DEF WriteCall
<1>4. /\ Sound(c) /\ ~SetsDefault(c) /\ ~Creating(c)
      /\ c.by = "chat" => c.seen.prov \in Maybe(Born)
  BY <1>1, <1>3 DEF Sound, Flagged, SetsDefault, Creating, SettingsInv, Ids
<1> QED
  BY <1>1, <1>2, <1>3, <1>4, RequestMovesAlone

\* A commit: the request is done and forgets what it read.
LEMMA DoneIs ==
  ASSUME SettingsInv, NEW w \in Write, write[w].by # None, write[w].op # "put", Ends(w, "done")
  PROVE  \E c \in WriteCall :
            /\ write' = [write EXCEPT ![w] = c] /\ Sound(c)
            /\ c.by = write[w].by /\ c.op = write[w].op /\ c.p = write[w].p
            /\ c.val = write[w].val /\ c.at = "done" /\ c.seen = Unset
            /\ ~Creating(c) /\ ~SetsDefault(c)
<1>1. write[w] \in WriteCall /\ Sound(write[w])
  BY WriteIs DEF SettingsInv
<1>2. NoRows \in Rows /\ Unset \in Choice
  BY DEF NoRows, Rows, Unset, Choice, Maybe
<1>3. PICK c : /\ c = [write[w] EXCEPT !.at = "done", !.rows = NoRows, !.seen = Unset]
               /\ write' = [write EXCEPT ![w] = c]
  BY DEF Ends, SettingsInv, SettingsTypes, WritesOk
<1>4. /\ c \in WriteCall /\ c.by = write[w].by /\ c.op = write[w].op /\ c.p = write[w].p
      /\ c.val = write[w].val /\ c.at = "done" /\ c.seen = Unset
  BY <1>1, <1>2, <1>3 DEF WriteCall
<1>5. Sound(c) /\ ~Creating(c) /\ ~SetsDefault(c)
  BY <1>1, <1>4 DEF Sound, Flagged, Creating, SetsDefault
<1> QED
  BY <1>3, <1>4, <1>5

\* A request makes a default of its own: no other is to.
LEMMA NewDefault ==
  ASSUME SettingsInv, NEW w \in Write, NEW c, write' = [write EXCEPT ![w] = c], ~SetsDefault(c),
         load' = load, raced' = (raced \/ DefaultPending(w)),
         NEW p, ~raced => table'.dflt \subseteq {p}
  PROVE  Defaults'
<1> SUFFICES ASSUME ~raced' PROVE Defaults'
  BY DEF Defaults
<1>1. ~raced /\ ~DefaultPending(w)
  OBVIOUS
<1>2. /\ \A v \in Write \ {w} : ~SetsDefault(write[v])
      /\ \A l \in Load : ~Seeding(load[l])
  BY <1>1, SlotAssumption DEF DefaultPending
<1>3. \A v \in Write : ~SetsDefault(write'[v])
  BY <1>2 DEF SettingsInv, SettingsTypes, WritesOk
<1>4. \A l \in Load : ~Seeding(load'[l])
  BY <1>2
<1>5. \A q, r \in table'.dflt : q = r
  BY <1>1
<1> QED
  BY <1>3, <1>4, <1>5 DEF Defaults

\* Defaults are only taken away.
LEMMA FewerDefaults ==
  ASSUME SettingsInv, NEW w \in Write, NEW c, write' = [write EXCEPT ![w] = c], ~SetsDefault(c),
         load' = load, raced' = raced, table'.dflt \subseteq table.dflt
  PROVE  Defaults'
<1>1. \A v \in Write : SetsDefault(write'[v]) => SetsDefault(write[v]) /\ write'[v] = write[v]
  BY DEF SettingsInv, SettingsTypes, WritesOk
<1> QED
  BY <1>1 DEF SettingsInv, Defaults

LEMMA create_providerKeeps ==
  ASSUME SettingsInv, NEW w \in Write, create_provider(w) PROVE SettingsInv'
<1>1. /\ write[w].by # None /\ write[w].at = "read" /\ write[w].op = "create"
      /\ write[w] \in WriteCall /\ Sound(write[w])
      /\ UNCHANGED <<used, pref, pin, load, tabs, crossed, failed>>
  BY WriteIs DEF create_provider, Active, SettingsInv
<1>2. ASSUME NEW at \in {"refused", "failed"}, Ends(w, at), UNCHANGED <<table, raced>>
      PROVE  SettingsInv'
  BY <1>1, <1>2, EndsKeeps DEF database, history
<1>3. ASSUME Ends(w, "done"),
             table' = [rows |-> table.rows \cup {write[w].p},
                       dflt |-> (table.dflt \ Prior(write[w]))
                                   \cup (IF write[w].val THEN {write[w].p} ELSE {}),
                       on |-> table.on \cup {write[w].p}],
             raced' = (raced \/ (write[w].val /\ DefaultPending(w)))
      PROVE  SettingsInv'
  <2>1. PICK c \in WriteCall :
            /\ write' = [write EXCEPT ![w] = c] /\ Sound(c)
            /\ c.by = write[w].by /\ c.op = write[w].op /\ c.p = write[w].p
            /\ c.val = write[w].val /\ c.at = "done" /\ c.seen = Unset
            /\ ~Creating(c) /\ ~SetsDefault(c)
    BY <1>1, <1>3, DoneIs
  <2>2. PICK p : p = write[w].p
    OBVIOUS
  <2>3. p \in Provider /\ p # None /\ p \in used /\ p \notin Born /\ write[w].by = "page"
    <3>1. Creating(write[w])
      BY <1>1 DEF Creating
    <3>2. p \in used /\ p \in Unborn
      BY <2>2, <3>1 DEF SettingsInv, Ids, Unborn
    <3> QED
      BY <1>1, <2>2, <3>2, NameAssumption DEF Sound, Born, WriteCall
  <2>4. \A v \in Write \ {w} : write'[v] = write[v]
    BY <2>1 DEF SettingsInv, SettingsTypes, WritesOk
  <2>5. RowsOk'
    <3>1. table'.rows = table.rows \cup {p}
      BY <1>3, <2>2
    <3>2. table'.dflt \subseteq table.dflt \cup {p}
      BY <1>3, <2>2
    <3>3. table'.on = table.on \cup {p}
      BY <1>3, <2>2
    <3>4. table' = [rows |-> table'.rows, dflt |-> table'.dflt, on |-> table'.on]
      BY <1>3
    <3> QED
      BY <1>1, <2>3, <3>1, <3>2, <3>3, <3>4 DEF SettingsInv, SettingsTypes, RowsOk, Rows
  <2>6. PrefOk' /\ PinOk'
    BY <1>1, <1>3 DEF SettingsInv, SettingsTypes, PrefOk, PinOk, Maybe
  <2>7. table'.rows \subseteq Born'
    <3>1. Creating(write[w]) /\ \A v \in Write : Creating(write'[v]) => v # w /\ Creating(write[v])
      BY <1>1, <2>1, <2>4 DEF SettingsInv, SettingsTypes, WritesOk, Creating
    <3>2. \A v \in Write : Creating(write'[v]) => write'[v].p # p /\ write'[v].p = write[v].p
      BY <2>2, <2>4, <3>1 DEF SettingsInv, Ids
    <3>3. p \notin Unborn' /\ Unborn' \subseteq Unborn
      BY <3>1, <3>2 DEF Unborn
    <3>4. table'.rows = table.rows \cup {p}
      BY <1>3, <2>2
    <3> QED
      BY <1>1, <2>3, <3>3, <3>4 DEF SettingsInv, Ids, Born
  <2>8. Defaults' /\ raced' \in BOOLEAN
    <3>1. raced \in BOOLEAN /\ write[w].val \in BOOLEAN
      BY <1>1 DEF SettingsInv, SettingsTypes, Counts, Sound, Flagged
    <3>2. raced' \in BOOLEAN
      BY <1>3, Zenon
    <3>3. CASE write[w].val
      <4>1. raced' = (raced \/ DefaultPending(w))
        BY <1>3, <3>3, Zenon
      <4>2. ~raced => table.dflt \subseteq write[w].rows.dflt
        BY <1>1, <3>3 DEF SettingsInv, Defaults, SetsDefault
      <4>3. ~raced => table'.dflt \subseteq {p}
        BY <1>3, <2>2, <3>3, <4>2 DEF Prior
      <4> QED
        BY <1>1, <2>1, <3>2, <4>1, <4>3, NewDefault
    <3>4. CASE ~write[w].val
      <4>1. raced' = raced
        BY <1>3, <3>1, <3>4, Zenon
      <4>2. table'.dflt \subseteq table.dflt
        BY <1>3, <3>4
      <4> QED
        BY <1>1, <2>1, <3>2, <4>1, <4>2, FewerDefaults
    <3> QED
      BY <3>3, <3>4
  <2>9. \A x : Agrees(x) /\ x.prov \in Maybe(Born) => Agrees(x)'
    BY <1>1, <1>3, <2>2, <2>3, StillAgrees
  <2> QED
    BY <1>1, <2>1, <2>3, <2>5, <2>6, <2>7, <2>8, <2>9, RequestMoves
<1> QED
  BY <1>2, <1>3 DEF create_provider

LEMMA update_providerKeeps ==
  ASSUME SettingsInv, NEW w \in Write, update_provider(w) PROVE SettingsInv'
<1>1. /\ write[w].by # None /\ write[w].at = "read" /\ write[w].op \in {"default", "enable", "key"}
      /\ write[w] \in WriteCall /\ Sound(write[w]) /\ write[w].by = "page"
      /\ UNCHANGED <<used, pref, pin, load, tabs, crossed, failed>>
  BY WriteIs DEF update_provider, Active, SettingsInv, Sound, WriteCall
<1>2. CASE Ends(w, "failed") /\ UNCHANGED <<table, raced>>
  BY <1>1, <1>2, EndsKeeps DEF database, history
<1>3. PICK p, own : p = write[w].p /\ own = Written(write[w]) \cap {p} \cap table.rows
  OBVIOUS
<1>4. own \subseteq {p} /\ own \subseteq table.rows
  BY <1>3
<1>5. CASE /\ Ends(w, IF p \in table.rows THEN "done" ELSE "failed")
           /\ table' = CASE write[w].op = "default" /\ write[w].val ->
                              [table EXCEPT !.dflt = (@ \ Prior(write[w])) \cup own]
                         [] write[w].op = "default" /\ ~write[w].val -> [table EXCEPT !.dflt = @ \ own]
                         [] write[w].op = "enable" /\ write[w].val -> [table EXCEPT !.on = @ \cup own]
                         [] write[w].op = "enable" /\ ~write[w].val -> [table EXCEPT !.on = @ \ own]
                         [] OTHER -> table
           /\ raced' = (raced \/ (write[w].op = "default" /\ write[w].val /\ DefaultPending(w)))
  <2>1. PICK at \in {"done", "failed"} : Ends(w, at)
    BY <1>5
  <2>2. PICK c : /\ c = [write[w] EXCEPT !.at = at, !.rows = NoRows, !.seen = Unset]
                 /\ write' = [write EXCEPT ![w] = c]
    BY <2>1 DEF Ends, SettingsInv, SettingsTypes, WritesOk
  <2>3. NoRows \in Rows /\ Unset \in Choice
    BY DEF NoRows, Rows, Unset, Choice, Maybe
  <2>4. /\ c \in WriteCall /\ c.by = write[w].by /\ c.op = write[w].op /\ c.p = write[w].p
        /\ c.val = write[w].val /\ c.at = at /\ c.seen = Unset
    BY <1>1, <2>2, <2>3 DEF WriteCall
  <2>5. Sound(c) /\ ~Creating(c) /\ ~SetsDefault(c)
    BY <1>1, <2>4 DEF Sound, Flagged, Creating, SetsDefault
  <2>6. table \in Rows /\ table.dflt \subseteq table.rows /\ table.on \subseteq table.rows
    BY DEF SettingsInv, SettingsTypes, RowsOk
  <2>7. /\ table' \in Rows /\ table'.rows = table.rows
        /\ table'.dflt \subseteq table.rows /\ table'.on \subseteq table.rows
        /\ ~(write[w].op = "default" /\ write[w].val) => table'.dflt \subseteq table.dflt
        /\ write[w].op = "default" /\ write[w].val
              => table'.dflt = (table.dflt \ Prior(write[w])) \cup own
    <3>1. CASE write[w].op = "default" /\ write[w].val
      <4>1. table' = [table EXCEPT !.dflt = (@ \ Prior(write[w])) \cup own]
        BY <1>5, <3>1
      <4> QED
        BY <1>4, <2>6, <3>1, <4>1 DEF Rows
    <3>2. CASE write[w].op = "default" /\ ~write[w].val
      <4>1. table' = [table EXCEPT !.dflt = @ \ own]
        BY <1>5, <3>2
      <4> QED
        BY <1>4, <2>6, <3>2, <4>1 DEF Rows
    <3>3. CASE write[w].op = "enable" /\ write[w].val
      <4>1. table' = [table EXCEPT !.on = @ \cup own]
        BY <1>5, <3>3
      <4> QED
        BY <1>4, <2>6, <3>3, <4>1 DEF Rows
    <3>4. CASE write[w].op = "enable" /\ ~write[w].val
      <4>1. table' = [table EXCEPT !.on = @ \ own]
        BY <1>5, <3>4
      <4> QED
        BY <1>4, <2>6, <3>4, <4>1 DEF Rows
    <3>5. CASE write[w].op = "key"
      <4>1. table' = table
        BY <1>5, <3>5
      <4> QED
        BY <2>6, <3>5, <4>1
    <3> QED
      BY <1>1, <3>1, <3>2, <3>3, <3>4, <3>5
  <2>8. RowsOk' /\ PrefOk' /\ PinOk'
    BY <1>1, <2>7 DEF SettingsInv, SettingsTypes, RowsOk, PrefOk, PinOk
  <2>9. table'.rows \subseteq Born'
    <3>1. \A v \in Write : Creating(write'[v]) => Creating(write[v]) /\ write'[v] = write[v]
      BY <2>2, <2>5 DEF SettingsInv, SettingsTypes, WritesOk
    <3>2. Unborn' \subseteq Unborn
      BY <3>1 DEF Unborn
    <3> QED
      BY <1>1, <2>7, <3>2 DEF SettingsInv, Ids, Born
  <2>10. Defaults' /\ raced' \in BOOLEAN
    <3>1. raced \in BOOLEAN
      BY DEF SettingsInv, SettingsTypes, Counts
    <3>2. raced' \in BOOLEAN
      BY <1>5, Zenon
    <3>3. CASE write[w].op = "default" /\ write[w].val
      <4>1. raced' = (raced \/ DefaultPending(w))
        BY <1>5, <3>3, Zenon
      <4>2. ~raced => table.dflt \subseteq write[w].rows.dflt
        BY <1>1, <3>3 DEF SettingsInv, Defaults, SetsDefault
      <4>3. ~raced => table'.dflt \subseteq {p}
        BY <1>3, <1>4, <2>7, <3>3, <4>2 DEF Prior
      <4> QED
        BY <1>1, <2>2, <2>5, <3>2, <4>1, <4>3, NewDefault
    <3>4. CASE ~(write[w].op = "default" /\ write[w].val)
      <4>1. raced' = raced
        BY <1>5, <3>1, <3>4, Zenon
      <4> QED
        BY <1>1, <2>2, <2>5, <2>7, <3>2, <3>4, <4>1, FewerDefaults
    <3> QED
      BY <3>3, <3>4
  <2>11. \A x : Agrees(x) => Agrees(x)'
    BY <1>1, <2>7 DEF Agrees
  <2> QED
    BY <1>1, <2>2, <2>4, <2>5, <2>8, <2>9, <2>10, <2>11, RequestMoves
<1> QED
  BY <1>2, <1>3, <1>5 DEF update_provider

LEMMA delete_providerKeeps ==
  ASSUME SettingsInv, NEW w \in Write, delete_provider(w) PROVE SettingsInv'
<1>1. /\ write[w].by # None /\ write[w].at = "read" /\ write[w].op = "delete"
      /\ write[w] \in WriteCall /\ Sound(write[w]) /\ write[w].by = "page"
      /\ UNCHANGED <<used, load, tabs, history>> /\ Ends(w, "done")
  BY WriteIs DEF delete_provider, Active, SettingsInv, Sound, WriteCall
<1>2. PICK p : p = write[w].p
  OBVIOUS
<1>3. /\ table' = [rows |-> table.rows \ {p}, dflt |-> table.dflt \ {p}, on |-> table.on \ {p}]
      /\ pref' = Cleared(pref, p) /\ pin' = Cleared(pin, p)
  BY <1>2 DEF delete_provider
<1>4. PICK c \in WriteCall :
          /\ write' = [write EXCEPT ![w] = c] /\ Sound(c)
          /\ c.by = write[w].by /\ c.op = write[w].op /\ c.p = write[w].p
          /\ c.val = write[w].val /\ c.at = "done" /\ c.seen = Unset
          /\ ~Creating(c) /\ ~SetsDefault(c)
  BY <1>1, DoneIs
<1>5. RowsOk' /\ table'.rows = table.rows \ {p}
  BY <1>1, <1>3 DEF SettingsInv, SettingsTypes, RowsOk, Rows
<1>6. PrefOk'
  BY <1>3 DEF SettingsInv, SettingsTypes, PrefOk, Prefs, Cleared, Maybe
<1>7. PinOk' /\ pin'.model = pin.model /\ pin'.prov = IF pin.prov = p THEN None ELSE pin.prov
  BY <1>3 DEF SettingsInv, SettingsTypes, PinOk, Choice, Cleared, Maybe
<1>8. table'.rows \subseteq Born'
  <2>1. \A v \in Write : Creating(write'[v]) => Creating(write[v]) /\ write'[v] = write[v]
    BY <1>4 DEF SettingsInv, SettingsTypes, WritesOk
  <2>2. Unborn' \subseteq Unborn
    BY <2>1 DEF Unborn
  <2> QED
    BY <1>1, <1>5, <2>2 DEF SettingsInv, Ids, Born
<1>9. Defaults' /\ raced' \in BOOLEAN
  <2>1. raced \in BOOLEAN /\ raced' = raced
    BY <1>1 DEF SettingsInv, SettingsTypes, Counts, history
  <2>2. table'.dflt \subseteq table.dflt
    BY <1>3
  <2> QED
    BY <1>1, <1>4, <2>1, <2>2, FewerDefaults
<1>10. \A x : Agrees(x) => Agrees(x)'
  BY <1>5, <1>7 DEF Agrees
<1>11. UNCHANGED <<used, load, tabs, crossed, failed>>
  BY <1>1 DEF history
<1> QED
  BY <1>1, <1>4, <1>5, <1>6, <1>7, <1>8, <1>9, <1>10, <1>11, RequestMoves

LEMMA put_preferencesKeeps ==
  ASSUME SettingsInv, NEW w \in Write, put_preferences(w) PROVE SettingsInv'
<1>1. /\ write[w].by # None /\ write[w].at = "read" /\ write[w].op = "put"
      /\ write[w] \in WriteCall /\ Sound(write[w]) /\ write[w].by = "page"
      /\ UNCHANGED <<table, used, pin, load, tabs, history>>
  BY WriteIs DEF put_preferences, Active, SettingsInv, Sound, WriteCall
<1>2. CASE Ends(w, "failed") /\ UNCHANGED pref
  BY <1>1, <1>2, EndsKeeps DEF database
<1>3. CASE /\ ~BadReference(write[w]) /\ pref' = Merged(pref, write[w])
           /\ write' = [write EXCEPT ![w].at = "done", ![w].seen = Shown(pref'),
                                     ![w].clean = Shown(pref) = write[w].seen]
  <2>1. PICK p, m : /\ p = write[w].p /\ p \in Maybe(Provider)
                    /\ m = write[w].val /\ m \in Maybe(Model)
    BY <1>1 DEF Sound, WriteCall
  <2>2. /\ pref \in Prefs
        /\ pref' = [pref EXCEPT !.prov = IF p = write[w].seen.prov THEN @ ELSE p,
                                !.model = IF m = write[w].seen.model THEN @ ELSE m]
        /\ pref'.prov = IF p = write[w].seen.prov THEN pref.prov ELSE p
        /\ pref'.model = IF m = write[w].seen.model THEN pref.model ELSE m
    <3>1. pref \in Prefs
      BY DEF SettingsInv, SettingsTypes, PrefOk
    <3>2. Patched(write[w].p, write[w].seen.prov) = p /\ Patched(write[w].val, write[w].seen.model) = m
      BY <2>1 DEF Patched, Clears
    <3>3. pref' = [pref EXCEPT !.prov = IF p = write[w].seen.prov THEN @ ELSE p,
                           !.model = IF m = write[w].seen.model THEN @ ELSE m]
      BY <1>3, <3>2 DEF Merged
    <3> QED
      BY <3>1, <3>3 DEF Prefs
  <2>3. pref' \in Prefs
    BY <2>1, <2>2 DEF Prefs
  <2>4. PrefOk'
    <3>1. p \in Maybe(table.rows) \/ p = write[w].seen.prov
      BY <1>3, <2>1 DEF BadReference
    <3> QED
      BY <1>1, <2>2, <2>3, <3>1 DEF SettingsInv, SettingsTypes, PrefOk
  <2>5. PICK clean \in BOOLEAN : clean = (Shown(pref) = write[w].seen)
    OBVIOUS
  <2>6. PICK seen \in Choice : seen = Shown(pref')
    BY <2>3 DEF Prefs, Choice, Shown
  <2>7. PICK c : /\ c = [write[w] EXCEPT !.at = "done", !.seen = seen, !.clean = clean]
                 /\ write' = [write EXCEPT ![w] = c]
    BY <1>3, <2>5, <2>6 DEF SettingsInv, SettingsTypes, WritesOk
  <2>8. /\ c \in WriteCall /\ c.by = write[w].by /\ c.op = write[w].op /\ c.p = write[w].p
        /\ c.val = write[w].val /\ c.at = "done" /\ c.seen = seen /\ c.clean = clean
    BY <1>1, <2>7 DEF WriteCall
  <2>9. c.clean => c.seen = [prov |-> c.p, model |-> c.val]
    <3>1. SUFFICES ASSUME clean PROVE seen = [prov |-> p, model |-> m]
      BY <2>1, <2>8
    <3>2. Shown(pref) = write[w].seen
      BY <2>5, <3>1
    <3>3. pref.prov = write[w].seen.prov /\ pref.model = write[w].seen.model
      BY <3>2 DEF Shown
    <3>4. pref'.prov = p /\ pref'.model = m
      BY <2>2, <3>3
    <3> QED
      BY <2>6, <3>4 DEF Shown
  <2>10. Sound(c) /\ ~Creating(c) /\ ~SetsDefault(c)
    BY <1>1, <2>8, <2>9 DEF Sound, Flagged, Creating, SetsDefault
  <2>11. RowsOk' /\ PinOk'
    BY <1>1 DEF SettingsInv, SettingsTypes, RowsOk, PinOk
  <2>12. table'.rows \subseteq Born'
    <3>1. \A v \in Write : Creating(write'[v]) => Creating(write[v]) /\ write'[v] = write[v]
      BY <2>7, <2>10 DEF SettingsInv, SettingsTypes, WritesOk
    <3>2. Unborn' \subseteq Unborn
      BY <3>1 DEF Unborn
    <3> QED
      BY <1>1, <3>2 DEF SettingsInv, Ids, Born
  <2>13. Defaults' /\ raced' \in BOOLEAN
    <3>1. raced \in BOOLEAN /\ raced' = raced
      BY <1>1 DEF SettingsInv, SettingsTypes, Counts, history
    <3> QED
      BY <1>1, <2>7, <2>10, <3>1, FewerDefaults
  <2>14. \A x : Agrees(x) => Agrees(x)'
    BY <1>1 DEF Agrees
  <2>15. UNCHANGED <<used, load, tabs, crossed, failed>> /\ table' = table
    BY <1>1 DEF history
  <2> QED
    BY <1>1, <2>4, <2>6, <2>7, <2>8, <2>10, <2>11, <2>12, <2>13, <2>14, <2>15, RequestMoves
<1> QED
  BY <1>2, <1>3 DEF put_preferences

LEMMA patch_sessionKeeps ==
  ASSUME SettingsInv, NEW w \in Write, patch_session(w) PROVE SettingsInv'
<1>1. /\ write[w].by # None /\ write[w].at = "read" /\ write[w].op = "pin"
      /\ write[w] \in WriteCall /\ Sound(write[w]) /\ write[w].by = "chat"
      /\ UNCHANGED <<table, used, pref, load, tabs, history>>
  BY WriteIs DEF patch_session, Active, SettingsInv, Sound
<1>2. CASE Ends(w, "failed") /\ UNCHANGED pin
  BY <1>1, <1>2, EndsKeeps DEF database
<1>3. CASE ~BadReference(write[w]) /\ Ends(w, "done") /\ pin' = Merged(pin, write[w])
  <2>1. PICK p, m : /\ p = write[w].p /\ p \in Maybe(Provider)
                    /\ m = write[w].val /\ m \in Maybe(Model)
    BY <1>1 DEF Sound, WriteCall
  <2>2. PICK seen : seen = write[w].seen
    OBVIOUS
  <2>3. /\ pin' = [pin EXCEPT !.prov = IF p = seen.prov THEN @ ELSE p,
                              !.model = IF m = seen.model THEN @ ELSE m]
        /\ pin'.prov = IF p = seen.prov THEN pin.prov ELSE p
        /\ pin'.model = IF m = seen.model THEN pin.model ELSE m
    <3>1. pin \in Choice
      BY DEF SettingsInv, SettingsTypes, PinOk
    <3>2. Patched(write[w].p, seen.prov) = p /\ Patched(write[w].val, seen.model) = m
      BY <2>1 DEF Patched, Clears
    <3>3. pin' = [pin EXCEPT !.prov = IF p = seen.prov THEN @ ELSE p,
                           !.model = IF m = seen.model THEN @ ELSE m]
      BY <1>3, <2>2, <3>2 DEF Merged
    <3> QED
      BY <3>1, <3>3 DEF Choice
  <2>4. PinOk'
    <3>1. p \in Maybe(table.rows) \/ p = seen.prov
      BY <1>3, <2>1, <2>2 DEF BadReference
    <3>2. pin' \in Choice
      BY <2>1, <2>3 DEF SettingsInv, SettingsTypes, PinOk, Choice
    <3> QED
      BY <1>1, <2>3, <3>1, <3>2 DEF SettingsInv, SettingsTypes, PinOk
  <2>5. PICK c \in WriteCall :
            /\ write' = [write EXCEPT ![w] = c] /\ Sound(c)
            /\ c.by = write[w].by /\ c.op = write[w].op /\ c.p = write[w].p
            /\ c.val = write[w].val /\ c.at = "done" /\ c.seen = Unset
            /\ ~Creating(c) /\ ~SetsDefault(c)
    BY <1>1, <1>3, DoneIs
  <2>6. SelectorCalm => Agrees(Chosen(c))'
    <3>1. SelectorCalm => Agrees(seen)
      BY <1>1, <2>2 DEF SettingsInv, SelectorInv, SelectorWillShow
    <3>2. Chosen(c).prov = p /\ Chosen(c).model = m
      BY <2>1, <2>5 DEF Chosen
    <3> QED
      BY <1>1, <2>3, <3>1, <3>2 DEF Agrees
  <2>7. RowsOk' /\ PrefOk'
    BY <1>1 DEF SettingsInv, SettingsTypes, RowsOk, PrefOk
  <2>8. table'.rows \subseteq Born'
    <3>1. \A v \in Write : Creating(write'[v]) => Creating(write[v]) /\ write'[v] = write[v]
      BY <2>5 DEF SettingsInv, SettingsTypes, WritesOk
    <3>2. Unborn' \subseteq Unborn
      BY <3>1 DEF Unborn
    <3> QED
      BY <1>1, <3>2 DEF SettingsInv, Ids, Born
  <2>9. Defaults' /\ raced' \in BOOLEAN
    <3>1. raced \in BOOLEAN /\ raced' = raced
      BY <1>1 DEF SettingsInv, SettingsTypes, Counts, history
    <3> QED
      BY <1>1, <2>5, <3>1, FewerDefaults
  <2>10. UNCHANGED <<used, load, tabs, crossed, failed>> /\ table' = table /\ pref' = pref
    BY <1>1 DEF history
  <2>11. c.by = "chat" => c.seen.prov \in Maybe(Born)
    BY <2>5 DEF Unset, Maybe
  <2> QED
    BY <1>1, <2>4, <2>5, <2>6, <2>7, <2>8, <2>9, <2>10, <2>11, RequestMoves
<1> QED
  BY <1>2, <1>3 DEF patch_session

-----------------------------------------------------------------------------
(***************************************************************************)
(* Providers: the answers                                                  *)
(***************************************************************************)

\* A request is over; what there was of it in the invariant is gone.
LEMMA RequestGone ==
  ASSUME SettingsInv, NEW w \in Write, write' = [write EXCEPT ![w] = Idle],
         UNCHANGED <<table, used>>
  PROVE  /\ WritesOk' /\ Born \subseteq Born' /\ table'.rows \subseteq Born'
         /\ \A v \in Write : Creating(write'[v]) => Creating(write[v]) /\ write'[v] = write[v]
         /\ \A v \in Write : SetsDefault(write'[v]) => SetsDefault(write[v]) /\ write'[v] = write[v]
         /\ \A v \in Write : write'[v].by # None => v # w /\ write'[v] = write[v]
         /\ \A v \in Write \ {w} : write'[v] = write[v]
<1>1. /\ write'[w] = Idle /\ \A v \in Write \ {w} : write'[v] = write[v]
      /\ WritesOk'
  BY WritePut, IdleIs DEF SettingsInv, SettingsTypes
<1>2. /\ \A v \in Write : Creating(write'[v]) => Creating(write[v]) /\ write'[v] = write[v]
      /\ \A v \in Write : SetsDefault(write'[v]) => SetsDefault(write[v]) /\ write'[v] = write[v]
      /\ \A v \in Write : write'[v].by # None => v # w /\ write'[v] = write[v]
  BY <1>1, IdleIs
<1>3. Unborn' \subseteq Unborn
  BY <1>2 DEF Unborn
<1>4. Born \subseteq Born' /\ table'.rows \subseteq Born'
  BY <1>3 DEF SettingsInv, Ids, Born
<1> QED
  BY <1>1, <1>2, <1>4

LEMMA onChangedKeeps ==
  ASSUME SettingsInv, NEW w \in Write, onChanged(w) PROVE SettingsInv'
<1>1. /\ write[w].by # None /\ write[w] \in WriteCall /\ Sound(write[w])
      /\ write[w].by = "page" /\ write[w].op # "put"
      /\ write' = [write EXCEPT ![w] = Idle]
      /\ UNCHANGED <<table, used, pref, pin, tabs, raced, failed>>
  BY WriteIs DEF onChanged, Answered, Active, Ended, SettingsInv, Sound, WriteCall, database
<1>2. PICK l \in Load : load[l].by = None /\ load' = [load EXCEPT ![l] = Loading("refetch")]
  BY DEF onChanged, Begin, Free
<1>3. PICK c : c = Loading("refetch")
  OBVIOUS
<1>4. /\ c \in LoadCall /\ c.by = "refetch" /\ c.rows.rows = {}
      /\ c.list = "sent" /\ c.pref = "sent" /\ ~Seeding(c)
  BY <1>3, LoadingIs
<1>5. /\ load'[l] = c /\ \A k \in Load \ {l} : load'[k] = load[k]
      /\ LoadsOk'
  BY <1>2, <1>3, <1>4, LoadPut DEF SettingsInv, SettingsTypes
<1>6. /\ WritesOk' /\ Born \subseteq Born' /\ table'.rows \subseteq Born'
      /\ \A v \in Write : Creating(write'[v]) => Creating(write[v]) /\ write'[v] = write[v]
      /\ \A v \in Write : SetsDefault(write'[v]) => SetsDefault(write[v]) /\ write'[v] = write[v]
      /\ \A v \in Write : write'[v].by # None => v # w /\ write'[v] = write[v]
  BY <1>1, RequestGone
<1>7. SettingsTypes'
  <2>1. crossed' \subseteq {"page", "chat"}
    BY DEF onChanged, SettingsInv, SettingsTypes, Counts
  <2>2. raced' \in BOOLEAN
    BY <1>1, Zenon DEF SettingsInv, SettingsTypes, Counts
  <2> QED
    BY <1>1, <1>5, <1>6, <2>1, <2>2 DEF SettingsInv, SettingsTypes, PageOk, SelectorOk, RowsOk, PrefOk, PinOk,
       Counts, tabs
<1>8. Ids'
  <2>1. \A k \in Load : load'[k].by # None => load'[k].rows.rows \subseteq Born'
    BY <1>4, <1>5, <1>6 DEF SettingsInv, Ids
  <2>2. \A v \in Write : write'[v].by = "chat" =>
           write'[v].p \in Maybe(Born') /\ write'[v].seen.prov \in Maybe(Born')
    BY <1>6 DEF SettingsInv, Ids, Maybe, None
  <2>3. selector'.list \subseteq Born' /\ selector'.pin.prov \in Maybe(Born')
    BY <1>1, <1>6 DEF SettingsInv, Ids, Maybe, tabs
  <2>4. /\ \A v \in Write : Creating(write'[v]) => write'[v].p \in used'
        /\ \A u, v \in Write : Creating(write'[u]) /\ Creating(write'[v]) =>
              (write'[u].p = write'[v].p => u = v)
    BY <1>1, <1>6 DEF SettingsInv, Ids
  <2> QED
    BY <1>6, <2>1, <2>2, <2>3, <2>4 DEF Ids
<1>9. Defaults'
  BY <1>1, <1>4, <1>5, <1>6 DEF SettingsInv, Defaults
<1>10. PageInv'
  <2> SUFFICES ASSUME PageCalm' PROVE PageInv'
    BY DEF PageInv
  <2>1. PageCalm
    BY <1>1 DEF PageCalm, onChanged
  <2>2. /\ page.up /\ \A k \in Load : ~ForPage(load[k])
        /\ \A v \in Write : write[v].by = "page" => v = w
    BY <1>1, <2>1 DEF SettingsInv, PageInv, OnePageCall, PageLoads
  <2>3. \A v \in Write : write'[v].by # "page"
    BY <1>6, <2>2 DEF None
  <2>4. \A k \in Load : ForPage(load'[k]) <=> k = l
    BY <1>4, <1>5, <2>2 DEF ForPage
  <2>5. \A v \in Write : write'[v].op # "put"
    <3> SUFFICES ASSUME NEW v \in Write, write'[v].op = "put" PROVE FALSE
      OBVIOUS
    <3>1. write'[v] \in WriteCall /\ Sound(write'[v])
      BY <1>6, IdleIs DEF WritesOk, WriteCall, None
    <3> QED
      BY <2>3, <3>1 DEF Sound, WriteCall
  <2>6. OnePageCall'
    BY <1>1, <1>4, <1>5, <2>2, <2>3, <2>4 DEF OnePageCall, tabs
  <2>7. PageShows'
    BY <2>4 DEF PageShows, PageLoads
  <2>8. PageWillShow'
    BY <1>4, <1>5, <2>4, <2>5 DEF PageWillShow
  <2> QED
    BY <2>6, <2>7, <2>8 DEF PageInv
<1>11. SelectorInv'
  <2>1. \A k \in Load : load'[k].by = "chat" <=> load[k].by = "chat"
    BY <1>2, <1>4, <1>5 DEF None
  <2>2. \A v \in Write : /\ write'[v].by = "chat" <=> write[v].by = "chat"
                         /\ write'[v].by = "chat" => write'[v] = write[v]
    BY <1>1, <1>6, RequestGone DEF None
  <2>3. SelectorCalm' => SelectorCalm
    BY <1>1 DEF SelectorCalm, onChanged
  <2> QED
    BY <1>1, <2>1, <2>2, <2>3 DEF SettingsInv, SelectorInv, OneChoice, SelectorShows, SelectorWillShow, Agrees,
       Chosen, tabs
<1> QED
  BY <1>7, <1>8, <1>9, <1>10, <1>11 DEF SettingsInv

\* An answer that says nothing of the database: the page or the selector may
\* show it.
LEMMA RequestEnds ==
  ASSUME SettingsInv, NEW w \in Write, write[w].by # None,
         write' = [write EXCEPT ![w] = Idle],
         UNCHANGED <<database, load, gestures, raced, crossed>>, losses' \in 0..MaxLost,
         failed \subseteq failed', failed' \subseteq {"page", "chat"},
         PageOk', SelectorOk', page'.up = page.up, page'.list = page.list,
         selector'.up = selector.up, selector'.list = selector.list,
         selector'.pin.prov \in Maybe(Born),
         PageCalm' => \/ page'.pref = page.pref /\ write[w].by # "page"
                      \/ page'.pref = Shown(pref) /\ write[w].op = "put",
         SelectorCalm' => \/ selector' = selector /\ write[w].by # "chat"
                          \/ Agrees(selector'.pin)
  PROVE  SettingsInv'
<1>1. write[w] \in WriteCall /\ Sound(write[w])
  BY WriteIs DEF SettingsInv
<1>2. UNCHANGED <<table, used, pref, pin>>
  BY DEF database
<1>3. /\ WritesOk' /\ Born \subseteq Born' /\ table'.rows \subseteq Born'
      /\ \A v \in Write : Creating(write'[v]) => Creating(write[v]) /\ write'[v] = write[v]
      /\ \A v \in Write : SetsDefault(write'[v]) => SetsDefault(write[v]) /\ write'[v] = write[v]
      /\ \A v \in Write : write'[v].by # None => v # w /\ write'[v] = write[v]
      /\ \A v \in Write \ {w} : write'[v] = write[v]
  BY <1>2, RequestGone
<1>4. SettingsTypes'
  BY <1>2, <1>3 DEF SettingsInv, SettingsTypes, LoadsOk, RowsOk, PrefOk, PinOk, Counts
<1>5. Ids'
  <2>1. \A v \in Write : write'[v].by = "chat" =>
           write'[v].p \in Maybe(Born') /\ write'[v].seen.prov \in Maybe(Born')
    BY <1>3 DEF SettingsInv, Ids, Maybe, None
  <2>2. selector'.list \subseteq Born' /\ selector'.pin.prov \in Maybe(Born')
    BY <1>3 DEF SettingsInv, Ids, Maybe
  <2>3. /\ \A v \in Write : Creating(write'[v]) => write'[v].p \in used'
        /\ \A u, v \in Write : Creating(write'[u]) /\ Creating(write'[v]) =>
              (write'[u].p = write'[v].p => u = v)
    BY <1>2, <1>3 DEF SettingsInv, Ids
  <2>4. \A k \in Load : load'[k].by # None => load'[k].rows.rows \subseteq Born'
    BY <1>3 DEF SettingsInv, Ids
  <2> QED
    BY <1>3, <2>1, <2>2, <2>3, <2>4 DEF Ids
<1>6. Defaults'
  BY <1>2, <1>3 DEF SettingsInv, Defaults
<1>7. PageInv'
  <2> SUFFICES ASSUME PageCalm' PROVE PageInv'
    BY DEF PageInv
  <2>1. PageCalm
    BY DEF PageCalm
  <2>2. OnePageCall'
    BY <1>3, <2>1 DEF SettingsInv, PageInv, OnePageCall, PageLoads, None
  <2>3. PageWillShow'
    <3>1. \A v \in Write : write'[v].op = "put" => write'[v] = write[v]
      BY <1>3, IdleIs, WritePut DEF SettingsInv, SettingsTypes, WritesOk
    <3> QED
      BY <1>2, <2>1, <3>1 DEF SettingsInv, PageInv, PageWillShow
  <2>4. PageShows'
    <3> SUFFICES ASSUME page'.up, ~PageLoads' PROVE PageShows'
      BY DEF PageShows
    <3>1. page.up /\ ~PageLoads
      BY DEF PageLoads
    <3>2. CASE page'.pref = page.pref /\ write[w].by # "page"
      <4>1. \A v \in Write : write[v].by = "page" => write'[v] = write[v]
        BY <1>3, <3>2
      <4> QED
        BY <1>2, <2>1, <3>1, <3>2, <4>1 DEF SettingsInv, PageInv, PageShows
    <3>3. CASE page'.pref = Shown(pref) /\ write[w].op = "put"
      <4>1. write[w].by = "page"
        BY <1>1, <3>3 DEF Sound, WriteCall
      <4>2. \A v \in Write : write[v].by = "page" => v = w
        BY <2>1, <4>1 DEF SettingsInv, PageInv, OnePageCall
      <4>3. page.list = table
        BY <2>1, <3>1, <3>3, <4>2 DEF SettingsInv, PageInv, PageShows
      <4> QED
        BY <1>2, <3>3, <4>3 DEF PageShows
    <3> QED
      BY <3>2, <3>3
  <2> QED
    BY <2>2, <2>3, <2>4 DEF PageInv
<1>8. SelectorInv'
  <2> SUFFICES ASSUME SelectorCalm' PROVE SelectorInv'
    BY DEF SelectorInv
  <2>1. SelectorCalm
    BY DEF SelectorCalm
  <2>2. OneChoice'
    BY <1>3, <2>1 DEF SettingsInv, SelectorInv, OneChoice, None
  <2>3. SelectorWillShow'
    <3>1. \A v \in Write : write'[v].by = "chat" => write'[v] = write[v]
      BY <1>3 DEF None
    <3> QED
      BY <1>2, <2>1, <3>1 DEF SettingsInv, SelectorInv, SelectorWillShow, Agrees, Chosen
  <2>4. SelectorShows'
    <3>1. CASE selector' = selector /\ write[w].by # "chat"
      <4>1. \A v \in Write : write[v].by = "chat" => write'[v] = write[v]
        BY <1>3, <3>1
      <4> QED
        BY <1>2, <2>1, <3>1, <4>1 DEF SettingsInv, SelectorInv, SelectorShows, Agrees
    <3>2. CASE Agrees(selector'.pin)
      BY <1>2, <3>2 DEF SelectorShows, Agrees
    <3> QED
      BY <3>1, <3>2
  <2> QED
    BY <2>2, <2>3, <2>4 DEF SelectorInv
<1> QED
  BY <1>4, <1>5, <1>6, <1>7, <1>8 DEF SettingsInv

LEMMA onUpdatedKeeps ==
  ASSUME SettingsInv, NEW w \in Write, onUpdated(w) PROVE SettingsInv'
<1>1. /\ write[w].by # None /\ write[w].at = "done" /\ write[w].op = "put"
      /\ write[w] \in WriteCall /\ Sound(write[w]) /\ write[w].by = "page"
      /\ write' = [write EXCEPT ![w] = Idle]
      /\ UNCHANGED <<database, load, gestures, raced, crossed>> /\ UNCHANGED <<selector, failed>>
  BY WriteIs DEF onUpdated, Answered, Active, Ended, SettingsInv, Sound, WriteCall, history
<1>2. losses' \in 0..MaxLost /\ failed' \subseteq {"page", "chat"}
  BY DEF onUpdated, history, SettingsInv, SettingsTypes, Counts
<1>3. PICK seen \in Choice : seen = write[w].seen
  BY <1>1 DEF WriteCall
<1>4. page' = [page EXCEPT !.pref = seen, !.form = seen]
  BY <1>3 DEF onUpdated
<1>5. PageOk' /\ page'.up = page.up /\ page'.list = page.list /\ page'.pref = seen
  BY <1>4 DEF SettingsInv, SettingsTypes, PageOk
<1>6. SelectorOk' /\ selector'.pin.prov \in Maybe(Born)
  BY <1>1 DEF SettingsInv, SettingsTypes, SelectorOk, Ids
<1>7. PageCalm' => page'.pref = Shown(pref)
  BY <1>1, <1>3, <1>5 DEF SettingsInv, PageInv, PageCalm, PageWillShow
<1>8. write[w].by # "chat"
  BY <1>1
<1> QED
  BY <1>1, <1>2, <1>5, <1>6, <1>7, <1>8, RequestEnds

LEMMA onPinnedKeeps ==
  ASSUME SettingsInv, NEW w \in Write, onPinned(w) PROVE SettingsInv'
<1>1. /\ write[w].by # None /\ write[w].at = "done" /\ write[w].op = "pin"
      /\ write[w] \in WriteCall /\ Sound(write[w]) /\ write[w].by = "chat"
      /\ write' = [write EXCEPT ![w] = Idle]
      /\ UNCHANGED <<database, load, gestures, raced, crossed>> /\ UNCHANGED <<page, failed>>
  BY WriteIs DEF onPinned, Answered, Active, Ended, SettingsInv, Sound, WriteCall, history
<1>2. losses' \in 0..MaxLost /\ failed' \subseteq {"page", "chat"}
  BY DEF onPinned, history, SettingsInv, SettingsTypes, Counts
<1>3. PICK new \in Choice : new = Chosen(write[w])
  BY <1>1 DEF WriteCall, Sound, Choice, Chosen
<1>4. selector' = [selector EXCEPT !.pin = new]
  BY <1>3 DEF onPinned, Chosen
<1>5. /\ SelectorOk' /\ selector'.up = selector.up /\ selector'.list = selector.list
      /\ selector'.pin = new
  BY <1>4 DEF SettingsInv, SettingsTypes, SelectorOk
<1>6. PageOk' /\ new.prov \in Maybe(Born)
  BY <1>1, <1>3 DEF SettingsInv, SettingsTypes, PageOk, Ids, Chosen
<1>7. SelectorCalm' => Agrees(new)
  BY <1>1, <1>3 DEF SettingsInv, SelectorInv, SelectorCalm, SelectorWillShow
<1>8. page'.pref = page.pref /\ write[w].by # "page" /\ page'.up = page.up /\ page'.list = page.list
  BY <1>1
<1>9. SelectorCalm' => Agrees(selector'.pin)
  BY <1>5, <1>7
<1> QED
  BY <1>1, <1>2, <1>5, <1>6, <1>8, <1>9, RequestEnds

LEMMA onErrorKeeps ==
  ASSUME SettingsInv, NEW w \in Write, onError(w) PROVE SettingsInv'
<1>1. /\ write[w].by # None /\ write[w] \in WriteCall
      /\ write' = [write EXCEPT ![w] = Idle]
      /\ UNCHANGED <<database, load, gestures, raced, crossed>> /\ UNCHANGED <<page, selector>>
      /\ failed' = failed \cup {write[w].by}
  BY WriteIs DEF onError, Active, Ended, SettingsInv
<1>2. losses' \in 0..MaxLost /\ failed' \subseteq {"page", "chat"} /\ failed \subseteq failed'
  BY <1>1, BoundAssumption DEF onError, SettingsInv, SettingsTypes, Counts, WriteCall
<1>3. PageOk' /\ SelectorOk' /\ selector'.pin.prov \in Maybe(Born)
  BY <1>1 DEF SettingsInv, SettingsTypes, PageOk, SelectorOk, Ids
<1>4. /\ PageCalm' => page'.pref = page.pref /\ write[w].by # "page"
      /\ SelectorCalm' => selector' = selector /\ write[w].by # "chat"
  BY <1>1 DEF PageCalm, SelectorCalm
<1> QED
  BY <1>1, <1>2, <1>3, <1>4, RequestEnds

-----------------------------------------------------------------------------
(***************************************************************************)
(* Providers: the theorems                                                 *)
(***************************************************************************)

LEMMA InvariantInit == ProvidersInit => SettingsInv
<1> SUFFICES ASSUME ProvidersInit PROVE SettingsInv
  OBVIOUS
<1>1. SettingsTypes
  BY TypesInit
<1>2. /\ \A l \in Load : load[l] = Idle
      /\ \A w \in Write : write[w] = Idle
      /\ table.rows = used /\ table.dflt = {} /\ selector.list = used
      /\ selector.up = page.up /\ page.list = table /\ page.pref = Unset
      /\ pin = Unset /\ selector.pin = Unset /\ Shown(pref) = Unset
  BY DEF ProvidersInit, Shown, Unset
<1>3. Born = used
  BY <1>2, IdleIs DEF Born, Unborn
<1>4. Ids
  BY <1>2, <1>3, IdleIs DEF Ids, Unset, Maybe
<1>5. Defaults
  BY <1>2 DEF Defaults
<1>6. PageInv
  BY <1>2, IdleIs DEF PageInv, OnePageCall, PageShows, PageWillShow
<1>7. SelectorInv
  BY <1>2, IdleIs DEF SelectorInv, OneChoice, SelectorShows, SelectorWillShow, Agrees
<1> QED
  BY <1>1, <1>4, <1>5, <1>6, <1>7 DEF SettingsInv

LEMMA InvariantStutter == SettingsInv /\ UNCHANGED providersVars => SettingsInv'
<1> SUFFICES ASSUME SettingsInv, UNCHANGED providersVars PROVE SettingsInv'
  OBVIOUS
<1>1. /\ UNCHANGED <<table, used, pref, pin, load, write, page, selector, gestures, losses>>
      /\ UNCHANGED <<raced, crossed, failed>>
  BY DEF providersVars, database, tabs, history
<1>2. SettingsTypes'
  BY <1>1 DEF SettingsInv, SettingsTypes, LoadsOk, WritesOk, PageOk, SelectorOk, RowsOk, PrefOk, PinOk, Counts
<1>3. Ids'
  BY <1>1 DEF SettingsInv, Ids, Born, Unborn
<1>4. Defaults'
  BY <1>1 DEF SettingsInv, Defaults
<1>5. PageInv'
  BY <1>1 DEF SettingsInv, PageInv, PageCalm, OnePageCall, PageShows, PageWillShow, PageLoads
<1>6. SelectorInv'
  BY <1>1 DEF SettingsInv, SelectorInv, SelectorCalm, OneChoice, SelectorShows, SelectorWillShow, Agrees
<1> QED
  BY <1>2, <1>3, <1>4, <1>5, <1>6 DEF SettingsInv

LEMMA InvariantNext == SettingsInv /\ [ProvidersNext]_providersVars => SettingsInv'
<1> SUFFICES ASSUME SettingsInv, ProvidersNext PROVE SettingsInv'
  BY InvariantStutter
<1>1. ASSUME NEW l \in Load, ProvidersPage(l) \/ ChatSessionPage(l) \/ Loads(l) PROVE SettingsInv'
  BY <1>1, ProvidersPageKeeps, ChatSessionPageKeeps, list_providersKeeps, seed_defaultKeeps,
     seed_commitKeeps, get_preferencesKeeps, get_or_create_prefKeeps, loadSettingsKeeps,
     loadFailsKeeps DEF Loads
<1>2. ASSUME NEW form \in [prov : Maybe(Provider), model : Maybe(Model)], edit(form) PROVE SettingsInv'
  BY <1>2, editKeeps DEF Choice
<1>3. ASSUME NEW w \in Write, Gesture(w) PROVE SettingsInv'
  BY <1>3, GestureKeeps
<1>4. ASSUME NEW w \in Write, Handles(w) PROVE SettingsInv'
  BY <1>4, ReadsKeeps, put_get_or_createKeeps, create_providerKeeps, update_providerKeeps,
     delete_providerKeeps, put_preferencesKeeps, patch_sessionKeeps DEF Handles
<1>5. ASSUME NEW w \in Write, Answers(w) PROVE SettingsInv'
  BY <1>5, onChangedKeeps, onUpdatedKeeps, onPinnedKeeps, onErrorKeeps DEF Answers
<1> QED
  BY <1>1, <1>2, <1>3, <1>4, <1>5 DEF ProvidersNext

\* The invariant holds in every state.
LEMMA Invariant == ProvidersSpec => []SettingsInv
BY InvariantInit, InvariantNext, PTL DEF ProvidersSpec

\* The variables have their types, and no provider that was deleted is still
\* the preferences' or the pin's: ondelete="SET NULL" clears them.
THEOREM ProvidersTypes == ProvidersSpec => []ProvidersTypeOK
<1>1. SettingsInv => ProvidersTypeOK
  <2> SUFFICES ASSUME SettingsInv PROVE ProvidersTypeOK
    OBVIOUS
  <2>1. raced \in BOOLEAN
    BY DEF SettingsInv, SettingsTypes, Counts
  <2> QED
    BY <2>1 DEF SettingsInv, SettingsTypes, RowsOk, PrefOk, PinOk, PageOk, SelectorOk, Counts, Rows, Prefs,
       Choice, ProvidersTypeOK
<1> QED
  BY <1>1, Invariant, PTL

\* create_provider, update_provider and seed_default_ollama_for_user clear the
\* default they have read and set their own: however many requests overlap, a
\* user has two defaults only after two that both read before either wrote.
THEOREM OneDefaultEach == ProvidersSpec => []OneDefault
<1>1. SettingsInv => OneDefault
  <2> SUFFICES ASSUME SettingsInv, ~raced PROVE Cardinality(table.dflt) <= 1
    BY DEF OneDefault
  <2>1. \A p, q \in table.dflt : p = q
    BY DEF SettingsInv, Defaults
  <2>2. CASE table.dflt = {}
    <3>1. Cardinality({}) = 0
      BY FS_EmptySet
    <3> QED
      BY <2>2, <3>1
  <2>3. CASE table.dflt # {}
    <3>1. PICK p : table.dflt = {p}
      BY <2>1, <2>3
    <3>2. Cardinality({p}) = 1
      BY FS_Singleton
    <3> QED
      BY <3>1, <3>2
  <2> QED
    BY <2>2, <2>3
<1> QED
  BY <1>1, Invariant, PTL

\* The settings page reads anew after every change of a provider and takes the
\* answer of a save into the card: while its calls do not overlap or fail, it
\* shows the rows and the preferences there are.
THEOREM PageIsTrue == ProvidersSpec => []CalmPage
<1>1. SettingsInv => CalmPage
  BY UnderwayIs DEF SettingsInv, PageInv, PageCalm, PageShows, PageLoads, CalmPage
<1> QED
  BY <1>1, Invariant, PTL

\* ModelSelector shows what it sent once patch_session has answered: that is
\* the session's pin, or a provider the settings page has deleted meanwhile.
THEOREM SelectorIsTrue == ProvidersSpec => []CalmPin
<1>1. SettingsInv => CalmPin
  BY UnderwayIs DEF SettingsInv, SelectorInv, SelectorCalm, SelectorShows, Agrees, CalmPin
<1> QED
  BY <1>1, Invariant, PTL

\* A request stays the tab's until it is answered.
LEMMA RequestStays ==
  ASSUME SettingsInv, NEW w \in Write, write[w].by # None, NEW v \in Write, Gesture(v) \/ Handles(v)
  PROVE  write'[w].by = write[w].by
<1>1. write \in [Write -> WriteCall \cup {Idle}] /\ write[w] \in WriteCall
  BY WriteIs DEF SettingsInv, SettingsTypes, WritesOk
<1>2. ASSUME NEW by, NEW op, NEW p, NEW val, Send(v, by, op, p, val)
      PROVE  write'[w].by = write[w].by
  BY <1>1, <1>2 DEF Send, Free
<1>3. CASE Gesture(v)
  BY <1>2, <1>3 DEF Gesture, save, onToggleDefault, onToggleEnabled, doDelete, onSaveKey, applyPin,
     onSubmit
<1>4. ASSUME NEW at, Ends(v, at) PROVE write'[w].by = write[w].by
  BY <1>1, <1>4 DEF Ends, WriteCall
<1>5. CASE Reads(v)
  BY <1>1, <1>4, <1>5 DEF Reads, WriteCall
<1>6. CASE put_get_or_create(v)
  BY <1>1, <1>6 DEF put_get_or_create, WriteCall
<1>7. CASE create_provider(v)
  BY <1>4, <1>7 DEF create_provider
<1>8. CASE update_provider(v)
  BY <1>4, <1>8 DEF update_provider
<1>9. CASE delete_provider(v)
  BY <1>4, <1>9 DEF delete_provider
<1>10. CASE put_preferences(v)
  <2>1. CASE Ends(v, "failed")
    BY <1>4, <2>1
  <2>2. CASE write' = [write EXCEPT ![v].at = "done", ![v].seen = Shown(pref'),
                                     ![v].clean = Shown(pref) = write[v].seen]
    BY <1>1, <2>2 DEF WriteCall
  <2> QED
    BY <1>10, <2>1, <2>2 DEF put_preferences
<1>11. CASE patch_session(v)
  BY <1>4, <1>11 DEF patch_session
<1> QED
  BY <1>3, <1>5, <1>6, <1>7, <1>8, <1>9, <1>10, <1>11 DEF Handles

\* PreferencesCard.save sends both fields, those the person emptied with flags
\* that clear them: what put_preferences answers, and the card then shows, is
\* what was saved.
THEOREM SavesAreShown == ProvidersSpec => SavesForm
<1>1. ASSUME SettingsInv, [ProvidersNext]_providersVars,
             NEW w \in Write, Answered(w, {"put"}), write[w].clean, write'[w].by = None,
             losses' = losses
      PROVE  page'.pref = [prov |-> write[w].p, model |-> write[w].val]
  <2>1. write[w].by # None /\ write[w].op = "put" /\ write[w].at = "done" /\ losses \in Nat
    BY <1>1, BoundAssumption DEF Answered, Active, SettingsInv, SettingsTypes, Counts
  <2>2. /\ write \in [Write -> WriteCall \cup {Idle}] /\ PageOk
        /\ write[w].seen = [prov |-> write[w].p, model |-> write[w].val]
    BY <1>1, <2>1, WriteIs DEF SettingsInv, SettingsTypes, WritesOk, Sound
  <2>3. write'[w].by # write[w].by
    BY <1>1, <2>1
  <2>4. PICK v \in Write : Answers(v)
    <3>1. write' # write
      BY <2>3
    <3>2. ProvidersNext
      BY <1>1, <3>1 DEF providersVars
    <3>3. ASSUME NEW l \in Load, ProvidersPage(l) \/ ChatSessionPage(l) \/ Loads(l)
          PROVE  write' = write
      BY <3>3 DEF ProvidersPage, ChatSessionPage, Loads, list_providers, seed_default, seed_commit,
         get_preferences, get_or_create_pref, loadSettings, loadFails
    <3>4. ASSUME NEW form, edit(form) PROVE write' = write
      BY <3>4 DEF edit
    <3>5. \A v \in Write : ~(Gesture(v) \/ Handles(v))
      BY <1>1, <2>1, <2>3, RequestStays
    <3> QED
      BY <3>1, <3>2, <3>3, <3>4, <3>5 DEF ProvidersNext
  <2>5. v = w
    BY <2>2, <2>3, <2>4 DEF Answers, onChanged, onUpdated, onPinned, onError, Ended
  <2>6. onUpdated(w)
    <3>1. ~onChanged(w) /\ ~onPinned(w)
      BY <2>1 DEF onChanged, onPinned, Answered
    <3>2. ~onError(w)
      BY <1>1, <2>1 DEF onError
    <3> QED
      BY <2>4, <2>5, <3>1, <3>2 DEF Answers
  <2> QED
    BY <2>2, <2>6 DEF onUpdated, PageOk
<1>2. SettingsInv /\ [ProvidersNext]_providersVars =>
         \A w \in Write :
            Answered(w, {"put"}) /\ write[w].clean /\ write'[w].by = None /\ losses' = losses
              => page'.pref = [prov |-> write[w].p, model |-> write[w].val]
  BY <1>1
<1> QED
  BY <1>2, Invariant, PTL DEF ProvidersSpec, SavesForm
=============================================================================

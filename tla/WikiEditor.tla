----------------------------- MODULE WikiEditor -----------------------------
(***************************************************************************)
(* The editors of the wiki: a page's (use-wiki-page-editor.ts), which      *)
(* saves with the revision it last saw, and a document's                   *)
(* (document-editor-client.tsx), which saves without.  Both save 1.5 s     *)
(* after the last edit, one request at a time.                             *)
(*                                                                         *)
(* An editor here is one mounted instance: opened once, and never again    *)
(* after it is closed, though its timers and requests may outlive it.      *)
(* The instances are in the browsers of people who work on one text, or    *)
(* of one who comes back to it.                                            *)
(*                                                                         *)
(* A text is the set of the edits it holds, of its title and of its body,  *)
(* which go to the server together.  An edit is a number.  Taking          *)
(* something out of a text is an edit of it like any other, so an edit     *)
(* that is missing was lost.  A title that is cleared stands out all the   *)
(* same, because a document's request leaves an empty title out.           *)
(*                                                                         *)
(* An image that is pasted stands in the body as a placeholder until its   *)
(* upload (Upload) is over, and the body is not handed on meanwhile.       *)
(***************************************************************************)
EXTENDS Naturals, FiniteSets

CONSTANTS Ed,         \* editors
          MaxEvents,  \* bound of the model: edits, images and lost requests
          Pasting,    \* the editors an image is pasted into (once each)
          Asking,     \* the editors a chat is opened from
          Clearing    \* the editors a document's title is cleared in

ASSUME EditAssumption ==
    MaxEvents \in Nat /\ Pasting \cup Asking \cup Clearing \subseteq Ed

VARIABLES kind,       \* what is edited: "page" or "document"
          titles,     \* which edits are of a document's title
          row,        \* the server's row: its text and revision
          there,      \* the row exists
          ed,         \* the editors
          req,        \* requests the server works on or has answered
          chat,       \* what the chat that was opened from a page quotes
          events,     \* how many edits, changes of images and losses there were
          calm        \* history: see Unhurried

vars == <<kind, titles, row, there, ed, req, chat, events, calm>>

Edit == 1..MaxEvents
Row == [text : SUBSET Edit, rev : Nat]
NoRow == [text |-> {}, rev |-> 0]

\* ------------------------------------------------------------- an editor
\* view     the text the editor shows        body   titleRef, bodyRef
\* blank    titleRef of a document is empty
\* rev      the revision in pageRef          status the indicator
\* dirty    dirtyRef                         flight inFlightRef
\* own      the timer timerRef refers to     stray  timers it no longer does
\* at       unopened, open or closed
\* image    a placeholder that is uploaded ("up"), an upload whose placeholder
\*          was deleted ("cut"), neither any more ("over"), a placeholder
\*          that undo brought back ("stuck")
\* ask      askAI: waits for a save ("flush") or for the chat ("create")
\* wanted   history: what was in hand when askAI was pressed
Editor(r) == [view |-> r.text, body |-> r.text, blank |-> FALSE,
              rev |-> r.rev, status |-> "idle",
              dirty |-> FALSE, flight |-> FALSE, own |-> FALSE, stray |-> 0,
              at |-> "open", image |-> "none", ask |-> "no", wanted |-> {}]

Hole(s) == s.image \in {"up", "stuck"}      \* hasPendingUpload

scheduleSave(s) == [s EXCEPT !.dirty = TRUE, !.status = "dirty", !.own = TRUE]

\* onChange, unless a placeholder holds it back.
Emit(s) == IF Hole(s) THEN s ELSE scheduleSave([s EXCEPT !.body = s.view])

\* Variant: what was typed during the save has no save of its own.
FinallyForgets(s) == [s EXCEPT !.flight = FALSE,
                               !.ask = IF @ = "flush" THEN "create" ELSE @]

\* The end of flush, whatever became of it.  The timer is set without a look
\* at the one there may be; that one is out of reach from then on.
Finally(s) == [s EXCEPT !.flight = FALSE,
                        !.own = @ \/ s.dirty,
                        !.stray = IF s.own /\ s.dirty THEN @ + 1 ELSE @,
                        !.ask = IF @ = "flush" THEN "create" ELSE @]

\* A request: its editor, how far it is, what it sends, the row that the server
\* has read.  A document's sends `title || undefined`: no title, if it is empty.
Request(e, s) == [ed |-> e, stage |-> "sent", text |-> s.body,
                  untitled |-> s.blank, rev |-> s.rev, seen |-> NoRow]

Init ==
    /\ kind \in {"page", "document"} /\ titles = {}
    /\ row = [text |-> {}, rev |-> 1] /\ there = TRUE
    /\ ed = [e \in Ed |-> [Editor(row) EXCEPT !.at = "unopened"]]
    /\ req = {} /\ events = 0 /\ calm = TRUE
    /\ chat = [e \in Ed |-> {}]

\* Someone who does not hurry edits a text nobody else has unsaved work on, in
\* an editor that shows it whole, asks for a chat and leaves when what was
\* done is saved, leaves no document without a title, and has no request fail.
Quiet(s) == ~s.dirty /\ ~s.flight /\ ~s.own /\ s.stray = 0
Unhurried(e) == /\ row.text \subseteq ed[e].body
                /\ Quiet(ed[e]) => ed[e].rev = row.rev
                /\ \A o \in Ed \ {e} : Quiet(ed[o])
                /\ there

\* -------------------------------------------------------------- the person
Open(e) ==
    /\ ed[e].at = "unopened" /\ there
    /\ ed' = [ed EXCEPT ![e] = Editor(row)]
    /\ UNCHANGED <<kind, titles, row, there, req, chat, events, calm>>

Working(e) == ed[e].at = "open"

Typed(e) == [ed[e] EXCEPT !.view = @ \cup {events + 1}]
Change(e, s) ==
    /\ Working(e) /\ events < MaxEvents
    /\ events' = events + 1
    /\ ed' = [ed EXCEPT ![e] = s]
    /\ calm' = (calm /\ Unhurried(e) /\ ~s.blank)
    /\ UNCHANGED <<kind, row, there, req, chat>>

\* The title goes to its ref and the timer at once, the body through onUpdate.
\* (A page saves an empty title like any other.)
Retitle(e, blank) ==
    /\ Change(e, scheduleSave([Typed(e) EXCEPT !.body = @ \cup {events + 1},
                                              !.blank = blank]))
    /\ titles' = IF kind = "document" THEN titles \cup {events + 1} ELSE titles
updateTitle(e) == Retitle(e, FALSE)
clearTitle(e) == e \in Clearing /\ kind = "document" /\ Retitle(e, TRUE)
updateBody(e) == Change(e, Emit(Typed(e))) /\ UNCHANGED titles

\* A placeholder is pasted, is deleted, is put back by undo; what the person
\* does to the body is an edit of the body, seen by onUpdate.
Image(e, from, to) ==
    /\ Working(e) /\ ed[e].image \in from /\ events < MaxEvents
    /\ events' = events + 1
    /\ ed' = [ed EXCEPT ![e] = Emit([@ EXCEPT !.image = to])]
    /\ calm' = (calm /\ to # "stuck" /\ Unhurried(e))
    /\ UNCHANGED <<kind, titles, row, there, req, chat>>

insertUploadingImage(e) == e \in Pasting /\ Image(e, {"none"}, "up")
Cut(e) == Image(e, {"up"}, "cut")
Undo(e) == Image(e, {"over"}, "stuck")

\* Closed, by whatever leads away from the page: the own timer is cleared, and
\* what is shown, or is still uploaded, is nobody's any more.
Closed(s) == [s EXCEPT !.at = "closed", !.own = FALSE, !.ask = "no",
                       !.view = s.body, !.image = "none", !.wanted = {}]

Leave(e) ==
    /\ Working(e)
    /\ ed' = [ed EXCEPT ![e] = Closed(@)]
    /\ calm' = (calm /\ Quiet(ed[e]) /\ ed[e].view = ed[e].body)
    /\ UNCHANGED <<kind, titles, row, there, req, chat, events>>

\* The text is deleted, and the editor it was deleted from is left.
deletePage(e) ==
    /\ Working(e) /\ there
    /\ there' = FALSE
    /\ ed' = [ed EXCEPT ![e] = Closed(@)]
    /\ calm' = (calm /\ \A o \in Ed : Quiet(ed[o]))
    /\ UNCHANGED <<kind, titles, row, req, chat, events>>

\* ---------------------------------------------------------------- the save
\* One save at a time: another that is wanted meanwhile is left to Finally.
Flush(e, s) ==
    IF s.flight
    THEN /\ ed' = [ed EXCEPT ![e] = [s EXCEPT !.dirty = TRUE]]
         /\ UNCHANGED req
    ELSE /\ ed' = [ed EXCEPT ![e] = [s EXCEPT !.flight = TRUE, !.dirty = FALSE,
                                             !.status = "saving"]]
         /\ req' = req \cup {Request(e, s)}

\* A timer of the editor goes off, perhaps after the editor was closed.
Autosave(e) ==
    /\ \/ ed[e].own /\ Flush(e, [ed[e] EXCEPT !.own = FALSE])
       \/ ed[e].stray > 0 /\ Flush(e, [ed[e] EXCEPT !.stray = @ - 1])
    /\ UNCHANGED <<kind, titles, row, there, chat, events, calm>>

\* Variant: the unsaved is not saved first.
askAIAtOnce(e) ==
    /\ e \in Asking /\ kind = "page" /\ Working(e) /\ ed[e].ask = "no"
    /\ ed' = [ed EXCEPT ![e].own = FALSE, ![e].wanted = ed[e].body, ![e].ask = "create"]
    /\ calm' = (calm /\ Unhurried(e) /\ ~ed[e].flight)
    /\ UNCHANGED <<kind, titles, row, there, req, chat, events>>

\* A page only.  The unsaved is saved first, but a save under way is not
\* waited for.  (Pressed again meanwhile it makes another chat, and a chat that
\* is made after the editor was left is gone to all the same: left out.)
askAI(e) ==
    LET s == [ed[e] EXCEPT !.own = FALSE, !.wanted = ed[e].body]
    IN  /\ e \in Asking /\ kind = "page" /\ Working(e) /\ ed[e].ask = "no"
        /\ IF ed[e].dirty /\ ~ed[e].flight
           THEN Flush(e, [s EXCEPT !.ask = "flush"])
           ELSE /\ ed' = [ed EXCEPT ![e] = [s EXCEPT !.ask = "create"]]
                /\ UNCHANGED req
        /\ calm' = (calm /\ Unhurried(e) /\ ~ed[e].flight)
        /\ UNCHANGED <<kind, titles, row, there, chat, events>>

\* The chat quotes the row and is gone to; without a row it is not made.
createChatFromPage(e) ==
    /\ ed[e].ask = "create"
    /\ chat' = IF there THEN [chat EXCEPT ![e] = row.text] ELSE chat
    /\ ed' = [ed EXCEPT ![e] = IF there THEN [Closed(@) EXCEPT !.wanted = ed[e].wanted]
                               ELSE [@ EXCEPT !.ask = "no", !.wanted = {}]]
    /\ calm' = (calm /\ (there => ed[e].view = ed[e].wanted))
    /\ UNCHANGED <<kind, titles, row, there, req, events>>

\* -------------------------------------------------------------- the server
\* What a request no longer needs is dropped.
Advance(q, stage, seen) ==
    req' = (req \ {q}) \cup
               {[ed |-> q.ed, stage |-> stage, rev |-> 0, seen |-> seen,
                 text |-> IF stage = "read" THEN q.text ELSE {},
                 untitled |-> stage = "read" /\ q.untitled]}

\* update_page looks the row up and compares revisions; update_document does
\* not.  Nothing locks the row.
Read(q) ==
    /\ q.stage = "sent"
    /\ IF ~there THEN Advance(q, "failed", NoRow)
       ELSE IF kind = "page" /\ q.rev # row.rev THEN Advance(q, "conflict", NoRow)
       ELSE Advance(q, "read", row)
    /\ UNCHANGED <<kind, titles, row, there, ed, chat, events, calm>>

\* What a request makes of a text: without a title it changes the body alone.
Put(q, text) == IF q.untitled THEN (q.text \ titles) \cup (text \cap titles) ELSE q.text

\* What differs from what was read is written, and the revision read plus one.
Commit(q) ==
    /\ q.stage = "read"
    /\ Advance(q, IF there THEN "written" ELSE "failed", NoRow)
    /\ row' = IF ~there THEN row
              ELSE [text |-> IF Put(q, q.seen.text) = q.seen.text THEN row.text
                             ELSE Put(q, row.text),
                    rev  |-> IF kind = "page" THEN q.seen.rev + 1 ELSE row.rev]
    /\ UNCHANGED <<kind, titles, there, ed, chat, events, calm>>

\* session.refresh, and getPage after a conflict: the answer is the row now.
Refresh(q) ==
    /\ q.stage \in {"written", "refetch"}
    /\ Advance(q, IF ~there THEN "failed"
                  ELSE IF q.stage = "written" THEN "answered" ELSE "refetched", row)
    /\ UNCHANGED <<kind, titles, row, there, ed, chat, events, calm>>

\* The indicator after an error; a conflict stays on it.
Failed(s) == IF s.status = "conflict" THEN s ELSE [s EXCEPT !.status = "dirty"]

\* A request is lost on its way to the server, or its answer on the way back.
Lose(q) ==
    /\ q.stage \in {"sent", "answered", "refetch"} /\ events < MaxEvents
    /\ events' = events + 1
    /\ req' = req \ {q}
    /\ ed' = [ed EXCEPT ![q.ed] = Finally(Failed(@))]
    /\ calm' = FALSE
    /\ UNCHANGED <<kind, titles, row, there, chat>>

\* ------------------------------------------------------------- the answers
Answer(q, stage, s) ==
    /\ q.stage = stage
    /\ req' = req \ {q}
    /\ ed' = [ed EXCEPT ![q.ed] = Finally(s)]
    /\ UNCHANGED <<kind, titles, row, there, chat, events, calm>>

\* A document has no revision.
Revision(q) == IF kind = "page" THEN q.seen.rev ELSE ed[q.ed].rev

\* Variant: saved, whatever was typed meanwhile.
SavedAll(q) ==
    Answer(q, "answered", [ed[q.ed] EXCEPT !.rev = Revision(q), !.status = "saved"])

\* The editor keeps its own text, and the revision of the row.
Saved(q) ==
    Answer(q, "answered",
           [ed[q.ed] EXCEPT !.rev = Revision(q),
                            !.status = IF ed[q.ed].dirty THEN "dirty" ELSE "saved"])

\* 409: the page is asked for, and its revision is taken over with it.
Conflict(q) ==
    /\ q.stage = "conflict"
    /\ Advance(q, "refetch", NoRow)
    /\ ed' = [ed EXCEPT ![q.ed].status = "conflict"]
    /\ UNCHANGED <<kind, titles, row, there, chat, events, calm>>
Refetched(q) == Answer(q, "refetched", [ed[q.ed] EXCEPT !.rev = q.seen.rev])

\* Any other error, or a page that cannot be fetched again.
SaveFailed(q) == Answer(q, "failed", Failed(ed[q.ed]))

\* Variant: the end of an upload is not handed on.
UploadSettledSilently(e) ==
    /\ ed[e].image \in {"up", "cut"}
    /\ ed' = [ed EXCEPT ![e].image = "over"]
    /\ calm' = (calm /\ Unhurried(e))
    /\ UNCHANGED <<kind, titles, row, there, req, chat, events>>

\* The upload is over: the placeholder becomes the image, or is taken out.
UploadSettled(e) ==
    /\ ed[e].image \in {"up", "cut"}
    /\ ed' = [ed EXCEPT ![e] =
                 LET s == [@ EXCEPT !.image = "over"]
                 IN  IF @.image = "up" THEN Emit(s) ELSE s]
    /\ calm' = (calm /\ Unhurried(e))
    /\ UNCHANGED <<kind, titles, row, there, req, chat, events>>

-----------------------------------------------------------------------------
Serve(q) == \/ Read(q) \/ Commit(q) \/ Refresh(q)
            \/ Saved(q) \/ Conflict(q) \/ Refetched(q) \/ SaveFailed(q)
System == \/ \E e \in Ed : Autosave(e) \/ createChatFromPage(e) \/ UploadSettled(e)
          \/ \E q \in req : Serve(q)
Person(e) == \/ Open(e) \/ updateTitle(e) \/ clearTitle(e) \/ updateBody(e)
             \/ insertUploadingImage(e) \/ Cut(e) \/ Undo(e)
             \/ Leave(e) \/ deletePage(e) \/ askAI(e)

Next == System \/ (\E e \in Ed : Person(e)) \/ (\E q \in req : Lose(q))

\* Timers go off, uploads end, and what is asked is answered; nobody has to
\* type, and nothing has to be lost.
Spec == Init /\ [][Next]_vars /\ WF_vars(System)

-----------------------------------------------------------------------------
(***************************************************************************)
(* Properties                                                              *)
(***************************************************************************)

EditorType == [view : SUBSET Edit, body : SUBSET Edit, blank : BOOLEAN, rev : Nat,
               status : {"idle", "dirty", "saving", "saved", "conflict"},
               dirty : BOOLEAN, flight : BOOLEAN, own : BOOLEAN, stray : Nat,
               at : {"unopened", "open", "closed"},
               image : {"none", "up", "cut", "over", "stuck"},
               ask : {"no", "flush", "create"}, wanted : SUBSET Edit]
RequestType == [ed : Ed, text : SUBSET Edit, untitled : BOOLEAN, rev : Nat, seen : Row,
                stage : {"sent", "read", "written", "answered", "conflict",
                         "refetch", "refetched", "failed"}]

\* The types.
TypeOK ==
    /\ kind \in {"page", "document"} /\ titles \subseteq Edit
    /\ row \in Row /\ there \in BOOLEAN
    /\ events \in 0..MaxEvents /\ calm \in BOOLEAN
    /\ chat \in [Ed -> SUBSET Edit]
    /\ ed \in [Ed -> EditorType]
    /\ req \subseteq RequestType

\* Whatever happens, an open editor whose dirtyRef is set has a save coming: a
\* timer, or the end of the save under way.  The timers are set and cleared in
\* four places.  The indicator may say "Unsaved" of one whose dirtyRef is not
\* set, which waits for the next edit; but only after a request failed.
DirtyIsPending ==
    \A e \in Ed : Working(e) /\ (ed[e].dirty \/ (calm /\ ed[e].status = "dirty")) =>
        ed[e].own \/ ed[e].stray > 0 \/ ed[e].flight

\* An editor waits for one save at a time, and for one when it says so.
OneSave ==
    \A q \in req :
        /\ ed[q.ed].flight
        /\ \A p \in req : p.ed = q.ed => p = q

\* Someone who does not hurry loses nothing: what the indicator calls saved is
\* in the row, whatever was typed during the save, and no save is taken for
\* another's.
CalmSaved ==
    calm => \A e \in Ed : /\ ed[e].status = "saved" => ed[e].body \subseteq row.text
                          /\ ed[e].status # "conflict"

\* The chat that is opened from a page by someone who does not hurry quotes
\* what was in the editor.
CalmAsk == calm => \A e \in Ed : ed[e].at = "closed" => ed[e].wanted \subseteq chat[e]

\* Whenever someone who does not hurry stops typing for long enough, all that
\* the editors show gets to the server.
EditsArrive ==
    []<>(~calm \/ ~there \/
         \A e \in Ed : Working(e) => ed[e].view \subseteq row.text)

\* "Saved" (save-indicator.tsx) is said of a cleared title too.
TitleIsSaved ==
    \A e \in Ed : ed[e].status = "saved" /\ ed[e].blank => ed[e].body \subseteq row.text

\* "Conflict - reloaded" (save-indicator.tsx): after it, what the editor shows
\* holds what the row held.
ConflictReloads ==
    \A e \in Ed : ed[e].status = "conflict" /\ ed[e].rev = row.rev =>
        row.text \subseteq ed[e].view
=============================================================================

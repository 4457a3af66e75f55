------------------------------ MODULE Providers ------------------------------
(***************************************************************************)
(* A user's LLM providers, the preferences beside them and a chat          *)
(* session's pin, with the two places of the web client that change them:  *)
(* the settings page and the model selector of an open session             *)
(* (service/providers, api/routers/providers.py, PATCH of api/routers/     *)
(* chat.py; websites/src/features/providers, chat/components/              *)
(* model-selector).                                                        *)
(*                                                                         *)
(* A handler reads, and commits only what differs from what it read; two   *)
(* handlers may interleave between the two.  The database is the one of    *)
(* the migrations: a name is unique, a user has one row of preferences,    *)
(* and deleting a provider clears what points to it.  The browser may lose *)
(* any answer while the server goes on.                                    *)
(*                                                                         *)
(* A provider is its row's id and never comes back.  Keys, addresses and   *)
(* the lists of models are data no property is about.                      *)
(***************************************************************************)
EXTENDS Integers, FiniteSets

CONSTANTS Provider, Name,  \* ids of rows and the name each has
          Seed,            \* ids a row made by seeding may get
          Model, SeedModel,
          Old,             \* the providers of a user who has been here before
          Load, Write,     \* calls under way at a time, numbered; bounds of the model
          MaxGestures,
          MaxLost          \* calls whose answer is lost, bound of the model

None == "none"

ASSUME NameAssumption == /\ Name \in [Provider -> Nat] /\ Seed \subseteq Provider
                         /\ \A s, t \in Seed : Name[s] = Name[t]
                         /\ Old \subseteq Provider \ Seed
                         /\ None \notin Provider /\ SeedModel \in Model
ASSUME SlotAssumption == Load \cup Write \subseteq Nat /\ Load \cap Write = {}
ASSUME BoundAssumption == MaxGestures \in Nat /\ MaxLost \in Nat

VARIABLES table,     \* providers of the user: rows, the default ones, the enabled
          used,      \* ids there have been
          pref,      \* row of user_preferences
          pin,       \* provider and model of the chat session
          load,      \* GET /providers with GET /me/preferences
          write,     \* requests that change something
          page,      \* the settings page
          selector,  \* the model selector
          gestures,  \* gestures made so far
          losses,    \* answers lost so far
          raced,     \* history: two requests made a default of what they had read
          crossed,   \* history: calls of one tab overlapped, or a seeding was seen half
          failed     \* history: tabs whose call failed or was lost

database == <<table, used, pref, pin>>
tabs == <<page, selector, gestures, losses>>
history == <<raced, crossed, failed>>
providersVars == <<database, load, write, tabs, history>>

Maybe(S) == S \cup {None}
NoRows == [rows |-> {}, dflt |-> {}, on |-> {}]
Unset == [prov |-> None, model |-> None]
Shown(row) == [prov |-> row.prov, model |-> row.model]
Idle == [by |-> None, op |-> None]

\* A new user, or one who has been here before and has both tabs open.
ProvidersInit ==
    /\ \E rows \in {{}, Old} : LET here == rows # {} IN
          /\ table = [rows |-> rows, dflt |-> {}, on |-> rows] /\ used = rows
          /\ pref = [made |-> here, prov |-> None, model |-> None]
          /\ page = [up |-> here, list |-> table, pref |-> Unset, form |-> Unset]
          /\ selector = [up |-> here, list |-> rows, pin |-> Unset]
    /\ pin = Unset
    /\ load = [l \in Load |-> Idle] /\ write = [w \in Write |-> Idle]
    /\ gestures = 0 /\ losses = 0 /\ raced = FALSE /\ crossed = {} /\ failed = {}

Owner(by) == IF by \in {"mount", "refetch", "page"} THEN "page" ELSE "chat"
Waits(call, tab) == call.by # None /\ Owner(call.by) = tab
Underway(tab) == {l \in Load : Waits(load[l], tab)} \cup {w \in Write : Waits(write[w], tab)}

\* ------------------------------------------------------------------ loading
\* The server component of a page, or refetch: both requests at once.
Loading(by) == [by |-> by, op |-> "load", list |-> "sent", rows |-> NoRows,
                seen |-> Unset, pref |-> "sent", got |-> Unset]
Free(calls, i) == calls[i].by = None /\ \A j \in DOMAIN calls : j < i => calls[j].by # None
Begin(l, by) == Free(load, l) /\ load' = [load EXCEPT ![l] = Loading(by)]

ProvidersPage(l) ==
    /\ ~page.up /\ ~\E k \in Load : load[k].by = "mount"
    /\ gestures < MaxGestures /\ gestures' = gestures + 1 /\ Begin(l, "mount")
    /\ UNCHANGED <<database, write, page, selector, losses, history>>

\* The session's row is read first; without it the page goes on with no pin.
ChatSessionPage(l) ==
    /\ ~selector.up /\ ~\E k \in Load : load[k].by = "chat"
    /\ gestures < MaxGestures /\ gestures' = gestures + 1 /\ Begin(l, "chat")
    /\ \/ /\ selector' = [selector EXCEPT !.pin = pin] /\ UNCHANGED <<losses, failed>>
       \/ /\ losses < MaxLost /\ losses' = losses + 1
          /\ failed' = failed \cup {"chat"} /\ UNCHANGED selector
    /\ UNCHANGED <<database, write, page, raced, crossed>>

list_providers(l) ==
    /\ load[l].op = "load" /\ load[l].list \in {"sent", "again"}
    /\ load' = [load EXCEPT ![l].list =
                   IF table.rows = {} /\ @ = "sent" THEN "seed" ELSE "done",
                            ![l].rows = table]
    /\ UNCHANGED <<database, write, tabs, history>>

\* A first provider for a user who has none: the row is held until commit.
\* When another request has made one since, the empty list is the answer.
seed_default(l) ==
    /\ load[l].op = "load" /\ load[l].list = "seed"
    /\ load' = [load EXCEPT ![l].list = IF table.rows = {} THEN "commit" ELSE "done",
                            ![l].seen = pref]
    /\ crossed' = IF table.rows = {} THEN crossed ELSE crossed \cup {"page"}
    /\ UNCHANGED <<database, write, tabs, raced, failed>>

\* Another request that has read the defaults there were and will set its own.
SetsDefault(c) == c.op \in {"create", "default"} /\ c.val /\ c.at = "read"
Seeding(c) == c.op = "load" /\ c.list = "commit"
DefaultPending(self) == \/ \E w \in Write \ {self} : SetsDefault(write[w])
                        \/ \E l \in Load \ {self} : Seeding(load[l])

NameTaken(p) == \E q \in table.rows : Name[q] = Name[p]
Conflicts(l, s) == NameTaken(s) \/ (~load[l].seen.made /\ pref.made)

seed_commit(l) ==
    /\ load[l].op = "load" /\ load[l].list = "commit"
    /\ \E s \in Seed :
         \/ /\ Conflicts(l, s)
            /\ load' = [load EXCEPT ![l].list = "failed", ![l].seen = Unset]
            /\ UNCHANGED <<database, write, tabs, history>>
         \/ /\ s \notin used /\ ~Conflicts(l, s)
            /\ table' = [rows |-> table.rows \cup {s}, dflt |-> table.dflt \cup {s},
                         on |-> table.on \cup {s}]
            /\ used' = used \cup {s}
            /\ pref' = [made |-> TRUE, prov |-> s,
                        model |-> IF load[l].seen.model = None THEN SeedModel
                                  ELSE pref.model]
            /\ load' = [load EXCEPT ![l].list = "again", ![l].seen = Unset]
            /\ raced' = (raced \/ DefaultPending(l))
            /\ crossed' = IF Owner(load[l].by) = "page" /\ load[l].pref = "sent"
                          THEN crossed ELSE crossed \cup {"page"}
            /\ UNCHANGED <<pin, write, tabs, failed>>

\* The preferences are made when they are first asked for.
get_preferences(l) ==
    /\ load[l].op = "load" /\ load[l].pref = "sent"
    /\ load' = [load EXCEPT ![l].pref = IF pref.made THEN "done" ELSE "insert",
                            ![l].got = Shown(pref)]
    /\ UNCHANGED <<database, write, tabs, history>>

get_or_create_pref(l) ==
    /\ load[l].op = "load" /\ load[l].pref = "insert"
    /\ IF pref.made THEN UNCHANGED pref ELSE pref' = [pref EXCEPT !.made = TRUE]
    /\ load' = [load EXCEPT ![l].pref = IF pref.made THEN "failed" ELSE "done"]
    /\ UNCHANGED <<table, used, pin, write, tabs, history>>

Both(l, S) == load[l].list \in S /\ load[l].pref \in S

\* What came back is shown, over whatever the form held.
setLoaded(l, rows, got) ==
    \/ /\ Owner(load[l].by) = "page" /\ UNCHANGED selector
       /\ page' = [up |-> TRUE, list |-> rows, pref |-> got, form |-> got]
    \/ /\ load[l].by = "chat" /\ UNCHANGED page
       /\ selector' = [selector EXCEPT !.up = TRUE, !.list = rows.rows]

loadSettings(l) ==
    /\ load[l].by # None /\ Both(l, {"done"})
    /\ setLoaded(l, load[l].rows, load[l].got)
    /\ load' = [load EXCEPT ![l] = Idle]
    /\ UNCHANGED <<database, write, gestures, losses, history>>

\* Both have ended and one failed, or the requests or their answers were lost:
\* a page that is being made is empty, one that is there stays as it was.
loadFails(l) ==
    /\ load[l].by # None
    /\ \/ /\ Both(l, {"done", "failed"}) /\ ~Both(l, {"done"})
          /\ UNCHANGED losses
       \/ /\ Both(l, {"sent"}) \/ Both(l, {"done", "failed"})
          /\ losses < MaxLost /\ losses' = losses + 1
    /\ IF load[l].by = "refetch" THEN UNCHANGED <<page, selector>>
       ELSE setLoaded(l, NoRows, Unset)
    /\ failed' = failed \cup {Owner(load[l].by)}
    /\ load' = [load EXCEPT ![l] = Idle]
    /\ UNCHANGED <<database, write, gestures, raced, crossed>>

\* ----------------------------------------------------------------- gestures
Send(w, by, op, p, val) ==
    /\ Free(write, w) /\ gestures < MaxGestures /\ gestures' = gestures + 1
    /\ write' = [write EXCEPT ![w] = [by |-> by, op |-> op, p |-> p, val |-> val,
                                      at |-> "sent", rows |-> NoRows,
                                      seen |-> Unset, clean |-> FALSE]]
    /\ crossed' = IF Underway(by) = {} THEN crossed ELSE crossed \cup {by}

Sending(op, p) == \E w \in Write : /\ Waits(write[w], "page")
                                   /\ write[w].op = op /\ p \in {write[w].p, None}
CardBusy(p) == \E op \in {"default", "enable", "delete"} : Sending(op, p)

\* The buttons of a card; what they send is the opposite of what it shows.
\* A deletion leaves an id for a seeding that may follow (bound of the model).
onToggleDefault(w, p) ==
    page.up /\ p \in page.list.rows /\ ~CardBusy(p)
    /\ Send(w, "page", "default", p, p \notin page.list.dflt)
onToggleEnabled(w, p) ==
    page.up /\ p \in page.list.rows /\ ~CardBusy(p)
    /\ Send(w, "page", "enable", p, p \notin page.list.on)
doDelete(w, p) ==
    page.up /\ p \in page.list.rows /\ ~CardBusy(p) /\ Seed \ used # {}
    /\ Send(w, "page", "delete", p, FALSE)
onSaveKey(w, p) ==
    page.up /\ p \in page.list.rows /\ ~Sending("key", p)
    /\ Send(w, "page", "key", p, FALSE)
onSubmit(w, p) ==
    /\ page.up /\ p \in Provider \ (Seed \cup used) /\ used' = used \cup {p}
    /\ ~Sending("create", None)
    /\ \E isDefault \in BOOLEAN : Send(w, "page", "create", p, isDefault)

\* The defaults card: its fields, and what Save sends of them.
edit(form) ==
    /\ page.up /\ form # page.form /\ form.prov \in Maybe(page.list.rows)
    /\ gestures < MaxGestures /\ gestures' = gestures + 1
    /\ page' = [page EXCEPT !.form = form]
    /\ UNCHANGED <<database, load, write, selector, losses, history>>
save(w) ==
    /\ page.up /\ page.form # page.pref
    /\ ~Sending("put", None)
    /\ Send(w, "page", "put", page.form.prov, page.form.model)

\* The selector offers what was loaded with the session; it stays open to
\* the next choice while one is being saved.
applyPin(w, next) ==
    /\ selector.up /\ selector.list # {}
    /\ next = Unset \/ (next.prov \in selector.list /\ next.model \in Model)
    /\ Send(w, "chat", "pin", next.prov, next.model)

Gesture(w) ==
    \/ /\ \/ save(w)
          \/ \E p \in Provider :
               \/ onToggleDefault(w, p) \/ onToggleEnabled(w, p)
               \/ doDelete(w, p) \/ onSaveKey(w, p)
          \/ \E p \in Maybe(Provider), m \in Maybe(Model) :
               applyPin(w, [prov |-> p, model |-> m])
       /\ UNCHANGED <<database, load, page, selector, losses, raced, failed>>
    \/ /\ \E p \in Provider : onSubmit(w, p)
       /\ UNCHANGED <<table, pref, pin, load, page, selector, losses, raced, failed>>

\* ---------------------------------------------------------------- handlers
Ends(w, at) ==
    write' = [write EXCEPT ![w].at = at, ![w].rows = NoRows, ![w].seen = Unset]
Active(w, at) == write[w].by # None /\ write[w].at \in at

\* What the handler reads; a provider that is not there is refused, and so
\* is a new one that the probe finds dead.
Reads(w) == LET c == write[w] IN
    /\ Active(w, {"sent"})
    /\ \/ /\ c.op = "put" /\ ~pref.made
          /\ write' = [write EXCEPT ![w].at = "insert"]
       \/ /\ c.op # "put" \/ pref.made
          /\ \/ c.op = "create" \/ c.p \in Maybe(table.rows)
          /\ write' = [write EXCEPT ![w].at = "read",
                ![w].seen = CASE c.op = "put" -> Shown(pref)
                              [] c.op = "pin" -> pin
                              [] OTHER -> Unset,
                ![w].rows = IF c.op \in {"create", "default", "enable"} THEN table
                            ELSE NoRows]
       \/ /\ c.op = "create" \/ c.p \notin Maybe(table.rows)
          /\ c.op # "put" \/ pref.made
          /\ Ends(w, "refused")
    /\ UNCHANGED <<database, load, tabs, history>>

put_get_or_create(w) ==
    /\ Active(w, {"insert"})
    /\ IF pref.made THEN UNCHANGED pref ELSE pref' = [pref EXCEPT !.made = TRUE]
    /\ write' = [write EXCEPT ![w].at = IF pref.made THEN "failed" ELSE "sent"]
    /\ UNCHANGED <<table, used, pin, load, tabs, history>>

\* The rows whose is_default is cleared for a new default.
\* Variant: the prior default is not looked for.
PriorNone(c) == {}

Prior(c) == IF c.val THEN c.rows.dflt \ {c.p} ELSE {}

\* A column is written when it differs from what was read.  A row that has
\* gone since fails the transaction, or is missed by a statement for several.
Written(c) ==
    CASE c.op = "create"  -> Prior(c)
      [] c.op = "default" -> Prior(c) \cup { p \in {c.p} : (p \in c.rows.dflt) # c.val }
      [] c.op = "enable"  -> { p \in {c.p} : (p \in c.rows.on) # c.val }
      [] c.op = "key"     -> {c.p}
MayCommit(c) == Written(c) \subseteq table.rows \/ Cardinality(Written(c)) > 1
MayFail(c) == ~(Written(c) \subseteq table.rows)

create_provider(w) == LET c == write[w] IN
    /\ Active(w, {"read"}) /\ c.op = "create"
    /\ \/ NameTaken(c.p) /\ Ends(w, "refused") /\ UNCHANGED <<table, raced>>
       \/ MayFail(c) /\ Ends(w, "failed") /\ UNCHANGED <<table, raced>>
       \/ /\ ~NameTaken(c.p) /\ MayCommit(c) /\ Ends(w, "done")
          /\ table' = [rows |-> table.rows \cup {c.p},
                       dflt |-> (table.dflt \ Prior(c)) \cup (IF c.val THEN {c.p} ELSE {}),
                       on |-> table.on \cup {c.p}]
          /\ raced' = (raced \/ (c.val /\ DefaultPending(w)))
    /\ UNCHANGED <<used, pref, pin, load, tabs, crossed, failed>>

\* The row is read again once it is written, and must still be there.
update_provider(w) == LET c == write[w] IN
    /\ Active(w, {"read"}) /\ c.op \in {"default", "enable", "key"}
    /\ \/ MayFail(c) /\ Ends(w, "failed") /\ UNCHANGED <<table, raced>>
       \/ /\ MayCommit(c) /\ Ends(w, IF c.p \in table.rows THEN "done" ELSE "failed")
          /\ LET own == Written(c) \cap {c.p} \cap table.rows IN
             table' = CASE c.op = "default" /\ c.val ->
                             [table EXCEPT !.dflt = (@ \ Prior(c)) \cup own]
                        [] c.op = "default" /\ ~c.val -> [table EXCEPT !.dflt = @ \ own]
                        [] c.op = "enable" /\ c.val -> [table EXCEPT !.on = @ \cup own]
                        [] c.op = "enable" /\ ~c.val -> [table EXCEPT !.on = @ \ own]
                        [] OTHER -> table
          /\ raced' = (raced \/ (c.op = "default" /\ c.val /\ DefaultPending(w)))
    /\ UNCHANGED <<used, pref, pin, load, tabs, crossed, failed>>

Cleared(row, p) == IF row.prov = p THEN [row EXCEPT !.prov = None] ELSE row

delete_provider(w) == LET p == write[w].p IN
    /\ Active(w, {"read"}) /\ write[w].op = "delete" /\ Ends(w, "done")
    /\ table' = [rows |-> table.rows \ {p}, dflt |-> table.dflt \ {p},
                 on |-> table.on \ {p}]
    /\ pref' = Cleared(pref, p) /\ pin' = Cleared(pin, p)
    /\ UNCHANGED <<used, load, tabs, history>>

\* A field the browser leaves empty (preferences-card.tsx, applyPin of
\* model-selector.tsx) is sent as a flag that clears it; one that is neither
\* sent nor flagged keeps its value.
\* Variant: an empty field is left out.
ClearsNothing(x) == FALSE

Clears(x) == x = None
Patched(x, old) == IF Clears(x) THEN None ELSE IF x # None THEN x ELSE old

\* Only a field that differs from what was read is written.
Merged(row, c) ==
    LET new == [prov |-> Patched(c.p, c.seen.prov), model |-> Patched(c.val, c.seen.model)]
    IN  [row EXCEPT !.prov = IF new.prov = c.seen.prov THEN @ ELSE new.prov,
                    !.model = IF new.model = c.seen.model THEN @ ELSE new.model]
BadReference(c) == c.p \notin Maybe(table.rows) /\ c.p # c.seen.prov

put_preferences(w) == LET c == write[w] IN
    /\ Active(w, {"read"}) /\ c.op = "put"
    /\ \/ BadReference(c) /\ Ends(w, "failed") /\ UNCHANGED pref
       \/ /\ ~BadReference(c) /\ pref' = Merged(pref, c)
          /\ write' = [write EXCEPT ![w].at = "done", ![w].seen = Shown(pref'),
                                     ![w].clean = Shown(pref) = c.seen]
    /\ UNCHANGED <<table, used, pin, load, tabs, history>>

patch_session(w) == LET c == write[w] IN
    /\ Active(w, {"read"}) /\ c.op = "pin"
    /\ \/ BadReference(c) /\ Ends(w, "failed") /\ UNCHANGED pin
       \/ ~BadReference(c) /\ Ends(w, "done") /\ pin' = Merged(pin, c)
    /\ UNCHANGED <<table, used, pref, load, tabs, history>>

\* ------------------------------------------------------------------ answers
Answered(w, op) == Active(w, {"done"}) /\ write[w].op \in op
Ended(w) == write' = [write EXCEPT ![w] = Idle]

\* A change of a provider is followed by a new look at everything.
\* Variant: a deleted provider is only taken off the screen.
onChangedInPlace(w) ==
    /\ Answered(w, {"create", "default", "enable", "key", "delete"}) /\ Ended(w)
    /\ IF write[w].op = "delete"
       THEN /\ page' = [page EXCEPT !.list.rows = @ \ {write[w].p},
                                    !.list.dflt = @ \ {write[w].p},
                                    !.list.on = @ \ {write[w].p}]
            /\ UNCHANGED <<load, crossed>>
       ELSE /\ \E l \in Load : Begin(l, "refetch")
            /\ crossed' = IF Cardinality(Underway("page")) = 1 THEN crossed
                          ELSE crossed \cup {"page"}
            /\ UNCHANGED page
    /\ UNCHANGED <<database, selector, gestures, losses, raced, failed>>

onChanged(w) ==
    /\ Answered(w, {"create", "default", "enable", "key", "delete"}) /\ Ended(w)
    /\ \E l \in Load : Begin(l, "refetch")
    /\ crossed' = IF Cardinality(Underway("page")) = 1 THEN crossed
                  ELSE crossed \cup {"page"}
    /\ UNCHANGED <<database, tabs, raced, failed>>

onUpdated(w) ==
    /\ Answered(w, {"put"}) /\ Ended(w)
    /\ page' = [page EXCEPT !.pref = write[w].seen,
                             !.form = write[w].seen]
    /\ UNCHANGED <<database, load, selector, gestures, losses, history>>

onPinned(w) ==
    /\ Answered(w, {"pin"}) /\ Ended(w)
    /\ selector' = [selector EXCEPT !.pin = [prov |-> write[w].p, model |-> write[w].val]]
    /\ UNCHANGED <<database, load, page, gestures, losses, history>>

\* Refused, failed, or done and its answer lost.
onError(w) ==
    /\ Active(w, {"done", "refused", "failed"}) /\ Ended(w)
    /\ \/ write[w].at # "done" /\ UNCHANGED losses
       \/ losses < MaxLost /\ losses' = losses + 1
    /\ failed' = failed \cup {write[w].by}
    /\ UNCHANGED <<database, load, page, selector, gestures, raced, crossed>>

Loads(l) == \/ list_providers(l) \/ seed_default(l) \/ seed_commit(l)
            \/ get_preferences(l) \/ get_or_create_pref(l)
            \/ loadSettings(l) \/ loadFails(l)
Handles(w) == \/ Reads(w) \/ put_get_or_create(w) \/ create_provider(w)
              \/ update_provider(w) \/ delete_provider(w) \/ put_preferences(w)
              \/ patch_session(w)
Answers(w) == \/ onChanged(w) \/ onUpdated(w) \/ onPinned(w) \/ onError(w)

ProvidersNext ==
    \/ \E l \in Load : ProvidersPage(l) \/ ChatSessionPage(l) \/ Loads(l)
    \/ \E form \in [prov : Maybe(Provider), model : Maybe(Model)] : edit(form)
    \/ \E w \in Write : Gesture(w) \/ Handles(w) \/ Answers(w)

ProvidersSpec == ProvidersInit /\ [][ProvidersNext]_providersVars

\* ---------------------------------------------------------------- the runtime
\* The provider of a turn.
First == CHOOSE p \in table.on :
            \A q \in table.on : \/ p \in table.dflt /\ q \notin table.dflt
                                \/ (p \in table.dflt) = (q \in table.dflt) /\ Name[p] <= Name[q]
_pick_provider == IF pref.prov \in table.on THEN pref.prov
                  ELSE IF table.on # {} THEN First ELSE None
\* The provider an answer is said to come from.
resolve_provider_name == IF pin.prov # None THEN pin.prov ELSE pref.prov

\* --------------------------------------------------------------- properties
\* Types of the variables; what is in the table is in its rows, and so is what
\* the preferences and the pin point to.
ProvidersTypeOK ==
    /\ table.rows \subseteq used /\ used \subseteq Provider
    /\ table.dflt \subseteq table.rows /\ table.on \subseteq table.rows
    /\ {pref.prov, pin.prov} \subseteq Maybe(table.rows)
    /\ pref \in [made : BOOLEAN, prov : Maybe(Provider), model : Maybe(Model)]
    /\ {pin, page.pref, page.form, selector.pin} \subseteq
          [prov : Maybe(Provider), model : Maybe(Model)]
    /\ gestures \in 0 .. MaxGestures /\ raced \in BOOLEAN
    /\ crossed \cup failed \subseteq {"page", "chat"}

\* "Only one default per user" (create_provider): however requests overlap, a
\* second default comes only from two that had both read the defaults and
\* were both to set their own.
OneDefault == ~raced => Cardinality(table.dflt) <= 1

\* With no call under way the settings page shows the user's providers and
\* preferences, unless its calls overlapped, one failed, or a first provider
\* was being made while it read.
CalmPage ==
    page.up /\ Underway("page") = {} /\ "page" \notin crossed \cup failed
      => page.list = table /\ page.pref = Shown(pref)

\* The selector shows what the session is pinned to, whatever the settings
\* page does meanwhile, unless two choices overlapped or one failed; of a
\* provider deleted since it still shows the name.
CalmPin ==
    selector.up /\ Underway("chat") = {} /\ "chat" \notin crossed \cup failed
      => /\ selector.pin.model = pin.model
         /\ \/ selector.pin.prov = pin.prov
            \/ pin.prov = None /\ selector.pin.prov \notin table.rows

\* What the defaults card shows after a save is what the user saved, empty
\* fields included, unless another request changed the row in between.
SavesForm ==
    [][\A w \in Write :
          Answered(w, {"put"}) /\ write[w].clean /\ write'[w].by = None
            /\ losses' = losses
          => page'.pref = [prov |-> write[w].p, model |-> write[w].val]]_providersVars

\* -------------------------------------------------- what the comments say
\* chat_sessions.provider_id: "Per-session provider/model pin"; NULL falls back
\* to the preference.  The provider an answer is said to come from, when it is
\* enabled, is the one that is asked.
PinServes == resolve_provider_name \in table.on => _pick_provider = resolve_provider_name

\* _get_or_create_pref: reading the providers and the preferences at once
\* does not fail.
ParallelReadsSucceed ==
    \A l \in Load : load[l].op = "load" => "failed" \notin {load[l].list, load[l].pref}
=============================================================================

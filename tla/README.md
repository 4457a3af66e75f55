# A verification project for rag-chat-cli

rag-chat-cli is a chat service with tools and retrieval: a FastAPI backend
(`api/`, `service/`) over Postgres and optionally Redis, a web client
(`websites/`, Next.js with a server-side layer of its own), and a terminal client
(`clients/tui/`). This directory holds TLA+ models of the parts of it in which the
order of steps matters, configurations that check them with TLC on small
instances, and proofs, checked with TLAPS, of what matters most for every
instance. `PROJECT.json` lists the components, the runs with their properties, a
mutant of the model for each property, the source lines each definition stands
for, the hazards of the code and the theorems.

To check a module: `tlc -config ChatTurn.cfg MCChatTurn`; to check proofs:
`tlapm ChatTurnProofs.tla`.

## The system

### What it is made of

| Part | State it keeps | Operations | Talks to |
| --- | --- | --- | --- |
| **Chat turn** `service/chat/service.py` (`ChatService.generate`) | per turn: list of messages, current round, executed tool keys and counts | load history, retrieve, store the user row, automatic web search, up to `max_steps` rounds (stream, store the assistant row, dispatch tools, store tool rows), synthesis round, epilogue | chat memory, LLM client, tool registry, knowledge base; events to the transport |
| **Context window** `service/chat/tokens.py`, `history.py`, `_tool_helpers.py` | none (a function with one LLM call in it) | compact tool payloads, summarise, trim, drop orphans | chat turn, LLM client |
| **Session and its routes** `api/routers/chat.py`, `chat_stream.py`, `service/memory/chat_memory.py` | `chat_sessions`, `messages` | stream, post, regenerate, rename, delete message, delete session, fork, evaluate | chat turn; several requests share one session |
| **Transports** `api/streaming/sse.py`, `api/routers/chat_ws.py` | abort flag of a turn | frame events, keepalive, abort, disconnect | chat turn |
| **Sign-in** `service/auth/`, `clients/tui/src/api/`, `websites/src/lib/auth/` | `refresh_tokens`; a token file and memory; cookies | login, refresh with rotation and reuse detection, logout; retry after a 401 | every authenticated request |
| **Web session** `websites/src/proxy.ts`, `lib/auth/session.server.ts`, `app/api/_bff.ts`, `app/api/auth/` | three cookies, the page each tab shows | gate a request, refresh on behalf of a page, clear, redirect, call the backend for the browser | sign-in; every page and route of the web client |
| **Terminal client** `clients/tui/src/store/`, `commands/`, `components/layout/` | account, session list, active session, rows, the stream and its controller | list, switch, create, delete, send, stop, regenerate, edit, sign in and out | session routes |
| **Chat page** `websites/src/features/chat/` | rows on screen, the stream, a read at the end of each turn | open a session, send, stop, regenerate, adopt identifiers, regenerate by itself | session routes |
| **Uploads** `chat-composer.tsx`, `lib/api/browser/index.ts`, `api/routers/assets.py`, `service/platform/storage/uploads.py` | the composer's attachments; chunks and their meta file on disk; asset rows | pick, remove, post, create a session, put a chunk, complete, discard | the message that is sent |
| **Wiki editors** `use-wiki-page-editor.ts`, `document-editor-client.tsx` | a draft, a timer, the revision last seen | edit, autosave, conflict, paste an image, open a chat from a page | wiki and document routes |
| **Wiki tree** `api/routers/wiki.py` | page tree, revision per page | create, update with revision, move, duplicate, delete | wiki editors |
| **Tools** `service/tools/` | none | dispatch, web search, web fetch | chat turn |
| **LLM clients** `service/llm/` | none; quota in Redis | stream a completion, embed | providers |
| **Providers** `service/providers/`, `api/routers/providers.py`, `websites/src/features/providers/`, `model-selector/` | provider rows with a default flag, preferences, a session's pin; what the settings page and the selector show of them | create, update, delete, seed, set preferences, pin, pick for a turn | LLM clients, chat turn |
| **Knowledge** `service/knowledge/` | documents, chunks | ingest, search, rerank, delete | chat turn, LLM clients |
| **Job queue and worker** `service/workers/` | a Redis list, registered handlers | enqueue, dequeue, dispatch, stop | (no job kinds are registered yet) |
| **MCP client** `service/mcp/` | pending requests by id, a subprocess | start, request, reader, close | tool registry |
| **Organisations** `api/routers/orgs.py` | members with roles, one owner | invite, change role, remove, transfer | wiki access |
| **Rate limiter** `service/platform/redis.py` | a counter with expiry per user | hit | chat routes |
| **User memories, shares, bookmarks, evaluation, health** | independent rows | create, list, delete | |

### How the parts interact

A request enters a route, passes the owner check and the quota, and drives the
generator of one turn. The turn writes each row in a transaction of its own and
yields events, which a transport forwards. Nothing locks a session: two tabs, or a
tab and a terminal, may run turns, regenerate, rename and delete at the same time,
and only the database orders them. At the end of the first turn a background task
asks the model for a title.

Both clients are one thread that awaits answers in any order. The terminal client
calls the backend itself; its access token is exchanged when a 401 says that it has
expired. A browser calls the web server, whose proxy looks at a cookie before any
page or route sees the request, and whose routes exchange the tokens on the
browser's behalf; a page cannot write cookies, so it sends the browser on a detour.
A message takes the images that were uploaded for it; a chat opened from a wiki
page quotes the page as the server has it, so that the editor saves first.

### What is hard

* **Between two awaits anything may happen**: the abort flag is set, the
  client goes away, another tab deletes a row, another request rotates the token,
  the user opens another session before the rows of this one have come.
* **A step is several transactions**: the assistant row is committed before its
  tools run, a regenerate deletes row by row before it asks the quota, an upload is
  many requests, and each may be the last thing that happens.
* **Limits across rounds**: step bound, calls per step, calls per tool and turn,
  duplicates, the automatic search.
* **Stale reads**: the history a turn was started on, the title, the newest row,
  the refresh token read before it is presented, the revision of a page.
* **Two ways to say the same**: a flag, a controller and a row that all stand for
  one stream; a timer and a flag for one unsaved text; two cookies for one session.
* **Lost answers and retries** of a refresh whose server side was done.

### What makes each part correct

* Turn: of the steps it stores only the last may be half; done means answered and
  stored; the event stream keeps its protocol; tools stay within their budget; an abort
  stops work; it ends.
* Context window: cutting never parts a call from its result, and fits the budget.
* Session: a regenerate takes no question and nothing of an earlier turn, whatever
  overlaps; a request that nothing overlaps does exactly what its route says; requests
  end.
* Sign-in: a user whose requests do not overlap is never signed out but by
  themselves and leaves no live session behind; an answer that comes too late signs
  nobody in.
* Web session: a visit ends at the page that was asked for, or at the login form
  that leads there; a call is answered as long as the refresh token lasts; no
  redirect loop.
* Terminal client: Ctrl-C reaches the stream that is shown; the rows shown, edited
  and deleted are those of the active session.
* Chat page: an identifier that is adopted is the row's own; nothing looks as if it
  was being written that is not; a question has one answer; a stream ends.
* Uploads: what can be sent is stored; a completion finds every chunk; nothing is
  left behind; no attachment stays pending.
* Wiki editors: an editor that is dirty always has a save coming; saves of one editor do
  not overlap; what is called saved is saved; a chat quotes what was written.
* Providers: a user has one default; the settings page and the model selector come to
  show what is stored; a save leaves what was saved.
* Parts still to come: a job runs at most once and a cancelled worker is done; every
  MCP request is answered or fails; the page tree has no cycle; an organisation has
  exactly one owner, who is a member; a counter always expires.

## The modules

| Module | What it is |
| --- | --- |
| `TurnLog` | Abstract: the rows one turn may leave in chat memory, and when it may be reported done |
| `ChatTurn` | Detailed: one run of `generate`; implements `TurnLog` |
| `ChatTurnProofs` | Theorems about `ChatTurn` |
| `ContextWindow` | `_fit_to_budget` and everything it calls, as the ladder of steps it is |
| `ContextWindowProofs` | Theorems about `ContextWindow` |
| `ChatSession` | Several requests on one session; its turns are taken at the level of `TurnLog` |
| `ChatSessionProofs` | Theorems about `ChatSession` |
| `TokenRefresh` | The server's rotating refresh tokens with a terminal client and a browser |
| `WebSession` | A browser's cookies, the proxy, and the redirects that renew or end a session |
| `SignInProofs` | Theorems about `TokenRefresh` and `WebSession` |
| `Terminal` | The terminal client's stores, keys and commands |
| `TerminalProofs` | Theorems about `Terminal` |
| `WebChat` | The web client's chat page, with the turns behind it |
| `WebChatProofs` | Theorems about `WebChat` |
| `Upload` | Attachments of a message, in one request or in chunks, down to the asset row |
| `UploadProofs` | Theorems about `Upload` |
| `WikiEditor` | The editors of a wiki page and of a document, and the server's side of a save |
| `Providers` | Providers, preferences and a session's pin, with the settings page and the model selector |
| `WebFormsProofs` | Theorems about `WikiEditor` and `Providers` |
| `MC...` | For each of them, the small instance TLC checks |

The layers fit together through `TurnLog`. `ChatTurn` is checked and proved to
implement it, so that `ChatSession` can let each of its requests append the rows of
`TurnLog`, in its order, without repeating a turn's inner steps. The rows that
`ChatSession` shows can be left over (half steps, orphans, missing rows) are the transcripts
`ContextWindow` is given. `WebChat` has a turn as `ChatSession` lets it go: a
question, perhaps a round of calls, an answer, or a failure anywhere. `WebSession`
takes the rotation of `TokenRefresh` as one step. Where two components share a module
of theorems (`SignInProofs`, `WebFormsProofs`) they share no state: each half extends
its own component, whose names are distinct from the other's.

Several modules have a history variable `calm` (in `WebSession` it is `undisturbed`, in
`Providers` it is kept by cause: `raced`, `crossed`, `failed`). The code has no defence
against some interleavings (two tabs that refresh at once, rows that arrive for a
session that was left), and a property that demanded it would only fail. `calm` names
exactly the moments the code does not guard, at the actions that make them; it turns
false there and stays so, while the model goes on through them. What a "Calm" property
then says is that nothing else is needed. Properties without `calm` in their name hold
of every behaviour.

Definitions named "Variant" are not part of a specification. Each is a form of
the definition after it with a plausible slip in it; putting it in its place makes
some run report a violation, which shows that the property can fail.

### ChatTurn

`pc` is the await or yield at which the generator is suspended; every action is
the code from one such point to the next, with its early returns as disjuncts.
`mem` is what the turn has committed to `messages`, `msgs` the Python list
`messages` that goes to the model, `round` the `_LLMRoundResult`, `idx` the position
of the loop over its tool calls, `keys` and `counts` are `executed_tool_keys` and
`executed_tool_counts`, `out` the events yielded (tokens and thoughts aside). `req`
says how `generate` was called: `persist_user` (false for a regenerate), `use_rag`,
the registry, the automatic search, the history. `ran`, `late` and `harvest`
are history variables.

A tool call is its dedup key. A tool ends with an output (a result or an error,
`dispatch` turns one into the other), cancelled by the abort flag, or timed out. A
memory write commits or raises. `Abort` sets the flag from the transport's reader;
`Close` is the transport closing the generator, or the process stopping. Left
out: text, sources, token usage, user memories and retrieval hits, which no control
depends on.

### ContextWindow

One action per step of the ladder: everything fits; compact tool payloads; nothing
older to summarise; summarise (the LLM call succeeds) or fail to; trim. Messages are
positions in the original list and `kept` those still in it; a message has a size
and a size once compacted. `trim_to_budget` is stated by its result, the largest
suffix of the middle that fits, rather than by its loop.

### ChatSession

`table` is the session's rows by `created_at`, as references into `wrote[r]`, what
each request has written. `pc[r]` runs through a request's transactions: owner
check, regenerate's walk back and deletions, quota, history, the turn's rows, the
close of the service, and for a post the look-up of the row to return and the commit of
its tokens, which fails when the row has gone in between. The title
task is a process of its own per request. `Rename`, `DeleteMessage` and
`DeleteSession` come from other tabs. `tied` marks a fork's two rows, which have one
`created_at` and may be read in either order. `calm[r]` and `opened[r]` are history
variables: whether anything overlapped request `r`, and the table it began on.
Modelled in part: the choice of provider, editing a message's text, and the
evaluation of a message are left out.

### TokenRefresh

Token `n` is the `n`-th refresh token issued and `from[n]` the token it was
exchanged for. `AuthService.refresh` is two steps, the read of the row and the commit,
because the read takes no lock. A terminal process keeps `tokens[p]` and shares `file`
with the others; its requests read the tokens when they are sent, and again after
each await, as `requestRaw` and `tryRefresh` do, including the error that is thrown
and swallowed when the tokens are gone by then. A browser's requests carry the cookies
they were sent with, and the response sets or clears them. `Break` is a connection
that fails at any point, after which the server's part goes on unheard. Access tokens
expire one by one and at any time. `Unavailable` is an answer of 429 or 5xx: like a
refusal it makes the terminal drop its tokens when it answers a refresh, while a broken
connection, at which `fetch` throws, leaves them. `calm` says that no two requests
overlapped and no two terminal processes ran at a time, that no connection broke and
the server was available, and that no access token expired under a request. Left out: registration, inactive users, and
the expiry of refresh tokens, which last for days.

### WebSession

`jar` is the browser's cookies: `rag_at`, `rag_rt` and the single cookie of an earlier
release, each the number of a pair. `Sent` is what of them goes with a request: none
that has ended, and `rag_rt` to its own path only and never with a link from another
site. `Admitted` is the test `proxy.ts` makes; a request that fails it is answered by
`proxy`, any other by its page or route: `Home`, `LoginPage`, `requireUser` (every page
that needs a session), the two bridges, `withAuth` (every route of the BFF),
`LogoutRoute`, `loginAction`. `getAccessTokenWithRefresh` is the operator the routes
share. An answer carries an effect on the cookies and a redirect or a page, and
`Deliver` applies the first and then follows the second, whatever the cookies have
become meanwhile. `MenuLogout` is the menu's request to end the session. `Lose` is an
answer that does not arrive. `hops` counts the redirects of one request since the clock
or another tab last changed what they depend on; `MaxRedirects` is what a browser puts
up with. Left out: registration, cookies with a Domain, and the query of a page, which
the header `x-pathname` drops.

### Terminal

Each action is a key or a command, an effect that React runs, or the continuation of
one awaited request. `task[k]` is a request with what the code captured when it was
made (`sid`, `as`); its continuation uses that, and reads everything else as it is by
then. `shown` stands for the rows by the session they belong to: loaded ones, rows
of turns that are over, and placeholders that are written to. `streaming` and
`controller` are two variables because the code has two. The list an answer brings
is any set of the account's sessions, as other clients may add and delete some. The
focus, the composer's history and palette, and the commands `/kb`, `/pref` and
`/models`, which show an answer and keep nothing, are left out.

### WebChat

The server's rows (`db`), the turns under way (`turn`), the rows shown (`msgs`, each
with a key the model knows it by and the identifier the page knows), the stream, the
reads at the end of turns (`sync`), and the page that is being opened (`visit`). The
list of messages is read a page at a time and the client asks for the first page
only, which is why a session that has outgrown a page is not calm. `AutoRegenerate`
is the effect of `chat-view.tsx` that asks a last question again. `Elsewhere` is a turn
of another client. An aborted stream rejects before any other event, so the abort and
its end are one step. Left out: the switches for model and retrieval, evaluation, and
the sidebar's rename, pin and delete.

### Upload

`chip` is an attachment in the composer, `pc` what `uploadOne` awaits, `chunk[u]` the
state of each slice from the queue to its acknowledgement; a slice at the server is two
steps, the look for the session and the write, because the second makes the
directory again if a deletion came in between. `meta` and `saved` are the directory:
its meta file and its slices. `work` is `_persist_image_asset`: find by source,
normalise, insert; the unique indexes answer the insert. `Size`, `ChunkSize` and
`SingleShot` are units of length, and `expected_chunks`, `Slice` and `ExpectedSize` the
code's arithmetic on either side. Left out: the expiry of sessions (`cleanup_expired`
has no caller), assets without a content hash, and the indexing of images.

### WikiEditor

`ed[e]` is one mounted editor: what it shows (`view`), what its refs hold (`body`), the
revision, the flags `dirtyRef` and `inFlightRef`, the timer its ref points to (`own`) and
timers it has lost (`stray`), an image that is pasted and uploaded, and the chat it
opens. A text is the set of edits it holds, so that a lost edit is a missing number.
`titles` are those of a document's title: its request leaves an empty title out
(`blank`, `untitled`), and the row then keeps the title it has (`Put`).
`Read` and `Commit` are the two halves of the server's update, with no lock between;
`Refresh` is the answer, or the page fetched again after a conflict. `kind` chooses
between a page, saved with its revision, and a document, saved without. `Lose` is a
request or an answer that does not arrive. `calm` says that people edit one after the
other in an editor that shows the whole row, leave and ask for a chat when no save is
under way, leave no document without a title, and have no request fail.

### Providers

`table` is the user's provider rows with the default and the enabled ones, `pref` the
row of preferences, which is made when it is first asked for, `pin` what a session is
pinned to. `load[l]` is a pair of reads, `GET /providers` (which seeds a first provider
for a user who has none) and `GET /me/preferences`, as the two pages and `refetch` make
it; `write[w]` is a request that changes something, in two steps: what its handler
reads, and the commit, which writes only the columns that differ from what was read, as
the ORM does. `page` and `chat` are the two tabs. The constraints are those of the
tables: a unique name, one row of preferences, pointers cleared on deletion; a row that
went away between the steps fails a statement about it alone and is missed by one about
several. `raced`, `crossed` and `failed` are history variables: what `calm` is
elsewhere, here by cause and by tab: a property of the settings page asks nothing of the
selector's. An id of a provider is a row and never comes back. The refresh that follows
a commit is part of it. Left out: the models a provider lists, pulls and describes,
connection tests (a creation may be refused by one), and the embedding and retrieval
defaults, which go the way of the default model.


## The runs

| Run | Shows | Bounds, and why they are enough |
| --- | --- | --- |
| `turn` | Every interleaving of one turn with an abort, a close and every failure. `Pairing`, `DoneIsAnswered`, `StreamProtocol`, `StoreFollowsStream`, `AbortStopsWork`, `ToolBudget`, the refinement `ImplementsTurnLog`, and `EventuallyEnds` | 3 tool keys, two of them searches, 2 rounds and the synthesis, 2 chunks a round, 1 executed call a step: a second call of a round is over the cap, a second round repeats a key, a search after the automatic one is over its limit, and the synthesis ignores calls; a first turn and a later one |
| `context` | `NoDangling`, `PairsWhole`, `WithinBudget` | every legal transcript of up to 4 rows after 0, 1 or 2 system messages, with rows missing anywhere; 4 budgets, 2 values of `keep_recent`, summariser or none |
| `session` | `CalmRegenerate`, `CalmReply`, `QuestionsSurvive`, `EarlierTurnsSurvive` | 2 requests of any mix of post and regenerate on a session with a tool trace, 1 edit: every pair of a request with a request or an edit |
| `session_ends` | `EveryRequestEnds` | a stream and a regenerate that overlap, on a session with a tool trace, which is what there is to walk back over; a message or the session is deleted at any point; no rounds of tools of their own, whose end is `EventuallyEnds` |
| `refresh` | `CalmIsTrusted`, `CalmLeavesNothing`, `SignInNeedsLogin` | 2 terminal processes, 1 browser, 3 requests: two may race while a third detects reuse, or logs in, and any of them may be cut off or find the server unavailable |
| `terminal` | `StopReachesStream`, `CalmShowsActive`, and that no state is without a next key | 2 accounts, with two sessions and one; 2 requests under way: an answer may come after the session, and after the account, it was asked for |
| `web_chat` | `CalmOffers`, `CalmRowsSettle`, `CalmOneAnswer`, `TurnEnds` | 2 sessions, a page of 4 rows, 6 messages in all: a turn with a round of calls fits a page and the next turn does not; sessions begin empty, with a turn, or with a seeded question |
| `upload` | `ReadyIsStored`, `CompleteFindsAll`, `CalmLeavesNothing`, `PendingEnds` | 2 attachments: a file of three slices, the last one short, and one that fits in one request, with the same image once normalised; 2 slices at a time: a worker has one to take over, and a second file meets the index of the first |
| `wiki_editor` | `DirtyIsPending`, `CalmSaved`, `CalmAsk`, `EditsArrive` | 2 editors, one that pastes images and one that opens chats and clears titles, 3 events: an edit during a save, a conflict, and an edit after it |
| `web_session` | `CalmLands`, `CalmCallAnswered`, `NoRedirectLoop` | 2 tabs; an access token good, expired or within the skew; a refresh token that outlives it by one step; 4 pairs, 3 requests asked for; redirects are counted to 7, one more than the longest path has |
| `providers` | `OneDefault`, `CalmPage`, `CalmPin`, `SavesForm` | 2 reads and 2 writes at a time, 3 gestures, 1 lost answer; a new user, for whom both pages may seed, or 2 providers; a name that seeding uses, and an id to seed again after a deletion: a save, a deletion and a read between them may meet |

One run states what a reader of the code would expect and ends in a counterexample,
which `findings` in `PROJECT.json` describes: `wiki_conflict`. After a 409 the wiki
editor says "refetching", takes the new revision and keeps its old text; the next edit
saves that text over what the conflict was about (`ConflictReloads`).

### Claims of the source that fail

Each of these is a definition in its module and a configuration that finds it violated.

| Configuration | Counterexample |
| --- | --- |
| `ChatTurnAbortDropsIteration` | An abort between a round's tool calls leaves the assistant row, with calls that have no result, in chat memory; `generate` says the iteration is dropped |
| `ChatTurnFactsFromThisTurn` | The slice for fact extraction starts before the turn's first message: it is taken by the length of the history, but the prompt's prelude comes first |
| `ContextWindowLastKept` | Trimming drops the last message, a tool result whose call was cut; `trim_to_budget` says it is always kept |
| `ChatSessionRegenerateIsClean` | A fork's two rows have one timestamp; a regenerate may read them in the wrong order, delete nothing, and generate on a history that ends with the old answer |
| `ChatSessionToolRowsHaveCalls` | A regenerate deletes the assistant row of a turn running in another tab; the tool row that turn writes next refers to nothing |
| `TokenRefreshRotatedOnce` | Two requests exchange the same refresh token; the design notes promise a conditional update that lets one through |
| `TerminalEditsLastQuestion` | Its help says that `/edit` edits the last question; rows of turns sent since the session was loaded have no identifier on the screen, so that it edits an older one |
| `WebChatAutoFiresUnanswered` | The page asks a question again that has an answer, which another client gave after the rows were read |
| `ProvidersPinServes` | A session pinned to a provider is served by the one of the preferences, and its answers are said to come from the pin's: the turn looks at the pin's model only; `session.py:30` and the dialog that deletes a provider say otherwise |
| `ProvidersParallelReadsSucceed` | `_get_or_create_pref` says that reading providers and preferences at once does not race on one key; for a new user the seeding and the read of the preferences do, and the page comes up empty |
| `WikiEditorTitleIsSaved` | A document's title is cleared, the request leaves it out, and the indicator says "Saved" over a row that keeps the old title |
| `WebSessionCallsGetAnswers` | A call whose session is over is redirected to the login page, whose 200 the page takes for the data |

### Also seen while modelling

The turn and its session:

* The abort flag is not polled between the tool_call event and the dispatch
  (`service.py:802`), nor before the automatic search (`:662`), so that one tool may
  start after an abort. `AbortStopsWork` says how much may still happen: one dispatch,
  one round, two rows.
* A rename that lands while the title is generated is overwritten
  (`service.py:488-502`), and the routes close the service, which cancels the title
  task, right after the done event.
* A post may return the row another post has just written (`chat.py:490`); `CalmReply`
  holds when nothing overlaps.
* A regenerate that the quota refuses, or whose turn fails, has deleted the old answer by
  then; `CalmRegenerate` says that nothing else went.
* A regenerate may delete rows of a turn that is still running, the question aside.

Tokens and cookies:

* A user who loses the answer to a refresh, starts a second terminal on the same
  token file, or has two requests find the token expired at once, may have every
  session revoked. The model contains all three; `calm` excludes them from the
  properties because the code offers nothing against them.
* A link from another site, followed when the access token has expired, signs the user
  out: `rag_rt` is `SameSite=Strict` and does not come with it, and the bridge clears
  what it cannot refresh. `CalmLands` promises such a link the login form.
* A refresh that the backend answers with 429 or 5xx signs the terminal client out
  (`client.ts:429`), and the token it drops, or its successor, stays live at the server.
* A refresh that fails because the backend is away clears the cookies as well. A logout
  whose answer is lost still says "signed out" and leaves the user signed in.
* Comments give `rag_rt` the path `/api/auth`, the code `/api`; the proxy clears cookies
  without the Domain they may have been set with; `x-pathname` drops the query.

Providers:

* `GET /providers` says that a provider that was deleted is not seeded again; it is.
* Of two requests that overlap and set a default, both may keep it. The flag orders the
  choice of `_pick_provider`, which still takes one of them.
* `resolve_session_model` has no caller.
* The selector keeps the providers it was given when its page was made: one that has been
  deleted since can still be chosen, which is refused.

Editors and uploads:

* A wiki save that fails clears `dirtyRef` and is not tried again: the screen says
  "Unsaved" and nothing is pending until the next edit. `DirtyIsPending` is about the
  flag, and about the indicator only as long as no request has failed (`calm`).
* A chat that is asked for while a save is under way does not wait for it
  (`use-wiki-page-editor.ts:148`) and may lack its edits; `calm` excludes it.
* An edit made less than the delay before the page is left is dropped.
* The document editor overwrites whatever another editor saved.
* A slice that arrives after the deletion of its upload makes the directory again, and
  `cleanup_expired`, which would remove it, has no caller. Comments claim that a slice is
  retried (`lib/api/browser/index.ts:319-323`); none is.
* A chat opened from a wiki page holds a seeded question that the page asks again by
  itself; the comment at `chat.py:204` expects the user to do it.

## Fairness

Safety properties are checked without fairness, except where a run uses one
specification for both kinds. Fairness is stated only for what a machine owes: that a
request which was sent is answered or fails, that a timer fires, that a task which may
run does. No key, click, abort, close, logout or edit is ever obliged to happen.

* `ChatTurn!FairSpec`: weak fairness of `Work`, the generator's own steps: each await
  ends, since the database and the LLM client have timeouts and a tool has
  `tool_timeout_s`, and the event loop resumes a task whose await is over.
* `ChatSession!FairSpec`: the same for each request that was opened; a request need
  not be opened, and the title task need not run. The finite number of requests is a
  bound of the model: a regenerate that chases rows which others keep adding ends because
  they do.
* `WebChat!Spec`: weak fairness of the end of a stream whose turn is done, and of the
  steps of the turns taken together.
* `Upload!Spec`: the steps of one attachment's upload, each of them a request that
  settles, for each attachment.
* `WikiEditor!Spec`: weak fairness of `System`: as long as a timer is set, an upload
  runs or a request is under way, one of them goes on. An editor's edits are few (a bound
  of the model), so that each of them does in the end.

`Terminal` and `Providers` have no fairness, as no property of theirs needs it. Neither
has `WebSession`: that redirects end is the invariant `NoRedirectLoop`, a
bound on how many answer one request, which says more than that they end and does not
need any.

## What is proved

All theorems hold for every value of the constants that meets the modules' named
assumptions (bounds are naturals, histories are sequences of roles, transcripts
non-empty, sets of clients disjoint, the rows a session starts with are rows a turn can
write, files have a length and `None` is neither a file nor a provider, seeded providers
share one name and their model is a model, people open pages and not the routes that
pages lead to, a browser follows more than six redirects), and rest on nothing else.

`ChatTurnProofs`: `TypeCorrect`, `PairingCorrect`, `DoneCorrect`, and `Refinement`,
that every turn is a behaviour of `TurnLog`; `AbortCorrect`, `BudgetCorrect`,
`StreamCorrect` and `StoreCorrect`. `Pairing` is not inductive: that a call is
not answered twice depends on where the generator is. The inductive invariant `IInv`
therefore relates `pc`, `idx` and `round` to the rows stored:

* `Position`: while calls are handled, `idx` is a position of the round;
* `StepsUsed`: stored rows are of steps up to the current one, and a round that
  is not stored yet has no rows;
* `CurrentStep`: while calls are handled, the current step's assistant row is stored,
  exactly its first `idx - 1` calls are answered, and all earlier steps are complete;
* `WholeSteps`: everywhere else, until the turn ends, the log is complete;
* `Untouched`, `HasText`, `Answering`, `NotYetDone`: nothing is stored before the user
  row; a round without calls has text when it is stored; at the finish the log
  ends with the answer; done is sent last.

Each action preserves it, one proof step per action, with lemmas for the actions that
only end the turn and for those that store a row. The refinement follows: a stored
row is the one `TurnLog` allows next by `CurrentStep`, an error or a close is its
`Fail`, done is its `Finish` by `Answering` and `WholeSteps`, all else stutters.

The other four have an invariant of their own each, on top of `IInv`:

* `LateBound` says for each place of the generator what it may have begun since the
  abort. The code looks at the abort signal before a round, while the model streams and
  between calls; the places in between add up to one call, one round and two rows.
* `Budget`: the keys that ran are among the keys seen, and a tool ran as often as it was
  counted, or once more while it runs, since it is counted after it has run
  (`Running`). The deduplication is by key, the limit by name, and an
  automatic search before the first round counts for both.
* `StreamInv`: `StreamProtocol` with what the last event is at each place
  (`LastEvent`), and `StoreFollowsStream` with the one result that is shown and
  not yet stored (`ShownIsStored`).

`ContextWindowProofs`: `PairsStayWhole`, `NothingDangles` and `TheListFits`. That no
result is lost rests on the list being cut from its older end only, so that an assistant
row that survives has all later rows with it; that nothing dangles rests on the final
pass. `TheListFits` needs `Measured`, that each rung of the ladder is reached only by a
list that was measured and found too long, and that the pass that drops orphans after a
trim cannot make a list longer. The last is a fact about sums. `Tokens` is the community
modules' `SumFunctionOnSet`, whose definition is a recursive function on subsets: that it
is well defined, that it takes one element off at a time and that it grows with the set
are proved of a smallest set that would refute it (`Smallest`), which needs the
well-foundedness of `<` and no induction principle.

`SignInProofs`, about `TokenRefresh`: `TypeCorrect`, `LateAnswersSignNobodyIn`,
`NotTakenForAThief` and `NothingLeftBehind`, for any number of processes, browsers and
requests. The first two need `RequestsOk`: a request under way has a client, presents a
token, and was granted a pair only if it is a login or was made again. The others need a
ledger, `Books`, that holds as long as `calm` does: one process runs at a time and has
in memory what the file holds; each token is held in one place; at a quiet moment the
live tokens are those that are held, and while request `k` is under way they are those,
without the one that `k` has spent (`Gone`) and with the one that is on its way to its
holder (`Loose`). A refresh presents a token that is held, hence live, so that no
request is ever refused; a request that ends has neither spent nor loose tokens, so that
the books balance again. Whatever would unbalance them (an overlap, a lost answer, a
second process, an expiry under a request) ends `calm` in the same step.

`SignInProofs`, about `WebSession`: `WebSessionTypes`, `RedirectsEnd`, `VisitsLand` and
`CallsAreAnswered`, for any number of tabs. The invariant `WebInv` has three parts.

* `WebTypes`: both cookies name the same pair, and the cookie of the earlier release is
  gone when they are there (`JarOk`), as one answer writes them all; and what a tab is
  doing fits what it was asked (`Shape`).
* `FewLeft`: `Rank` gives each path the redirects that can still follow under the
  cookies as they are, and what a request has followed and what it has left never add up
  to more than six. `Rank` is 5 at most (`/login` with a session, to a page, to the bridge,
  back to the page, which the backend refuses, to `clear-and-login`, to the form), and an
  answer leads to a path of a lower rank under the cookies it leaves behind, whatever
  the backend refuses. The clock, and another tab's answer that changes the cookies, may
  raise a rank; then the count begins again, with one redirect that may be on its way.
* `Undisturbed`: there is one request (`OneRequest`); on its way it will come to what the
  user should see (`Bound`): the page if there was a session at the start, or one was
  given since, the form with the way back if there was not, at each route and for each
  state of the cookies. `Honest` says that the cookies hold no token
  that was exchanged before, so that no refresh of theirs is taken for theft.

`WebFormsProofs`, about `WikiEditor`: `Types`, `UnsavedIsPending`, `SavesDoNotOverlap`,
`SavedIsSaved` and `ChatQuotesTheText`. An action changes the record of one editor, so
that the lemmas are about one record before and after: `EditorsOk` says what its flags,
its timer and its save have to do with each other, and the flag `inFlightRef` that
guards a save is exact only together with them. That the indicator tells the truth
(`SavedIsSaved`, and of `UnsavedIsPending` what it says of "Unsaved") and that a chat
quotes the text need `CalmInv`, as what is saved was carried by a request that started from another state than the one it meets:
while nobody hurries one editor at most has work under way (`Alone`), it knows the whole
row (`Safe`), and each request, at each of its four stages, carries the row and all that
the editor does not still call unsaved (`Follows`).

`WebFormsProofs`, about `Providers`: `ProvidersTypes`, `OneDefaultEach`, `PageIsTrue`,
`SelectorIsTrue` and `SavesAreShown`, for any number of reads and writes under way.

* `Ids`: a provider that is being created is in no list, shown or on its way, and is
  nobody's pin, so that one that was deleted never comes back under its old number.
* `Defaults`: unless two requests set a default at once, there is one at most, and a
  request that is about to set one has read the one there is, hence takes it away. The
  code reads before it writes, and the ORM writes only what differs from what was read: it
  takes away the one that was read, not the one that is stored.
* `PageInv`: while the calls of the settings page do not overlap, one call at a time reads
  or writes its share of the tables (`OnePageCall`), and that share of the page is as the
  tables are whenever no such call is under way (`PageShows`), or will be when it is
  answered (`PageWillShow`).
* `SelectorInv`: the same of the selector, up to a provider that was deleted since
  (`Agrees`): the constraint of the table clears the pin, and nobody tells the tab.

`SavesAreShown` is an action property: the row that a save answers is the one that was
sent, unless it was changed between the request's two steps, emptied fields included.

`WebChatProofs`: `TypesHold`, `OffersAreOwn`, `RowsSettle` and `OneAnswer`, for any
number of sessions and messages. The three properties of a calm user hold together or
not at all, because the page learns the identifiers of its rows by position: the newest
message of the server without a row gives its identifier to the last row without
one. The invariant says when this is right.

* `Numbers` and `Turns` hold for everyone: identifiers are given in order, a turn is
  known by the key of its answer, and the one that streams is of the session shown.
* `OneTurn`, `Tables`: no two turns write to a session, which fits a page, and
  a question that is asked again has lost all that answered it. `OneAnswer` is a part.
* `Streaming`: the last row shown awaits its identifier, perhaps with the question above
  it (`Placed`); once the turn is over the server's rows end with that answer and that
  question is their newest (`Landed`).
* `Adopting`: the same is still true when the rows that were read at the end of a stream
  arrive, or no row waits for anything any more.
* `Shows`: an answer with an identifier has its own, and so has its question. It
  is `CalmOffers` of every answer, those included that cannot be clicked at the moment.

The two adoptions, of the answer and of the question, are shown to give each row its
own identifier from `Placed` and `Landed` (`Adoption`, `Given`).

`ChatSessionProofs`: `RowsAreWritten`, `NoQuestionIsLost`, `EarlierTurnsAreKept`,
`CalmPostGetsItsAnswer` and `CalmRegenerateReplaces`, for any number of requests.
Rows are known by references (the request that wrote it, its position), and deletions
of one request meet those of another and of the user.

* `Referenced`: each reference that is kept is to a row that was written, and the table
  has none twice. A regenerate decides by the role of a row it read before it commits
  the deletion; a row never changes, so that what it deletes still is no question,
  whatever happened to the table in between: `NoQuestionIsLost`.
* `Ahead`: what is left of the rows a regenerate found comes first, in the order it found
  them in, whatever the others append and delete; the row it has picked therefore lies
  behind every question that is left: `EarlierTurnsAreKept`.
* `InTurn`: where a request stands agrees with what its turn has written, so that one
  which is about to return its answer has one.
* `Alone`, `Walking`, `Replacing`, `Returned` hold while a request is calm. It is the
  only one and wrote the table's last row; a regenerate on its way back has a prefix of
  what it found, and passed no question; from there on the table is that prefix up
  to its question, then its own rows.

`SeedsAssumption` of `ChatSession` is the only thing asked of the table a session starts
with. Where its first two rows may be read in either order (`tied`) nothing is claimed
of a regenerate, since it may indeed find the answer before its question.

`UploadProofs`: `OneAssetOfEach`, `SentImagesAreStored`, `NoSliceIsMissing` and
`NothingIsLeftBehind`. The invariant is a conjunction over the uploads (`Sound`), which
share nothing but the table of assets. `Way` says where an upload stands and which of the
two ways it goes, `Held` what the server has of it at that point: while slices are sent,
exactly those that are stored or acknowledged; from the request to complete on, all of
them, as nobody deletes before the asset is persisted (`AllThere`). That the slices
of the browser are the ones the server expects is arithmetic on lengths (`ChunkCount`
and the lemmas after it). `AssetsOk`: assets only come, and no two have one content.

`TerminalProofs`: `ActiveIsListed`, `CtrlCReachesTheStream` and
`CalmUserSeesTheActiveSession`. The flag, the controller and the request of a stream are
set and cleared together, which makes `StopReachesStream` nearly inductive.
`CalmShowsActive` is not: it speaks of a moment when nothing loads, and what the rows
become then is decided by loads that began before. `CalmRows` says what a calm user may
rely on meanwhile: once the effects of a change have run, every load under way is of the
active session, and without one the rows are.

The strengthenings were checked by TLC on the instances of the runs before they were
proved (that of `WebSession` on all of the 2.2 million states of its run). Some changes
to the modules came of the proofs:

* `ChatSession`: a deletion names the position of its row, or finds it gone
  (`Deleted`), instead of filtering the table.
* `Upload`, `Providers`: assumptions say that `None` is no file and no provider, and that
  the model that is seeded is a model.
* `ContextWindow`: `Tokens` adds up one function of the messages, `Size`.
* `WebChat`: an assumption says what the sessions found at the start may be, what turns
  have left; and `CalmOffers` says more, that the question above the answer is known by
  its own identifier too, because the proof needed it and because a share or a bookmark
  sends both.
* `WebSession`: assumptions say that pages are opened, not bridges, and that a browser
  follows six redirects: the five of the longest path, after one that was on its way.

Types (`TypeCorrect`, `Types`, `RowsAreWritten`, `OneAssetOfEach`, `ActiveIsListed`,
`TypesHold`, `ProvidersTypes`, `WebSessionTypes`) and `OneSave` are proved for every
instance and not run again by TLC.

**Model-checked only**: liveness, which the prover does not treat (`EventuallyEnds`,
`EveryRequestEnds`, `TurnEnds`, `PendingEnds`, `EditsArrive`). Every invariant and every
action property of the runs is stated by a theorem, and so is the refinement. Claims of
the source that do not hold are refuted by TLC and have nothing to prove.

## Plan

Modelled first is what a user would miss most: the turn, then what it sends, then
the session it is part of, then the sign-in around it, then the clients through which
all of it is used. Left, in this order:

1. `OrgMembers`: transfer against invite, demote and remove; one owner, who is a member.
   An invitation sets the role of whoever is a member already, the owner's included.
2. `JobQueue` (queue and worker): at-most-once delivery, cancellation during a handler
   against the docstring, `stop` before the loop starts. Abstract specification: a bag
   of jobs each of which is run at most once.
3. `McpClient`: requests by id, timeouts, end of file, close. Every request is answered
   or fails; no answer reaches another request.
4. `WikiTree`: the page tree under concurrent moves and deletions.
5. `RateLimiter`, `Ingest`, and the think-tag filter as a recursive
   function checked against splitting the whole text.
6. Evaluation and message edits in `ChatSession`.

Each of these is to have its invariant proved with it, as the modules that are there have.
For `OrgMembers` it has to say what role each request under way has read; for `JobQueue` and
`McpClient`, where each job and each request is.

## What is not modelled, and why

* Rendering in both clients: markdown, layout, menus, messages in two languages, the
  pages that list and edit independent rows. It is more than half of the TypeScript
  and has no steps whose order matters; the map covers the stores, hooks, routes and
  request code underneath it.
* Ranking, embeddings, reranking: arithmetic on vectors, no interleaving.
* Wire formats of the LLM providers, SSE and WebSocket framing: parsing; what they
  deliver is modelled as any sequence of chunks.
* Schemas, settings, migrations, middleware, health: no state of their own.
* Shares, bookmarks, profile: one statement per route.
* The contents of messages, prompts and tool outputs: no property depends on them.

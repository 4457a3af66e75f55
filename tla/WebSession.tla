----------------------------- MODULE WebSession -----------------------------
(***************************************************************************)
(* How a browser stays signed in at the web server.  The session lives in  *)
(* two cookies: rag_at, sent with every request, holds the access token    *)
(* and the end of both tokens; rag_rt, sent to paths under /api only and   *)
(* never with a link from another site, holds the refresh token.  A third  *)
(* cookie, of an earlier release, holds everything.                        *)
(*                                                                         *)
(* Every request passes proxy.ts, which reads rag_at alone.  A page cannot *)
(* write cookies: one that finds its access token expired sends the        *)
(* browser to /api/auth/refresh-and-back, which rotates the tokens and     *)
(* sends it back, and one that cannot be shown sends it to                 *)
(* /api/auth/clear-and-login.  Tabs share the cookies; a request carries   *)
(* those of the moment it is sent, and its response changes them when it   *)
(* arrives.                                                                *)
(*                                                                         *)
(* The cookies have no Domain.  TokenRefresh models the rotation itself;   *)
(* here the server takes a refresh token that was used before for a stolen *)
(* one and revokes all, in one step.  Pair n is the n-th pair issued, 0 is *)
(* no pair; /wiki stands for every page that needs a session, /api/chat    *)
(* for every route of the BFF that does.  Registration is left out.        *)
(***************************************************************************)
EXTENDS Integers, Sequences

CONSTANTS Tab,         \* tabs of one browser
          AccessTTL, RefreshTTL,   \* how long the tokens of a pair last
          CLOCK_SKEW,  \* an access token is not used in its last moments
          Opened, Linked,   \* pages that are opened, and by links elsewhere
          MaxRedirects,     \* redirects in a row, see NoRedirectLoop
          MaxTime,     \* bounds of the model: the clock stops here,
          MaxPairs,    \* no more pairs are issued,
          MaxAsked     \* and the user does nothing more

ASSUME TTLAssumption ==
    /\ {AccessTTL, RefreshTTL, CLOCK_SKEW, MaxTime, MaxPairs, MaxAsked} \subseteq Nat
    /\ CLOCK_SKEW < AccessTTL /\ AccessTTL <= RefreshTTL /\ MaxPairs > 0

VARIABLES now, pairs, revokedPairs,   \* the backend's tokens
          jar,                        \* the browser's cookies
          tab,                        \* what each tab shows and waits for
          asked,                      \* how often the user did something
          undisturbed   \* history: requests did not overlap, none was lost, the
                        \* backend let no request down, the clock stood still
                        \* meanwhile, and no login form was left open that
                        \* another tab made needless

webVars == <<now, pairs, revokedPairs, jar, tab, asked, undisturbed>>

App == {"/chat", "/wiki"}
Path == App \cup {"/", "/login", "/api/chat", "refresh-and-back",
                  "clear-and-login", "logout", "loginAction"}
PUBLIC_PREFIXES == {"refresh-and-back", "clear-and-login", "logout"}
PUBLIC_PATHS == {"/login", "loginAction"}     \* the action is a POST to /login
REFRESH_COOKIE_PATH == PUBLIC_PREFIXES \cup {"/api/chat"}

\* People open pages, not the routes that pages lead to; and a browser gives up
\* after more than six redirects.
ASSUME PageAssumption == Opened \cup Linked \subseteq App \cup {"/", "/login"}
ASSUME RedirectAssumption == MaxRedirects \in Nat /\ MaxRedirects > 6

Empty == [at |-> 0, rt |-> 0, legacy |-> 0]
Alive(n) == n # 0 /\ now < pairs[n].until
Usable(n) == n # 0 /\ pairs[n].ends - now > CLOCK_SKEW

\* A tab: the page it shows, what it asked for and whether it had a session
\* then, the request under way, its answer and how many redirects led to it
\* since the clock or another tab's answer changed something, and what became
\* of its last call.  effect is what the answer does to the cookies.
Blank == [pc |-> "rest", kind |-> "visit", page |-> "blank", want |-> "/",
          had |-> FALSE, path |-> "/", next |-> "", abroad |-> FALSE,
          effect |-> "keep", pair |-> 0, to |-> "", shows |-> "", hops |-> 0,
          due |-> FALSE, outcome |-> "none"]

Resting == \A t \in Tab : tab[t].pc = "rest"

\* The browser has cookies of this release, of the one before, or none.
WebInit ==
    /\ now = 0 /\ revokedPairs = {} /\ asked = 0 /\ undisturbed = TRUE
    /\ tab = [t \in Tab |-> Blank]
    /\ \E e \in {0, AccessTTL}, u \in 0..RefreshTTL :
          e <= u /\ pairs = <<[ends |-> e, until |-> u]>>
    /\ jar \in {Empty, [Empty EXCEPT !.legacy = 1],
                [Empty EXCEPT !.at = 1, !.rt = 1]}

\* ------------------------------------------------------------ the cookies
\* Variant: the refresh cookie goes to the paths of /api/auth only.
SentNarrow(t) ==
    [jar EXCEPT !.at = IF Alive(jar.at) THEN jar.at ELSE 0,
                !.rt = IF /\ Alive(jar.rt) /\ ~tab[t].abroad
                          /\ tab[t].path \in PUBLIC_PREFIXES
                       THEN jar.rt ELSE 0]

\* The cookies that come with a request; those of a pair end with it.
Sent(t) ==
    [jar EXCEPT !.at = IF Alive(jar.at) THEN jar.at ELSE 0,
                !.rt = IF /\ Alive(jar.rt) /\ ~tab[t].abroad
                          /\ tab[t].path \in REFRESH_COOKIE_PATH
                       THEN jar.rt ELSE 0]

getSession(c) == [pair |-> IF c.at # 0 THEN c.at ELSE c.legacy,
                  refresh_token |-> IF c.at # 0 THEN c.rt ELSE c.legacy]

hasValidSession(c) == Alive(c.at) \/ Alive(c.legacy)

classifySession(c) ==
    LET n == getSession(c).pair
    IN  CASE Usable(n) -> "valid"
          [] ~Usable(n) /\ Alive(n) -> "needs_refresh"
          [] OTHER -> "anonymous"

\* setSession, clearSession, and what proxy.ts clears: of the stale cookies only
\* that of the earlier release reaches it, the others end with their tokens.
setSession(t) == [Empty EXCEPT !.at = tab[t].pair, !.rt = tab[t].pair]
clearSession(t) == Empty
Tidied == [jar EXCEPT !.legacy = 0]

\* ---------------------------------------------------------------- answers
Respond(t, r) ==
    tab' = [tab EXCEPT ![t].pc = "answered", ![t].effect = r.effect,
                       ![t].pair = r.pair, ![t].to = r.to, ![t].next = r.next,
                       ![t].shows = r.shows]
Reply == [effect |-> "keep", pair |-> 0, to |-> "", next |-> "", shows |-> ""]
Show(what) == [Reply EXCEPT !.shows = what]
Redirect(to, next) == [Reply EXCEPT !.to = to, !.next = next]
With(effect, r) == [r EXCEPT !.effect = effect]
GrantPair(n, r) == [r EXCEPT !.effect = "set", !.pair = n]

IssuePair == pairs' = Append(pairs, [ends |-> now + AccessTTL,
                                     until |-> now + RefreshTTL])

\* proxy.ts lets a request through, or sends the browser elsewhere.
Admitted(t) ==
    \/ tab[t].path \in PUBLIC_PREFIXES \cup {"/"}
    \/ tab[t].path \in PUBLIC_PATHS /\ ~hasValidSession(Sent(t))
    \/ tab[t].path \notin PUBLIC_PATHS /\ hasValidSession(Sent(t))

At(t, path) == tab[t].pc = "asked" /\ tab[t].path = path /\ Admitted(t)

proxy(t) ==
    /\ tab[t].pc = "asked" /\ ~Admitted(t)
    /\ Respond(t, IF tab[t].path \in PUBLIC_PATHS THEN Redirect("/chat", "")
                 ELSE With("tidy", Redirect("/login", tab[t].path)))
    /\ UNCHANGED <<now, pairs, revokedPairs, jar, asked, undisturbed>>

Home(t) ==
    /\ At(t, "/")
    /\ LET n == getSession(Sent(t)).pair
       IN  Respond(t, Redirect(IF n = 0 THEN "/login"
                              ELSE IF Alive(n) THEN "/chat"
                              ELSE "clear-and-login", ""))
    /\ UNCHANGED <<now, pairs, revokedPairs, jar, asked, undisturbed>>

LoginPage(t) ==
    /\ At(t, "/login")
    /\ Respond(t, [Show("/login") EXCEPT !.next = tab[t].next])
    /\ UNCHANGED <<now, pairs, revokedPairs, jar, asked, undisturbed>>

\* Variant: the page does not say where it wants to be sent back to.
requireUserAway(t) ==
    \E path \in App :
       /\ At(t, path)
       /\ \/ classifySession(Sent(t)) = "valid" /\ Respond(t, Show(path))
          \/ /\ classifySession(Sent(t)) = "needs_refresh"
             /\ Respond(t, Redirect("refresh-and-back", ""))
          \/ /\ classifySession(Sent(t)) = "anonymous"
             /\ Respond(t, Redirect("clear-and-login", path))
       /\ UNCHANGED <<now, pairs, revokedPairs, jar, asked, undisturbed>>

\* A page that needs a session; /me may fail, or find the user deactivated.
requireUser(t) ==
    \E path \in App :
       /\ At(t, path)
       /\ \/ /\ classifySession(Sent(t)) = "valid"
             /\ Respond(t, Show(path)) /\ UNCHANGED undisturbed
          \/ /\ classifySession(Sent(t)) = "valid"
             /\ Respond(t, Redirect("clear-and-login", path)) /\ undisturbed' = FALSE
          \/ /\ classifySession(Sent(t)) = "needs_refresh"
             /\ Respond(t, Redirect("refresh-and-back", path)) /\ UNCHANGED undisturbed
          \/ /\ classifySession(Sent(t)) = "anonymous"
             /\ Respond(t, Redirect("clear-and-login", path)) /\ UNCHANGED undisturbed
       /\ UNCHANGED <<now, pairs, revokedPairs, jar, asked>>

\* getAccessTokenWithRefresh for a route that does `ok` with a token, and
\* `no`, with the cookies kept or cleared, without.
getAccessTokenWithRefresh(t, ok, no) ==
    LET s == getSession(Sent(t))
        r == s.refresh_token
        Unless == UNCHANGED <<pairs, revokedPairs, undisturbed>>
    IN  \/ s.pair = 0 /\ Respond(t, no) /\ Unless
        \/ Usable(s.pair) /\ Respond(t, ok) /\ Unless
        \/ /\ s.pair # 0 /\ ~Usable(s.pair) /\ ~Alive(s.pair)
           /\ Respond(t, With("clear", no)) /\ Unless
        \/ /\ Alive(s.pair) /\ ~Usable(s.pair) /\ r = 0
           /\ Respond(t, no) /\ Unless
        \/ /\ Alive(s.pair) /\ ~Usable(s.pair) /\ r # 0
           /\ \/ /\ r \notin revokedPairs /\ Len(pairs) < MaxPairs
                 /\ revokedPairs' = revokedPairs \cup {r} /\ IssuePair
                 /\ \/ Respond(t, GrantPair(Len(pairs) + 1, ok)) /\ UNCHANGED undisturbed
                    \/ Respond(t, With("clear", no)) /\ undisturbed' = FALSE
              \/ /\ r \in revokedPairs /\ revokedPairs' = DOMAIN pairs
                 /\ Respond(t, With("clear", no)) /\ UNCHANGED <<pairs, undisturbed>>
              \/ /\ Respond(t, With("clear", no)) /\ undisturbed' = FALSE
                 /\ UNCHANGED <<pairs, revokedPairs>>

\* Variant: a route without a token leaves the cookies alone.
RefreshAndBackKeeps(t) ==
    /\ At(t, "refresh-and-back")
    /\ getAccessTokenWithRefresh(t,
          Redirect(IF tab[t].next = "" THEN "/chat" ELSE tab[t].next, ""),
          Redirect("/login", tab[t].next))
    /\ UNCHANGED <<now, jar, asked>>

RefreshAndBack(t) ==
    /\ At(t, "refresh-and-back")
    /\ getAccessTokenWithRefresh(t,
          Redirect(IF tab[t].next = "" THEN "/chat" ELSE tab[t].next, ""),
          With("clear", Redirect("/login", tab[t].next)))
    /\ UNCHANGED <<now, jar, asked>>

ClearAndLogin(t) ==
    /\ At(t, "clear-and-login")
    /\ Respond(t, With("clear", Redirect("/login", tab[t].next)))
    /\ UNCHANGED <<now, pairs, revokedPairs, jar, asked, undisturbed>>

\* A route of the BFF; what the backend then answers to is not looked at.
withAuth(t) ==
    /\ At(t, "/api/chat")
    /\ getAccessTokenWithRefresh(t, Show("data"), Show("401"))
    /\ UNCHANGED <<now, jar, asked>>

\* The logout route; the backend may not hear of it.
LogoutRoute(t) ==
    LET s == getSession(Sent(t))
    IN  /\ At(t, "logout")
        /\ Respond(t, With("clear", Show("ok")))
        /\ \/ revokedPairs' = revokedPairs \cup ({s.refresh_token} \ {0})
              /\ UNCHANGED undisturbed
           \/ s.refresh_token # 0 /\ undisturbed' = FALSE /\ UNCHANGED revokedPairs
        /\ UNCHANGED <<now, pairs, jar, asked>>

\* The login form's action: a pair and the way back, or an error message.
loginAction(t) ==
    /\ At(t, "loginAction")
    /\ \/ /\ Len(pairs) < MaxPairs /\ IssuePair
          /\ Respond(t, GrantPair(Len(pairs) + 1,
                Redirect(IF tab[t].next = "" THEN "/chat" ELSE tab[t].next, "")))
       \/ Respond(t, [Show("/login") EXCEPT !.next = tab[t].next]) /\ UNCHANGED pairs
    /\ UNCHANGED <<now, revokedPairs, jar, asked, undisturbed>>

\* ------------------------------------------------------------ the browser
\* The session that a request which starts now should be able to use.
SignedIn(abroad) ==
    LET s == getSession([jar EXCEPT !.at = IF Alive(@) THEN @ ELSE 0])
    IN  \/ Usable(s.pair)
        \/ Alive(s.pair) /\ (abroad => s.refresh_token = s.pair /\ jar.at = 0)

Ask(t, r) ==
    /\ tab[t].pc = "rest"
    /\ asked < MaxAsked /\ asked' = asked + 1
    /\ tab' = [tab EXCEPT ![t] = r]
    /\ undisturbed' = (undisturbed /\ Resting)
    /\ UNCHANGED <<now, pairs, revokedPairs, jar>>

\* The user opens a page, by hand or by a link on another site.
Visit(t) == \E path \in Opened, abroad \in BOOLEAN :
    /\ abroad => path \in Linked
    /\ Ask(t, [Blank EXCEPT !.pc = "asked", !.path = path, !.want = path,
                            !.abroad = abroad, !.had = SignedIn(abroad)])

\* A page calls the BFF, by a GET.
Fetch(t) ==
    /\ tab[t].page \in App
    /\ Ask(t, [tab[t] EXCEPT !.pc = "asked", !.kind = "call",
                             !.path = "/api/chat", !.abroad = FALSE,
                             !.due = SignedIn(FALSE), !.outcome = "none"])

\* The menu's logout goes on to /login, whatever came of the call.
MenuLogout(t) ==
    /\ tab[t].page \in App
    /\ Ask(t, [Blank EXCEPT !.pc = "asked", !.kind = "logout", !.want = "/login",
                            !.path = "logout", !.page = tab[t].page])

\* The form is sent; with a session by then, proxy.ts steps in.
Submit(t) ==
    /\ tab[t].pc = "rest" /\ tab[t].page = "/login"
    /\ asked < MaxAsked /\ asked' = asked + 1
    /\ tab' = [tab EXCEPT ![t].pc = "asked", ![t].path = "loginAction"]
    /\ undisturbed' = (undisturbed /\ Resting /\ ~SignedIn(FALSE))
    /\ UNCHANGED <<now, pairs, revokedPairs, jar>>

\* The answer arrives: first its cookies, then where it leads.
Follow(a, r) ==
    LET rest == [r EXCEPT !.pc = "rest", !.kind = "visit", !.path = "/",
                          !.abroad = FALSE, !.hops = 0,
                          !.next = IF a.shows = "/login" THEN @ ELSE ""]
    IN  CASE a.to # "" -> [r EXCEPT !.pc = "asked", !.path = a.to, !.hops = @ + 1]
          [] a.to = "" /\ r.kind = "call" ->
                [rest EXCEPT !.next = "", !.outcome =
                   IF a.shows \in {"data", "401", "error"} THEN a.shows ELSE "page"]
          [] a.to = "" /\ r.kind = "logout" ->
                [r EXCEPT !.pc = "asked", !.path = "/login", !.kind = "visit"]
          [] OTHER -> [rest EXCEPT !.page = a.shows]

Deliver(t) ==
    LET r == tab[t]
    IN  /\ r.pc = "answered"
        /\ jar' = CASE r.effect = "set" -> setSession(t)
                    [] r.effect = "clear" -> clearSession(t)
                    [] r.effect = "tidy" -> Tidied
                    [] OTHER -> jar
        /\ tab' = [u \in Tab |->
              IF u # t THEN [tab[u] EXCEPT !.hops = IF r.effect = "keep" THEN @ ELSE 0]
              ELSE Follow(r, [r EXCEPT !.effect = "keep", !.pair = 0, !.to = "",
                                       !.shows = "", !.had = @ \/ r.effect = "set"])]
        /\ UNCHANGED <<now, pairs, revokedPairs, asked, undisturbed>>

\* An answer is lost; a lost request shows the same and does less.
Lose(t) ==
    LET r == [tab[t] EXCEPT !.effect = "keep", !.pair = 0, !.to = "", !.shows = ""]
    IN  /\ tab[t].pc = "answered"
        /\ tab' = [tab EXCEPT ![t] = Follow([r EXCEPT !.shows = "error"], r)]
        /\ undisturbed' = FALSE
        /\ UNCHANGED <<now, pairs, revokedPairs, jar, asked>>

Tick ==
    /\ now < MaxTime /\ now' = now + 1
    /\ undisturbed' = (undisturbed /\ Resting)
    /\ tab' = [t \in Tab |-> [tab[t] EXCEPT !.hops = 0]]
    /\ UNCHANGED <<pairs, revokedPairs, jar, asked>>

Serve(t) == \/ proxy(t) \/ Home(t) \/ LoginPage(t) \/ requireUser(t)
            \/ RefreshAndBack(t) \/ ClearAndLogin(t) \/ withAuth(t)
            \/ LogoutRoute(t) \/ loginAction(t)

WebNext ==
    \/ \E t \in Tab : \/ Visit(t) \/ Fetch(t) \/ MenuLogout(t) \/ Submit(t)
                      \/ Serve(t) \/ Deliver(t) \/ Lose(t)
    \/ Tick

WebSpec == WebInit /\ [][WebNext]_webVars

-----------------------------------------------------------------------------
(***************************************************************************)
(* Properties                                                              *)
(***************************************************************************)

WebTypeOK ==
    /\ now \in 0..MaxTime
    /\ pairs \in Seq([ends: Nat, until: Nat]) /\ Len(pairs) \in 1..MaxPairs
    /\ revokedPairs \subseteq DOMAIN pairs
    /\ jar \in [at: {0} \cup DOMAIN pairs, rt: {0} \cup DOMAIN pairs,
                legacy: {0, 1}]
    /\ \A t \in Tab :
          /\ tab[t].pc \in {"rest", "asked", "answered"}
          /\ tab[t].path \in Path
          /\ tab[t].page \in App \cup {"blank", "/login", "error"}
          /\ tab[t].outcome \in {"none", "data", "401", "page", "error"}
    /\ undisturbed \in BOOLEAN

\* Wherever the cookies stand, and whatever detours a visit takes, a user
\* whose requests are not disturbed sees the page they asked for if they are
\* signed in, and the login form, which will lead there, if they are not; an
\* access token that has ended makes no difference, unless a link on another
\* site led to the page.
Expected(page) == IF page \in App THEN page ELSE "/chat"
CalmLands ==
    undisturbed => \A t \in Tab :
       tab[t].pc = "rest" /\ tab[t].page # "blank" =>
          IF tab[t].had THEN tab[t].page = Expected(tab[t].want)
          ELSE /\ tab[t].page = "/login"
               /\ tab[t].want \in App => tab[t].next = tab[t].want

\* A page that was opened when the session was sound can call the BFF as long
\* as the refresh token lasts: the route rotates the tokens itself.
CalmCallAnswered ==
    undisturbed => \A t \in Tab :
       tab[t].due /\ tab[t].pc = "rest" => tab[t].outcome = "data"

\* No redirect loop: a few redirects after the last tick of the clock and the
\* last change another tab made to the cookies, a request comes to a page, the
\* login form or an error, whatever the backend refuses meanwhile.
NoRedirectLoop == \A t \in Tab : tab[t].hops < MaxRedirects

\* Claims of the source that do not hold ---------------------------------

\* lib/api/browser/client.ts: a call gets its data or an error.
CallsGetAnswers == \A t \in Tab : tab[t].outcome # "page"
=============================================================================

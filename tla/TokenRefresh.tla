---------------------------- MODULE TokenRefresh ----------------------------
(***************************************************************************)
(* The sign-in of one user: the server's rotating refresh tokens           *)
(* (service/auth/service.py) and its two kinds of clients.  A terminal     *)
(* client (clients/tui/src/api/client.ts, token-store.ts) keeps a pair of  *)
(* tokens in memory and in a file that all its processes share; a browser  *)
(* (websites/src/lib/auth/session.server.ts) keeps it in cookies, and the  *)
(* web server refreshes on its behalf.                                     *)
(*                                                                         *)
(* A call that finds its access token expired exchanges the refresh token  *)
(* for a new pair.  Any number of calls may do so at a time; the server    *)
(* takes a token that was exchanged before for a stolen one and revokes    *)
(* every token of the user.  Token n is the n-th refresh token issued, its *)
(* access token goes by the same number; 0 is no token.  Refresh tokens    *)
(* outlive the runs considered.                                            *)
(***************************************************************************)
EXTENDS Naturals, Sequences

CONSTANTS Proc,      \* processes of the terminal client, on one machine
          Browser,   \* browsers
          Call       \* bound of the model: requests, each made once

ASSUME ClientAssumption == Proc \cap Browser = {}

Client == Proc \cup Browser

VARIABLES from,      \* token n was issued in exchange for from[n], 0: a login
          revoked,   \* tokens with a revoked_at
          fresh,     \* access tokens that have not expired
          file,      \* the token file of the terminal client
          tokens,    \* ApiClient.tokens, or the session cookies
          ui,        \* what a process shows; browsers show what they are told
          call,      \* the requests
          calm       \* history: no two requests overlapped and no two
                     \* processes ran at a time, no connection broke, no
                     \* answer was a 429 or 5xx, and no access token expired
                     \* on its way

server == <<from, revoked, fresh>>
clients == <<file, tokens, ui>>
vars == <<server, clients, call, calm>>

Issued == DOMAIN from
Live == Issued \ revoked

NoCall == [pc |-> "idle", at |-> "nobody", kind |-> "call", pair |-> 0,
           got |-> 0, retried |-> FALSE, cut |-> FALSE]
Active(k) == call[k].pc \notin {"idle", "done", "failed"}
Of(k, c) == Active(k) /\ call[k].at = c /\ ~call[k].cut
Quiet == \A k \in Call : ~Active(k)

\* The user has signed in on the terminal before, and no process runs.
Init ==
    /\ from = <<0>> /\ revoked = {} /\ fresh = {1}
    /\ file = 1
    /\ tokens = [c \in Client |-> 0]
    /\ ui = [p \in Proc |-> "off"]
    /\ call = [k \in Call |-> NoCall]
    /\ calm = TRUE

\* ----------------------------------------------------------------- helpers
Goto(k, label) == call' = [call EXCEPT ![k].pc = label]

Begin(k, c, kind, label, pair) ==
    /\ call[k].pc = "idle"
    /\ call' = [call EXCEPT ![k] = [NoCall EXCEPT !.pc = label, !.at = c,
                                                  !.kind = kind, !.pair = pair]]
    /\ calm' = (calm /\ Quiet)

\* A request is over.  bootstrap and login show the app, or the login screen;
\* a request of the app changes nothing on the screen.
End(k, label) ==
    /\ Goto(k, label)
    /\ ui' = IF call[k].kind = "call" \/ call[k].at \in Browser THEN ui
             ELSE [ui EXCEPT ![call[k].at] = IF label = "done" THEN "app"
                                             ELSE "login"]

Hold(c, n) == tokens' = [tokens EXCEPT ![c] = n]

\* ------------------------------------------------------ a terminal process
\* The constructor loads the file; with tokens, bootstrap calls me().
Start(p) ==
    /\ ui[p] = "off"
    /\ Hold(p, file)
    /\ IF file = 0
       THEN ui' = [ui EXCEPT ![p] = "login"] /\ UNCHANGED call
       ELSE /\ ui' = [ui EXCEPT ![p] = "boot"]
            /\ \E k \in Call :
                  /\ call[k].pc = "idle"
                  /\ call' = [call EXCEPT ![k] =
                        [NoCall EXCEPT !.pc = "send", !.at = p, !.kind = "boot",
                                       !.pair = file]]
    /\ calm' = (calm /\ Quiet /\ \A q \in Proc : ui[q] = "off")
    /\ UNCHANGED <<server, file>>

\* The process ends; what it has sent goes on at the server.
Stop(p) ==
    /\ ui[p] # "off"
    /\ ui' = [ui EXCEPT ![p] = "off"]
    /\ Hold(p, 0)
    /\ call' = [k \in Call |-> IF Of(k, p) THEN [call[k] EXCEPT !.cut = TRUE]
                               ELSE call[k]]
    /\ calm' = (calm /\ \A k \in Call : ~Of(k, p))
    /\ UNCHANGED <<server, file>>

\* requestRaw: the request carries the access token of the moment.
Request(p, k) ==
    /\ ui[p] = "app"
    /\ Begin(k, p, "call", "send", tokens[p])
    /\ UNCHANGED <<server, clients>>

\* ApiClient.login, from the login screen, once at a time.
Login(p, k) ==
    /\ ui[p] = "login"
    /\ \A j \in Call : Of(j, p) => call[j].kind = "call"
    /\ Begin(k, p, "login", "signin", 0)
    /\ UNCHANGED <<server, clients>>

\* ApiClient.logout: the tokens are dropped first; without any, the server
\* hears nothing.
Logout(p, k) ==
    /\ ui[p] = "app"
    /\ IF tokens[p] = 0
       THEN ui' = [ui EXCEPT ![p] = "login"] /\ UNCHANGED <<call, calm>>
       ELSE Begin(k, p, "logout", "signout", tokens[p]) /\ UNCHANGED ui
    /\ Hold(p, 0) /\ file' = 0
    /\ UNCHANGED server

\* The server's answer to a request.  A 401 leads to a refresh, with the
\* tokens held now, unless there are none or this is the second attempt.
Answer(k) ==
    LET p == call[k].at
    IN  /\ call[k].pc = "send" /\ ~call[k].cut
        /\ \/ call[k].pair \in fresh /\ End(k, "done")
           \/ /\ call[k].pair \notin fresh
              /\ ~call[k].retried /\ tokens[p] # 0
              /\ call' = [call EXCEPT ![k].pc = "refresh", ![k].pair = tokens[p]]
              /\ UNCHANGED ui
           \/ /\ call[k].pair \notin fresh
              /\ call[k].retried \/ tokens[p] = 0
              /\ End(k, "failed")
        /\ UNCHANGED <<server, file, tokens, calm>>

\* Variants: the new pair is stored although the tokens are gone; it is not
\* written to the file; the second attempt is not marked as one.
GrantedAnyway(k) ==
    LET p == call[k].at
    IN  /\ call[k].pc = "granted" /\ p \in Proc /\ ~call[k].cut
        /\ Hold(p, call[k].got) /\ file' = call[k].got
        /\ call' = [call EXCEPT ![k].pc = "send", ![k].pair = call[k].got,
                                ![k].retried = TRUE]
        /\ UNCHANGED <<server, ui, calm>>
GrantedUnsaved(k) ==
    LET p == call[k].at
    IN  /\ call[k].pc = "granted" /\ p \in Proc /\ ~call[k].cut
        /\ Hold(p, call[k].got)
        /\ call' = [call EXCEPT ![k].pc = "send", ![k].pair = call[k].got,
                                ![k].retried = TRUE]
        /\ UNCHANGED <<server, file, ui, calm>>

\* tryRefresh: the new pair is saved and the request made again.  When the
\* tokens are gone by then, reading their email throws, which counts as a
\* refresh that failed.
Granted(k) ==
    LET p == call[k].at
    IN  /\ call[k].pc = "granted" /\ p \in Proc /\ ~call[k].cut
        /\ IF tokens[p] # 0
           THEN /\ Hold(p, call[k].got) /\ file' = call[k].got
                /\ call' = [call EXCEPT ![k].pc = "send", ![k].retried = TRUE,
                                        ![k].pair = call[k].got]
                /\ UNCHANGED ui
           ELSE End(k, "failed") /\ UNCHANGED <<file, tokens>>
        /\ UNCHANGED <<server, calm>>

\* Any answer to a refresh that is not OK drops the tokens, a refusal (401)
\* like a server that is not available.
Denied(k) ==
    /\ call[k].pc = "denied" /\ call[k].at \in Proc /\ ~call[k].cut
    /\ Hold(call[k].at, 0) /\ file' = 0
    /\ End(k, "failed")
    /\ UNCHANGED <<server, calm>>

\* The login's answer is saved, and me() is called.
Welcome(k) ==
    /\ call[k].pc = "welcome" /\ call[k].at \in Proc /\ ~call[k].cut
    /\ Hold(call[k].at, call[k].got) /\ file' = call[k].got
    /\ call' = [call EXCEPT ![k].pc = "send", ![k].pair = call[k].got]
    /\ UNCHANGED <<server, ui, calm>>

Goodbye(k) ==
    /\ call[k].pc = "goodbye" /\ call[k].at \in Proc /\ ~call[k].cut
    /\ End(k, "failed")
    /\ UNCHANGED <<server, file, tokens, calm>>

\* --------------------------------------------------------------- a browser
\* getAccessTokenWithRefresh reads the cookies of the request, and refreshes
\* before it calls the backend.
WebRequest(b, k) ==
    /\ tokens[b] # 0
    /\ Begin(k, b, "call", IF tokens[b] \in fresh THEN "done" ELSE "refresh",
             tokens[b])
    /\ UNCHANGED <<server, clients>>

WebLogin(b, k) ==
    /\ tokens[b] = 0
    /\ Begin(k, b, "login", "signin", 0)
    /\ UNCHANGED <<server, clients>>

WebLogout(b, k) ==
    /\ tokens[b] # 0
    /\ Begin(k, b, "logout", "signout", tokens[b])
    /\ UNCHANGED <<server, clients>>

\* The response sets the cookies, or clears them, whatever they are by now.
WebResponse(k) ==
    LET b == call[k].at
    IN  /\ call[k].pc \in {"granted", "denied", "welcome", "goodbye"}
        /\ b \in Browser /\ ~call[k].cut
        /\ Hold(b, IF call[k].pc \in {"granted", "welcome"} THEN call[k].got
                   ELSE 0)
        /\ Goto(k, "done")
        /\ UNCHANGED <<server, file, ui, calm>>

\* -------------------------------------------------------------- the server
Issue(k, parent, label) ==
    /\ from' = Append(from, parent)
    /\ fresh' = fresh \cup {Len(from) + 1}
    /\ call' = [call EXCEPT ![k].pc = label, ![k].got = Len(from) + 1]

\* AuthService.refresh reads the row.  Revoked: every live token of the user
\* is revoked and the request refused.
RefreshRead(k) ==
    /\ call[k].pc = "refresh"
    /\ IF call[k].pair \in revoked
       THEN revoked' = Issued /\ Goto(k, "denied")
       ELSE Goto(k, "rotate") /\ UNCHANGED revoked
    /\ UNCHANGED <<from, fresh, clients, calm>>

\* Variant: the presented token stays live.
RefreshCommitKeeps(k) ==
    /\ call[k].pc = "rotate"
    /\ Issue(k, call[k].pair, "granted")
    /\ UNCHANGED <<revoked, clients, calm>>

\* It then revokes that row, by its key, and adds a new one; what became of
\* the row since it was read is not looked at.
RefreshCommit(k) ==
    /\ call[k].pc = "rotate"
    /\ revoked' = revoked \cup {call[k].pair}
    /\ Issue(k, call[k].pair, "granted")
    /\ UNCHANGED <<clients, calm>>

\* AuthService.login; a wrong password issues nothing.
SignIn(k) ==
    /\ call[k].pc = "signin"
    /\ \/ Issue(k, 0, "welcome") /\ UNCHANGED ui
       \/ End(k, "failed") /\ UNCHANGED <<from, fresh>>
    /\ UNCHANGED <<revoked, file, tokens, calm>>

\* AuthService.logout.
SignOut(k) ==
    /\ call[k].pc = "signout"
    /\ revoked' = revoked \cup {call[k].pair}
    /\ Goto(k, "goodbye")
    /\ UNCHANGED <<from, fresh, clients, calm>>

\* ------------------------------------------------------------- environment
Expire == \E n \in fresh : /\ fresh' = fresh \ {n}
                           /\ calm' = (calm /\ Quiet)
                           /\ UNCHANGED <<from, revoked, clients, call>>

\* The server, or a gateway before it, answers 429 or 5xx, whether what it was
\* asked to do was done by then or not.
Unavailable(k) ==
    /\ ~call[k].cut
    /\ \/ call[k].pc \in {"send", "signin", "welcome"} /\ End(k, "failed")
       \/ /\ call[k].pc \in {"refresh", "rotate", "granted"}
          /\ Goto(k, "denied") /\ UNCHANGED ui
       \/ call[k].pc = "signout" /\ Goto(k, "goodbye") /\ UNCHANGED ui
    /\ calm' = FALSE
    /\ UNCHANGED <<server, file, tokens>>

\* A connection breaks, so that fetch throws.  The terminal client keeps its
\* tokens; the web server clears the cookies of a refresh or logout that fails;
\* what the server has begun goes on unheard.
Break(k) ==
    /\ Active(k) /\ ~call[k].cut
    /\ calm' = FALSE
    /\ LET c == call[k].at
       IN  /\ ui' = IF c \in Browser \/ call[k].kind = "call" THEN ui
                    ELSE [ui EXCEPT ![c] = "login"]
           /\ \/ c \in Browser /\ call[k].kind # "login" /\ Hold(c, 0)
              \/ UNCHANGED tokens
    /\ call' = [call EXCEPT ![k].cut = TRUE]
    /\ UNCHANGED <<server, file>>

\* Nobody waits for the answer, or the request never arrived.
Unheard(k) ==
    /\ Active(k) /\ call[k].cut /\ call[k].pc # "rotate"
    /\ Goto(k, "failed")
    /\ UNCHANGED <<server, clients, calm>>

ServerStep(k) == RefreshRead(k) \/ RefreshCommit(k) \/ SignIn(k) \/ SignOut(k)
ClientStep(k) == \/ Answer(k) \/ Granted(k) \/ Denied(k) \/ Welcome(k)
                 \/ Goodbye(k) \/ WebResponse(k) \/ Unheard(k)

Next ==
    \/ \E p \in Proc : Start(p) \/ Stop(p)
    \/ \E p \in Proc, k \in Call : Request(p, k) \/ Login(p, k) \/ Logout(p, k)
    \/ \E b \in Browser, k \in Call :
          WebRequest(b, k) \/ WebLogin(b, k) \/ WebLogout(b, k)
    \/ \E k \in Call : ServerStep(k) \/ ClientStep(k) \/ Unavailable(k) \/ Break(k)
    \/ Expire

Spec == Init /\ [][Next]_vars

-----------------------------------------------------------------------------
(***************************************************************************)
(* Properties                                                              *)
(***************************************************************************)

\* The types; requestRaw retries once, so that a request other than a login
\* refreshes only if no pair was granted to it before.
TypeOK ==
    /\ from \in Seq(Nat)
    /\ revoked \subseteq Issued /\ fresh \subseteq Issued
    /\ file \in Issued \cup {0}
    /\ tokens \in [Client -> Issued \cup {0}]
    /\ ui \in [Proc -> {"off", "boot", "login", "app"}]
    /\ call \in [Call -> [pc: {"idle", "send", "refresh", "rotate", "granted",
                               "denied", "signin", "welcome", "signout",
                               "goodbye", "done", "failed"},
                          at: Client \cup {"nobody"},
                          kind: {"call", "boot", "login", "logout"},
                          pair: Issued \cup {0}, got: Issued \cup {0},
                          retried: BOOLEAN, cut: BOOLEAN]]
    /\ \A k \in Call : call[k].pc = "refresh" /\ call[k].kind # "login" =>
                          call[k].got = 0
    /\ calm \in BOOLEAN

\* A user whose requests never overlap is never taken for a thief, through
\* any number of restarts, logins and logouts on all their devices.
CalmIsTrusted == calm => \A k \in Call : call[k].pc # "denied"

\* Nor does such a user leave a session behind on the server: between two
\* requests the live tokens are those that a client holds.
CalmLeavesNothing ==
    calm /\ Quiet => Live = ({file} \cup {tokens[b] : b \in Browser}) \ {0}

\* Whatever overlaps or is lost, a process that has dropped its tokens gets
\* new ones from a login only: the answer to a refresh that was on its way
\* when the user logged out does not sign them in again.
SignInNeedsLogin ==
    [][\A p \in Proc : tokens[p] = 0 /\ tokens'[p] # 0 =>
           Start(p) \/ \E k \in Call : call[k].at = p /\ Welcome(k)]_vars

\* Claims of the source that do not hold ---------------------------------

\* Design notes of the JWT change: only the request whose UPDATE finds the
\* row not yet revoked goes on to issue a token.
RotatedOnce == \A m, n \in Issued : from[m] = from[n] /\ from[m] # 0 => m = n
=============================================================================

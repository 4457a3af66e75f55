---------------------------- MODULE SignInProofs ----------------------------
(***************************************************************************)
(* Signing in and staying signed in.                                       *)
(*                                                                         *)
(* TokenRefresh: what the server and the clients know of each other's      *)
(* tokens, for any number of processes, browsers and requests.  The        *)
(* invariant is a ledger: in a calm history the live tokens are those that *)
(* the token file and the cookies hold, but for the exchange, login or     *)
(* logout that is under way, and each is held once.                        *)
(*                                                                         *)
(* WebSession: what becomes of a request of any number of tabs.  The       *)
(* invariant ranks the paths by the redirects that can still follow, and   *)
(* says of an undisturbed request what it will come to.                    *)
(***************************************************************************)
EXTENDS TokenRefresh, WebSession, TLAPS

\* Where a request's client keeps its token.
Slot(k) == IF call[k].at \in Proc THEN file ELSE tokens[call[k].at]
Held == ({file} \cup {tokens[b] : b \in Browser}) \ {0}

\* A request under way has a client, a process if the server is to answer it;
\* it has the token it presents; it was granted a pair only if it is a login or
\* was made again.
RequestOk(r) ==
    /\ r.pc \notin {"idle", "done", "failed"} => r.at \in Client
    /\ r.pc = "send" => r.at \in Proc
    /\ r.pc \in {"refresh", "rotate", "signout"} => r.pair # 0
    /\ r.pc \in {"signin", "welcome"} => r.kind = "login"
    /\ r.pc = "refresh" /\ r.kind # "login" => r.got = 0
    /\ r.pc = "send" /\ ~r.retried /\ r.kind # "login" => r.got = 0
RequestsOk == \A k \in Call : RequestOk(call[k])

\* One process at a time.  It has in memory what is in the file; it is signed
\* out when it shows the login screen, unless it is just being signed in.
OneProcess == \A p, q \in Proc : ui[p] # "off" /\ ui[q] # "off" => p = q
SigningIn(p) == \E k \in Call : /\ call[k].pc = "send" /\ call[k].kind = "login"
                                /\ call[k].at = p
Remembered ==
    \A p \in Proc : ui[p] # "off" =>
        /\ tokens[p] = file
        /\ ui[p] = "login" /\ file # 0 => SigningIn(p)

\* A token is held in one place.
HeldOnce == \A b \in Browser : tokens[b] # 0 =>
                /\ tokens[b] # file
                /\ \A c \in Browser : tokens[c] = tokens[b] => c = b

\* One request at a time, of a client that hears it.
Alone(k) == \A j \in Call : Active(j) => j = k
Heard(k) == /\ ~call[k].cut /\ call[k].at \in Client
            /\ call[k].at \in Proc => ui[call[k].at] # "off"

\* What a request under way knows.
Phase(k) ==
    /\ call[k].pc = "send" =>
          /\ call[k].at \in Proc /\ call[k].kind # "logout"
          /\ call[k].kind = "boot" => file # 0
          /\ call[k].retried \/ call[k].kind = "login" => call[k].pair \in fresh
    /\ call[k].pc \in {"refresh", "rotate"} =>
          call[k].pair = Slot(k) /\ Slot(k) # 0 /\ call[k].kind # "logout"
    /\ call[k].pc = "granted" =>
          Slot(k) # 0 /\ call[k].got \in fresh /\ call[k].kind # "logout"
    /\ call[k].pc = "signin" => Slot(k) = 0 /\ call[k].kind = "login"
    /\ call[k].pc = "welcome" =>
          Slot(k) = 0 /\ call[k].kind = "login" /\ call[k].got \in fresh
    /\ call[k].pc \in {"signout", "goodbye"} =>
          /\ call[k].pair # 0 /\ call[k].kind = "logout"
          /\ Slot(k) = IF call[k].at \in Proc THEN 0 ELSE call[k].pair
    /\ call[k].pc # "denied"

\* The tokens a client still holds that are revoked, and the live ones that no
\* client holds yet, or any more.
Gone(k) == IF call[k].pc \in {"granted", "goodbye"} THEN {Slot(k)} ELSE {}
Loose(k) == IF call[k].pc \in {"granted", "welcome"} THEN {call[k].got}
            ELSE IF call[k].pc = "signout" THEN {call[k].pair} \ {Slot(k)} ELSE {}
Balance(k) == /\ Live = (Held \ Gone(k)) \cup Loose(k)
              /\ Loose(k) \cap Held = {}

Ledger ==
    /\ Quiet => Live = Held
    /\ \A k \in Call : Active(k) => Alone(k) /\ Heard(k) /\ Phase(k) /\ Balance(k)

Books == OneProcess /\ Remembered /\ HeldOnce /\ Ledger
CalmInv == calm => Books

IInv == TypeOK /\ RequestsOk /\ CalmInv

-----------------------------------------------------------------------------
(***************************************************************************)
(* The types                                                               *)
(***************************************************************************)

Label == {"idle", "send", "refresh", "rotate", "granted", "denied", "signin",
          "welcome", "signout", "goodbye", "done", "failed"}
Kind == {"call", "boot", "login", "logout"}
Known == Issued \cup {0}
CallType == [pc: Label, at: Client \cup {"nobody"}, kind: Kind, pair: Known,
             got: Known, retried: BOOLEAN, cut: BOOLEAN]

\* TypeOK in two parts, next to RequestsOk.
CallsOk == call \in [Call -> CallType]
Rest == /\ from \in Seq(Nat) /\ revoked \subseteq Issued /\ fresh \subseteq Issued
        /\ file \in Known /\ tokens \in [Client -> Known]
        /\ ui \in [Proc -> {"off", "boot", "login", "app"}]
        /\ calm \in BOOLEAN

\* The type invariant with RequestsOk, taken apart.
LEMMA TypesParts == TypeOK /\ RequestsOk <=> CallsOk /\ Rest /\ RequestsOk
BY DEF TypeOK, RequestsOk, RequestOk, CallsOk, Rest, CallType, Label, Kind, Known

\* Every change of a request keeps its type.
LEMMA NewCall ==
    ASSUME NEW l \in Label, NEW c \in Client, NEW kind \in Kind, NEW n \in Known
    PROVE  [NoCall EXCEPT !.pc = l, !.at = c, !.kind = kind, !.pair = n] \in CallType
<1>1. NoCall \in CallType
  BY DEF CallType, NoCall, Label, Kind, Known
<1> QED
  BY <1>1 DEF CallType

\* What of a request any single action may change, and to what.
LEMMA CallUpdates ==
    ASSUME NEW r \in CallType, NEW l \in Label
    PROVE  /\ [r EXCEPT !.pc = l] \in CallType
           /\ [r EXCEPT !.cut = TRUE] \in CallType
           /\ \A n \in Known : /\ [r EXCEPT !.pc = l, !.pair = n] \in CallType
                               /\ [r EXCEPT !.pc = l, !.retried = TRUE, !.pair = n]
                                  \in CallType
<1>1. [r EXCEPT !.pc = l] \in CallType
  BY DEF CallType
<1>2. [r EXCEPT !.cut = TRUE] \in CallType
  BY DEF CallType
<1>3. ASSUME NEW n \in Known PROVE [r EXCEPT !.pc = l, !.pair = n] \in CallType
  BY DEF CallType
<1>4. ASSUME NEW n \in Known
      PROVE  [r EXCEPT !.pc = l, !.retried = TRUE, !.pair = n] \in CallType
  BY DEF CallType
<1> QED
  BY <1>1, <1>2, <1>3, <1>4

\* A new pair: what was known before still is.
LEMMA IssueExtends ==
    ASSUME from \in Seq(Nat), NEW n \in Nat, from' = Append(from, n)
    PROVE  /\ from' \in Seq(Nat)
           /\ Issued' = Issued \cup {Len(from) + 1}
           /\ Len(from) + 1 \notin Issued /\ Len(from) + 1 # 0 /\ 0 \notin Issued
           /\ Known \subseteq Known' /\ CallType \subseteq CallType'
<1>1. /\ from' \in Seq(Nat) /\ Issued' = Issued \cup {Len(from) + 1}
      /\ Len(from) + 1 \notin Issued /\ Len(from) + 1 # 0 /\ 0 \notin Issued
  BY DEF Issued
<1>2. Known \subseteq Known'
  BY <1>1 DEF Known
<1>3. CallType \subseteq CallType'
  BY <1>2 DEF CallType
<1> QED
  BY <1>1, <1>2, <1>3

\* The first state has the types.
LEMMA InitTypes == Init => CallsOk /\ Rest /\ RequestsOk
<1> SUFFICES ASSUME Init PROVE CallsOk /\ Rest /\ RequestsOk
  OBVIOUS
<1>1. Rest
  BY DEF Init, Rest, Issued, Known, Client
<1>2. CallsOk
  BY DEF Init, CallsOk, CallType, NoCall, Label, Kind, Known
<1>3. RequestsOk
  BY DEF Init, RequestsOk, RequestOk, NoCall
<1> QED
  BY <1>1, <1>2, <1>3

\* One request after it changed: it is of its type, the others are the same.
LEMMA CallSet ==
    ASSUME CallsOk, NEW k \in Call, NEW r \in CallType, call' = [call EXCEPT ![k] = r],
           CallType \subseteq CallType'
    PROVE  CallsOk' /\ call'[k] = r /\ \A j \in Call \ {k} : call'[j] = call[j]
BY DEF CallsOk

\* The requests keep their types.
LEMMA StepCalls ==
    ASSUME CallsOk, Rest, RequestsOk, [Next]_vars
    PROVE  CallsOk'
<1> USE DEF server, clients
<1>1. ASSUME Known' = Known
      PROVE  CallType' = CallType
  BY <1>1 DEF CallType
<1>2. ASSUME from' = from PROVE Known' = Known
  BY <1>2 DEF Known, Issued
<1>3. file \in Known /\ 0 \in Known /\ \A c \in Client : tokens[c] \in Known
  BY DEF Rest, Known
<1>4. \A k \in Call : call[k] \in CallType
  BY DEF CallsOk
<1>5. ASSUME NEW k \in Call, NEW c \in Client, NEW kind \in Kind, NEW label \in Label,
             NEW pair \in Known, Begin(k, c, kind, label, pair), from' = from
      PROVE  CallsOk'
  <2>1. call' = [call EXCEPT ![k] = [NoCall EXCEPT !.pc = label, !.at = c,
                                                   !.kind = kind, !.pair = pair]]
    BY <1>5 DEF Begin
  <2>2. [NoCall EXCEPT !.pc = label, !.at = c, !.kind = kind, !.pair = pair] \in CallType
    BY NewCall
  <2> QED
    BY <2>1, <2>2, <1>1, <1>2, <1>5, CallSet
<1>6. ASSUME NEW k \in Call, NEW label \in Label, Goto(k, label), from' = from
      PROVE  CallsOk'
  <2>1. call' = [call EXCEPT ![k] = [call[k] EXCEPT !.pc = label]]
    BY <1>6 DEF Goto
  <2>2. [call[k] EXCEPT !.pc = label] \in CallType
    BY <1>4, CallUpdates
  <2> QED
    BY <2>1, <2>2, <1>1, <1>2, <1>6, CallSet
<1>7. ASSUME NEW k \in Call, NEW n \in Nat, NEW label \in Label, Issue(k, n, label)
      PROVE  CallsOk'
  <2>1. call' = [call EXCEPT ![k] = [call[k] EXCEPT !.pc = label, !.got = Len(from) + 1]]
    BY <1>7 DEF Issue
  <2>2. from \in Seq(Nat) /\ from' = Append(from, n)
    BY <1>7 DEF Issue, Rest
  <2>3. Len(from) + 1 \in Known' /\ CallType \subseteq CallType'
    BY <2>2, IssueExtends DEF Known
  <2>4. [call[k] EXCEPT !.pc = label, !.got = Len(from) + 1] \in CallType'
    <3>1. call[k] \in CallType'
      BY <1>4, <2>3
    <3> QED
      BY <2>3, <3>1 DEF CallType
  <2> QED
    BY <2>1, <2>3, <2>4, <1>4 DEF CallsOk
<1>8. ASSUME NEW p \in Proc, Start(p) PROVE CallsOk'
  <2>1. CASE file = 0
    BY <1>8, <2>1, <1>1, <1>2 DEF Start, CallsOk
  <2>2. CASE file # 0
    <3>1. PICK k \in Call : call' = [call EXCEPT ![k] =
                [NoCall EXCEPT !.pc = "send", !.at = p, !.kind = "boot", !.pair = file]]
      BY <1>8, <2>2 DEF Start
    <3>2. p \in Client /\ "boot" \in Kind /\ "send" \in Label
      BY DEF Client, Kind, Label
    <3>3. from' = from
      BY <1>8 DEF Start
    <3>4. [NoCall EXCEPT !.pc = "send", !.at = p, !.kind = "boot", !.pair = file]
          \in CallType
      BY <3>2, <1>3, NewCall
    <3> QED
      BY <3>1, <3>3, <3>4, <1>1, <1>2, CallSet
  <2> QED
    BY <2>1, <2>2
<1>9. ASSUME NEW p \in Proc, Stop(p) PROVE CallsOk'
  <2>1. call' = [k \in Call |-> IF Of(k, p) THEN [call[k] EXCEPT !.cut = TRUE] ELSE call[k]]
    BY <1>9 DEF Stop
  <2>2. \A k \in Call : [call[k] EXCEPT !.cut = TRUE] \in CallType
    BY <1>4 DEF CallType
  <2>3. CallType' = CallType
    BY <1>9, <1>1, <1>2 DEF Stop
  <2> QED
    BY <2>1, <2>2, <2>3, <1>4 DEF CallsOk
<1>10. ASSUME NEW p \in Proc, NEW k \in Call, Request(p, k) \/ Login(p, k) \/ Logout(p, k)
       PROVE  CallsOk'
  <2>1. p \in Client /\ {"send", "signin", "signout"} \subseteq Label
        /\ {"call", "login", "logout"} \subseteq Kind
    BY DEF Client, Label, Kind
  <2>2. from' = from
    BY <1>10 DEF Request, Login, Logout
  <2>3. \/ Begin(k, p, "call", "send", tokens[p])
        \/ Begin(k, p, "login", "signin", 0)
        \/ Begin(k, p, "logout", "signout", tokens[p])
        \/ call' = call
    BY <1>10 DEF Request, Login, Logout
  <2>4. CASE call' = call
    BY <2>2, <2>4, <1>1, <1>2 DEF CallsOk
  <2> QED
    BY <2>1, <2>2, <2>3, <2>4, <1>3, <1>5
<1>11. ASSUME NEW b \in Browser, NEW k \in Call,
              WebRequest(b, k) \/ WebLogin(b, k) \/ WebLogout(b, k)
       PROVE  CallsOk'
  <2>1. b \in Client /\ {"done", "refresh", "signin", "signout"} \subseteq Label
        /\ {"call", "login", "logout"} \subseteq Kind
    BY DEF Client, Label, Kind
  <2>2. from' = from
    BY <1>11 DEF WebRequest, WebLogin, WebLogout
  <2>3. \/ Begin(k, b, "call", "done", tokens[b])
        \/ Begin(k, b, "call", "refresh", tokens[b])
        \/ Begin(k, b, "login", "signin", 0)
        \/ Begin(k, b, "logout", "signout", tokens[b])
    BY <1>11 DEF WebRequest, WebLogin, WebLogout
  <2> QED
    BY <2>1, <2>2, <2>3, <1>3, <1>5
<1>12. ASSUME NEW k \in Call, ServerStep(k) PROVE CallsOk'
  <2>1. {"denied", "rotate", "granted", "welcome", "failed", "goodbye"} \subseteq Label
    BY DEF Label
  <2>2. CASE RefreshRead(k) \/ SignOut(k)
    <3>1. from' = from
      BY <2>2 DEF RefreshRead, SignOut
    <3>2. Goto(k, "denied") \/ Goto(k, "rotate") \/ Goto(k, "goodbye")
      BY <2>2 DEF RefreshRead, SignOut
    <3> QED
      BY <2>1, <3>1, <3>2, <1>6
  <2>3. CASE RefreshCommit(k)
    <3>1. call[k].pair \in Nat
      BY <1>4 DEF CallType, Known, Rest, Issued
    <3> QED
      BY <2>1, <2>3, <3>1, <1>7 DEF RefreshCommit
  <2>4. CASE SignIn(k)
    BY <2>1, <2>4, <1>6, <1>7 DEF SignIn, End
  <2> QED
    BY <1>12, <2>2, <2>3, <2>4 DEF ServerStep
<1>13. ASSUME NEW k \in Call, ClientStep(k) PROVE CallsOk'
  <2>1. from' = from
    BY <1>13 DEF ClientStep, Answer, Granted, Denied, Welcome, Goodbye, WebResponse, Unheard
  <2>2. CallType' = CallType
    BY <2>1, <1>1, <1>2
  <2>3. {"send", "refresh", "done", "failed"} \subseteq Label /\ call[k].got \in Known
    BY <1>4 DEF Label, CallType
  <2>4. \/ Goto(k, "done") \/ Goto(k, "failed")
        \/ /\ call[k].at \in Proc
           /\ call' = [call EXCEPT ![k] = [call[k] EXCEPT !.pc = "refresh",
                                                          !.pair = tokens[call[k].at]]]
        \/ call' = [call EXCEPT ![k] = [call[k] EXCEPT !.pc = "send", !.retried = TRUE,
                                                       !.pair = call[k].got]]
        \/ call' = [call EXCEPT ![k] = [call[k] EXCEPT !.pc = "send", !.pair = call[k].got]]
    <3>1. CASE Answer(k)
      <4>1. CASE Goto(k, "done") \/ Goto(k, "failed")
        BY <4>1
      <4>2. CASE call' = [call EXCEPT ![k].pc = "refresh", ![k].pair = tokens[call[k].at]]
        <5>1. call[k].at \in Proc
          BY <3>1 DEF Answer, RequestsOk, RequestOk
        <5> QED
          BY <4>2, <5>1
      <4> QED
        BY <3>1, <4>1, <4>2 DEF Answer, End
    <3>2. CASE Granted(k)
      BY <3>2 DEF Granted, End
    <3>3. CASE Denied(k) \/ Goodbye(k) \/ WebResponse(k) \/ Unheard(k)
      BY <3>3 DEF Denied, Goodbye, WebResponse, Unheard, End
    <3>4. CASE Welcome(k)
      BY <3>4 DEF Welcome
    <3> QED
      BY <1>13, <3>1, <3>2, <3>3, <3>4 DEF ClientStep
  <2>5. ASSUME NEW r \in CallType, call' = [call EXCEPT ![k] = r]
        PROVE  CallsOk'
    BY <2>2, <2>5, CallSet
  <2>6. tokens[call[k].at] \in Known \/ call[k].at \notin Proc
    BY <1>3 DEF Client
  <2> QED
    BY <2>1, <2>3, <2>4, <2>5, <2>6, <1>4, <1>6, CallUpdates
<1>14. ASSUME NEW k \in Call, Break(k) PROVE CallsOk'
  <2>1. call' = [call EXCEPT ![k] = [call[k] EXCEPT !.cut = TRUE]] /\ from' = from
    BY <1>14 DEF Break
  <2>2. [call[k] EXCEPT !.cut = TRUE] \in CallType
    BY <1>4 DEF CallType
  <2> QED
    BY <2>1, <2>2, <1>1, <1>2, CallSet
<1>15. ASSUME Expire \/ UNCHANGED vars PROVE CallsOk'
  BY <1>15, <1>1, <1>2 DEF Expire, vars, CallsOk
<1>16. ASSUME NEW k \in Call, Unavailable(k) PROVE CallsOk'
  <2>1. /\ {"failed", "denied", "goodbye"} \subseteq Label /\ from' = from
        /\ Goto(k, "failed") \/ Goto(k, "denied") \/ Goto(k, "goodbye")
    BY <1>16 DEF Unavailable, End, Label
  <2> QED
    BY <2>1, <1>6
<1> QED
  BY <1>8, <1>9, <1>10, <1>11, <1>12, <1>13, <1>14, <1>15, <1>16 DEF Next

\* The other variables keep theirs.
LEMMA StepRest ==
    ASSUME CallsOk, Rest, RequestsOk, [Next]_vars
    PROVE  Rest'
<1> USE DEF server, clients, Rest
<1>1. 0 \in Known /\ \A k \in Call : /\ call[k].got \in Known /\ call[k].pair \in Known
  BY DEF CallsOk, CallType, Known
<1>2. ASSUME from' = from PROVE Known' = Known /\ Issued' = Issued
  BY <1>2 DEF Known, Issued
<1>3. ASSUME NEW c, NEW n \in Known, Hold(c, n)
      PROVE  tokens' \in [Client -> Known]
  BY <1>3 DEF Hold
<1>4. ASSUME NEW k \in Call, NEW label, End(k, label)
      PROVE  ui' \in [Proc -> {"off", "boot", "login", "app"}]
  BY <1>4 DEF End
<1>5. ASSUME NEW k \in Call, NEW n \in Nat, NEW label, Issue(k, n, label)
      PROVE  /\ from' \in Seq(Nat) /\ fresh' \subseteq Issued'
             /\ Known \subseteq Known' /\ Issued \subseteq Issued'
  BY <1>5, IssueExtends DEF Issue
<1>7. ASSUME NEW p \in Proc, Start(p) PROVE Rest'
  BY <1>7, <1>2, <1>3 DEF Start
<1>8. ASSUME NEW p \in Proc, Stop(p) PROVE Rest'
  BY <1>8, <1>1, <1>2, <1>3 DEF Stop
<1>9. ASSUME NEW p \in Proc, NEW k \in Call, Request(p, k) \/ Login(p, k) PROVE Rest'
  BY <1>9, <1>2 DEF Request, Login, Begin
<1>10. ASSUME NEW p \in Proc, NEW k \in Call, Logout(p, k) PROVE Rest'
  BY <1>10, <1>1, <1>2, <1>3 DEF Logout, Begin
<1>11. ASSUME NEW b \in Browser, NEW k \in Call,
              WebRequest(b, k) \/ WebLogin(b, k) \/ WebLogout(b, k)
       PROVE  Rest'
  BY <1>11, <1>2 DEF WebRequest, WebLogin, WebLogout, Begin
<1>12. ASSUME NEW k \in Call, RefreshRead(k) PROVE Rest'
  BY <1>12, <1>2 DEF RefreshRead
<1>13. ASSUME NEW k \in Call, RefreshCommit(k) PROVE Rest'
  <2>1. call[k].pair \in Issued /\ call[k].pair \in Nat
    BY <1>1, <1>13 DEF RefreshCommit, RequestsOk, RequestOk, Known, Issued
  <2>2. Issue(k, call[k].pair, "granted")
    BY <1>13 DEF RefreshCommit
  <2> QED
    BY <1>13, <2>1, <2>2, <1>5 DEF RefreshCommit
<1>14. ASSUME NEW k \in Call, SignIn(k) PROVE Rest'
  <2>1. CASE Issue(k, 0, "welcome") /\ UNCHANGED ui
    BY <1>14, <2>1, <1>5 DEF SignIn
  <2>2. CASE End(k, "failed") /\ UNCHANGED <<from, fresh>>
    BY <1>14, <2>2, <1>2, <1>4 DEF SignIn
  <2> QED
    BY <1>14, <2>1, <2>2 DEF SignIn
<1>15. ASSUME NEW k \in Call, SignOut(k) PROVE Rest'
  <2>1. call[k].pair \in Issued
    BY <1>1, <1>15 DEF SignOut, RequestsOk, RequestOk, Known
  <2> QED
    BY <1>15, <2>1, <1>2 DEF SignOut
<1>16. ASSUME NEW k \in Call, Answer(k) PROVE Rest'
  BY <1>16, <1>2, <1>4 DEF Answer
<1>17. ASSUME NEW k \in Call, Granted(k) PROVE Rest'
  BY <1>17, <1>1, <1>2, <1>3, <1>4 DEF Granted
<1>18. ASSUME NEW k \in Call, Denied(k) \/ Welcome(k) \/ Goodbye(k) PROVE Rest'
  <2>1. CASE Denied(k)
    BY <2>1, <1>1, <1>2, <1>3, <1>4 DEF Denied
  <2>2. CASE Welcome(k)
    BY <2>2, <1>1, <1>2, <1>3 DEF Welcome
  <2>3. CASE Goodbye(k)
    BY <2>3, <1>2, <1>4 DEF Goodbye
  <2> QED
    BY <1>18, <2>1, <2>2, <2>3
<1>19. ASSUME NEW k \in Call, WebResponse(k) PROVE Rest'
  BY <1>19, <1>1, <1>2, <1>3 DEF WebResponse
<1>20. ASSUME NEW k \in Call, Unheard(k) PROVE Rest'
  BY <1>20, <1>2 DEF Unheard
<1>21. ASSUME NEW k \in Call, Break(k) PROVE Rest'
  <2>1. tokens' \in [Client -> Known]
    BY <1>21, <1>1, <1>3 DEF Break
  <2>2. ui' \in [Proc -> {"off", "boot", "login", "app"}]
    BY <1>21 DEF Break
  <2> QED
    BY <1>21, <2>1, <2>2, <1>2 DEF Break
<1>22. ASSUME Expire \/ UNCHANGED vars PROVE Rest'
  BY <1>22, <1>2 DEF Expire, vars
<1>23. ASSUME NEW k \in Call, Unavailable(k) PROVE Rest'
  <2>1. UNCHANGED ui \/ End(k, "failed")
    BY <1>23 DEF Unavailable
  <2>2. ui' \in [Proc -> {"off", "boot", "login", "app"}]
    BY <2>1, <1>4
  <2> QED
    BY <1>23, <2>2, <1>2 DEF Unavailable
<1> QED
  BY <1>7, <1>8, <1>9, <1>10, <1>11, <1>12, <1>13, <1>14, <1>15, <1>16, <1>17, <1>18,
     <1>19, <1>20, <1>21, <1>22, <1>23 DEF Next, ServerStep, ClientStep

\* Every step keeps what is known of a request under way.
LEMMA StepRequests ==
    ASSUME CallsOk, Rest, RequestsOk, [Next]_vars
    PROVE  RequestsOk'
<1> USE DEF RequestsOk, RequestOk
<1>1. ASSUME NEW k \in Call, NEW r, call' = [call EXCEPT ![k] = r], RequestOk(r)'
      PROVE  RequestsOk'
  BY <1>1 DEF CallsOk, Client
<1>2. ASSUME NEW k \in Call, NEW c \in Client, NEW kind, NEW label, NEW pair,
             Begin(k, c, kind, label, pair),
             label = "send" => c \in Proc,
             label \in {"refresh", "signout"} => pair # 0,
             label \notin {"rotate", "welcome"},
             label = "signin" => kind = "login"
      PROVE  RequestsOk'
  BY <1>1, <1>2 DEF Begin, NoCall, Client
<1>3. ASSUME NEW k \in Call, NEW label \in {"done", "failed"}, Goto(k, label)
      PROVE  RequestsOk'
  BY <1>3 DEF Goto, CallsOk, CallType, Client
<1>4. \A p \in Proc : p \in Client
  BY DEF Client
<1>5. \A b \in Browser : b \in Client
  BY DEF Client
<1>7. ASSUME NEW p \in Proc, Start(p) PROVE RequestsOk'
  <2>1. CASE UNCHANGED call
    BY <2>1 DEF Client
  <2>2. CASE \E k \in Call : call' = [call EXCEPT ![k] =
                [NoCall EXCEPT !.pc = "send", !.at = p, !.kind = "boot", !.pair = file]]
    BY <2>2, <1>4 DEF NoCall, CallsOk, Client
  <2> QED
    BY <1>7, <2>1, <2>2 DEF Start
<1>8. ASSUME NEW p \in Proc, Stop(p) PROVE RequestsOk'
  BY <1>8 DEF Stop, CallsOk, CallType, Client
<1>9. ASSUME NEW p \in Proc, NEW k \in Call, Request(p, k) \/ Login(p, k) PROVE RequestsOk'
  BY <1>9, <1>2, <1>4 DEF Request, Login
<1>10. ASSUME NEW p \in Proc, NEW k \in Call, Logout(p, k) PROVE RequestsOk'
  BY <1>10, <1>2, <1>4 DEF Logout, Client
<1>11. ASSUME NEW b \in Browser, NEW k \in Call,
              WebRequest(b, k) \/ WebLogin(b, k) \/ WebLogout(b, k)
       PROVE  RequestsOk'
  BY <1>11, <1>2, <1>5 DEF WebRequest, WebLogin, WebLogout
<1>12. ASSUME NEW k \in Call, RefreshRead(k) PROVE RequestsOk'
  BY <1>12 DEF RefreshRead, Goto, CallsOk, CallType, Client
<1>13. ASSUME NEW k \in Call, RefreshCommit(k) PROVE RequestsOk'
  BY <1>13 DEF RefreshCommit, Issue, CallsOk, CallType, Client
<1>14. ASSUME NEW k \in Call, SignIn(k) PROVE RequestsOk'
  BY <1>14, <1>3 DEF SignIn, Issue, End, CallsOk, CallType, Client
<1>15. ASSUME NEW k \in Call, SignOut(k) PROVE RequestsOk'
  BY <1>15 DEF SignOut, Goto, CallsOk, CallType, Client
<1>16. ASSUME NEW k \in Call, Answer(k) PROVE RequestsOk'
  <2>1. CASE End(k, "done") \/ End(k, "failed")
    BY <2>1, <1>3 DEF End
  <2>2. CASE /\ ~call[k].retried /\ tokens[call[k].at] # 0
             /\ call' = [call EXCEPT ![k].pc = "refresh", ![k].pair = tokens[call[k].at]]
    BY <1>16, <2>2 DEF Answer, CallsOk, CallType, Client
  <2> QED
    BY <1>16, <2>1, <2>2 DEF Answer
<1>17. ASSUME NEW k \in Call, Granted(k) PROVE RequestsOk'
  BY <1>17, <1>3 DEF Granted, End, CallsOk, CallType, Client
<1>18. ASSUME NEW k \in Call, Denied(k) \/ Goodbye(k) \/ WebResponse(k) \/ Unheard(k)
       PROVE  RequestsOk'
  BY <1>18, <1>3 DEF Denied, Goodbye, WebResponse, Unheard, End
<1>19. ASSUME NEW k \in Call, Welcome(k) PROVE RequestsOk'
  BY <1>19 DEF Welcome, CallsOk, CallType, Client
<1>21. ASSUME NEW k \in Call, Break(k) PROVE RequestsOk'
  BY <1>21 DEF Break, CallsOk, CallType, Client
<1>23. ASSUME NEW k \in Call, Unavailable(k) PROVE RequestsOk'
  <2>1. CASE Goto(k, "failed")
    BY <2>1, <1>3
  <2>2. CASE /\ call[k].pc \in {"refresh", "rotate", "granted", "signout"}
             /\ Goto(k, "denied") \/ Goto(k, "goodbye")
    BY <2>2 DEF Goto, CallsOk, CallType, Client
  <2> QED
    BY <1>23, <2>1, <2>2 DEF Unavailable, End
<1>22. ASSUME Expire \/ UNCHANGED vars PROVE RequestsOk'
  BY <1>22 DEF Expire, vars, Client
<1> QED
  BY <1>7, <1>8, <1>9, <1>10, <1>11, <1>12, <1>13, <1>14, <1>15, <1>16, <1>17, <1>18,
     <1>19, <1>21, <1>22, <1>23 DEF Next, ServerStep, ClientStep

Types == CallsOk /\ Rest /\ RequestsOk

\* Every step keeps the types.
LEMMA StepTypes == Types /\ [Next]_vars => Types'
BY StepCalls, StepRest, StepRequests DEF Types

\* Every variable has its type, for any processes, browsers and requests.
THEOREM TypeCorrect == Spec => []TypeOK
<1>1. Init => Types
  BY InitTypes DEF Types
<1>2. Types => TypeOK
  BY TypesParts DEF Types
<1> QED
  BY <1>1, <1>2, StepTypes, PTL DEF Spec

\* A step that puts a token where there was none.
LEMMA TokensFromLogin ==
    ASSUME Types, [Next]_vars, NEW p \in Proc, tokens[p] = 0, tokens'[p] # 0
    PROVE  Start(p) \/ \E k \in Call : call[k].at = p /\ Welcome(k)
<1> USE DEF server, clients, Types, Rest
<1>1. p \in Client /\ p \notin Browser
  BY ClientAssumption DEF Client
<1>2. ASSUME NEW c, NEW n, Hold(c, n)
      PROVE  /\ c = p => tokens'[p] = n
             /\ c # p => tokens'[p] = tokens[p]
  BY <1>1, <1>2 DEF Hold
<1>3. ~UNCHANGED tokens
  OBVIOUS
<1>4. ASSUME NEW q \in Proc, Start(q) PROVE Start(p)
  <2>1. Hold(q, file)
    BY <1>4 DEF Start
  <2>2. q = p
    BY <1>2, <2>1
  <2> QED
    BY <1>4, <2>2
<1>5. ASSUME NEW q \in Proc, Stop(q) PROVE FALSE
  BY <1>2, <1>5 DEF Stop
<1>6. ASSUME NEW q \in Proc, NEW k \in Call, Logout(q, k) PROVE FALSE
  BY <1>2, <1>6 DEF Logout
<1>7. ASSUME NEW k \in Call, Granted(k) PROVE FALSE
  BY <1>2, <1>3, <1>7 DEF Granted
<1>8. ASSUME NEW k \in Call, Denied(k) PROVE FALSE
  BY <1>2, <1>8 DEF Denied
<1>9. ASSUME NEW k \in Call, Welcome(k) PROVE call[k].at = p
  BY <1>2, <1>9 DEF Welcome
<1>10. ASSUME NEW k \in Call, WebResponse(k) PROVE FALSE
  BY <1>1, <1>2, <1>10 DEF WebResponse
<1>11. ASSUME NEW k \in Call, Break(k) PROVE FALSE
  BY <1>2, <1>11 DEF Break
<1>17. ASSUME NEW k \in Call, Unavailable(k) PROVE FALSE
  BY <1>3, <1>17 DEF Unavailable
<1>12. ASSUME NEW q \in Proc, NEW k \in Call, Request(q, k) \/ Login(q, k) PROVE FALSE
  BY <1>3, <1>12 DEF Request, Login
<1>13. ASSUME NEW b \in Browser, NEW k \in Call,
              WebRequest(b, k) \/ WebLogin(b, k) \/ WebLogout(b, k)
       PROVE  FALSE
  BY <1>3, <1>13 DEF WebRequest, WebLogin, WebLogout
<1>14. ASSUME NEW k \in Call, ServerStep(k) PROVE FALSE
  BY <1>3, <1>14 DEF ServerStep, RefreshRead, RefreshCommit, SignIn, SignOut
<1>15. ASSUME NEW k \in Call, Answer(k) \/ Goodbye(k) \/ Unheard(k) PROVE FALSE
  BY <1>3, <1>15 DEF Answer, Goodbye, Unheard
<1>16. ~(Expire \/ UNCHANGED vars)
  BY <1>3 DEF Expire, vars
<1> QED
  BY <1>4, <1>5, <1>6, <1>7, <1>8, <1>9, <1>10, <1>11, <1>12, <1>13, <1>14, <1>15,
     <1>16, <1>17 DEF Next, ClientStep

\* A process that has dropped its tokens gets new ones from a login, or the file
\* when it starts: the answer to a refresh that the user's logout overtook (the
\* check in tryRefresh, Granted) signs nobody in.
THEOREM LateAnswersSignNobodyIn == Spec => SignInNeedsLogin
<1>1. Init => Types
  BY InitTypes DEF Types
<1>2. Types /\ [Next]_vars =>
        [\A p \in Proc : tokens[p] = 0 /\ tokens'[p] # 0 =>
             Start(p) \/ \E k \in Call : call[k].at = p /\ Welcome(k)]_vars
  BY TokensFromLogin
<1> QED
  BY <1>1, <1>2, StepTypes, PTL DEF Spec, SignInNeedsLogin

-----------------------------------------------------------------------------
(***************************************************************************)
(* The ledger                                                              *)
(***************************************************************************)

\* How what is held changes with the file and the cookies.
LEMMA HeldSame ==
    ASSUME file' = file, \A b \in Browser : tokens'[b] = tokens[b]
    PROVE  Held' = Held /\ (HeldOnce => HeldOnce')
BY DEF Held, HeldOnce

\* What is held once the file is written.
LEMMA FileChange ==
    ASSUME HeldOnce, NEW n, file' = n, \A b \in Browser : tokens'[b] = tokens[b],
           n = 0 \/ n \notin Held
    PROVE  Held' = (Held \ {file}) \cup ({n} \ {0}) /\ HeldOnce'
BY DEF Held, HeldOnce

\* What is held once a browser's cookie is set.
LEMMA CookieChange ==
    ASSUME HeldOnce, NEW b \in Browser, NEW n, file' = file, tokens'[b] = n,
           \A c \in Browser \ {b} : tokens'[c] = tokens[c],
           n = 0 \/ n \notin Held
    PROVE  Held' = (Held \ {tokens[b]}) \cup ({n} \ {0}) /\ HeldOnce'
<1>1. Held' = (Held \ {tokens[b]}) \cup ({n} \ {0})
  <2>1. \A x : x \in Held' <=> x # 0 /\ (x = file \/ x = n
                                         \/ \E c \in Browser \ {b} : x = tokens[c])
    BY DEF Held
  <2>2. \A x : x \in Held <=> x # 0 /\ (x = file \/ x = tokens[b]
                                         \/ \E c \in Browser \ {b} : x = tokens[c])
    BY DEF Held
  <2> QED
    BY <2>1, <2>2 DEF HeldOnce
<1>2. HeldOnce'
  BY DEF Held, HeldOnce
<1> QED
  BY <1>1, <1>2

\* Who is alone stays so, and is done with a step later or goes on.
LEMMA StaysAlone ==
    ASSUME NEW k \in Call, Alone(k), \A j \in Call \ {k} : call'[j] = call[j]
    PROVE  Alone(k)' /\ (~Active(k)' => Quiet')
BY DEF Alone, Active, Quiet

\* Nor does it stop being the only one when a request moves on.
LEMMA GoesOn ==
    ASSUME NEW k \in Call, Alone(k)', Active(k)', Heard(k)', Phase(k)', Balance(k)'
    PROVE  Ledger'
BY DEF Ledger, Alone, Quiet

\* One request changes its label only.
LEMMA Moved ==
    ASSUME CallsOk, NEW k \in Call, NEW l, Goto(k, l)
    PROVE  /\ call'[k].pc = l
           /\ call'[k].at = call[k].at /\ call'[k].kind = call[k].kind
           /\ call'[k].pair = call[k].pair /\ call'[k].got = call[k].got
           /\ call'[k].retried = call[k].retried /\ call'[k].cut = call[k].cut
           /\ \A j \in Call \ {k} : call'[j] = call[j]
BY DEF CallsOk, CallType, Goto

\* A request that begins in a calm history is alone.
LEMMA Begun ==
    ASSUME CallsOk, NEW k \in Call, NEW c, NEW kind, NEW label, NEW pair,
           Begin(k, c, kind, label, pair), calm'
    PROVE  /\ calm /\ Quiet /\ Alone(k)'
           /\ (Active(k)' <=> label \notin {"idle", "done", "failed"})
           /\ (~Active(k)' => Quiet')
           /\ call'[k] = [pc |-> label, at |-> c, kind |-> kind, pair |-> pair,
                          got |-> 0, retried |-> FALSE, cut |-> FALSE]
<1>1. call' = [call EXCEPT ![k] = [NoCall EXCEPT !.pc = label, !.at = c,
                                                 !.kind = kind, !.pair = pair]]
      /\ calm /\ Quiet
  BY DEF Begin
<1>2. call'[k] = [pc |-> label, at |-> c, kind |-> kind, pair |-> pair,
                  got |-> 0, retried |-> FALSE, cut |-> FALSE]
      /\ \A j \in Call \ {k} : call'[j] = call[j]
  BY <1>1 DEF CallsOk, NoCall
<1>3. \A j \in Call \ {k} : ~Active(j)'
  BY <1>1, <1>2 DEF Quiet, Active
<1> QED
  BY <1>1, <1>2, <1>3 DEF Alone, Quiet, Active

\* A step of a request that is under way leaves the rest of the ledger alone.
LEMMA Underway ==
    ASSUME Types, Books, NEW k \in Call, Active(k)
    PROVE  /\ Alone(k) /\ Heard(k) /\ Phase(k) /\ Balance(k) /\ ~Quiet
           /\ call[k].at \in Browser => call[k].at \notin Proc
           /\ call[k].at \in Proc => tokens[call[k].at] = file
           /\ Slot(k) # 0 => Slot(k) \in Held
           /\ 0 \notin Held /\ Held \subseteq Issued /\ 0 \notin Issued
<1>1. Alone(k) /\ Heard(k) /\ Phase(k) /\ Balance(k) /\ ~Quiet
  BY DEF Books, Ledger, Quiet
<1>2. call[k].at \in Browser => call[k].at \notin Proc
  BY ClientAssumption
<1>3. call[k].at \in Proc => tokens[call[k].at] = file
  BY <1>1 DEF Heard, Books, Remembered
<1>4. Slot(k) # 0 => Slot(k) \in Held
  BY <1>1 DEF Slot, Held, Heard, Client
<1>5. 0 \notin Held /\ Held \subseteq Issued /\ 0 \notin Issued
  BY DEF Held, Types, Rest, Known, Issued, Client
<1> QED
  BY <1>1, <1>2, <1>3, <1>4, <1>5

\* The server's read of a token: in a calm history it is live, so that nothing is
\* revoked.
LEMMA BooksRefreshRead ==
    ASSUME Types, Books, NEW k \in Call, RefreshRead(k)
    PROVE  Books'
<1> USE DEF clients
<1>1. call[k].pc = "refresh" /\ Active(k) /\ UNCHANGED <<from, fresh, clients>>
  BY DEF RefreshRead, Active
<1>2. Live = Held /\ call[k].pair \in Held
  BY <1>1, Underway DEF Phase, Balance, Gone, Loose
<1>3. Goto(k, "rotate") /\ revoked' = revoked
  BY <1>2 DEF RefreshRead, Live
<1>4. Held' = Held /\ HeldOnce'
  BY <1>1, HeldSame DEF Books
<1>5. OneProcess' /\ Remembered'
  <2>1. \A p \in Proc : SigningIn(p) => SigningIn(p)'
    BY <1>1, <1>3, Moved DEF SigningIn, Types
  <2> QED
    BY <1>1, <2>1 DEF Books, OneProcess, Remembered
<1>6. Live' = Held'
  BY <1>1, <1>2, <1>3, <1>4 DEF Live, Issued
<1>7. Ledger'
  <2>1. Alone(k)' /\ Active(k)'
    BY <1>1, <1>3, Underway, StaysAlone, Moved DEF Types, Active
  <2>2. Heard(k)' /\ Phase(k)' /\ Balance(k)'
    BY <1>1, <1>3, <1>4, <1>6, Underway, Moved
       DEF Types, Heard, Phase, Balance, Slot, Gone, Loose
  <2> QED
    BY <2>1, <2>2, GoesOn
<1> QED
  BY <1>4, <1>5, <1>7 DEF Books

\* The exchange: the old token goes, and the new one is the request's alone.
LEMMA BooksRefreshCommit ==
    ASSUME Types, Books, NEW k \in Call, RefreshCommit(k)
    PROVE  Books'
<1> USE DEF clients
<1> DEFINE n == Len(from) + 1
<1>1. /\ call[k].pc = "rotate" /\ Active(k) /\ UNCHANGED clients
      /\ revoked' = revoked \cup {call[k].pair} /\ fresh' = fresh \cup {n}
      /\ from' = Append(from, call[k].pair)
      /\ call' = [call EXCEPT ![k].pc = "granted", ![k].got = n]
  BY DEF RefreshCommit, Issue, Active
<1>2. /\ call'[k].pc = "granted" /\ call'[k].got = n
      /\ call'[k].at = call[k].at /\ call'[k].kind = call[k].kind
      /\ call'[k].cut = call[k].cut
      /\ \A j \in Call \ {k} : call'[j] = call[j]
  BY <1>1 DEF Types, CallsOk, CallType
<1>3. Live = Held /\ call[k].pair = Slot(k) /\ Slot(k) \in Held
  BY <1>1, Underway DEF Phase, Balance, Gone, Loose
<1>4. Held' = Held /\ HeldOnce'
  BY <1>1, HeldSame DEF Books
<1>5. OneProcess' /\ Remembered'
  <2>1. \A p \in Proc : SigningIn(p) => SigningIn(p)'
    BY <1>1, <1>2 DEF SigningIn
  <2> QED
    BY <1>1, <2>1 DEF Books, OneProcess, Remembered
<1>6. Issued' = Issued \cup {n} /\ n \notin Issued
  <2>1. call[k].pair \in Nat
    BY DEF Types, Rest, CallsOk, CallType, Known, Issued
  <2> QED
    BY <1>1, <2>1, IssueExtends DEF Types, Rest
<1>7. Live' = (Held \ {Slot(k)}) \cup {n} /\ n \notin Held
  <2>1. n \notin revoked /\ n # call[k].pair /\ n \notin Held
    BY <1>3, <1>6, <1>1, Underway DEF Types, Rest
  <2> QED
    BY <1>1, <1>3, <1>6, <2>1 DEF Live
<1>8. Slot(k)' = Slot(k)
  BY <1>1, <1>2 DEF Slot
<1>9. Ledger'
  <2>1. Alone(k)' /\ Active(k)'
    BY <1>1, <1>2, Underway, StaysAlone DEF Active
  <2>2. Heard(k)'
    BY <1>1, <1>2, Underway DEF Heard
  <2>3. Phase(k)'
    BY <1>1, <1>2, <1>3, <1>8, Underway DEF Phase
  <2>4. Balance(k)'
    BY <1>2, <1>4, <1>7, <1>8 DEF Balance, Gone, Loose
  <2> QED
    BY <2>1, <2>2, <2>3, <2>4, GoesOn
<1> QED
  BY <1>4, <1>5, <1>9 DEF Books

\* The end of a session at the server.
LEMMA BooksSignOut ==
    ASSUME Types, Books, NEW k \in Call, SignOut(k)
    PROVE  Books'
<1> USE DEF clients
<1>1. /\ call[k].pc = "signout" /\ Active(k) /\ UNCHANGED <<from, fresh, clients>>
      /\ revoked' = revoked \cup {call[k].pair} /\ Goto(k, "goodbye")
  BY DEF SignOut, Active
<1>2. /\ Live = Held \cup ({call[k].pair} \ {Slot(k)})
      /\ call[k].pair # Slot(k) => call[k].pair \notin Held
      /\ Slot(k) = IF call[k].at \in Proc THEN 0 ELSE call[k].pair
      /\ call[k].pair # 0
  BY <1>1, Underway DEF Balance, Gone, Loose, Phase
<1>3. Held' = Held /\ HeldOnce'
  BY <1>1, HeldSame DEF Books
<1>4. OneProcess' /\ Remembered'
  <2>1. \A p \in Proc : SigningIn(p) => SigningIn(p)'
    BY <1>1, Moved DEF SigningIn, Types
  <2> QED
    BY <1>1, <2>1 DEF Books, OneProcess, Remembered
<1>5. Slot(k)' = Slot(k)
  BY <1>1, Moved DEF Slot, Types
<1>6. Live' = Held \ {Slot(k)}
  <2>1. Live' = Live \ {call[k].pair}
    BY <1>1 DEF Live, Issued
  <2> QED
    BY <1>2, <2>1, Underway, <1>1
<1>7. Ledger'
  <2>1. Alone(k)' /\ Active(k)'
    BY <1>1, Underway, StaysAlone, Moved DEF Types, Active
  <2>2. Heard(k)'
    BY <1>1, Underway, Moved DEF Heard, Types
  <2>3. Phase(k)'
    BY <1>1, <1>5, Underway, Moved DEF Phase, Types
  <2>4. Balance(k)'
    BY <1>1, <1>3, <1>5, <1>6, Moved DEF Balance, Gone, Loose, Types
  <2> QED
    BY <2>1, <2>2, <2>3, <2>4, GoesOn
<1> QED
  BY <1>3, <1>4, <1>7 DEF Books

\* A request of a process ends: the screen may change.
LEMMA Ended ==
    ASSUME Types, Books, NEW k \in Call, Active(k), NEW label \in {"done", "failed"},
           End(k, label), UNCHANGED <<from, revoked, file, tokens>>,
           Live = Held,
           call[k].at \in Proc /\ label = "failed" => file = 0
    PROVE  Books'
<1>1. Goto(k, label)
  BY DEF End
<1>2. Held' = Held /\ HeldOnce'
  BY HeldSame DEF Books
<1>3. /\ Alone(k) /\ Heard(k) /\ Goto(k, label)
      /\ \A j \in Call : call[j].pc = "send" => j = k
  BY Underway, <1>1 DEF Alone, Active
<1>4. Quiet'
  BY <1>1, <1>3, StaysAlone, Moved DEF Types, Active
<1>5. \A p \in Proc : ui'[p] # ui[p] =>
          /\ p = call[k].at /\ call[k].kind # "call" /\ ui[p] # "off"
          /\ ui'[p] # "off"
          /\ ui'[p] = "login" => file = 0
  BY <1>3, ClientAssumption DEF End, Types, Rest, Heard
<1>6. OneProcess'
  BY <1>5 DEF OneProcess, Books
<1>7. Remembered'
  <2> SUFFICES ASSUME NEW p \in Proc, ui'[p] # "off"
               PROVE  tokens'[p] = file' /\ (ui'[p] = "login" => file' = 0)
    BY DEF Remembered
  <2>1. tokens[p] = file /\ ui[p] # "off"
    BY <1>5 DEF Books, Remembered
  <2>2. CASE ui'[p] # ui[p]
    BY <2>1, <2>2, <1>5
  <2>3. CASE ui'[p] = ui[p] /\ ui[p] = "login" /\ file # 0
    <3>1. SigningIn(p)
      BY <2>1, <2>3 DEF Books, Remembered
    <3>2. call[k].kind = "login" /\ call[k].at = p
      BY <1>3, <3>1 DEF SigningIn
    <3>3. ui'[p] = IF label = "done" THEN "app" ELSE "login"
      BY <3>2, ClientAssumption DEF End, Types, Rest
    <3> QED
      BY <2>3, <3>2, <3>3
  <2> QED
    BY <2>1, <2>2, <2>3
<1>8. Live' = Held'
  BY <1>2 DEF Live, Issued
<1>9. Ledger'
  BY <1>4, <1>8 DEF Ledger, Quiet
<1> QED
  BY <1>2, <1>6, <1>7, <1>9 DEF Books

\* The pair of a login is live and not held yet.
LEMMA BooksSignIn ==
    ASSUME Types, Books, NEW k \in Call, SignIn(k)
    PROVE  Books'
<1> DEFINE n == Len(from) + 1
<1>1. /\ call[k].pc = "signin" /\ Active(k) /\ UNCHANGED <<revoked, file, tokens>>
  BY DEF SignIn, Active
<1>2. /\ Live = Held /\ Slot(k) = 0 /\ call[k].kind = "login"
      /\ call[k].at \in Proc => file = 0
  BY <1>1, Underway DEF Balance, Gone, Loose, Phase, Slot
<1>3. CASE End(k, "failed") /\ UNCHANGED <<from, fresh>>
  BY <1>1, <1>2, <1>3, Ended
<1>4. CASE Issue(k, 0, "welcome") /\ UNCHANGED ui
  <2>1. /\ fresh' = fresh \cup {n} /\ from' = Append(from, 0)
        /\ call' = [call EXCEPT ![k].pc = "welcome", ![k].got = n]
    BY <1>4 DEF Issue
  <2>2. /\ call'[k].pc = "welcome" /\ call'[k].got = n
        /\ call'[k].at = call[k].at /\ call'[k].kind = call[k].kind
        /\ call'[k].cut = call[k].cut
        /\ \A j \in Call \ {k} : call'[j] = call[j]
    BY <2>1 DEF Types, CallsOk, CallType
  <2>3. Held' = Held /\ HeldOnce'
    BY <1>1, HeldSame DEF Books
  <2>4. OneProcess' /\ Remembered'
    <3>1. \A p \in Proc : SigningIn(p) => SigningIn(p)'
      BY <1>1, <2>2 DEF SigningIn
    <3> QED
      BY <1>1, <1>4, <3>1 DEF Books, OneProcess, Remembered
  <2>5. Issued' = Issued \cup {n} /\ n \notin Issued
    BY <2>1, IssueExtends DEF Types, Rest
  <2>6. Live' = Held \cup {n} /\ n \notin Held
    BY <1>1, <1>2, <2>5, Underway DEF Types, Rest, Live
  <2>7. Slot(k)' = 0
    BY <1>1, <1>2, <2>2 DEF Slot
  <2>8. Alone(k)' /\ Active(k)'
    BY <1>1, <2>2, Underway, StaysAlone DEF Active
  <2>9. Heard(k)' /\ Phase(k)'
    BY <1>1, <1>2, <1>4, <2>1, <2>2, <2>7, Underway DEF Heard, Phase
  <2>10. Balance(k)'
    BY <2>2, <2>3, <2>6 DEF Balance, Gone, Loose
  <2> QED
    BY <2>3, <2>4, <2>8, <2>9, <2>10, GoesOn DEF Books
<1> QED
  BY <1>3, <1>4 DEF SignIn

\* The answer to a request itself changes no token.
LEMMA BooksAnswer ==
    ASSUME Types, Books, NEW k \in Call, Answer(k)
    PROVE  Books'
<1> DEFINE p == call[k].at
<1>1. call[k].pc = "send" /\ Active(k) /\ UNCHANGED <<from, revoked, fresh, file, tokens>>
  BY DEF Answer, Active, server
<1>2. /\ Live = Held /\ p \in Proc /\ tokens[p] = file /\ Slot(k) = file
      /\ call[k].kind # "logout"
      /\ call[k].kind = "boot" => file # 0
      /\ call[k].retried \/ call[k].kind = "login" => call[k].pair \in fresh
  BY <1>1, Underway DEF Balance, Gone, Loose, Phase, Slot
<1>3. CASE End(k, "done")
  BY <1>1, <1>2, <1>3, Ended
<1>4. CASE call[k].pair \notin fresh /\ (call[k].retried \/ tokens[p] = 0) /\ End(k, "failed")
  BY <1>1, <1>2, <1>4, Ended
<1>5. CASE /\ call[k].pair \notin fresh /\ ~call[k].retried /\ tokens[p] # 0
           /\ call' = [call EXCEPT ![k].pc = "refresh", ![k].pair = tokens[p]]
           /\ UNCHANGED ui
  <2>1. /\ call'[k].pc = "refresh" /\ call'[k].pair = file
        /\ call'[k].at = p /\ call'[k].kind = call[k].kind
        /\ call'[k].cut = call[k].cut
        /\ \A j \in Call \ {k} : call'[j] = call[j]
    BY <1>2, <1>5 DEF Types, CallsOk, CallType
  <2>2. Held' = Held /\ HeldOnce'
    BY <1>1, HeldSame DEF Books
  <2>3. OneProcess' /\ Remembered'
    <3>1. \A q \in Proc : SigningIn(q) => SigningIn(q)'
      BY <1>2, <1>5, <2>1 DEF SigningIn
    <3> QED
      BY <1>1, <1>5, <3>1 DEF Books, OneProcess, Remembered
  <2>4. Live' = Held' /\ Slot(k)' = file
    BY <1>1, <1>2, <2>1, <2>2 DEF Live, Issued, Slot
  <2>5. Alone(k)' /\ Active(k)'
    BY <1>1, <2>1, Underway, StaysAlone DEF Active
  <2>6. Heard(k)' /\ Phase(k)' /\ Balance(k)'
    BY <1>1, <1>2, <1>5, <2>1, <2>4, Underway DEF Heard, Phase, Balance, Gone, Loose
  <2> QED
    BY <2>2, <2>3, <2>5, <2>6, GoesOn DEF Books
<1> QED
  BY <1>3, <1>4, <1>5 DEF Answer

\* The request of a process that is answered with a pair, which goes to memory
\* and file at once.
LEMMA Paired ==
    ASSUME Types, Books, NEW k \in Call,
           call[k].pc \in {"granted", "welcome"}, call[k].at \in Proc, ~call[k].cut,
           Hold(call[k].at, call[k].got), file' = call[k].got, UNCHANGED <<server, ui>>,
           NEW b \in BOOLEAN, b \/ call[k].kind = "login",
           call' = [call EXCEPT ![k] = [call[k] EXCEPT !.pc = "send", !.retried = b,
                                                       !.pair = call[k].got]]
    PROVE  Books'
<1> DEFINE p == call[k].at
           n == call[k].got
<1> USE DEF server
<1>1. Active(k) /\ p \in Client
  BY DEF Active, Client
<1>2. /\ n \in fresh /\ n # 0 /\ call[k].kind # "logout"
      /\ Slot(k) = file /\ (file = 0 => call[k].pc = "welcome")
      /\ file = 0 \/ file \in Held
      /\ Live = (Held \ {file}) \cup {n} /\ n \notin Held
  <2>1. Live = (Held \ {file}) \cup {n} /\ n \notin Held
    BY <1>1, Underway DEF Balance, Gone, Loose, Slot, Phase
  <2> QED
    BY <1>1, <2>1, Underway DEF Phase, Slot, Types, Rest
<1>3. /\ call'[k].pc = "send" /\ call'[k].pair = n /\ call'[k].retried = b
      /\ call'[k].at = p /\ call'[k].kind = call[k].kind /\ ~call'[k].cut
      /\ \A j \in Call \ {k} : call'[j] = call[j]
  BY DEF Types, CallsOk, CallType
<1>4. /\ tokens'[p] = n
      /\ \A c \in Client \ {p} : tokens'[c] = tokens[c]
      /\ \A c \in Browser : tokens'[c] = tokens[c]
  BY <1>1, ClientAssumption DEF Hold, Types, Rest, Client
<1>5. Held' = (Held \ {file}) \cup {n} /\ HeldOnce'
  BY <1>2, <1>4, FileChange DEF Books
<1>6. OneProcess' /\ Remembered'
  <2>1. OneProcess' /\ ui[p] # "off"
    BY <1>1, Underway DEF Books, OneProcess, Heard
  <2>2. ui[p] = "login" => SigningIn(p)'
    <3>1. CASE call[k].kind = "login"
      BY <1>3, <3>1 DEF SigningIn
    <3>2. CASE call[k].kind # "login" /\ ui[p] = "login"
      <4>1. call[k].pc = "granted" /\ file # 0
        BY <1>1, <1>2, <3>2, Underway DEF Phase
      <4>2. SigningIn(p)
        BY <2>1, <3>2, <4>1 DEF Books, Remembered
      <4>3. PICK j \in Call : call[j].pc = "send"
        BY <4>2 DEF SigningIn
      <4> QED
        BY <1>1, <4>1, <4>3, Underway DEF Alone, Active
    <3> QED
      BY <3>1, <3>2
  <2>3. \A q \in Proc : ui[q] # "off" => q = p
    BY <2>1 DEF Books, OneProcess
  <2> QED
    BY <1>4, <2>1, <2>2, <2>3 DEF Remembered
<1>7. Live' = Held'
  BY <1>2, <1>5 DEF Live, Issued
<1>8. Alone(k)' /\ Active(k)'
  BY <1>1, <1>3, Underway, StaysAlone DEF Active
<1>9. Heard(k)' /\ Phase(k)' /\ Balance(k)'
  BY <1>1, <1>2, <1>3, <1>7, Underway DEF Heard, Phase, Balance, Gone, Loose
<1> QED
  BY <1>5, <1>6, <1>8, <1>9, GoesOn DEF Books

\* The terminal takes the new pair in place of the old.
LEMMA BooksGranted ==
    ASSUME Types, Books, NEW k \in Call, Granted(k)
    PROVE  Books'
<1>1. call[k].pc = "granted" /\ Active(k) /\ call[k].at \in Proc /\ ~call[k].cut
  BY DEF Granted, Active
<1>2. tokens[call[k].at] # 0
  BY <1>1, Underway DEF Phase, Slot
<1>3. /\ Hold(call[k].at, call[k].got) /\ file' = call[k].got /\ UNCHANGED <<server, ui>>
      /\ call' = [call EXCEPT ![k] = [call[k] EXCEPT !.pc = "send", !.retried = TRUE,
                                                     !.pair = call[k].got]]
  BY <1>2 DEF Granted
<1> QED
  BY <1>1, <1>3, Paired

\* The terminal takes the pair of a login.
LEMMA BooksWelcome ==
    ASSUME Types, Books, NEW k \in Call, Welcome(k)
    PROVE  Books'
<1>1. call[k].pc = "welcome" /\ Active(k) /\ call[k].at \in Proc /\ ~call[k].cut
  BY DEF Welcome, Active
<1>2. call[k].kind = "login"
  BY <1>1, Underway DEF Phase
<1>3. /\ Hold(call[k].at, call[k].got) /\ file' = call[k].got /\ UNCHANGED <<server, ui>>
      /\ call' = [call EXCEPT ![k] = [call[k] EXCEPT !.pc = "send", !.pair = call[k].got]]
  BY DEF Welcome
<1>4. call[k] = [call[k] EXCEPT !.retried = call[k].retried] /\ call[k].retried \in BOOLEAN
  BY DEF Types, CallsOk, CallType
<1>5. call' = [call EXCEPT ![k] = [call[k] EXCEPT !.pc = "send",
                                     !.retried = call[k].retried, !.pair = call[k].got]]
  BY <1>3, <1>4 DEF Types, CallsOk, CallType
<1> QED
  BY <1>1, <1>2, <1>3, <1>4, <1>5, Paired

\* The terminal drops the pair that the server has revoked.
LEMMA BooksGoodbye ==
    ASSUME Types, Books, NEW k \in Call, Goodbye(k)
    PROVE  Books'
<1>1. call[k].pc = "goodbye" /\ Active(k) /\ call[k].at \in Proc
  BY DEF Goodbye, Active
<1>2. Live = Held /\ file = 0
  BY <1>1, Underway DEF Balance, Gone, Loose, Phase, Slot
<1> QED
  BY <1>1, <1>2, Ended DEF Goodbye, server

\* The response sets or clears a browser's cookie.
LEMMA BooksWebResponse ==
    ASSUME Types, Books, NEW k \in Call, WebResponse(k)
    PROVE  Books'
<1> DEFINE b == call[k].at
           n == IF call[k].pc \in {"granted", "welcome"} THEN call[k].got ELSE 0
<1> USE DEF server
<1>1. /\ call[k].pc \in {"granted", "denied", "welcome", "goodbye"} /\ Active(k)
      /\ b \in Browser /\ b \notin Proc /\ Hold(b, n) /\ Goto(k, "done")
      /\ UNCHANGED <<server, file, ui>>
  BY ClientAssumption DEF WebResponse, Active
<1>2. /\ Live = (Held \ {tokens[b]}) \cup ({n} \ {0})
      /\ n = 0 \/ n \notin Held
  <2>1. Slot(k) = tokens[b] /\ call[k].pc # "denied"
    BY <1>1, Underway DEF Slot, Phase
  <2>2. call[k].pc \in {"granted", "welcome"} => n \in fresh /\ n # 0
    BY <1>1, Underway DEF Phase, Types, Rest
  <2>3. call[k].pc = "welcome" => tokens[b] \notin Held
    BY <1>1, <2>1, Underway DEF Phase
  <2> QED
    BY <1>1, <2>1, <2>2, <2>3, Underway DEF Balance, Gone, Loose
<1>3. /\ tokens'[b] = n
      /\ \A c \in Client \ {b} : tokens'[c] = tokens[c]
  BY <1>1 DEF Hold, Types, Rest, Client
<1>4. Held' = (Held \ {tokens[b]}) \cup ({n} \ {0}) /\ HeldOnce'
  <2>1. \A c \in Browser \ {b} : tokens'[c] = tokens[c]
    BY <1>3 DEF Client
  <2> QED
    BY <1>1, <1>2, <1>3, <2>1, CookieChange DEF Books
<1>5. OneProcess' /\ Remembered'
  <2>1. \A p \in Proc : SigningIn(p) => SigningIn(p)'
    BY <1>1, Moved DEF SigningIn, Types
  <2>2. \A p \in Proc : tokens'[p] = tokens[p]
    BY <1>1, <1>3 DEF Client
  <2> QED
    BY <1>1, <2>1, <2>2 DEF Books, OneProcess, Remembered
<1>6. Live' = Held'
  BY <1>1, <1>2, <1>4 DEF Live, Issued
<1>7. Quiet'
  BY <1>1, Underway, StaysAlone, Moved DEF Types, Active
<1> QED
  BY <1>4, <1>5, <1>6, <1>7 DEF Books, Ledger, Quiet

\* No refresh is refused in a calm history.
LEMMA NeverDenied ==
    ASSUME Types, Books, NEW k \in Call
    PROVE  ~Denied(k) /\ ~Unheard(k)
BY Underway DEF Denied, Unheard, Phase, Heard, Active

\* A terminal process starts, with what the file holds.
LEMMA BooksStart ==
    ASSUME Types, Books, NEW p \in Proc, Start(p), calm'
    PROVE  Books'
<1> USE DEF server
<1>1. /\ \A q \in Proc : ui[q] = "off"
      /\ Quiet /\ Live = Held /\ p \in Client /\ p \notin Browser
      /\ Hold(p, file) /\ UNCHANGED <<server, file>>
  BY ClientAssumption DEF Start, Books, Ledger, Client
<1>2. tokens'[p] = file /\ \A b \in Browser : tokens'[b] = tokens[b]
  BY <1>1 DEF Hold, Types, Rest, Client
<1>3. Held' = Held /\ HeldOnce' /\ Live' = Live
  BY <1>1, <1>2, HeldSame DEF Books, Live, Issued
<1>4. \A q \in Proc \ {p} : ui'[q] = "off"
  BY <1>1 DEF Start, Types, Rest
<1>5. OneProcess'
  BY <1>4 DEF OneProcess
<1>6. ui'[p] = "login" => file = 0
  BY DEF Start, Types, Rest
<1>7. Remembered'
  BY <1>1, <1>2, <1>4, <1>6 DEF Remembered
<1>8. Ledger'
  <2>1. CASE file = 0
    BY <1>1, <1>3, <2>1 DEF Start, Ledger, Quiet, Active
  <2>2. CASE file # 0
    <3>1. PICK k \in Call : call' = [call EXCEPT ![k] =
              [NoCall EXCEPT !.pc = "send", !.at = p, !.kind = "boot", !.pair = file]]
      BY <2>2 DEF Start
    <3>2. /\ call'[k].pc = "send" /\ call'[k].at = p /\ call'[k].kind = "boot"
          /\ ~call'[k].cut /\ ~call'[k].retried
          /\ \A j \in Call \ {k} : call'[j] = call[j]
      BY <3>1 DEF Types, CallsOk, NoCall
    <3>3. Alone(k)' /\ Active(k)'
      BY <1>1, <3>2 DEF Alone, Active, Quiet
    <3>4. ui'[p] # "off"
      BY <2>2 DEF Start, Types, Rest
    <3>5. Heard(k)' /\ Phase(k)' /\ Balance(k)'
      BY <1>1, <1>3, <2>2, <3>2, <3>4 DEF Heard, Phase, Balance, Gone, Loose, Client
    <3> QED
      BY <3>3, <3>5, GoesOn
  <2> QED
    BY <2>1, <2>2
<1> QED
  BY <1>3, <1>5, <1>7, <1>8 DEF Books

\* A terminal process ends.
LEMMA BooksStop ==
    ASSUME Types, Books, NEW p \in Proc, Stop(p), calm'
    PROVE  Books'
<1> USE DEF server
<1>1. /\ p \in Client /\ p \notin Browser
      /\ Hold(p, 0) /\ UNCHANGED <<server, file>>
      /\ \A k \in Call : ~Of(k, p)
  BY ClientAssumption DEF Stop, Client
<1>2. \A k \in Call : call'[k] = call[k]
  BY <1>1 DEF Stop
<1>3. /\ \A b \in Browser : tokens'[b] = tokens[b]
      /\ \A q \in Proc \ {p} : tokens'[q] = tokens[q] /\ ui'[q] = ui[q]
      /\ ui'[p] = "off"
  BY <1>1 DEF Hold, Stop, Types, Rest, Client
<1>4. Held' = Held /\ HeldOnce' /\ Live' = Live
  BY <1>1, <1>3, HeldSame DEF Books, Live, Issued
<1>5. OneProcess' /\ Remembered'
  <2>1. \A q \in Proc : SigningIn(q) => SigningIn(q)'
    BY <1>2 DEF SigningIn
  <2> QED
    BY <1>1, <1>3, <2>1 DEF Books, OneProcess, Remembered
<1>6. Quiet' => Live' = Held'
  BY <1>2, <1>4 DEF Books, Ledger, Quiet, Active
<1>7. ASSUME NEW k \in Call, Active(k)'
      PROVE  Alone(k)' /\ Heard(k)' /\ Phase(k)' /\ Balance(k)'
  <2>1. Active(k)
    BY <1>2, <1>7 DEF Active
  <2>2. Alone(k)'
    BY <1>2, <2>1, Underway DEF Alone, Active
  <2>3. call[k].at # p /\ call[k].at \in Client
    BY <1>1, <2>1, Underway DEF Of, Heard
  <2>4. Heard(k)'
    BY <1>2, <1>3, <2>1, <2>3, Underway DEF Heard
  <2>5. Slot(k)' = Slot(k)
    BY <1>1, <1>2, <1>3, <2>3 DEF Slot, Client
  <2>6. Phase(k)' /\ Balance(k)'
    BY <1>1, <1>2, <1>4, <2>1, <2>5, Underway DEF Phase, Balance, Gone, Loose
  <2> QED
    BY <2>2, <2>4, <2>6
<1> QED
  BY <1>4, <1>5, <1>6, <1>7 DEF Books, Ledger

\* A request that begins with nothing held or dropped, ready to be sent on.
LEMMA BooksBegin ==
    ASSUME Types, Books, NEW k \in Call, NEW c \in Client, NEW kind, NEW label, NEW pair,
           Begin(k, c, kind, label, pair), calm', UNCHANGED <<server, clients>>,
           c \in Proc => ui[c] # "off",
           label \in {"send", "refresh", "signin", "signout", "done"},
           label = "send" => c \in Proc /\ kind = "call",
           label = "refresh" => c \in Browser /\ pair = tokens[c] /\ pair # 0 /\ kind = "call",
           label = "signin" => kind = "login" /\ (IF c \in Proc THEN file ELSE tokens[c]) = 0,
           label = "signout" =>
             c \in Browser /\ pair = tokens[c] /\ pair # 0 /\ kind = "logout"
    PROVE  Books'
<1> USE DEF server, clients
<1>1. /\ Quiet /\ Alone(k)' /\ (~Active(k)' => Quiet')
      /\ call'[k] = [pc |-> label, at |-> c, kind |-> kind, pair |-> pair,
                     got |-> 0, retried |-> FALSE, cut |-> FALSE]
  BY Begun DEF Types
<1>2. Held' = Held /\ HeldOnce' /\ Live' = Live /\ Live = Held
  BY <1>1, HeldSame DEF Books, Live, Issued, Ledger
<1>3. OneProcess' /\ Remembered'
  <2>1. \A p \in Proc : ~SigningIn(p)
    BY <1>1 DEF SigningIn, Quiet, Active
  <2> QED
    BY <2>1 DEF Books, OneProcess, Remembered
<1>4. Slot(k)' = IF c \in Proc THEN file ELSE tokens[c]
  BY <1>1 DEF Slot
<1>5. c \in Browser => c \notin Proc
  BY ClientAssumption
<1>6. Heard(k)' /\ Phase(k)' /\ Balance(k)'
  <2>1. Heard(k)'
    BY <1>1 DEF Heard
  <2>2. Phase(k)'
    BY <1>1, <1>4, <1>5 DEF Phase
  <2>3. Balance(k)'
    BY <1>1, <1>2, <1>4, <1>5 DEF Balance, Gone, Loose
  <2> QED
    BY <2>1, <2>2, <2>3
<1>7. Ledger'
  BY <1>1, <1>2, <1>6, GoesOn DEF Ledger, Quiet
<1> QED
  BY <1>2, <1>3, <1>7 DEF Books

\* A request of a terminal process.
LEMMA BooksAsked ==
    ASSUME Types, Books, NEW p \in Proc, NEW k \in Call, Request(p, k) \/ Login(p, k), calm'
    PROVE  Books'
<1>1. p \in Client /\ p \notin Browser /\ ui[p] # "off" /\ UNCHANGED <<server, clients>>
  BY ClientAssumption DEF Client, Request, Login
<1>2. CASE Request(p, k)
  <2>1. Begin(k, p, "call", "send", tokens[p])
    BY <1>2 DEF Request
  <2> QED
    BY <1>1, <2>1, BooksBegin
<1>3. CASE Login(p, k)
  <2>1. Begin(k, p, "login", "signin", 0) /\ ui[p] = "login" /\ Quiet
    BY <1>3 DEF Login, Begin
  <2>2. ~SigningIn(p)
    BY <2>1 DEF SigningIn, Quiet, Active
  <2>3. file = 0
    BY <2>1, <2>2 DEF Books, Remembered
  <2> QED
    BY <1>1, <2>1, <2>3, BooksBegin
<1> QED
  BY <1>2, <1>3

\* A request or a login of a browser.
LEMMA BooksWeb ==
    ASSUME Types, Books, NEW b \in Browser, NEW k \in Call,
           WebRequest(b, k) \/ WebLogin(b, k) \/ WebLogout(b, k), calm'
    PROVE  Books'
<1>1. b \in Client /\ b \notin Proc /\ UNCHANGED <<server, clients>>
  BY ClientAssumption DEF Client, WebRequest, WebLogin, WebLogout
<1>2. CASE WebRequest(b, k)
  <2>1. /\ tokens[b] # 0
        /\ \/ Begin(k, b, "call", "done", tokens[b])
           \/ Begin(k, b, "call", "refresh", tokens[b])
    BY <1>2 DEF WebRequest
  <2> QED
    BY <1>1, <2>1, BooksBegin
<1>3. CASE WebLogin(b, k)
  <2>1. tokens[b] = 0 /\ Begin(k, b, "login", "signin", 0)
    BY <1>3 DEF WebLogin
  <2> QED
    BY <1>1, <2>1, BooksBegin
<1>4. CASE WebLogout(b, k)
  <2>1. tokens[b] # 0 /\ Begin(k, b, "logout", "signout", tokens[b])
    BY <1>4 DEF WebLogout
  <2> QED
    BY <1>1, <2>1, BooksBegin
<1> QED
  BY <1>2, <1>3, <1>4

\* A logout, of a process or a browser.
LEMMA BooksLogout ==
    ASSUME Types, Books, NEW p \in Proc, NEW k \in Call, Logout(p, k), calm'
    PROVE  Books'
<1> USE DEF server
<1>1. /\ p \in Client /\ p \notin Browser /\ ui[p] = "app" /\ tokens[p] = file
      /\ Hold(p, 0) /\ file' = 0 /\ UNCHANGED server
      /\ \A q \in Proc : ui[q] # "off" => q = p
  BY ClientAssumption DEF Client, Logout, Books, Remembered, OneProcess
<1>2. /\ \A b \in Browser : tokens'[b] = tokens[b]
      /\ tokens'[p] = 0 /\ \A q \in Proc \ {p} : tokens'[q] = tokens[q]
  BY <1>1 DEF Hold, Types, Rest, Client
<1>3. Held' = Held \ {file} /\ HeldOnce'
  BY <1>1, <1>2, FileChange DEF Books
<1>4. CASE tokens[p] = 0
  <2>1. UNCHANGED <<call, calm>> /\ ui' = [ui EXCEPT ![p] = "login"]
    BY <1>4 DEF Logout
  <2>2. OneProcess' /\ Remembered'
    BY <1>1, <1>2, <2>1 DEF OneProcess, Remembered, Types, Rest
  <2>3. Held' = Held /\ Live' = Live
    BY <1>1, <1>3, <1>4 DEF Held, Live, Issued
  <2>4. ASSUME NEW j \in Call, Active(j)'
        PROVE  Alone(j)' /\ Heard(j)' /\ Phase(j)' /\ Balance(j)'
    <3>1. Active(j)
      BY <2>1, <2>4 DEF Active
    <3>2. Alone(j)'
      BY <2>1, <3>1, Underway DEF Alone, Active
    <3>3. Heard(j)'
      BY <2>1, <3>1, Underway DEF Heard, Types, Rest
    <3>4. Slot(j)' = Slot(j)
      BY <1>1, <1>2, <1>4, <2>1, <3>1, Underway DEF Slot, Heard, Client
    <3>5. Phase(j)' /\ Balance(j)'
      BY <1>1, <1>4, <2>1, <2>3, <3>1, <3>4, Underway DEF Phase, Balance, Gone, Loose
    <3> QED
      BY <3>2, <3>3, <3>5
  <2>5. Quiet' => Live' = Held'
    BY <2>1, <2>3 DEF Books, Ledger, Quiet, Active
  <2> QED
    BY <1>3, <2>2, <2>4, <2>5 DEF Books, Ledger
<1>5. CASE tokens[p] # 0
  <2>1. Begin(k, p, "logout", "signout", tokens[p]) /\ UNCHANGED ui
    BY <1>5 DEF Logout
  <2>2. /\ Quiet /\ Alone(k)' /\ Active(k)'
        /\ call'[k] = [pc |-> "signout", at |-> p, kind |-> "logout", pair |-> file,
                       got |-> 0, retried |-> FALSE, cut |-> FALSE]
    BY <1>1, <2>1, Begun DEF Types
  <2>3. OneProcess' /\ Remembered'
    BY <1>1, <1>2, <2>1 DEF OneProcess, Remembered
  <2>4. Live = Held /\ Live' = Live /\ file \in Held
    BY <1>1, <1>5, <2>2 DEF Books, Ledger, Live, Issued, Held
  <2>5. Slot(k)' = 0
    BY <1>1, <2>2 DEF Slot
  <2>6. Heard(k)' /\ Phase(k)'
    BY <1>1, <1>5, <2>1, <2>2, <2>5 DEF Heard, Phase
  <2>7. Balance(k)'
    BY <1>1, <1>3, <1>5, <2>2, <2>4, <2>5 DEF Balance, Gone, Loose
  <2> QED
    BY <1>3, <2>2, <2>3, <2>6, <2>7, GoesOn DEF Books
<1> QED
  BY <1>4, <1>5

\* Time passes, or nothing happens.
LEMMA BooksIdle ==
    ASSUME Types, Books, Expire \/ UNCHANGED vars, calm'
    PROVE  Books'
<1> USE DEF server, clients
<1>1. UNCHANGED <<from, revoked, file, tokens, ui, call>>
  BY DEF Expire, vars
<1>2. Held' = Held /\ HeldOnce' /\ Live' = Live
  BY <1>1, HeldSame DEF Books, Live, Issued
<1>3. OneProcess' /\ Remembered'
  BY <1>1 DEF OneProcess, Remembered, SigningIn, Books
<1>4. Quiet' = Quiet /\ (Quiet => Live' = Held')
  BY <1>1, <1>2 DEF Books, Ledger, Quiet, Active
<1>5. CASE Expire
  <2>1. Quiet'
    BY <1>4, <1>5 DEF Expire
  <2> QED
    BY <1>2, <1>3, <1>4, <2>1 DEF Books, Ledger, Quiet
<1>6. CASE UNCHANGED vars
  <2>1. ASSUME NEW k \in Call, Active(k)'
        PROVE  Alone(k)' /\ Heard(k)' /\ Phase(k)' /\ Balance(k)'
    <3>1. Active(k)
      BY <1>1, <2>1 DEF Active
    <3>2. Slot(k)' = Slot(k) /\ fresh' = fresh
      BY <1>1, <1>6 DEF Slot, vars
    <3> QED
      BY <1>1, <1>2, <3>1, <3>2, Underway
         DEF Alone, Active, Heard, Phase, Balance, Gone, Loose
  <2> QED
    BY <1>2, <1>3, <1>4, <2>1 DEF Books, Ledger
<1> QED
  BY <1>5, <1>6

\* What is calm was calm before; a connection that breaks, and a server that
\* is not available, end the calm.
LEMMA StepBooks == IInv /\ [Next]_vars => CalmInv'
<1> SUFFICES ASSUME IInv, [Next]_vars, calm' PROVE Books'
  BY DEF CalmInv
<1>1. Types
  BY TypesParts DEF IInv, Types
<1>2. calm
  BY <1>1 DEF Next, Start, Stop, Request, Login, Logout, Begin, WebRequest, WebLogin,
        WebLogout, ServerStep, RefreshRead, RefreshCommit, SignIn, SignOut, ClientStep,
        Answer, Granted, Denied, Welcome, Goodbye, WebResponse, Unheard, Unavailable, Break,
        Expire, vars
<1>3. Books
  BY <1>2 DEF IInv, CalmInv
<1>4. \A p \in Proc : Start(p) \/ Stop(p) => Books'
  BY <1>1, <1>3, BooksStart, BooksStop
<1>5. \A p \in Proc, k \in Call : Request(p, k) \/ Login(p, k) \/ Logout(p, k) => Books'
  BY <1>1, <1>3, BooksAsked, BooksLogout
<1>6. \A b \in Browser, k \in Call :
         WebRequest(b, k) \/ WebLogin(b, k) \/ WebLogout(b, k) => Books'
  BY <1>1, <1>3, BooksWeb
<1>7. \A k \in Call : ServerStep(k) => Books'
  BY <1>1, <1>3, BooksRefreshRead, BooksRefreshCommit, BooksSignIn, BooksSignOut
     DEF ServerStep
<1>8. \A k \in Call : ClientStep(k) => Books'
  BY <1>1, <1>3, BooksAnswer, BooksGranted, BooksWelcome, BooksGoodbye,
     BooksWebResponse, NeverDenied DEF ClientStep
<1>9. \A k \in Call : ~Break(k) /\ ~Unavailable(k)
  BY DEF Break, Unavailable
<1> QED
  BY <1>1, <1>3, <1>4, <1>5, <1>6, <1>7, <1>8, <1>9, BooksIdle DEF Next

\* The invariant, for every behaviour.
LEMMA Invariance == Spec => []IInv
<1>1. Init => IInv
  <2> SUFFICES ASSUME Init PROVE IInv
    OBVIOUS
  <2>1. TypeOK /\ RequestsOk
    BY InitTypes, TypesParts
  <2>2. Quiet /\ Live = {1} /\ Held = {1}
    BY ClientAssumption DEF Init, Quiet, Active, NoCall, Live, Issued, Held, Client
  <2>3. OneProcess /\ Remembered /\ HeldOnce
    BY DEF Init, OneProcess, Remembered, HeldOnce, Client
  <2> QED
    BY <2>1, <2>2, <2>3 DEF IInv, CalmInv, Books, Ledger, Quiet
<1>2. IInv /\ [Next]_vars => IInv'
  <2>1. IInv => Types
    BY TypesParts DEF IInv, Types
  <2>2. Types' => TypeOK' /\ RequestsOk'
    BY TypesParts, PTL DEF Types
  <2> QED
    BY <2>1, <2>2, StepTypes, StepBooks DEF IInv
<1> QED
  BY <1>1, <1>2, PTL DEF Spec

\* A user whose requests never overlap is never taken for a thief: AuthService's
\* check for a token that was used before does not meet one of theirs.
THEOREM NotTakenForAThief == Spec => []CalmIsTrusted
<1>1. IInv => CalmIsTrusted
  <2> SUFFICES ASSUME IInv, calm, NEW k \in Call PROVE call[k].pc # "denied"
    BY DEF CalmIsTrusted
  <2>1. Active(k) => Phase(k)
    BY DEF IInv, CalmInv, Books, Ledger
  <2> QED
    BY <2>1 DEF Phase, Active
<1> QED
  BY <1>1, Invariance, PTL

\* Between two requests of such a user the server's live tokens are those that a
\* client holds.
THEOREM NothingLeftBehind == Spec => []CalmLeavesNothing
<1>1. IInv => CalmLeavesNothing
  BY DEF IInv, CalmInv, Books, Ledger, Held, CalmLeavesNothing
<1> QED
  BY <1>1, Invariance, PTL

(***************************************************************************)
(* WebSession: types                                                       *)
(***************************************************************************)

WayBack == App \cup {"", "/api/chat"}
TabType == [pc : {"rest", "asked", "answered"}, kind : {"visit", "call", "logout"},
            page : App \cup {"blank", "/login", "error"}, want : App \cup {"/", "/login"},
            had : BOOLEAN, path : Path, next : WayBack, abroad : BOOLEAN,
            effect : {"keep", "set", "clear", "tidy"}, pair : Nat,
            to : WayBack \cup {"/login", "clear-and-login", "refresh-and-back"},
            shows : App \cup {"", "/login", "data", "401", "ok"}, hops : Nat,
            due : BOOLEAN, outcome : {"none", "data", "401", "page", "error"}]

PairsOk == /\ now \in 0..MaxTime
           /\ pairs \in Seq([ends : Nat, until : Nat]) /\ Len(pairs) \in 1..MaxPairs
           /\ \A n \in 1..Len(pairs) : pairs[n].ends <= pairs[n].until
           /\ revokedPairs \subseteq 1..Len(pairs)
\* setSession writes both cookies and drops that of the earlier release.
JarOk == /\ jar \in [at : 0..Len(pairs), rt : 0..Len(pairs), legacy : {0, 1}]
         /\ jar.at = jar.rt /\ (jar.at # 0 => jar.legacy = 0)
\* What a tab is about, and what it is doing for that.
Shape(c) ==
    /\ c.effect = "set" => c.pair # 0
    /\ c.pc # "answered" => c.effect = "keep"
    /\ c.pc = "rest" => c.kind = "visit" /\ ~c.abroad /\ c.hops = 0
    /\ c.kind = "logout" => c.path = "logout" /\ c.hops = 0 /\ c.to = ""
    /\ c.path = "logout" => c.kind = "logout"
    /\ "/api/chat" \in {c.path, c.next, c.to} => c.kind = "call"
    /\ c.kind = "call" => c.page \in App /\ ~c.abroad
    /\ c.due => c.page \in App /\ (c.pc # "rest" => c.kind = "call")
    /\ c.kind = "visit" /\ c.pc = "answered" /\ c.to = "" => c.shows \in App \cup {"/login"}
TabsOk == /\ tab \in [Tab -> TabType]
          /\ \A t \in Tab : Shape(tab[t]) /\ tab[t].pair <= Len(pairs)
WebTypes == PairsOk /\ JarOk /\ TabsOk /\ undisturbed \in BOOLEAN

(***************************************************************************)
(* WebSession: the redirects that are left                                 *)
(***************************************************************************)

\* The session that the cookies j give a request.
Valid(j) == Alive(j.at) \/ Alive(j.legacy)
PairOf(j) == IF Alive(j.at) THEN j.at ELSE j.legacy

\* How many redirects may follow a request for path: a page leads to the bridge
\* when its access token is over and to the login form when it is refused.
AppRank(j) == IF ~Valid(j) THEN 1 ELSE IF Usable(PairOf(j)) THEN 2 ELSE 4
Rank(path, j) ==
    CASE path \in App -> AppRank(j)
      [] path = "clear-and-login" -> 1
      [] path = "refresh-and-back" -> IF Valid(j) THEN 3 ELSE 1
      [] path = "/login" -> IF Valid(j) THEN 5 ELSE 0
      [] path = "/api/chat" -> IF Valid(j) THEN 0 ELSE 1
      [] OTHER -> 5

\* The cookies once the answer c is delivered.
After(c, j) == CASE c.effect = "set" -> [at |-> c.pair, rt |-> c.pair, legacy |-> 0]
                 [] c.effect = "clear" -> Empty
                 [] c.effect = "tidy" -> [j EXCEPT !.legacy = 0]
                 [] OTHER -> j
Left(c, j) == CASE c.pc = "asked" -> Rank(c.path, j)
                [] c.pc = "answered" /\ c.to # "" -> 1 + Rank(c.to, After(c, j))
                [] OTHER -> 0
FewLeft == \A t \in Tab : tab[t].hops + Left(tab[t], jar) <= 6

(***************************************************************************)
(* WebSession: an undisturbed user                                         *)
(***************************************************************************)

\* A request that starts with the cookies j can use the session.
Signed(j, abroad) == \/ Usable(PairOf(j))
                     \/ Alive(PairOf(j)) /\ (abroad => j.at = 0)
\* The form knows the way back.
GoodNext(next, want) == /\ want \in App => next = want
                        /\ next \in {"", Expected(want)}
Had(c) == c.had \/ c.effect = "set"

\* The tab c, sent to path, will come to what it should.
Bound(c, path, next, j) ==
    IF Had(c)
    THEN /\ Signed(j, c.abroad) /\ path \in App \cup {"/", "/login", "refresh-and-back"}
         /\ path \in App => path = Expected(c.want)
         /\ path = "refresh-and-back" => next = Expected(c.want)
         /\ path \in {"/", "/login"} => Expected(c.want) = "/chat"
    ELSE /\ ~Signed(j, c.abroad)
         /\ path \in App \cup {"/", "/login", "refresh-and-back", "clear-and-login", "loginAction"}
         /\ path \in App => path = Expected(c.want)
         /\ path = "/" => c.want = "/"
         /\ path = "refresh-and-back" => next = Expected(c.want)
         /\ path \in {"/login", "loginAction", "clear-and-login"} => GoodNext(next, c.want)
         /\ path = "/login" => ~Valid(j) \/ Expected(c.want) = "/chat"
         /\ path = "loginAction" => ~Valid(j)

OnItsWay(c, j) ==
    CASE c.kind = "logout" -> /\ c.want = "/login" /\ c.next = "" /\ ~c.had
                              /\ c.pc = "answered" => c.effect = "clear"
      [] c.kind = "call" ->
            /\ c.had /\ c.page = Expected(c.want)
            /\ c.due => \/ c.pc = "asked" /\ c.path = "/api/chat" /\ Valid(j)
                        \/ c.pc = "answered" /\ c.to = "" /\ c.shows = "data"
      [] c.kind = "visit" /\ c.pc = "asked" -> Bound(c, c.path, c.next, j)
      [] c.kind = "visit" /\ c.pc = "answered" /\ c.to # "" ->
            Bound(c, c.to, c.next, After(c, j))
      [] OTHER -> IF Had(c) THEN c.shows = Expected(c.want)
                  ELSE c.shows = "/login" /\ GoodNext(c.next, c.want)

Landed(c) ==
    /\ c.page # "blank" => IF c.had THEN c.page = Expected(c.want)
                           ELSE c.page = "/login" /\ GoodNext(c.next, c.want)
    /\ c.due => c.outcome = "data"

\* The cookies hold no token that was exchanged before.
Honest(j) == {j.rt, j.legacy} \cap revokedPairs = {}

OneRequest == \A t, u \in Tab : tab[t].pc # "rest" /\ tab[u].pc # "rest" => t = u
Undisturbed ==
    undisturbed =>
       /\ OneRequest
       /\ Resting => Honest(jar)
       /\ \A t \in Tab : IF tab[t].pc = "rest" THEN Landed(tab[t])
                         ELSE OnItsWay(tab[t], jar) /\ Honest(After(tab[t], jar))

WebInv == WebTypes /\ FewLeft /\ Undisturbed

(***************************************************************************)
(* WebSession: the cookies                                                 *)
(***************************************************************************)

LEMMA LenIs ==
  ASSUME PairsOk PROVE Len(pairs) \in Nat /\ Len(pairs) >= 1
<1>1. Len(pairs) \in 1..MaxPairs
  BY DEF PairsOk
<1> QED
  BY <1>1, TTLAssumption

LEMMA AliveIs ==
  ASSUME WebTypes
  PROVE  /\ ~Alive(0) /\ ~Usable(0)
         /\ \A n \in 1..Len(pairs) : Usable(n) => Alive(n)
<1>1. ~Alive(0) /\ ~Usable(0)
  BY DEF Alive, Usable
<1>2. ASSUME NEW n \in 1..Len(pairs), Usable(n) PROVE Alive(n)
  <2>1. /\ pairs[n].ends \in Nat /\ pairs[n].until \in Nat /\ pairs[n].ends <= pairs[n].until
        /\ now \in Nat
    <3>1. pairs \in Seq([ends : Nat, until : Nat]) /\ now \in 0..MaxTime
      BY DEF WebTypes, PairsOk
    <3>2. pairs[n] \in [ends : Nat, until : Nat]
      <4> DEFINE Pair == [ends : Nat, until : Nat]
      <4>1. pairs \in Seq(Pair)
        BY <3>1
      <4> HIDE DEF Pair
      <4>2. pairs[n] \in Pair
        BY <4>1
      <4> QED
        BY <4>2 DEF Pair
    <3>4. pairs[n].ends <= pairs[n].until
      BY DEF WebTypes, PairsOk
    <3>3. now \in Nat
      BY <3>1, TTLAssumption
    <3> QED
      BY <3>2, <3>3, <3>4
  <2> QED
    BY <1>2, <2>1, TTLAssumption DEF Alive, Usable
<1> QED
  BY <1>1, <1>2

\* What a session is worth depends on the one pair that counts.
LEMMA PairOfIs ==
  ASSUME WebTypes, NEW j, j.at \in 0..Len(pairs), j.legacy \in 0..Len(pairs)
  PROVE  /\ PairOf(j) \in 0..Len(pairs)
         /\ Valid(j) <=> Alive(PairOf(j))
         /\ Usable(PairOf(j)) => Alive(PairOf(j))
         /\ Valid(j) => PairOf(j) # 0
<1>1. PairOf(j) \in 0..Len(pairs) /\ (Valid(j) <=> Alive(PairOf(j)))
  BY DEF PairOf, Valid
<1>2. PairOf(j) = 0 \/ PairOf(j) \in 1..Len(pairs)
  BY <1>1 DEF WebTypes, PairsOk
<1> QED
  BY <1>1, <1>2, AliveIs

LEMMA JarIs ==
  ASSUME WebTypes
  PROVE  /\ jar.at \in 0..Len(pairs) /\ jar.legacy \in 0..Len(pairs) /\ jar.rt = jar.at
         /\ PairOf(jar) \in 0..Len(pairs)
         /\ Valid(jar) <=> Alive(PairOf(jar))
         /\ Usable(PairOf(jar)) => Alive(PairOf(jar))
         /\ Valid(jar) => PairOf(jar) # 0
<1>1. jar.at \in 0..Len(pairs) /\ jar.legacy \in 0..Len(pairs) /\ jar.rt = jar.at
  BY DEF WebTypes, JarOk, PairsOk
<1> QED
  BY <1>1, PairOfIs

\* What comes with a request.
LEMMA SentIs ==
  ASSUME WebTypes, NEW t \in Tab
  PROVE  /\ hasValidSession(Sent(t)) <=> Valid(jar)
         /\ getSession(Sent(t)).pair = PairOf(jar)
         /\ getSession(Sent(t)).refresh_token =
               IF ~Alive(jar.at) THEN jar.legacy
               ELSE IF ~tab[t].abroad /\ tab[t].path \in REFRESH_COOKIE_PATH THEN jar.at ELSE 0
<1>1. jar.rt = jar.at /\ jar \in [at : 0..Len(pairs), rt : 0..Len(pairs), legacy : {0, 1}]
  BY DEF WebTypes, JarOk
<1>2. /\ Sent(t).at = IF Alive(jar.at) THEN jar.at ELSE 0
      /\ Sent(t).legacy = jar.legacy
      /\ Sent(t).rt = IF /\ Alive(jar.at) /\ ~tab[t].abroad
                         /\ tab[t].path \in REFRESH_COOKIE_PATH
                      THEN jar.at ELSE 0
  BY <1>1 DEF Sent
<1>3. Alive(jar.at) => jar.at # 0
  BY DEF Alive
<1>4. ~Alive(0)
  BY DEF Alive
<1> QED
  BY <1>2, <1>3, <1>4 DEF hasValidSession, getSession, Valid, PairOf

LEMMA classifyIs ==
  ASSUME WebTypes, NEW t \in Tab
  PROVE  /\ classifySession(Sent(t)) = "valid" => Usable(PairOf(jar))
         /\ classifySession(Sent(t)) = "needs_refresh" =>
               ~Usable(PairOf(jar)) /\ Alive(PairOf(jar))
         /\ classifySession(Sent(t)) = "anonymous" => ~Alive(PairOf(jar))
BY SentIs, JarIs DEF classifySession

LEMMA SignedInIs ==
  ASSUME WebTypes, NEW abroad \in BOOLEAN
  PROVE  SignedIn(abroad) <=> Signed(jar, abroad)
<1>1. jar.rt = jar.at /\ jar \in [at : 0..Len(pairs), rt : 0..Len(pairs), legacy : {0, 1}]
  BY DEF WebTypes, JarOk
<1> DEFINE c == [jar EXCEPT !.at = IF Alive(@) THEN @ ELSE 0]
<1>2. /\ c.at = (IF Alive(jar.at) THEN jar.at ELSE 0)
      /\ c.legacy = jar.legacy /\ c.rt = jar.rt
  BY <1>1
<1>3. ~Alive(0)
  BY DEF Alive
<1>4. getSession(c).pair = PairOf(jar)
  BY <1>2, <1>3 DEF getSession, PairOf, Alive
<1>5. jar.at = 0 => getSession(c).refresh_token = PairOf(jar)
  BY <1>2, <1>3 DEF getSession, PairOf
<1> HIDE DEF c
<1>6. SignedIn(abroad) <=>
         \/ Usable(getSession(c).pair)
         \/ /\ Alive(getSession(c).pair)
            /\ abroad => getSession(c).refresh_token = getSession(c).pair /\ jar.at = 0
  BY DEF SignedIn, c
<1> QED
  BY <1>4, <1>5, <1>6 DEF Signed

(***************************************************************************)
(* WebSession: a request is answered                                       *)
(***************************************************************************)

ReplyType == [effect : {"keep", "set", "clear", "tidy"}, pair : Nat,
              to : WayBack \cup {"/login", "clear-and-login", "refresh-and-back"},
              next : WayBack, shows : App \cup {"", "/login", "data", "401", "ok"}]

\* c is the tab b once it has the answer r.
Holds(c, b, r) ==
    /\ c.pc = "answered" /\ c.effect = r.effect /\ c.pair = r.pair /\ c.to = r.to
    /\ c.next = r.next /\ c.shows = r.shows
    /\ c.kind = b.kind /\ c.page = b.page /\ c.want = b.want /\ c.had = b.had
    /\ c.path = b.path /\ c.abroad = b.abroad /\ c.hops = b.hops /\ c.due = b.due
    /\ c.outcome = b.outcome

LEMMA RespondIs ==
  ASSUME TabsOk, NEW t \in Tab, NEW r \in ReplyType, Respond(t, r)
  PROVE  \E c \in TabType : tab' = [tab EXCEPT ![t] = c] /\ Holds(c, tab[t], r)
<1> DEFINE c == [tab[t] EXCEPT !.pc = "answered", !.effect = r.effect, !.pair = r.pair,
                               !.to = r.to, !.next = r.next, !.shows = r.shows]
<1>1. tab \in [Tab -> TabType] /\ tab[t] \in TabType
  BY DEF TabsOk
<1>2. tab' = [tab EXCEPT ![t] = c]
  BY <1>1 DEF Respond
<1>3. c \in TabType
  <2>1. /\ r.effect \in {"keep", "set", "clear", "tidy"} /\ r.pair \in Nat
        /\ r.to \in WayBack \cup {"/login", "clear-and-login", "refresh-and-back"}
        /\ r.next \in WayBack /\ r.shows \in App \cup {"", "/login", "data", "401", "ok"}
    BY DEF ReplyType
  <2> DEFINE c1 == [tab[t] EXCEPT !.pc = "answered"]
             c2 == [c1 EXCEPT !.effect = r.effect]
             c3 == [c2 EXCEPT !.pair = r.pair]
  <2>2. c = [c3 EXCEPT !.to = r.to, !.next = r.next, !.shows = r.shows]
    OBVIOUS
  <2>3. c1 \in TabType
    BY <1>1 DEF TabType
  <2> HIDE DEF c, c1
  <2>4. c2 \in TabType
    BY <2>1, <2>3 DEF TabType
  <2> HIDE DEF c2
  <2>5. c3 \in TabType
    BY <2>1, <2>4 DEF TabType
  <2> HIDE DEF c3
  <2> QED
    BY <2>1, <2>2, <2>5 DEF TabType
<1>4. Holds(c, tab[t], r)
  BY <1>1 DEF TabType, Holds
<1> QED
  BY <1>2, <1>3, <1>4

\* While a request is answered pairs may be issued; what is there stays.
Grows == /\ UNCHANGED <<now, jar>> /\ PairsOk' /\ Len(pairs) <= Len(pairs')
         /\ \A n \in 1..Len(pairs) : pairs'[n] = pairs[n]

LEMMA GrowsKeeps ==
  ASSUME WebTypes, Grows
  PROVE  /\ \A n \in 0..Len(pairs) : (Alive(n)' <=> Alive(n)) /\ (Usable(n)' <=> Usable(n))
         /\ \A j, path : j.at \in 0..Len(pairs) /\ j.legacy \in 0..Len(pairs) =>
               (Valid(j)' <=> Valid(j)) /\ PairOf(j)' = PairOf(j) /\ Rank(path, j)' = Rank(path, j)
         /\ JarOk'
<1>1. now' = now /\ jar' = jar /\ \A n \in 1..Len(pairs) : pairs'[n] = pairs[n]
  BY DEF Grows
<1>2. ASSUME NEW n \in 0..Len(pairs)
      PROVE  (Alive(n)' <=> Alive(n)) /\ (Usable(n)' <=> Usable(n))
  <2>1. n = 0 \/ n \in 1..Len(pairs)
    BY DEF WebTypes, PairsOk
  <2> QED
    BY <1>1, <2>1 DEF Alive, Usable
<1>3. ASSUME NEW j, NEW path, j.at \in 0..Len(pairs), j.legacy \in 0..Len(pairs)
      PROVE  (Valid(j)' <=> Valid(j)) /\ PairOf(j)' = PairOf(j) /\ Rank(path, j)' = Rank(path, j)
  <2>1. (Valid(j)' <=> Valid(j)) /\ PairOf(j)' = PairOf(j) /\ PairOf(j) \in 0..Len(pairs)
    BY <1>2, <1>3 DEF Valid, PairOf
  <2>2. Usable(PairOf(j))' <=> Usable(PairOf(j))
    BY <1>2, <2>1 DEF Usable, PairOf
  <2>3. AppRank(j)' = AppRank(j)
    BY <2>1, <2>2 DEF AppRank
  <2> QED
    BY <2>1, <2>3 DEF Rank
<1>4. JarOk'
  BY <1>1 DEF Grows, WebTypes, JarOk, PairsOk
<1> QED
  BY <1>2, <1>3, <1>4

\* A new pair can be used at once.
LEMMA IssueGrows ==
  ASSUME WebTypes, IssuePair, Len(pairs) < MaxPairs, UNCHANGED <<now, jar>>,
         revokedPairs' \subseteq 1..Len(pairs), NEW m, m = Len(pairs) + 1
  PROVE  Grows /\ Len(pairs') = m /\ m \in 1..Len(pairs') /\ Usable(m)' /\ Alive(m)'
<1> DEFINE new == [ends |-> now + AccessTTL, until |-> now + RefreshTTL]
           Pair == [ends : Nat, until : Nat]
<1>1. now \in Nat /\ MaxPairs \in Nat /\ AccessTTL \in Nat /\ RefreshTTL \in Nat
      /\ CLOCK_SKEW \in Nat
  BY TTLAssumption DEF WebTypes, PairsOk
<1>2. new \in Pair /\ new.ends <= new.until /\ new.ends - now > CLOCK_SKEW /\ now < new.until
  BY <1>1, TTLAssumption
<1>3. pairs \in Seq(Pair) /\ pairs' = Append(pairs, new)
  BY DEF WebTypes, PairsOk, IssuePair
<1> HIDE DEF new, Pair
<1>4. /\ pairs' \in Seq(Pair) /\ Len(pairs') = Len(pairs) + 1 /\ pairs'[Len(pairs) + 1] = new
      /\ \A n \in 1..Len(pairs) : pairs'[n] = pairs[n]
      /\ Len(pairs) \in Nat
  BY <1>2, <1>3
<1>5. \A n \in 1..Len(pairs') : pairs'[n].ends <= pairs'[n].until
  <2>1. ASSUME NEW n \in 1..Len(pairs') PROVE n \in 1..Len(pairs) \/ n = Len(pairs) + 1
    BY <1>4
  <2>2. \A n \in 1..Len(pairs) : pairs[n].ends <= pairs[n].until
    BY DEF WebTypes, PairsOk
  <2> QED
    BY <1>2, <1>4, <2>1, <2>2
<1>6. PairsOk'
  BY <1>1, <1>4, <1>5 DEF WebTypes, PairsOk, Pair
<1>7. Usable(m)' /\ Alive(m)'
  <2>1. now' = now /\ m # 0 /\ pairs'[m] = new
    BY <1>4
  <2>2. new.ends - now' > CLOCK_SKEW /\ now' < new.until
    BY <1>2, <2>1
  <2> QED
    BY <1>4, <2>1, <2>2 DEF Usable, Alive
<1> QED
  BY <1>4, <1>6, <1>7 DEF Grows

LEMMA RankBound == \A path, j : Rank(path, j) \in 0..5 /\ Rank(path, j)' \in 0..5
BY DEF Rank, AppRank

LEMMA AfterIs ==
  ASSUME NEW n \in Nat, NEW j \in [at : 0..n, rt : 0..n, legacy : {0, 1}], n >= 1,
         NEW c, c.effect = "set" => c.pair \in 0..n
  PROVE  /\ After(c, j) \in [at : 0..n, rt : 0..n, legacy : {0, 1}]
         /\ After(c, j).at \in 0..n /\ After(c, j).legacy \in 0..n
         /\ c.effect = "keep" => After(c, j) = j
         /\ c.effect = "clear" => After(c, j) = Empty
BY DEF After, Empty

LEMMA LeftStays ==
  ASSUME WebTypes, Grows, NEW u \in Tab
  PROVE  \A c : c = tab[u] => Left(c, jar)' = Left(c, jar)
<1> SUFFICES ASSUME NEW c, c = tab[u] PROVE Left(c, jar)' = Left(c, jar)
  OBVIOUS
<1>1. jar' = jar /\ jar \in [at : 0..Len(pairs), rt : 0..Len(pairs), legacy : {0, 1}]
      /\ Len(pairs) \in Nat /\ Len(pairs) >= 1 /\ c.pair \in 0..Len(pairs)
  <2>1. c.pair \in Nat /\ c.pair <= Len(pairs)
    BY DEF WebTypes, TabsOk, TabType
  <2>2. jar' = jar /\ jar \in [at : 0..Len(pairs), rt : 0..Len(pairs), legacy : {0, 1}]
    BY DEF Grows, WebTypes, JarOk
  <2> QED
    BY <2>1, <2>2, LenIs DEF WebTypes
<1>2. After(c, jar).at \in 0..Len(pairs) /\ After(c, jar).legacy \in 0..Len(pairs)
  BY <1>1, AfterIs
<1>3. jar.at \in 0..Len(pairs) /\ jar.legacy \in 0..Len(pairs)
  BY <1>1
<1> QED
  BY <1>1, <1>2, <1>3, GrowsKeeps DEF Left

\* What an answer must be for the invariant: it leads nowhere odd, fewer
\* redirects are left, and an undisturbed user is on the way.
Fits(t, r) ==
    /\ r.effect = "set" => r.pair # 0
    /\ r.pair = 0 \/ r.pair <= Len(pairs')
    /\ tab[t].kind = "logout" => r.to = ""
    /\ "/api/chat" \in {r.next, r.to} => tab[t].kind = "call"
    /\ tab[t].kind = "visit" /\ r.to = "" => r.shows \in App \cup {"/login"}
    /\ r.to # "" => 1 + Rank(r.to, After(r, jar))' <= Rank(tab[t].path, jar)
CalmFits(t, r) ==
    undisturbed' => /\ undisturbed /\ Honest(After(r, jar))'
                    /\ \A c : Holds(c, tab[t], r) => OnItsWay(c, jar)'

LEMMA AnswerKeeps ==
  ASSUME WebInv, NEW t \in Tab, NEW r \in ReplyType, Respond(t, r), tab[t].pc = "asked",
         Grows, undisturbed' \in BOOLEAN, Fits(t, r), CalmFits(t, r)
  PROVE  WebInv'
<1>1. PICK c \in TabType : tab' = [tab EXCEPT ![t] = c] /\ Holds(c, tab[t], r)
  BY RespondIs DEF WebInv, WebTypes
<1>2. /\ tab \in [Tab -> TabType] /\ tab' \in [Tab -> TabType]
      /\ tab'[t] = c /\ \A u \in Tab \ {t} : tab'[u] = tab[u]
      /\ tab[t] \in TabType /\ Shape(tab[t])
  BY <1>1 DEF WebInv, WebTypes, TabsOk
<1>3. jar' = jar /\ Len(pairs) \in Nat /\ Len(pairs') \in Nat /\ Len(pairs) <= Len(pairs')
  <2>1. jar' = jar /\ Len(pairs) <= Len(pairs') /\ PairsOk /\ PairsOk'
    BY DEF Grows, WebInv, WebTypes
  <2>2. Len(pairs) \in Nat /\ Len(pairs') \in Nat
    <3>1. ASSUME PairsOk' PROVE Len(pairs') \in Nat
      <4>1. Len(pairs') \in 1..MaxPairs
        BY <3>1 DEF PairsOk
      <4> QED
        BY <4>1, TTLAssumption
    <3> QED
      BY <2>1, <3>1, LenIs
  <2> QED
    BY <2>1, <2>2
<1>4. After(c, jar) = After(r, jar)
  BY <1>1 DEF After, Holds
<1>5. TabsOk'
  <2>1. Shape(c)
    BY <1>1, <1>2 DEF Shape, Holds, Fits
  <2>2. c.pair <= Len(pairs')
    <3>1. c.pair = r.pair /\ (r.pair = 0 \/ r.pair <= Len(pairs'))
      BY <1>1 DEF Holds, Fits
    <3>2. CASE r.pair = 0
      <4>1. c.pair = 0
        BY <3>1, <3>2
      <4> QED
        BY <1>3, <4>1
    <3> QED
      BY <3>1, <3>2
  <2>3. \A u \in Tab \ {t} : Shape(tab'[u]) /\ tab'[u].pair <= Len(pairs')
    <3>1. \A u \in Tab \ {t} : tab'[u] = tab[u] /\ Shape(tab[u]) /\ tab[u].pair <= Len(pairs)
                               /\ tab[u].pair \in Nat
      BY <1>2 DEF WebInv, WebTypes, TabsOk, TabType
    <3>2. ASSUME NEW u \in Tab \ {t} PROVE Shape(tab'[u]) /\ tab'[u].pair <= Len(pairs')
      <4>1. tab'[u] = tab[u] /\ Shape(tab[u]) /\ tab[u].pair <= Len(pairs) /\ tab[u].pair \in Nat
        BY <3>1
      <4> QED
        BY <1>3, <4>1
    <3> QED
      BY <3>2
  <2> QED
    BY <1>2, <2>1, <2>2, <2>3 DEF TabsOk
<1>6. WebTypes'
  BY <1>5, GrowsKeeps DEF WebInv, WebTypes, Grows
<1>7. FewLeft'
  <2>1. ASSUME NEW u \in Tab \ {t}, NEW d, d = tab[u] PROVE d.hops + Left(d, jar)' <= 6
    <3>1. d.hops + Left(d, jar) <= 6
      BY <2>1 DEF WebInv, FewLeft
    <3>2. Left(d, jar)' = Left(d, jar)
      BY <2>1, LeftStays DEF WebInv
    <3> QED
      BY <3>1, <3>2
  <2>2. c.hops + Left(c, jar)' <= 6
    <3>1. c.hops = tab[t].hops /\ c.pc = "answered" /\ c.to = r.to
      BY <1>1, <1>2 DEF Holds
    <3>2. tab[t].hops + Rank(tab[t].path, jar) <= 6 /\ tab[t].hops \in Nat
      BY <1>2 DEF WebInv, FewLeft, Left, TabType
    <3>3. Rank(tab[t].path, jar) \in 0..5
      BY RankBound
    <3>4. CASE r.to = ""
      <4>1. Left(c, jar)' = 0
        BY <3>1, <3>4 DEF Left
      <4>2. c.hops \in Nat /\ c.hops <= 6
        BY <3>1, <3>2, <3>3
      <4> QED
        BY <4>1, <4>2
    <3>5. CASE r.to # ""
      <4>1. Left(c, jar)' = 1 + Rank(r.to, After(r, jar))'
        BY <1>3, <1>4, <3>1, <3>5 DEF Left
      <4>2. Rank(r.to, After(r, jar))' \in 0..5
        BY RankBound
      <4>3. 1 + Rank(r.to, After(r, jar))' <= Rank(tab[t].path, jar)
        BY <3>5 DEF Fits
      <4>4. c.hops \in Nat /\ c.hops + Rank(tab[t].path, jar) <= 6
        BY <3>1, <3>2
      <4> QED
        BY <3>3, <4>1, <4>2, <4>3, <4>4
    <3> QED
      BY <3>4, <3>5
  <2> QED
    BY <1>2, <2>1, <2>2 DEF FewLeft
<1>8. Undisturbed'
  <2> SUFFICES ASSUME undisturbed' PROVE Undisturbed'
    BY DEF Undisturbed
  <2>1. /\ undisturbed /\ OneRequest /\ \A u \in Tab \ {t} : tab[u].pc = "rest" /\ Landed(tab[u])
        /\ Honest(After(r, jar))' /\ OnItsWay(c, jar)'
    BY <1>1 DEF WebInv, Undisturbed, OneRequest, CalmFits
  <2>2. c.pc = "answered"
    BY <1>1 DEF Holds
  <2>3. OneRequest' /\ ~Resting'
    BY <1>2, <2>1, <2>2 DEF OneRequest, Resting
  <2>4. Honest(After(tab[t], jar))'
    BY <1>2, <1>3, <1>4, <2>1
  <2> QED
    BY <1>2, <2>1, <2>2, <2>3, <2>4 DEF Undisturbed
<1> QED
  BY <1>6, <1>7, <1>8 DEF WebInv

LEMMA AskedIs ==
  ASSUME WebInv, NEW t \in Tab, tab[t].pc = "asked"
  PROVE  /\ tab[t] \in TabType /\ Shape(tab[t]) /\ tab[t].effect = "keep"
         /\ tab[t].kind \in {"visit", "call", "logout"} /\ tab[t].want \in App \cup {"/", "/login"}
         /\ tab[t].next \in WayBack /\ tab[t].path \in Path
         /\ undisturbed \in BOOLEAN /\ Len(pairs) \in Nat
         /\ undisturbed => OnItsWay(tab[t], jar) /\ Honest(jar)
<1>1. tab[t] \in TabType /\ Shape(tab[t]) /\ undisturbed \in BOOLEAN /\ PairsOk
  BY DEF WebInv, WebTypes, TabsOk
<1>2. /\ tab[t].effect = "keep" /\ tab[t].next \in WayBack /\ tab[t].path \in Path
      /\ tab[t].kind \in {"visit", "call", "logout"} /\ tab[t].want \in App \cup {"/", "/login"}
  BY <1>1 DEF Shape, TabType
<1>3. undisturbed => OnItsWay(tab[t], jar) /\ Honest(After(tab[t], jar))
  BY DEF WebInv, Undisturbed
<1> QED
  BY <1>1, <1>2, <1>3, LenIs DEF After

\* A handler that changes no token.
LEMMA StillIs ==
  ASSUME WebInv, UNCHANGED <<now, pairs, revokedPairs, jar>>
  PROVE  /\ Grows
         /\ \A j : (Valid(j)' <=> Valid(j)) /\ PairOf(j)' = PairOf(j) /\ (Honest(j)' <=> Honest(j))
         /\ \A j, abroad : Signed(j, abroad)' <=> Signed(j, abroad)
         /\ \A path, j : Rank(path, j)' = Rank(path, j)
<1>1. \A n : (Alive(n)' <=> Alive(n)) /\ (Usable(n)' <=> Usable(n))
  BY DEF Alive, Usable
<1>2. \A j : (Valid(j)' <=> Valid(j)) /\ PairOf(j)' = PairOf(j) /\ (Honest(j)' <=> Honest(j))
  BY <1>1 DEF Valid, PairOf, Honest
<1>3. \A j : Usable(PairOf(j))' <=> Usable(PairOf(j))
  BY <1>1, <1>2 DEF Usable, PairOf, Alive
<1>4. \A j : Alive(PairOf(j))' <=> Alive(PairOf(j))
  BY <1>1, <1>2 DEF PairOf, Alive
<1>5. \A j, abroad : Signed(j, abroad)' <=> Signed(j, abroad)
  BY <1>3, <1>4 DEF Signed
<1>6. \A path, j : Rank(path, j)' = Rank(path, j)
  BY <1>2, <1>3 DEF Rank, AppRank
<1>7. Grows
  BY LenIs DEF Grows, WebInv, WebTypes, PairsOk
<1> QED
  BY <1>2, <1>5, <1>6, <1>7

\* Cookies without a session.
LEMMA Barren ==
  ASSUME WebTypes
  PROVE  /\ ~Valid(Empty) /\ \A abroad : ~Signed(Empty, abroad)
         /\ ~Valid(jar) => ~Valid([jar EXCEPT !.legacy = 0])
         /\ ~Valid(jar) => \A abroad : ~Signed([jar EXCEPT !.legacy = 0], abroad)
         /\ \A abroad : Signed(jar, abroad) => Valid(jar)
<1>1. ~Alive(0) /\ ~Usable(0)
  BY AliveIs
<1>2. PairOf(Empty) = 0 /\ ~Valid(Empty)
  BY <1>1 DEF PairOf, Valid, Empty
<1>3. [jar EXCEPT !.legacy = 0].at = jar.at /\ [jar EXCEPT !.legacy = 0].legacy = 0
  BY DEF WebTypes, JarOk
<1>4. ~Valid(jar) => ~Valid([jar EXCEPT !.legacy = 0]) /\ PairOf([jar EXCEPT !.legacy = 0]) = 0
  BY <1>1, <1>3 DEF Valid, PairOf
<1>5. \A abroad : Signed(jar, abroad) => Valid(jar)
  BY JarIs DEF Signed
<1> QED
  BY <1>1, <1>2, <1>4, <1>5 DEF Signed

\* A cookie that is deleted does no harm.
LEMMA Tidy ==
  ASSUME WebTypes, Honest(jar), UNCHANGED <<jar, revokedPairs>>
  PROVE  Honest([jar EXCEPT !.legacy = 0])' /\ Honest(Empty)'
<1>1. 0 \notin revokedPairs
  BY DEF WebTypes, PairsOk
<1>2. [jar EXCEPT !.legacy = 0].rt = jar.rt /\ [jar EXCEPT !.legacy = 0].legacy = 0
  BY DEF WebTypes, JarOk
<1> QED
  BY <1>1, <1>2 DEF Honest, Empty

\* An answer to an undisturbed user, by what the request was for.
LEMMA CalmAnswer ==
  ASSUME WebInv, NEW t \in Tab, tab[t].pc = "asked", NEW r, NEW j, After(r, jar) = j,
         jar' = jar, tab[t].kind # "logout",
         undisturbed' => undisturbed /\ Honest(j)',
         undisturbed' /\ tab[t].kind = "call" /\ tab[t].due => r.to = "" /\ r.shows = "data",
         undisturbed' /\ tab[t].kind = "visit" =>
            IF r.to # "" THEN \A c : Holds(c, tab[t], r) => Bound(c, r.to, r.next, j)'
            ELSE IF Had(tab[t]) \/ r.effect = "set" THEN r.shows = Expected(tab[t].want)
            ELSE r.shows = "/login" /\ GoodNext(r.next, tab[t].want)
  PROVE  CalmFits(t, r)
<1>1. tab[t].effect = "keep" /\ (undisturbed => OnItsWay(tab[t], jar))
      /\ tab[t].kind \in {"visit", "call"}
  BY AskedIs
<1>2. After(r, jar)' = j
  OBVIOUS
<1>3. ASSUME undisturbed', NEW c, Holds(c, tab[t], r) PROVE OnItsWay(c, jar)'
  <2>1. c.kind = tab[t].kind /\ c.pc = "answered"
    BY <1>3 DEF Holds
  <2>2. CASE tab[t].kind = "call"
    BY <1>1, <1>3, <2>2 DEF Holds, OnItsWay
  <2>3. CASE tab[t].kind = "visit"
    <3>1. CASE r.to # ""
      <4>1. After(c, jar)' = j
        BY <1>2, <1>3 DEF After, Holds
      <4>2. Bound(c, c.to, c.next, j)' /\ c.to # ""
        BY <1>3, <2>3, <3>1 DEF Holds
      <4> QED
        BY <2>1, <2>3, <4>1, <4>2 DEF OnItsWay
    <3>2. CASE r.to = ""
      BY <1>1, <1>3, <2>1, <2>3, <3>2 DEF Holds, OnItsWay, Had
    <3> QED
      BY <3>1, <3>2
  <2> QED
    BY <1>1, <2>2, <2>3
<1> QED
  BY <1>2, <1>3 DEF CalmFits

LEMMA proxyKeeps ==
  ASSUME WebInv, NEW t \in Tab, proxy(t) PROVE WebInv'
<1> DEFINE path == tab[t].path
<1>1. /\ tab[t].pc = "asked" /\ UNCHANGED <<now, pairs, revokedPairs, jar, undisturbed>>
      /\ ~Admitted(t)
  BY DEF proxy
<1>2. /\ tab[t].kind \in {"visit", "call", "logout"} /\ path \in Path /\ Shape(tab[t]) /\ Len(pairs) \in Nat /\ tab[t].effect = "keep"
      /\ undisturbed => OnItsWay(tab[t], jar) /\ Honest(jar)
      /\ Grows /\ undisturbed' \in BOOLEAN
  BY <1>1, AskedIs, StillIs
<1>3. hasValidSession(Sent(t)) <=> Valid(jar)
  BY SentIs DEF WebInv
<1>4. CASE path \in {"/login", "loginAction"}
  <2>0. PICK r : r = Redirect("/chat", "")
    OBVIOUS
  <2>1. Valid(jar)
    BY <1>1, <1>3, <1>4 DEF Admitted, PUBLIC_PATHS, PUBLIC_PREFIXES
  <2>2. /\ r \in ReplyType /\ r.effect = "keep" /\ r.pair = 0 /\ r.to = "/chat" /\ r.next = ""
        /\ r.shows = ""
    BY <2>0 DEF Redirect, Reply, ReplyType, WayBack, App
  <2>3. Respond(t, r)
    BY <1>4, <2>0 DEF proxy, PUBLIC_PATHS
  <2>4. After(r, jar) = jar
    BY <2>2 DEF After
  <2>5. Fits(t, r)
    <3>1. tab[t].kind # "logout"
      BY <1>2, <1>4 DEF Shape
    <3>2. Rank("/chat", jar)' <= 4 /\ Rank(path, jar) = 5 /\ Rank("/chat", jar)' \in Nat
      BY <1>1, <1>4, <2>1, StillIs DEF Rank, AppRank, App
    <3>3. 1 + Rank("/chat", jar)' <= Rank(path, jar)
      BY <3>2
    <3>4. "/api/chat" \notin {r.next, r.to}
      BY <2>2
    <3> QED
      BY <1>1, <1>2, <2>2, <2>4, <3>1, <3>3, <3>4 DEF Fits
  <2>6. CalmFits(t, r)
    <3>1. tab[t].kind # "logout"
      BY <1>2, <1>4 DEF Shape
    <3>2. undisturbed /\ tab[t].kind = "call" => ~tab[t].due
      BY <1>1, <1>2, <1>4 DEF OnItsWay
    <3>3. ASSUME undisturbed, tab[t].kind = "visit", NEW c, Holds(c, tab[t], r)
          PROVE  Bound(c, r.to, r.next, jar)'
      <4>1. Bound(tab[t], path, tab[t].next, jar)
        BY <1>1, <1>2, <3>3 DEF OnItsWay
      <4> QED
        BY <1>1, <1>2, <1>4, <2>1, <2>2, <3>3, <4>1, StillIs DEF Bound, Holds, Had, App
    <3>4. undisturbed => Honest(jar)'
      BY <1>1, <1>2, StillIs
    <3> QED
      BY <1>1, <2>2, <2>4, <3>1, <3>2, <3>3, <3>4, CalmAnswer
  <2> QED
    BY <1>1, <1>2, <2>2, <2>3, <2>5, <2>6, AnswerKeeps
<1>5. CASE path \notin {"/login", "loginAction"}
  <2>0. PICK r : r = With("tidy", Redirect("/login", path))
    OBVIOUS
  <2>1. ~Valid(jar) /\ path \in {"/chat", "/wiki", "/api/chat"}
    BY <1>1, <1>2, <1>3, <1>5 DEF Admitted, PUBLIC_PATHS, PUBLIC_PREFIXES, Path, App
  <2>2. /\ r \in ReplyType /\ r.effect = "tidy" /\ r.pair = 0 /\ r.to = "/login" /\ r.next = path
        /\ r.shows = ""
    BY <2>0, <2>1 DEF Redirect, With, Reply, ReplyType, WayBack, App
  <2>3. Respond(t, r)
    BY <1>5, <2>0 DEF proxy, PUBLIC_PATHS
  <2>4. PICK j : /\ j = [jar EXCEPT !.legacy = 0] /\ After(r, jar) = j
                 /\ ~Valid(j) /\ \A abroad : ~Signed(j, abroad)
    BY <2>1, <2>2, Barren DEF After, WebInv
  <2>7. After(r, jar)' = j
    BY <1>1, <2>4
  <2>5. Fits(t, r)
    <3>1. tab[t].kind # "logout" /\ (path = "/api/chat" => tab[t].kind = "call")
      BY <1>2, <2>1 DEF Shape
    <3>2. Rank("/login", j)' = 0 /\ Rank(path, jar) = 1
      BY <1>1, <2>1, <2>4, StillIs DEF Rank, AppRank, App
    <3>3. 1 + Rank("/login", j)' <= Rank(path, jar)
      BY <3>2
    <3>4. "/api/chat" \in {r.next, r.to} => path = "/api/chat"
      BY <2>2
    <3> QED
      BY <1>1, <1>2, <2>2, <2>7, <3>1, <3>3, <3>4 DEF Fits
  <2>6. CalmFits(t, r)
    <3>1. tab[t].kind # "logout"
      BY <1>2, <2>1 DEF Shape
    <3>2. undisturbed /\ tab[t].kind = "call" => ~tab[t].due
      BY <1>1, <1>2, <2>1 DEF OnItsWay
    <3>3. ASSUME undisturbed, tab[t].kind = "visit", NEW c, Holds(c, tab[t], r)
          PROVE  Bound(c, r.to, r.next, j)'
      <4>1. Bound(tab[t], path, tab[t].next, jar) /\ path \in App
        BY <1>1, <1>2, <2>1, <3>3 DEF OnItsWay, Shape, App
      <4>2. ~Had(tab[t]) /\ path = Expected(tab[t].want)
        BY <2>1, <4>1, Barren DEF Bound, WebInv
      <4>3. ~Had(c) /\ c.want = tab[t].want /\ GoodNext(r.next, c.want)
        BY <2>2, <3>3, <4>1, <4>2 DEF Holds, Had, GoodNext, Expected
      <4> QED
        BY <1>1, <2>2, <2>4, <4>3, StillIs DEF Bound, App
    <3>4. undisturbed => Honest(j)'
      BY <1>1, <1>2, <2>4, Tidy DEF WebInv
    <3> QED
      BY <1>1, <2>2, <2>4, <3>1, <3>2, <3>3, <3>4, CalmAnswer
  <2> QED
    BY <1>1, <1>2, <2>2, <2>3, <2>5, <2>6, AnswerKeeps
<1> QED
  BY <1>4, <1>5

\* What the answer r to an undisturbed user must be, when the cookies are j then.
Reaches(t, r, j) ==
    /\ tab[t].kind = "call" /\ tab[t].due => r.to = "" /\ r.shows = "data"
    /\ tab[t].kind = "visit" =>
          IF r.to # "" THEN \A c : Holds(c, tab[t], r) => Bound(c, r.to, r.next, j)
          ELSE IF Had(tab[t]) THEN r.shows = Expected(tab[t].want)
          ELSE r.shows = "/login" /\ GoodNext(r.next, tab[t].want)
Few(t, r, j) == r.to # "" => 1 + Rank(r.to, j) <= Rank(tab[t].path, jar)

\* The answer of a handler that changes no token.
LEMMA StillAnswer ==
  ASSUME WebInv, NEW t \in Tab, tab[t].pc = "asked", tab[t].kind # "logout",
         NEW r \in ReplyType, Respond(t, r), r.effect # "set", r.pair = 0,
         UNCHANGED <<now, pairs, revokedPairs, jar>>,
         undisturbed' \in BOOLEAN, undisturbed' => undisturbed,
         NEW j, After(r, jar) = j, Few(t, r, j),
         "/api/chat" \in {r.next, r.to} => tab[t].kind = "call",
         tab[t].kind = "visit" /\ r.to = "" => r.shows \in App \cup {"/login"},
         undisturbed' => Reaches(t, r, j)
  PROVE  WebInv'
<1>1. Grows /\ After(r, jar)' = j
  BY StillIs DEF After
<1>2. Fits(t, r)
  <2>1. r.to # "" => 1 + Rank(r.to, After(r, jar))' <= Rank(tab[t].path, jar)
    <3>1. Rank(r.to, j)' = Rank(r.to, j)
      BY StillIs
    <3> QED
      BY <1>1, <3>1 DEF Few
  <2> QED
    BY <2>1 DEF Fits
<1>3. CalmFits(t, r)
  <2>1. undisturbed' => Honest(j)'
    <3>1. undisturbed => Honest(jar)
      BY AskedIs
    <3>2. r.effect \in {"keep", "clear", "tidy"}
      BY DEF ReplyType
    <3>3. j = jar \/ j = Empty \/ j = [jar EXCEPT !.legacy = 0]
      BY <3>2 DEF After
    <3>4. Honest(jar) => Honest(jar)' /\ Honest([jar EXCEPT !.legacy = 0])' /\ Honest(Empty)'
      BY Tidy, StillIs DEF WebInv
    <3>5. CASE j = jar
      <4>1. Honest(j)' <=> Honest(j)
        BY StillIs
      <4> QED
        BY <3>1, <3>5, <4>1
    <3>6. CASE j = Empty
      <4>1. Honest(j)' <=> Honest(j)
        BY StillIs
      <4>2. Honest(Empty)' <=> Honest(Empty)
        BY StillIs
      <4> QED
        BY <3>1, <3>4, <3>6, <4>1, <4>2
    <3>7. CASE j = [jar EXCEPT !.legacy = 0]
      <4>1. Honest(j)' <=> Honest(j)
        BY StillIs
      <4>2. j' = j /\ jar' = jar
        OBVIOUS
      <4>3. Honest([jar EXCEPT !.legacy = 0])' <=> Honest([jar EXCEPT !.legacy = 0])
        BY <4>2 DEF Honest
      <4> QED
        BY <3>1, <3>4, <3>7, <4>1, <4>3
    <3> QED
      BY <3>3, <3>5, <3>6, <3>7
  <2>2. ASSUME NEW c, Bound(c, r.to, r.next, j) PROVE Bound(c, r.to, r.next, j)'
    BY <2>2, StillIs DEF Bound
  <2>3. undisturbed' /\ tab[t].kind = "call" /\ tab[t].due => r.to = "" /\ r.shows = "data"
    BY DEF Reaches
  <2>4. undisturbed' /\ tab[t].kind = "visit" =>
            IF r.to # "" THEN \A c : Holds(c, tab[t], r) => Bound(c, r.to, r.next, j)'
            ELSE IF Had(tab[t]) \/ r.effect = "set" THEN r.shows = Expected(tab[t].want)
            ELSE r.shows = "/login" /\ GoodNext(r.next, tab[t].want)
    BY <2>2 DEF Reaches
  <2> QED
    BY <2>1, <2>3, <2>4, CalmAnswer
<1> QED
  BY <1>1, <1>2, <1>3, AnswerKeeps

\* Which request it is.
LEMMA AtIs ==
  ASSUME WebInv, NEW t \in Tab, NEW path, At(t, path)
  PROVE  /\ tab[t].pc = "asked" /\ tab[t].path = path /\ Admitted(t)
         /\ path # "logout" => tab[t].kind \in {"visit", "call"}
         /\ path = "/api/chat" => tab[t].kind = "call"
         /\ path \notin PUBLIC_PREFIXES \cup {"/"} =>
               IF path \in PUBLIC_PATHS THEN ~Valid(jar) ELSE Valid(jar)
         /\ tab[t].next = "/api/chat" => tab[t].kind = "call"
         /\ undisturbed /\ tab[t].kind = "call" /\ tab[t].due => path = "/api/chat" /\ Valid(jar)
         /\ undisturbed /\ tab[t].kind = "visit" => Bound(tab[t], path, tab[t].next, jar)
<1>1. tab[t].pc = "asked" /\ tab[t].path = path /\ Admitted(t)
  BY DEF At
<1>2. /\ Shape(tab[t]) /\ tab[t].kind \in {"visit", "call", "logout"}
      /\ undisturbed => OnItsWay(tab[t], jar)
  BY <1>1, AskedIs
<1>3. hasValidSession(Sent(t)) <=> Valid(jar)
  BY SentIs DEF WebInv
<1>4. path \notin PUBLIC_PREFIXES \cup {"/"} =>
         IF path \in PUBLIC_PATHS THEN ~Valid(jar) ELSE Valid(jar)
  BY <1>1, <1>3 DEF Admitted
<1> QED
  BY <1>1, <1>2, <1>4 DEF Shape, OnItsWay

LEMMA HomeKeeps ==
  ASSUME WebInv, NEW t \in Tab, Home(t) PROVE WebInv'
<1> DEFINE n == getSession(Sent(t)).pair
<1>0. PICK r : r = Redirect(IF n = 0 THEN "/login" ELSE IF Alive(n) THEN "/chat"
                           ELSE "clear-and-login", "")
  OBVIOUS
<1>1. /\ At(t, "/") /\ Respond(t, r)
      /\ UNCHANGED <<now, pairs, revokedPairs, jar, undisturbed>>
  BY <1>0 DEF Home
<1>2. /\ r \in ReplyType /\ r.effect = "keep" /\ r.pair = 0 /\ r.next = ""
      /\ IF Valid(jar) THEN r.to = "/chat" ELSE r.to \in {"/login", "clear-and-login"}
  <2>1. n = PairOf(jar) /\ (Valid(jar) <=> Alive(PairOf(jar))) /\ (Valid(jar) => PairOf(jar) # 0)
    BY SentIs, JarIs DEF WebInv
  <2>2. PICK p : p = IF n = 0 THEN "/login" ELSE IF Alive(n) THEN "/chat" ELSE "clear-and-login"
    OBVIOUS
  <2>3. IF Valid(jar) THEN p = "/chat" ELSE p \in {"/login", "clear-and-login"}
    BY <2>1, <2>2
  <2> HIDE DEF n
  <2>4. r = Redirect(p, "")
    BY <1>0, <2>2 DEF n
  <2> QED
    BY <2>3, <2>4 DEF Redirect, Reply, ReplyType, WayBack, App
<1>3. After(r, jar) = jar
  BY <1>2 DEF After
<1>4. tab[t].pc = "asked" /\ tab[t].path = "/" /\ tab[t].kind # "logout" /\ undisturbed' \in BOOLEAN
  BY <1>1, AtIs, AskedIs DEF PUBLIC_PREFIXES
<1>5. Few(t, r, jar)
  <2>1. Rank("/", jar) = 5 /\ Rank("clear-and-login", jar) = 1
        /\ Rank("/chat", jar) \in {1, 2, 4} /\ (~Valid(jar) => Rank("/login", jar) = 0)
    BY DEF Rank, AppRank, App
  <2>2. Rank(r.to, jar) \in {0, 1, 2, 4} /\ Rank(tab[t].path, jar) = 5
    BY <1>2, <1>4, <2>1
  <2>3. 1 + Rank(r.to, jar) <= Rank(tab[t].path, jar)
    BY <2>2
  <2> QED
    BY <2>3 DEF Few
<1>6. undisturbed' => Reaches(t, r, jar)
  <2>1. undisturbed' /\ tab[t].kind = "call" => ~tab[t].due
    BY <1>1, AtIs
  <2>2. ASSUME undisturbed', tab[t].kind = "visit", NEW c, Holds(c, tab[t], r)
        PROVE  Bound(c, r.to, r.next, jar)
    <3>1. Bound(tab[t], "/", tab[t].next, jar)
      BY <1>1, <2>2, AtIs
    <3>2. Signed(jar, tab[t].abroad) => Valid(jar)
      BY Barren DEF WebInv
    <3>3. Had(c) <=> Had(tab[t])
      BY <1>2, <1>4, <2>2, AskedIs DEF Holds, Had
    <3>4. c.want = tab[t].want /\ c.abroad = tab[t].abroad
      BY <2>2 DEF Holds
    <3>5. CASE Had(tab[t])
      BY <1>2, <3>1, <3>2, <3>3, <3>4, <3>5 DEF Bound, App
    <3>6. CASE ~Had(tab[t])
      <4>1. c.want = "/" /\ Expected(c.want) = "/chat"
        BY <3>1, <3>4, <3>6 DEF Bound, Expected, App
      <4> QED
        BY <1>2, <3>1, <3>3, <3>4, <3>6, <4>1 DEF Bound, App, GoodNext
    <3> QED
      BY <3>5, <3>6
  <2>3. r.to # ""
    BY <1>2
  <2> QED
    BY <2>1, <2>2, <2>3 DEF Reaches
<1> QED
  BY <1>1, <1>2, <1>3, <1>4, <1>5, <1>6, StillAnswer

LEMMA LoginPageKeeps ==
  ASSUME WebInv, NEW t \in Tab, LoginPage(t) PROVE WebInv'
<1>0. PICK r : r = [Show("/login") EXCEPT !.next = tab[t].next]
  OBVIOUS
<1>1. /\ At(t, "/login") /\ Respond(t, r)
      /\ UNCHANGED <<now, pairs, revokedPairs, jar, undisturbed>>
  BY <1>0 DEF LoginPage
<1>2. /\ tab[t].pc = "asked" /\ tab[t].path = "/login" /\ tab[t].kind # "logout"
      /\ undisturbed' \in BOOLEAN /\ tab[t].next \in WayBack /\ ~Valid(jar)
  BY <1>1, AtIs, AskedIs DEF PUBLIC_PREFIXES, PUBLIC_PATHS
<1>3. /\ r \in ReplyType /\ r.effect = "keep" /\ r.pair = 0 /\ r.next = tab[t].next
      /\ r.to = "" /\ r.shows = "/login"
  BY <1>0, <1>2 DEF Show, Reply, ReplyType, WayBack, App
<1>4. After(r, jar) = jar /\ Few(t, r, jar)
  BY <1>3 DEF After, Few
<1>5. undisturbed' => Reaches(t, r, jar)
  <2>1. undisturbed' /\ tab[t].kind = "call" => ~tab[t].due
    BY <1>1, AtIs
  <2>2. ASSUME undisturbed', tab[t].kind = "visit" PROVE ~Had(tab[t]) /\ GoodNext(r.next, tab[t].want)
    <3>1. Bound(tab[t], "/login", tab[t].next, jar)
      BY <1>1, <2>2, AtIs
    <3>2. \A abroad : ~Signed(jar, abroad)
      BY <1>2, Barren DEF WebInv
    <3> QED
      BY <1>3, <3>1, <3>2 DEF Bound
  <2> QED
    BY <1>3, <2>1, <2>2 DEF Reaches
<1>6. "/api/chat" \in {r.next, r.to} => tab[t].kind = "call"
  BY <1>1, <1>3, AtIs
<1> QED
  BY <1>1, <1>2, <1>3, <1>4, <1>5, <1>6, StillAnswer

LEMMA ClearAndLoginKeeps ==
  ASSUME WebInv, NEW t \in Tab, ClearAndLogin(t) PROVE WebInv'
<1>0. PICK r : r = With("clear", Redirect("/login", tab[t].next))
  OBVIOUS
<1>1. /\ At(t, "clear-and-login") /\ Respond(t, r)
      /\ UNCHANGED <<now, pairs, revokedPairs, jar, undisturbed>>
  BY <1>0 DEF ClearAndLogin
<1>2. /\ tab[t].pc = "asked" /\ tab[t].path = "clear-and-login" /\ tab[t].kind # "logout"
      /\ undisturbed' \in BOOLEAN /\ tab[t].next \in WayBack
  BY <1>1, AtIs, AskedIs
<1>3. /\ r \in ReplyType /\ r.effect = "clear" /\ r.pair = 0 /\ r.next = tab[t].next
      /\ r.to = "/login"
  BY <1>0, <1>2 DEF With, Redirect, Reply, ReplyType
<1>4. PICK j : j = Empty /\ After(r, jar) = j /\ ~Valid(j) /\ \A abroad : ~Signed(j, abroad)
  BY <1>3, Barren DEF After, WebInv
<1>5. Few(t, r, j)
  <2>1. Rank("/login", j) = 0 /\ Rank("clear-and-login", jar) = 1
    BY <1>4 DEF Rank, App
  <2> QED
    BY <1>2, <1>3, <2>1 DEF Few
<1>6. undisturbed' => Reaches(t, r, j)
  <2>1. undisturbed' /\ tab[t].kind = "call" => ~tab[t].due
    BY <1>1, AtIs
  <2>2. ASSUME undisturbed', tab[t].kind = "visit", NEW c, Holds(c, tab[t], r)
        PROVE  Bound(c, r.to, r.next, j)
    <3>1. Bound(tab[t], "clear-and-login", tab[t].next, jar)
      BY <1>1, <2>2, AtIs
    <3>2. ~Had(tab[t]) /\ GoodNext(r.next, tab[t].want)
      BY <1>3, <3>1 DEF Bound, App
    <3>3. ~Had(c) /\ c.want = tab[t].want
      BY <1>3, <2>2, <3>2 DEF Holds, Had
    <3> QED
      BY <1>3, <1>4, <3>2, <3>3 DEF Bound, App
  <2> QED
    BY <1>3, <2>1, <2>2 DEF Reaches
<1>7. "/api/chat" \in {r.next, r.to} => tab[t].kind = "call"
  BY <1>1, <1>3, AtIs
<1> QED
  BY <1>1, <1>2, <1>3, <1>4, <1>5, <1>6, <1>7, StillAnswer

LEMMA requireUserKeeps ==
  ASSUME WebInv, NEW t \in Tab, requireUser(t) PROVE WebInv'
<1>1. PICK path \in App :
         /\ At(t, path) /\ UNCHANGED <<now, pairs, revokedPairs, jar>>
         /\ \/ /\ classifySession(Sent(t)) = "valid"
               /\ Respond(t, Show(path)) /\ UNCHANGED undisturbed
            \/ /\ classifySession(Sent(t)) = "valid"
               /\ Respond(t, Redirect("clear-and-login", path)) /\ undisturbed' = FALSE
            \/ /\ classifySession(Sent(t)) = "needs_refresh"
               /\ Respond(t, Redirect("refresh-and-back", path)) /\ UNCHANGED undisturbed
            \/ /\ classifySession(Sent(t)) = "anonymous"
               /\ Respond(t, Redirect("clear-and-login", path)) /\ UNCHANGED undisturbed
  BY DEF requireUser
<1>2. /\ tab[t].pc = "asked" /\ tab[t].path = path /\ tab[t].kind # "logout" /\ Valid(jar)
      /\ undisturbed \in BOOLEAN /\ path \in {"/chat", "/wiki"}
  <2>1. path \in {"/chat", "/wiki"}
    BY DEF App
  <2> QED
    BY <1>1, <2>1, AtIs, AskedIs DEF PUBLIC_PREFIXES, PUBLIC_PATHS
<1>3. /\ Valid(jar) <=> Alive(PairOf(jar))
      /\ classifySession(Sent(t)) = "valid" => Usable(PairOf(jar))
      /\ classifySession(Sent(t)) = "needs_refresh" => ~Usable(PairOf(jar))
      /\ classifySession(Sent(t)) # "anonymous"
  BY <1>2, classifyIs, JarIs DEF WebInv
<1>4. /\ undisturbed /\ tab[t].kind = "call" => ~tab[t].due
      /\ undisturbed /\ tab[t].kind = "visit" =>
            Bound(tab[t], path, tab[t].next, jar) /\ path = Expected(tab[t].want)
  BY <1>1, <1>2, AtIs DEF Bound
<1>5. CASE classifySession(Sent(t)) = "valid" /\ Respond(t, Show(path)) /\ UNCHANGED undisturbed
  <2>0. PICK r : r = Show(path)
    OBVIOUS
  <2>1. /\ r \in ReplyType /\ r.effect = "keep" /\ r.pair = 0 /\ r.next = "" /\ r.to = ""
        /\ r.shows = path
    BY <2>0 DEF Show, Reply, ReplyType, WayBack
  <2>2. After(r, jar) = jar /\ Few(t, r, jar)
    BY <2>1 DEF After, Few
  <2>3. undisturbed /\ tab[t].kind = "visit" => Had(tab[t])
    BY <1>3, <1>4, <1>5 DEF Bound, Signed
  <2>4. undisturbed' => Reaches(t, r, jar)
    BY <1>4, <1>5, <2>1, <2>3 DEF Reaches
  <2> QED
    BY <1>1, <1>2, <1>5, <2>0, <2>1, <2>2, <2>4, StillAnswer
<1>6. CASE /\ classifySession(Sent(t)) = "valid"
           /\ Respond(t, Redirect("clear-and-login", path)) /\ undisturbed' = FALSE
  <2>0. PICK r : r = Redirect("clear-and-login", path)
    OBVIOUS
  <2>1. /\ r \in ReplyType /\ r.effect = "keep" /\ r.pair = 0 /\ r.next = path
        /\ r.to = "clear-and-login"
    BY <2>0 DEF Redirect, Reply, ReplyType, WayBack
  <2>2. After(r, jar) = jar
    BY <2>1 DEF After
  <2>3. Few(t, r, jar)
    <3>1. Rank("clear-and-login", jar) = 1 /\ Rank(path, jar) \in {2, 4}
      BY <1>2 DEF Rank, AppRank, App
    <3>2. 1 + Rank(r.to, jar) <= Rank(tab[t].path, jar)
      BY <1>2, <2>1, <3>1
    <3> QED
      BY <3>2 DEF Few
  <2> QED
    BY <1>1, <1>2, <1>6, <2>0, <2>1, <2>2, <2>3, StillAnswer
<1>7. CASE /\ classifySession(Sent(t)) = "needs_refresh"
           /\ Respond(t, Redirect("refresh-and-back", path)) /\ UNCHANGED undisturbed
  <2>0. PICK r : r = Redirect("refresh-and-back", path)
    OBVIOUS
  <2>1. /\ r \in ReplyType /\ r.effect = "keep" /\ r.pair = 0 /\ r.next = path
        /\ r.to = "refresh-and-back"
    BY <2>0 DEF Redirect, Reply, ReplyType, WayBack
  <2>2. After(r, jar) = jar
    BY <2>1 DEF After
  <2>3. Few(t, r, jar)
    <3>1. Rank("refresh-and-back", jar) = 3 /\ Rank(path, jar) = 4
      BY <1>2, <1>3, <1>7 DEF Rank, AppRank, App
    <3>2. 1 + Rank(r.to, jar) <= Rank(tab[t].path, jar)
      BY <1>2, <2>1, <3>1
    <3> QED
      BY <3>2 DEF Few
  <2>4. ASSUME undisturbed, tab[t].kind = "visit", NEW c, Holds(c, tab[t], r)
        PROVE  Bound(c, r.to, r.next, jar)
    <3>1. Bound(tab[t], path, tab[t].next, jar) /\ path = Expected(tab[t].want)
      BY <1>4, <2>4
    <3>2. c.want = tab[t].want /\ c.abroad = tab[t].abroad /\ (Had(c) <=> Had(tab[t]))
      BY <1>2, <2>1, <2>4, AskedIs DEF Holds, Had
    <3> QED
      BY <2>1, <3>1, <3>2 DEF Bound, App
  <2>5. undisturbed' => Reaches(t, r, jar)
    BY <1>4, <1>7, <2>1, <2>4 DEF Reaches
  <2> QED
    BY <1>1, <1>2, <1>7, <2>0, <2>1, <2>2, <2>3, <2>5, StillAnswer
<1> QED
  BY <1>1, <1>3, <1>5, <1>6, <1>7

Proper(t, r) ==
    /\ "/api/chat" \in {r.next, r.to} => tab[t].kind = "call"
    /\ tab[t].kind = "visit" /\ r.to = "" => r.shows \in App \cup {"/login"}

\* An answer that deletes the cookies, for a user who was disturbed.
LEMMA ClearAnswer ==
  ASSUME WebInv, NEW t \in Tab, tab[t].pc = "asked", tab[t].kind # "logout",
         NEW r \in ReplyType, Respond(t, r), r.effect = "clear", r.pair = 0,
         Grows, undisturbed' = FALSE, Few(t, r, Empty), Proper(t, r)
  PROVE  WebInv'
<1>1. After(r, jar) = Empty /\ After(r, jar)' = Empty
  BY DEF After
<1>2. Rank(r.to, Empty)' = Rank(r.to, Empty)
  <2>1. Empty.at \in 0..Len(pairs) /\ Empty.legacy \in 0..Len(pairs)
    <3>1. PairsOk
      BY DEF WebInv, WebTypes
    <3>2. Len(pairs) \in Nat
      BY <3>1, LenIs
    <3>3. 0 \in 0..Len(pairs)
      BY <3>2
    <3> QED
      BY <3>3 DEF Empty
  <2> QED
    BY <2>1, GrowsKeeps DEF WebInv
<1>3. Fits(t, r)
  <2>1. r.to # "" => 1 + Rank(r.to, After(r, jar))' <= Rank(tab[t].path, jar)
    BY <1>1, <1>2 DEF Few
  <2> QED
    BY <2>1 DEF Fits, Proper
<1>4. CalmFits(t, r)
  BY DEF CalmFits
<1> QED
  BY <1>3, <1>4, AnswerKeeps

\* An answer with a new pair.
Rewards(t, r) ==
    /\ tab[t].kind = "visit" => r.to # ""
    /\ r.to # "" => r.to \in App \cup {"/api/chat"} /\ Rank(tab[t].path, jar) \in {3, 5}
    /\ undisturbed /\ tab[t].kind = "call" /\ tab[t].due => r.to = "" /\ r.shows = "data"
    /\ undisturbed /\ tab[t].kind = "visit" => r.to = Expected(tab[t].want)
LEMMA GrantAnswer ==
  ASSUME WebInv, NEW t \in Tab, tab[t].pc = "asked", tab[t].kind # "logout",
         NEW r \in ReplyType, Respond(t, r), r.effect = "set", r.pair = Len(pairs) + 1,
         IssuePair, Len(pairs) < MaxPairs, UNCHANGED <<now, jar, undisturbed>>,
         revokedPairs' \subseteq 1..Len(pairs),
         Proper(t, r), Rewards(t, r)
  PROVE  WebInv'
<1>1. PICK m : m = Len(pairs) + 1
  OBVIOUS
<1>2. Grows /\ Len(pairs') = m /\ m \in 1..Len(pairs') /\ Usable(m)' /\ Alive(m)'
  BY <1>1, IssueGrows DEF WebInv
<1>3. PICK j : j = [at |-> m, rt |-> m, legacy |-> 0]
  OBVIOUS
<1>4. r.pair = m /\ m \notin 1..Len(pairs) /\ 0 \notin 1..Len(pairs) /\ m # 0 /\ m <= Len(pairs')
  <2>1. PairsOk
    BY DEF WebInv, WebTypes
  <2>2. Len(pairs) \in Nat
    BY <2>1, LenIs
  <2>3. m \in Nat /\ m > Len(pairs)
    BY <1>1, <2>2
  <2>4. r.pair = m /\ Len(pairs') = m
    BY <1>1, <1>2
  <2> QED
    BY <2>2, <2>3, <2>4
<1>5. After(r, jar) = j /\ After(r, jar)' = j
  BY <1>3, <1>4 DEF After
<1>6. Valid(j)' /\ PairOf(j)' = m /\ \A abroad : Signed(j, abroad)'
  <2>1. j.at = m
    BY <1>3
  <2>2. Valid(j)'
    BY <1>2, <2>1 DEF Valid, Alive
  <2>3. PairOf(j)' = m
    BY <1>2, <2>1 DEF PairOf, Alive
  <2>4. Usable(PairOf(j))'
    BY <1>2, <2>3 DEF Usable
  <2> QED
    BY <2>2, <2>3, <2>4 DEF Signed
<1>7. Honest(j)'
  <2>2. j.rt = m /\ j.legacy = 0
    BY <1>3
  <2> QED
    BY <1>4, <2>2 DEF Honest
<1>8. Fits(t, r)
  <2>1. r.to # "" => 1 + Rank(r.to, After(r, jar))' <= Rank(tab[t].path, jar)
    <3>1. ASSUME r.to # "" PROVE Rank(r.to, j)' \in {0, 2}
      <4>1. Usable(PairOf(j))'
        BY <1>2, <1>6 DEF Usable
      <4>2. r.to \in App \/ r.to = "/api/chat"
        BY <3>1 DEF Rewards
      <4> QED
        BY <1>6, <4>1, <4>2 DEF Rank, AppRank, App
    <3>2. r.to # "" => Rank(tab[t].path, jar) \in {3, 5}
      BY DEF Rewards
    <3>3. Rank(r.to, After(r, jar))' = Rank(r.to, j)'
      <4>1. jar' = jar
        OBVIOUS
      <4> QED
        BY <1>5, <4>1
    <3>4. ASSUME r.to # "" PROVE 1 + Rank(r.to, After(r, jar))' <= Rank(tab[t].path, jar)
      <4>1. Rank(r.to, After(r, jar))' \in {0, 2} /\ Rank(tab[t].path, jar) \in {3, 5}
        BY <3>1, <3>2, <3>3, <3>4
      <4>2. ASSUME NEW a \in {0, 2}, NEW b \in {3, 5} PROVE 1 + a <= b
        OBVIOUS
      <4> QED
        BY <4>1, <4>2
    <3> QED
      BY <3>4
  <2>2. tab[t].kind = "logout" => r.to = ""
    OBVIOUS
  <2>3. r.pair # 0 /\ r.pair <= Len(pairs')
    BY <1>2, <1>4
  <2>4. Proper(t, r)
    OBVIOUS
  <2> QED
    BY <2>1, <2>2, <2>3, <2>4 DEF Fits, Proper
<1>9. CalmFits(t, r)
  <2>1. ASSUME undisturbed, tab[t].kind = "visit", NEW c, Holds(c, tab[t], r)
        PROVE  Bound(c, r.to, r.next, j)'
    <3>1. Had(c) /\ c.want = tab[t].want /\ Signed(j, c.abroad)'
      BY <1>6, <2>1 DEF Holds, Had
    <3>2. r.to \in App /\ r.to = Expected(c.want)
      BY <2>1, <3>1 DEF Expected, App, Rewards
    <3> QED
      BY <3>1, <3>2 DEF Bound, App
  <2>2. (undisturbed' <=> undisturbed) /\ jar' = jar
    OBVIOUS
  <2> QED
    <3>1. undisturbed' => undisturbed /\ Honest(j)'
      BY <1>7, <2>2
    <3>2. undisturbed' /\ tab[t].kind = "call" /\ tab[t].due => r.to = "" /\ r.shows = "data"
      BY <2>2 DEF Rewards
    <3>3. undisturbed' /\ tab[t].kind = "visit" =>
            IF r.to # "" THEN \A c : Holds(c, tab[t], r) => Bound(c, r.to, r.next, j)'
            ELSE IF Had(tab[t]) \/ r.effect = "set" THEN r.shows = Expected(tab[t].want)
            ELSE r.shows = "/login" /\ GoodNext(r.next, tab[t].want)
      BY <2>1, <2>2 DEF Rewards
    <3> QED
      BY <1>5, <2>2, <3>1, <3>2, <3>3, CalmAnswer
<1>10. undisturbed' \in BOOLEAN
  BY AskedIs
<1> QED
  BY <1>2, <1>8, <1>9, <1>10, AnswerKeeps

\* What getAccessTokenWithRefresh comes to for a request that brings the refresh
\* token: the session is used, or there is none, or something failed, or the
\* tokens were rotated.
LEMMA RefreshIs ==
  ASSUME WebInv, NEW t \in Tab, tab[t].pc = "asked", tab[t].path \in REFRESH_COOKIE_PATH,
         NEW ok, NEW no, getAccessTokenWithRefresh(t, ok, no), UNCHANGED <<now, jar>>
  PROVE  \/ /\ Usable(PairOf(jar)) /\ Respond(t, ok)
            /\ UNCHANGED <<pairs, revokedPairs, undisturbed>>
         \/ /\ ~Signed(jar, tab[t].abroad)
            /\ Respond(t, no) \/ Respond(t, With("clear", no))
            /\ UNCHANGED <<pairs, revokedPairs, undisturbed>>
         \/ Respond(t, With("clear", no)) /\ Grows /\ undisturbed' = FALSE /\ Valid(jar)
         \/ /\ Signed(jar, tab[t].abroad) /\ Respond(t, GrantPair(Len(pairs) + 1, ok))
            /\ IssuePair /\ Len(pairs) < MaxPairs /\ UNCHANGED undisturbed
            /\ revokedPairs' \subseteq 1..Len(pairs) /\ Valid(jar)
<1> DEFINE n == getSession(Sent(t)).pair
           rt == getSession(Sent(t)).refresh_token
<1>1. /\ n = PairOf(jar) /\ n \in 0..Len(pairs)
      /\ rt = IF ~Alive(jar.at) THEN jar.legacy ELSE IF ~tab[t].abroad THEN jar.at ELSE 0
      /\ Valid(jar) <=> Alive(n)
      /\ Usable(n) => Alive(n)
      /\ Valid(jar) => n # 0
      /\ Len(pairs) \in Nat /\ Len(pairs) >= 1
  BY SentIs, JarIs, LenIs DEF WebInv, WebTypes
<1>2. /\ jar.rt = jar.at /\ jar.legacy \in {0, 1} /\ (jar.at # 0 => jar.legacy = 0)
      /\ jar.at \in 0..Len(pairs) /\ tab[t].abroad \in BOOLEAN
      /\ revokedPairs \subseteq 1..Len(pairs) /\ DOMAIN pairs = 1..Len(pairs)
  <2>1. pairs \in Seq([ends : Nat, until : Nat])
    BY DEF WebInv, WebTypes, PairsOk
  <2>2. DOMAIN pairs = 1..Len(pairs)
    BY <2>1
  <2>3. tab[t] \in TabType
    BY AskedIs
  <2> QED
    BY <2>2, <2>3 DEF WebInv, WebTypes, JarOk, PairsOk, TabType
<1>3. undisturbed => rt \notin revokedPairs
  <2>1. undisturbed => Honest(jar)
    BY AskedIs
  <2>2. 0 \notin revokedPairs
    BY <1>2
  <2> QED
    BY <1>1, <1>2, <2>1, <2>2 DEF Honest
<1>4. Alive(n) => (Signed(jar, tab[t].abroad) <=> Usable(n) \/ rt # 0)
  <2>1. Alive(jar.at) => jar.at # 0 /\ n = jar.at
    BY <1>1 DEF Alive, PairOf
  <2>2. ~Alive(jar.at) => n = jar.legacy
    BY <1>1 DEF PairOf
  <2>3. Alive(n) /\ ~Alive(jar.at) => n # 0 /\ jar.legacy # 0 /\ jar.at = 0 /\ rt # 0
    BY <1>1, <1>2, <2>2 DEF Alive
  <2> QED
    BY <1>1, <1>2, <2>1, <2>3 DEF Signed
<1>5. ~Alive(n) => ~Signed(jar, tab[t].abroad)
  BY <1>1 DEF Signed
<1>6. rt # 0 => rt \in 1..Len(pairs)
  BY <1>1, <1>2
<1>7. \/ n = 0 /\ Respond(t, no) /\ UNCHANGED <<pairs, revokedPairs, undisturbed>>
      \/ Usable(n) /\ Respond(t, ok) /\ UNCHANGED <<pairs, revokedPairs, undisturbed>>
      \/ ~Alive(n) /\ Respond(t, With("clear", no)) /\ UNCHANGED <<pairs, revokedPairs, undisturbed>>
      \/ /\ Alive(n) /\ ~Usable(n) /\ rt = 0
         /\ Respond(t, no) /\ UNCHANGED <<pairs, revokedPairs, undisturbed>>
      \/ /\ Alive(n) /\ ~Usable(n) /\ rt # 0
         /\ \/ /\ rt \notin revokedPairs /\ Len(pairs) < MaxPairs
               /\ revokedPairs' = revokedPairs \cup {rt} /\ IssuePair
               /\ \/ Respond(t, GrantPair(Len(pairs) + 1, ok)) /\ UNCHANGED undisturbed
                  \/ Respond(t, With("clear", no)) /\ undisturbed' = FALSE
            \/ /\ rt \in revokedPairs /\ revokedPairs' = DOMAIN pairs
               /\ Respond(t, With("clear", no)) /\ UNCHANGED <<pairs, undisturbed>>
            \/ /\ Respond(t, With("clear", no)) /\ undisturbed' = FALSE
               /\ UNCHANGED <<pairs, revokedPairs>>
  BY DEF getAccessTokenWithRefresh
<1> HIDE DEF n, rt
<1>8. n = 0 => ~Alive(n)
  BY DEF Alive
<1>9. CASE n = 0 /\ Respond(t, no) /\ UNCHANGED <<pairs, revokedPairs, undisturbed>>
  BY <1>5, <1>8, <1>9
<1>10. CASE Usable(n) /\ Respond(t, ok) /\ UNCHANGED <<pairs, revokedPairs, undisturbed>>
  BY <1>1, <1>10
<1>11. CASE ~Alive(n) /\ Respond(t, With("clear", no))
            /\ UNCHANGED <<pairs, revokedPairs, undisturbed>>
  BY <1>5, <1>11
<1>12. CASE /\ Alive(n) /\ ~Usable(n) /\ rt = 0
            /\ Respond(t, no) /\ UNCHANGED <<pairs, revokedPairs, undisturbed>>
  BY <1>4, <1>12
<1>13. CASE /\ Alive(n) /\ ~Usable(n) /\ rt # 0
            /\ rt \notin revokedPairs /\ Len(pairs) < MaxPairs
            /\ revokedPairs' = revokedPairs \cup {rt} /\ IssuePair
            /\ \/ Respond(t, GrantPair(Len(pairs) + 1, ok)) /\ UNCHANGED undisturbed
               \/ Respond(t, With("clear", no)) /\ undisturbed' = FALSE
  <2>1. revokedPairs' \subseteq 1..Len(pairs)
    BY <1>2, <1>6, <1>13
  <2>2. Grows
    <3>1. PICK m : m = Len(pairs) + 1
      OBVIOUS
    <3> QED
      BY <1>13, <2>1, <3>1, IssueGrows DEF WebInv
  <2> QED
    BY <1>1, <1>4, <1>13, <2>1, <2>2
<1>14. CASE /\ Alive(n) /\ rt \in revokedPairs /\ revokedPairs' = DOMAIN pairs
            /\ Respond(t, With("clear", no)) /\ UNCHANGED <<pairs, undisturbed>>
  <2>1. undisturbed' = FALSE
    BY <1>3, <1>14, AskedIs
  <2>2. Grows
    BY <1>1, <1>2, <1>14 DEF Grows, WebInv, WebTypes, PairsOk
  <2> QED
    BY <1>1, <1>14, <2>1, <2>2
<1>15. CASE /\ Alive(n) /\ Respond(t, With("clear", no)) /\ undisturbed' = FALSE
            /\ UNCHANGED <<pairs, revokedPairs>>
  BY <1>1, <1>15, StillIs
<1> QED
  BY <1>7, <1>9, <1>10, <1>11, <1>12, <1>13, <1>14, <1>15

LEMMA BridgeKeeps ==
  ASSUME WebInv, NEW t \in Tab, RefreshAndBack(t) PROVE WebInv'
<1>12. PICK ok : ok = Redirect(IF tab[t].next = "" THEN "/chat" ELSE tab[t].next, "")
  OBVIOUS
<1>13. PICK no : no = With("clear", Redirect("/login", tab[t].next))
  OBVIOUS
<1>0. /\ ok = Redirect(IF tab[t].next = "" THEN "/chat" ELSE tab[t].next, "")
      /\ no = With("clear", Redirect("/login", tab[t].next))
  BY <1>12, <1>13
<1>1. /\ At(t, "refresh-and-back") /\ UNCHANGED <<now, jar>>
      /\ getAccessTokenWithRefresh(t, ok, no)
  BY <1>0 DEF RefreshAndBack
<1>2. /\ tab[t].pc = "asked" /\ tab[t].path = "refresh-and-back" /\ tab[t].kind # "logout"
      /\ undisturbed \in BOOLEAN /\ tab[t].next \in WayBack
      /\ tab[t].next = "/api/chat" => tab[t].kind = "call"
      /\ undisturbed /\ tab[t].kind = "call" => ~tab[t].due
      /\ undisturbed /\ tab[t].kind = "visit" => Bound(tab[t], "refresh-and-back", tab[t].next, jar)
  BY <1>1, AtIs, AskedIs
<1>3. /\ ok \in ReplyType /\ ok.effect = "keep" /\ ok.pair = 0 /\ ok.next = ""
      /\ ok.to = (IF tab[t].next = "" THEN "/chat" ELSE tab[t].next)
      /\ ok.to \in App \cup {"/api/chat"} /\ ok.to # ""
      /\ ok.to = "/api/chat" => tab[t].kind = "call"
  <2>1. PICK p : p = IF tab[t].next = "" THEN "/chat" ELSE tab[t].next
    OBVIOUS
  <2>2. p \in App \cup {"/api/chat"} /\ p # "" /\ (p = "/api/chat" => tab[t].kind = "call")
    BY <1>2, <2>1 DEF WayBack, App
  <2>3. ok = Redirect(p, "")
    BY <1>0, <2>1
  <2>4. ok \in ReplyType /\ ok.effect = "keep" /\ ok.pair = 0 /\ ok.next = "" /\ ok.to = p
    BY <2>2, <2>3 DEF Redirect, Reply, ReplyType, WayBack, App
  <2> QED
    BY <2>1, <2>2, <2>4
<1>4. /\ no \in ReplyType /\ no.effect = "clear" /\ no.pair = 0 /\ no.next = tab[t].next
      /\ no.to = "/login" /\ With("clear", no) = no
  BY <1>0, <1>2 DEF With, Redirect, Reply, ReplyType
<1>5. /\ Proper(t, no) /\ Proper(t, ok)
      /\ Rank("/login", Empty) = 0 /\ Rank("refresh-and-back", jar) \in {1, 3}
      /\ Valid(jar) => Rank("refresh-and-back", jar) = 3
  BY <1>2, <1>3, <1>4, Barren DEF Proper, Rank, App, WebInv
<1>6. Few(t, no, Empty)
  BY <1>2, <1>4, <1>5 DEF Few
<1>7. ASSUME undisturbed, tab[t].kind = "visit"
      PROVE  /\ ok.to = Expected(tab[t].want) /\ GoodNext(no.next, tab[t].want)
             /\ Had(tab[t]) <=> Signed(jar, tab[t].abroad)
  <2>1. tab[t].next = Expected(tab[t].want) /\ (Had(tab[t]) <=> Signed(jar, tab[t].abroad))
    BY <1>2, <1>7 DEF Bound
  <2> QED
    BY <1>3, <1>4, <2>1 DEF Expected, App, GoodNext
<1>8. CASE /\ Usable(PairOf(jar)) /\ Respond(t, ok)
           /\ UNCHANGED <<pairs, revokedPairs, undisturbed>>
  <2>1. After(ok, jar) = jar
    BY <1>3 DEF After
  <2>2. Few(t, ok, jar)
    <3>1. Valid(jar)
      BY <1>8, JarIs DEF WebInv
    <3>2. ASSUME NEW path \in App \cup {"/api/chat"} PROVE Rank(path, jar) \in {0, 2}
      BY <1>8, <3>1 DEF Rank, AppRank, App
    <3>3. Rank(ok.to, jar) \in {0, 2} /\ Rank(tab[t].path, jar) = 3
      BY <1>2, <1>3, <1>5, <3>1, <3>2
    <3>4. 1 + Rank(ok.to, jar) <= Rank(tab[t].path, jar)
      BY <3>3
    <3> QED
      BY <3>4 DEF Few
  <2>3. undisturbed' => Reaches(t, ok, jar)
    <3>1. ASSUME undisturbed, tab[t].kind = "visit", NEW c, Holds(c, tab[t], ok)
          PROVE  Bound(c, ok.to, ok.next, jar)
      <4>1. Signed(jar, tab[t].abroad)
        BY <1>8 DEF Signed
      <4>2. Had(c) /\ c.want = tab[t].want /\ c.abroad = tab[t].abroad
        BY <1>2, <1>3, <1>7, <3>1, <4>1, AskedIs DEF Holds, Had
      <4>3. ok.to \in App
        BY <1>3, <3>1
      <4> QED
        BY <1>7, <3>1, <4>1, <4>2, <4>3 DEF Bound, App
    <3> QED
      BY <1>2, <1>3, <1>8, <3>1 DEF Reaches
  <2> QED
    BY <1>1, <1>2, <1>3, <1>5, <1>8, <2>1, <2>2, <2>3, StillAnswer DEF Proper
<1>9. CASE /\ ~Signed(jar, tab[t].abroad) /\ Respond(t, no)
           /\ UNCHANGED <<pairs, revokedPairs, undisturbed>>
  <2>1. After(no, jar) = Empty
    BY <1>4 DEF After
  <2>3. undisturbed' => Reaches(t, no, Empty)
    <3>1. ASSUME undisturbed, tab[t].kind = "visit", NEW c, Holds(c, tab[t], no)
          PROVE  Bound(c, no.to, no.next, Empty)
      <4>1. ~Had(c) /\ c.want = tab[t].want /\ GoodNext(no.next, c.want)
        BY <1>4, <1>7, <1>9, <3>1 DEF Holds, Had
      <4>2. ~Valid(Empty) /\ ~Signed(Empty, c.abroad)
        BY Barren DEF WebInv
      <4> QED
        BY <1>4, <4>1, <4>2 DEF Bound, App
    <3> QED
      BY <1>2, <1>4, <1>9, <3>1 DEF Reaches
  <2> QED
    BY <1>1, <1>2, <1>4, <1>5, <1>6, <1>9, <2>1, <2>3, StillAnswer DEF Proper
<1>10. CASE Respond(t, no) /\ Grows /\ undisturbed' = FALSE
  BY <1>2, <1>4, <1>5, <1>6, <1>10, ClearAnswer
<1>11. CASE /\ Signed(jar, tab[t].abroad) /\ Respond(t, GrantPair(Len(pairs) + 1, ok))
            /\ IssuePair /\ Len(pairs) < MaxPairs /\ UNCHANGED undisturbed
            /\ revokedPairs' \subseteq 1..Len(pairs) /\ Valid(jar)
  <2>0. PICK r : r = GrantPair(Len(pairs) + 1, ok)
    OBVIOUS
  <2>1. /\ r \in ReplyType /\ r.effect = "set" /\ r.pair = Len(pairs) + 1 /\ r.next = ""
        /\ r.to = ok.to
    <3>1. Len(pairs) + 1 \in Nat
      BY LenIs DEF WebInv, WebTypes
    <3> QED
      BY <1>3, <2>0, <3>1 DEF GrantPair, ReplyType
  <2>2. Proper(t, r)
    BY <1>3, <2>1 DEF Proper
  <2>3. Rewards(t, r)
    BY <1>2, <1>3, <1>5, <1>7, <1>11, <2>1 DEF Rewards
  <2> QED
    BY <1>1, <1>2, <1>11, <2>0, <2>1, <2>2, <2>3, GrantAnswer
<1>14. tab[t].path \in REFRESH_COOKIE_PATH
  BY <1>2 DEF REFRESH_COOKIE_PATH, PUBLIC_PREFIXES
<1> QED
  BY <1>1, <1>2, <1>4, <1>8, <1>9, <1>10, <1>11, <1>14, RefreshIs

LEMMA withAuthKeeps ==
  ASSUME WebInv, NEW t \in Tab, withAuth(t) PROVE WebInv'
<1>0. PICK ok, no, clear : ok = Show("data") /\ no = Show("401") /\ clear = With("clear", no)
  OBVIOUS
<1>1. /\ At(t, "/api/chat") /\ UNCHANGED <<now, jar>>
      /\ getAccessTokenWithRefresh(t, ok, no)
  BY <1>0 DEF withAuth
<1>2. /\ tab[t].pc = "asked" /\ tab[t].path = "/api/chat" /\ tab[t].kind = "call"
      /\ undisturbed \in BOOLEAN /\ Valid(jar) /\ ~tab[t].abroad
  <2>1. "/api/chat" \notin PUBLIC_PREFIXES \cup PUBLIC_PATHS \cup {"/"}
    BY DEF PUBLIC_PREFIXES, PUBLIC_PATHS
  <2>2. tab[t].pc = "asked" /\ tab[t].path = "/api/chat" /\ tab[t].kind = "call" /\ Valid(jar)
    BY <1>1, <2>1, AtIs
  <2> QED
    BY <2>2, AskedIs DEF Shape
<1>3. /\ ok \in ReplyType /\ ok.effect = "keep" /\ ok.pair = 0 /\ ok.next = ""
      /\ ok.to = "" /\ ok.shows = "data"
      /\ clear \in ReplyType /\ clear.effect = "clear" /\ clear.pair = 0 /\ clear.next = ""
      /\ clear.to = "" /\ clear.shows = "401"
  BY <1>0 DEF Show, With, Reply, ReplyType, WayBack
<1>4. Proper(t, ok) /\ Proper(t, clear) /\ Few(t, clear, Empty) /\ Few(t, ok, jar)
  BY <1>2, <1>3 DEF Proper, Few
<1>5. Signed(jar, tab[t].abroad)
  BY <1>2, JarIs DEF Signed, WebInv
<1>6. CASE Respond(t, ok) /\ UNCHANGED <<pairs, revokedPairs, undisturbed>>
  <2>1. After(ok, jar) = jar
    BY <1>3 DEF After
  <2>2. Reaches(t, ok, jar)
    BY <1>2, <1>3 DEF Reaches
  <2> QED
    BY <1>1, <1>2, <1>3, <1>4, <1>6, <2>1, <2>2, StillAnswer
<1>7. CASE Respond(t, clear) /\ Grows /\ undisturbed' = FALSE
  BY <1>2, <1>3, <1>4, <1>7, ClearAnswer
<1>8. CASE /\ Respond(t, GrantPair(Len(pairs) + 1, ok))
           /\ IssuePair /\ Len(pairs) < MaxPairs /\ UNCHANGED undisturbed
           /\ revokedPairs' \subseteq 1..Len(pairs)
  <2>0. PICK r : r = GrantPair(Len(pairs) + 1, ok)
    OBVIOUS
  <2>1. /\ r \in ReplyType /\ r.effect = "set" /\ r.pair = Len(pairs) + 1 /\ r.next = ""
        /\ r.to = "" /\ r.shows = "data"
    <3>1. Len(pairs) + 1 \in Nat
      BY LenIs DEF WebInv, WebTypes
    <3> QED
      BY <1>3, <2>0, <3>1 DEF GrantPair, ReplyType
  <2>2. Proper(t, r) /\ Rewards(t, r)
    BY <1>2, <2>1 DEF Proper, Rewards
  <2> QED
    BY <1>1, <1>2, <1>8, <2>0, <2>1, <2>2, GrantAnswer
<1>12. tab[t].path \in REFRESH_COOKIE_PATH
  BY <1>2 DEF REFRESH_COOKIE_PATH, PUBLIC_PREFIXES
<1> QED
  BY <1>0, <1>1, <1>2, <1>5, <1>6, <1>7, <1>8, <1>12, RefreshIs

LEMMA loginActionKeeps ==
  ASSUME WebInv, NEW t \in Tab, loginAction(t) PROVE WebInv'
<1>1. /\ At(t, "loginAction") /\ UNCHANGED <<now, revokedPairs, jar, undisturbed>>
      /\ \/ /\ Len(pairs) < MaxPairs /\ IssuePair
            /\ Respond(t, GrantPair(Len(pairs) + 1,
                  Redirect(IF tab[t].next = "" THEN "/chat" ELSE tab[t].next, "")))
         \/ Respond(t, [Show("/login") EXCEPT !.next = tab[t].next]) /\ UNCHANGED pairs
  BY DEF loginAction
<1>2. /\ tab[t].pc = "asked" /\ tab[t].path = "loginAction" /\ tab[t].kind # "logout"
      /\ undisturbed \in BOOLEAN /\ tab[t].next \in WayBack /\ ~Valid(jar)
      /\ tab[t].next = "/api/chat" => tab[t].kind = "call"
      /\ undisturbed /\ tab[t].kind = "call" => ~tab[t].due
      /\ undisturbed /\ tab[t].kind = "visit" => Bound(tab[t], "loginAction", tab[t].next, jar)
  <2>1. "loginAction" \notin PUBLIC_PREFIXES \cup {"/"} /\ "loginAction" \in PUBLIC_PATHS
    BY DEF PUBLIC_PREFIXES, PUBLIC_PATHS
  <2>2. tab[t].pc = "asked" /\ tab[t].path = "loginAction" /\ ~Valid(jar)
    BY <1>1, <2>1, AtIs
  <2>3. tab[t].kind # "logout" /\ (tab[t].next = "/api/chat" => tab[t].kind = "call")
    <3>1. tab[t].pc = "asked" /\ Shape(tab[t]) /\ tab[t].kind \in {"visit", "call", "logout"}
      BY <2>2, AskedIs
    <3> QED
      BY <2>2, <3>1 DEF Shape
  <2>4. undisturbed /\ tab[t].kind = "call" => ~tab[t].due
    BY <1>1, AtIs
  <2>5. undisturbed /\ tab[t].kind = "visit" => Bound(tab[t], "loginAction", tab[t].next, jar)
    BY <1>1, AtIs
  <2> QED
    BY <2>2, <2>3, <2>4, <2>5, AskedIs
<1>3. undisturbed /\ tab[t].kind = "visit" => ~Had(tab[t]) /\ GoodNext(tab[t].next, tab[t].want)
  BY <1>2 DEF Bound, App
<1>4. CASE /\ Len(pairs) < MaxPairs /\ IssuePair
           /\ Respond(t, GrantPair(Len(pairs) + 1,
                 Redirect(IF tab[t].next = "" THEN "/chat" ELSE tab[t].next, "")))
  <2>1. PICK p : p = IF tab[t].next = "" THEN "/chat" ELSE tab[t].next
    OBVIOUS
  <2>2. /\ p \in App \cup {"/api/chat"} /\ p # "" /\ (p = "/api/chat" => tab[t].kind = "call")
        /\ undisturbed /\ tab[t].kind = "visit" => p = Expected(tab[t].want)
    BY <1>2, <1>3, <2>1 DEF WayBack, App, GoodNext, Expected
  <2>0. PICK r : r = GrantPair(Len(pairs) + 1, Redirect(p, ""))
    OBVIOUS
  <2>3. /\ r \in ReplyType /\ r.effect = "set" /\ r.pair = Len(pairs) + 1 /\ r.next = ""
        /\ r.to = p
    <3>1. Len(pairs) + 1 \in Nat
      BY LenIs DEF WebInv, WebTypes
    <3> QED
      BY <2>0, <2>2, <3>1 DEF GrantPair, Redirect, Reply, ReplyType, WayBack, App
  <2>4. Proper(t, r)
    BY <2>2, <2>3 DEF Proper
  <2>5. Rewards(t, r)
    <3>1. Rank("loginAction", jar) = 5
      BY DEF Rank, App
    <3> QED
      BY <1>2, <2>2, <2>3, <3>1 DEF Rewards
  <2>6. revokedPairs' \subseteq 1..Len(pairs)
    BY <1>1 DEF WebInv, WebTypes, PairsOk
  <2> QED
    BY <1>1, <1>2, <1>4, <2>0, <2>1, <2>3, <2>4, <2>5, <2>6, GrantAnswer
<1>5. CASE Respond(t, [Show("/login") EXCEPT !.next = tab[t].next]) /\ UNCHANGED pairs
  <2>0. PICK r : r = [Show("/login") EXCEPT !.next = tab[t].next]
    OBVIOUS
  <2>1. /\ r \in ReplyType /\ r.effect = "keep" /\ r.pair = 0 /\ r.next = tab[t].next
        /\ r.to = "" /\ r.shows = "/login"
    BY <1>2, <2>0 DEF Show, Reply, ReplyType, WayBack, App
  <2>2. After(r, jar) = jar /\ Few(t, r, jar) /\ Proper(t, r)
    BY <1>2, <2>1 DEF After, Few, Proper
  <2>3. undisturbed => Reaches(t, r, jar)
    BY <1>2, <1>3, <2>1 DEF Reaches
  <2> QED
    BY <1>1, <1>2, <1>5, <2>0, <2>1, <2>2, <2>3, StillAnswer DEF Proper
<1> QED
  BY <1>1, <1>4, <1>5

LEMMA LogoutRouteKeeps ==
  ASSUME WebInv, NEW t \in Tab, LogoutRoute(t) PROVE WebInv'
<1>0. PICK r : r = With("clear", Show("ok"))
  OBVIOUS
<1> DEFINE s == getSession(Sent(t))
<1>1. /\ At(t, "logout") /\ Respond(t, r) /\ UNCHANGED <<now, pairs, jar>>
      /\ \/ revokedPairs' = revokedPairs \cup ({s.refresh_token} \ {0}) /\ UNCHANGED undisturbed
         \/ undisturbed' = FALSE /\ UNCHANGED revokedPairs
  BY <1>0 DEF LogoutRoute
<1>2. /\ tab[t].pc = "asked" /\ tab[t].path = "logout" /\ tab[t].kind = "logout"
      /\ undisturbed \in BOOLEAN /\ (undisturbed => OnItsWay(tab[t], jar))
  BY <1>1, AtIs, AskedIs DEF Shape
<1>3. /\ r \in ReplyType /\ r.effect = "clear" /\ r.pair = 0 /\ r.next = ""
      /\ r.to = "" /\ r.shows = "ok"
  BY <1>0 DEF Show, With, Reply, ReplyType, WayBack
<1>4. After(r, jar) = Empty /\ After(r, jar)' = Empty
  BY <1>3 DEF After
<1>5. revokedPairs' \subseteq 1..Len(pairs)
  <2>1. s.refresh_token \in {0, jar.at, jar.legacy}
    BY SentIs DEF WebInv
  <2>2. jar.at \in 0..Len(pairs) /\ jar.legacy \in 0..Len(pairs)
    BY JarIs DEF WebInv
  <2>3. revokedPairs \subseteq 1..Len(pairs)
    BY DEF WebInv, WebTypes, PairsOk
  <2>4. Len(pairs) \in Nat
    BY <1>2, AskedIs
  <2>5. PICK rt : rt = s.refresh_token
    OBVIOUS
  <2>6. rt = 0 \/ rt \in 1..Len(pairs)
    BY <2>1, <2>2, <2>4, <2>5
  <2>7. revokedPairs' \subseteq revokedPairs \cup ({rt} \ {0})
    BY <1>1, <2>5
  <2> QED
    BY <2>3, <2>6, <2>7
<1>6. Grows
  BY <1>1, <1>5, LenIs DEF Grows, WebInv, WebTypes, PairsOk
<1>7. Fits(t, r)
  BY <1>2, <1>3 DEF Fits
<1>8. CalmFits(t, r)
  <2>1. undisturbed' => undisturbed
    BY <1>1
  <2>2. Honest(Empty)'
    <3>1. 0 \notin revokedPairs'
      BY <1>5
    <3> QED
      BY <3>1 DEF Honest, Empty
  <2>3. ASSUME undisturbed', NEW c, Holds(c, tab[t], r) PROVE OnItsWay(c, jar)'
    BY <1>2, <1>3, <2>1, <2>3 DEF OnItsWay, Holds
  <2> QED
    BY <1>4, <2>1, <2>2, <2>3 DEF CalmFits
<1>9. undisturbed' \in BOOLEAN
  BY <1>1, <1>2
<1> QED
  BY <1>1, <1>2, <1>3, <1>6, <1>7, <1>8, <1>9, AnswerKeeps

(***************************************************************************)
(* WebSession: the browser                                                 *)
(***************************************************************************)

\* The user does something: the tab t becomes c, with a request.
LEMMA AskKeeps ==
  ASSUME WebInv, NEW t \in Tab, tab[t].pc = "rest", NEW c \in TabType, Shape(c),
         c.pair <= Len(pairs), c.pc = "asked", c.hops = 0, tab' = [tab EXCEPT ![t] = c],
         UNCHANGED <<now, pairs, revokedPairs, jar>>,
         undisturbed' \in BOOLEAN, undisturbed' => undisturbed /\ Resting,
         undisturbed' => OnItsWay(c, jar)
  PROVE  WebInv'
<1>1. /\ tab \in [Tab -> TabType] /\ tab' \in [Tab -> TabType]
      /\ tab'[t] = c /\ \A u \in Tab \ {t} : tab'[u] = tab[u]
  BY DEF WebInv, WebTypes, TabsOk
<1>2. WebTypes'
  <2>1. TabsOk'
    BY <1>1 DEF TabsOk, WebInv, WebTypes
  <2>2. PairsOk' /\ JarOk'
    BY DEF WebInv, WebTypes, PairsOk, JarOk
  <2> QED
    BY <2>1, <2>2 DEF WebTypes
<1>3. Grows
  BY StillIs
<1>4. FewLeft'
  <2>1. ASSUME NEW u \in Tab \ {t}, NEW d, d = tab[u] PROVE d.hops + Left(d, jar)' <= 6
    <3>1. d.hops + Left(d, jar) <= 6
      BY <2>1 DEF WebInv, FewLeft
    <3>2. Left(d, jar)' = Left(d, jar)
      BY <1>3, <2>1, LeftStays DEF WebInv
    <3> QED
      BY <3>1, <3>2
  <2>2. c.hops + Left(c, jar)' <= 6
    <3>1. Left(c, jar)' = Rank(c.path, jar)'
      BY DEF Left
    <3>2. Rank(c.path, jar)' \in 0..5
      BY RankBound
    <3>3. c.hops = 0
      OBVIOUS
    <3> QED
      BY <3>1, <3>2, <3>3
  <2> QED
    BY <1>1, <2>1, <2>2 DEF FewLeft
<1>5. Undisturbed'
  <2> SUFFICES ASSUME undisturbed' PROVE Undisturbed'
    BY DEF Undisturbed
  <2>1. \A u \in Tab \ {t} : tab[u].pc = "rest" /\ Landed(tab[u])
    BY DEF WebInv, Undisturbed, Resting
  <2>2. Honest(jar)'
    <3>1. Honest(jar)
      BY DEF WebInv, Undisturbed
    <3> QED
      BY <3>1, StillIs
  <2>3. OneRequest' /\ ~Resting'
    BY <1>1, <2>1 DEF OneRequest, Resting
  <2>4. OnItsWay(c, jar)'
    <3>1. OnItsWay(c, jar)
      OBVIOUS
    <3>2. \A path, next : Bound(c, path, next, jar)' <=> Bound(c, path, next, jar)
      BY StillIs DEF Bound
    <3>3. Valid(jar)' <=> Valid(jar)
      BY StillIs
    <3> QED
      BY <3>1, <3>2, <3>3 DEF OnItsWay
  <2>5. After(c, jar)' = jar
    BY DEF After, Shape
  <2> QED
    BY <1>1, <2>1, <2>2, <2>3, <2>4, <2>5 DEF Undisturbed
<1> QED
  BY <1>2, <1>4, <1>5 DEF WebInv

LEMMA VisitKeeps ==
  ASSUME WebInv, NEW t \in Tab, Visit(t) PROVE WebInv'
<1>1. PICK path \in Opened, abroad \in BOOLEAN :
         /\ abroad => path \in Linked
         /\ Ask(t, [Blank EXCEPT !.pc = "asked", !.path = path, !.want = path,
                                 !.abroad = abroad, !.had = SignedIn(abroad)])
  BY DEF Visit
<1>2. PICK had : had = SignedIn(abroad)
  OBVIOUS
<1>3. had \in BOOLEAN /\ (had <=> Signed(jar, abroad))
  <2>1. SignedIn(abroad) \in BOOLEAN
    BY DEF SignedIn
  <2> QED
    BY <1>2, <2>1, SignedInIs DEF WebInv
<1>4. PICK c : c = [Blank EXCEPT !.pc = "asked", !.path = path, !.want = path,
                                 !.abroad = abroad, !.had = had]
  OBVIOUS
<1>5. path \in {"/chat", "/wiki", "/", "/login"}
  BY PageAssumption DEF App
<1>6. /\ c.pc = "asked" /\ c.kind = "visit" /\ c.path = path /\ c.want = path /\ c.next = ""
      /\ c.abroad = abroad /\ c.had = had /\ c.effect = "keep" /\ c.pair = 0 /\ c.to = ""
      /\ c.hops = 0 /\ c.due = FALSE /\ c.page = "blank"
  BY <1>4 DEF Blank
<1>7. c \in TabType
  BY <1>3, <1>4, <1>5 DEF Blank, TabType, WayBack, Path, App
<1>8. Shape(c)
  BY <1>5, <1>6 DEF Shape
<1>9. /\ tab[t].pc = "rest" /\ tab' = [tab EXCEPT ![t] = c]
      /\ UNCHANGED <<now, pairs, revokedPairs, jar>> /\ undisturbed' = (undisturbed /\ Resting)
  BY <1>1, <1>2, <1>4 DEF Ask
<1>10. OnItsWay(c, jar)
  <2>1. Bound(c, path, "", jar)
    BY <1>3, <1>5, <1>6 DEF Bound, Had, Expected, GoodNext, App
  <2> QED
    BY <1>6, <2>1 DEF OnItsWay
<1>11. c.pair <= Len(pairs)
  <2>1. PairsOk
    BY DEF WebInv, WebTypes
  <2>2. Len(pairs) \in Nat /\ Len(pairs) >= 1
    BY <2>1, LenIs
  <2>3. c.pair = 0
    BY <1>6
  <2> QED
    BY <2>2, <2>3
<1>12. undisturbed' \in BOOLEAN /\ (undisturbed' => undisturbed /\ Resting)
  BY <1>9
<1> QED
  BY <1>6, <1>7, <1>8, <1>9, <1>10, <1>11, <1>12, AskKeeps

LEMMA RestIs ==
  ASSUME WebInv, NEW t \in Tab, tab[t].pc = "rest"
  PROVE  /\ tab[t] \in TabType /\ Shape(tab[t]) /\ tab[t].pair <= Len(pairs)
         /\ tab[t].kind = "visit" /\ ~tab[t].abroad /\ tab[t].hops = 0 /\ tab[t].effect = "keep"
         /\ undisturbed => Landed(tab[t])
BY DEF WebInv, WebTypes, TabsOk, Shape, Undisturbed

LEMMA FetchKeeps ==
  ASSUME WebInv, NEW t \in Tab, Fetch(t) PROVE WebInv'
<1>1. /\ tab[t].page \in App
      /\ Ask(t, [tab[t] EXCEPT !.pc = "asked", !.kind = "call",
                               !.path = "/api/chat", !.abroad = FALSE,
                               !.due = SignedIn(FALSE), !.outcome = "none"])
  BY DEF Fetch
<1>2. PICK due : due = SignedIn(FALSE)
  OBVIOUS
<1>3. due \in BOOLEAN /\ (due => Valid(jar))
  <2>1. SignedIn(FALSE) \in BOOLEAN
    BY DEF SignedIn
  <2> QED
    BY <1>2, <2>1, SignedInIs, Barren DEF WebInv
<1>4. PICK c : c = [tab[t] EXCEPT !.pc = "asked", !.kind = "call",
                                  !.path = "/api/chat", !.abroad = FALSE,
                                  !.due = due, !.outcome = "none"]
  OBVIOUS
<1>5. /\ tab[t].pc = "rest" /\ tab' = [tab EXCEPT ![t] = c]
      /\ UNCHANGED <<now, pairs, revokedPairs, jar>> /\ undisturbed' = (undisturbed /\ Resting)
  BY <1>1, <1>2, <1>4 DEF Ask
<1>6. /\ tab[t] \in TabType /\ Shape(tab[t]) /\ tab[t].pair <= Len(pairs) /\ tab[t].hops = 0
      /\ tab[t].effect = "keep" /\ (undisturbed => Landed(tab[t]))
  BY <1>5, RestIs
<1>7. /\ c.pc = "asked" /\ c.kind = "call" /\ c.path = "/api/chat" /\ c.abroad = FALSE
      /\ c.due = due /\ c.page = tab[t].page /\ c.had = tab[t].had /\ c.want = tab[t].want
      /\ c.effect = "keep" /\ c.pair = tab[t].pair /\ c.hops = 0
  BY <1>4, <1>6 DEF TabType
<1>8. c \in TabType
  <2> DEFINE c1 == [tab[t] EXCEPT !.pc = "asked", !.kind = "call"]
             c2 == [c1 EXCEPT !.path = "/api/chat", !.abroad = FALSE]
             c3 == [c2 EXCEPT !.due = due]
  <2>1. c = [c3 EXCEPT !.outcome = "none"]
    BY <1>4
  <2>4. due \in BOOLEAN
    BY <1>3
  <2>2. c1 \in TabType
    BY <1>6 DEF TabType
  <2> HIDE DEF c1
  <2>3. c2 \in TabType
    BY <2>2 DEF TabType, Path
  <2> HIDE DEF c2
  <2>5. c3 \in TabType
    BY <2>3, <2>4 DEF TabType
  <2> HIDE DEF c3
  <2> QED
    BY <2>1, <2>5 DEF TabType
<1>9. Shape(c)
  BY <1>1, <1>7 DEF Shape
<1>10. undisturbed => OnItsWay(c, jar)
  <2>1. Landed(tab[t]) => tab[t].had /\ tab[t].page = Expected(tab[t].want)
    BY <1>1, <1>6 DEF Landed, App, TabType
  <2> QED
    BY <1>3, <1>6, <1>7, <2>1 DEF OnItsWay
<1>11. undisturbed' \in BOOLEAN /\ (undisturbed' => undisturbed /\ Resting)
  BY <1>5
<1> QED
  BY <1>5, <1>6, <1>7, <1>8, <1>9, <1>10, <1>11, AskKeeps

LEMMA MenuLogoutKeeps ==
  ASSUME WebInv, NEW t \in Tab, MenuLogout(t) PROVE WebInv'
<1>1. PICK c : c = [Blank EXCEPT !.pc = "asked", !.kind = "logout", !.want = "/login",
                                 !.path = "logout", !.page = tab[t].page]
  OBVIOUS
<1>2. /\ tab[t].pc = "rest" /\ tab[t].page \in App /\ tab' = [tab EXCEPT ![t] = c]
      /\ UNCHANGED <<now, pairs, revokedPairs, jar>> /\ undisturbed' = (undisturbed /\ Resting)
  BY <1>1 DEF MenuLogout, Ask
<1>3. /\ c.pc = "asked" /\ c.kind = "logout" /\ c.want = "/login" /\ c.path = "logout"
      /\ c.next = "" /\ c.had = FALSE /\ c.effect = "keep" /\ c.pair = 0 /\ c.to = ""
      /\ c.hops = 0 /\ c.due = FALSE
  BY <1>1 DEF Blank
<1>4. c \in TabType
  BY <1>1, <1>2 DEF Blank, TabType, WayBack, Path, App
<1>5. Shape(c) /\ OnItsWay(c, jar)
  BY <1>3 DEF Shape, OnItsWay
<1>6. c.pair <= Len(pairs)
  <2>1. PairsOk
    BY DEF WebInv, WebTypes
  <2>2. Len(pairs) \in Nat /\ Len(pairs) >= 1
    BY <2>1, LenIs
  <2>3. c.pair = 0
    BY <1>3
  <2> QED
    BY <2>2, <2>3
<1>7. undisturbed' \in BOOLEAN /\ (undisturbed' => undisturbed /\ Resting)
  BY <1>2
<1> QED
  BY <1>2, <1>3, <1>4, <1>5, <1>6, <1>7, AskKeeps

LEMMA SubmitKeeps ==
  ASSUME WebInv, NEW t \in Tab, Submit(t) PROVE WebInv'
<1>1. PICK c : c = [tab[t] EXCEPT !.pc = "asked", !.path = "loginAction"]
  OBVIOUS
<1>2. /\ tab[t].pc = "rest" /\ tab[t].page = "/login"
      /\ tab' = [tab EXCEPT ![t].pc = "asked", ![t].path = "loginAction"]
      /\ UNCHANGED <<now, pairs, revokedPairs, jar>>
      /\ undisturbed' = (undisturbed /\ Resting /\ ~SignedIn(FALSE))
  BY DEF Submit
<1>3. /\ tab[t] \in TabType /\ Shape(tab[t]) /\ tab[t].pair <= Len(pairs) /\ tab[t].hops = 0
      /\ tab[t].effect = "keep" /\ (undisturbed => Landed(tab[t]))
      /\ tab[t].kind = "visit" /\ ~tab[t].abroad
  BY <1>2, RestIs
<1>4. tab' = [tab EXCEPT ![t] = c]
  BY <1>1, <1>2 DEF WebInv, WebTypes, TabsOk
<1>5. /\ c.pc = "asked" /\ c.kind = "visit" /\ c.path = "loginAction" /\ c.abroad = tab[t].abroad
      /\ c.due = tab[t].due /\ c.page = "/login" /\ c.had = tab[t].had /\ c.want = tab[t].want
      /\ c.effect = "keep" /\ c.pair = tab[t].pair /\ c.hops = 0 /\ c.next = tab[t].next
      /\ c.to = tab[t].to
  BY <1>1, <1>2, <1>3 DEF TabType
<1>6. c \in TabType
  BY <1>1, <1>3 DEF TabType, Path
<1>7. Shape(c)
  BY <1>2, <1>3, <1>5 DEF Shape, App
<1>8. undisturbed' => OnItsWay(c, jar)
  <2> SUFFICES ASSUME undisturbed' PROVE OnItsWay(c, jar)
    OBVIOUS
  <2>1. Landed(tab[t]) /\ ~Signed(jar, FALSE)
    BY <1>2, <1>3, SignedInIs DEF WebInv
  <2>2. ~Valid(jar) /\ \A abroad : ~Signed(jar, abroad)
    BY <2>1, JarIs DEF Signed, WebInv
  <2>3. ~Had(c) /\ GoodNext(c.next, c.want)
    BY <1>2, <1>5, <2>1 DEF Landed, Expected, App, Had
  <2>4. Bound(c, "loginAction", c.next, jar)
    BY <2>2, <2>3 DEF Bound, App
  <2> QED
    BY <1>5, <2>4 DEF OnItsWay
<1>9. undisturbed' \in BOOLEAN /\ (undisturbed' => undisturbed /\ Resting)
  BY <1>2
<1> QED
  BY <1>2, <1>3, <1>4, <1>5, <1>6, <1>7, <1>8, <1>9, AskKeeps

\* Where an answer leads: c is what becomes of the tab b.
Kept(c, b) == /\ c.want = b.want /\ c.had = b.had /\ c.effect = b.effect
              /\ c.pair = b.pair /\ c.to = b.to /\ c.due = b.due
Moves(c, b, path) == /\ c.pc = "asked" /\ c.path = path /\ c.next = b.next
                     /\ c.abroad = b.abroad /\ c.page = b.page
Rests(c) == c.pc = "rest" /\ c.path = "/" /\ c.hops = 0 /\ c.kind = "visit" /\ c.abroad = FALSE
Leads(a, b, c) ==
    /\ a.to # "" => Moves(c, b, a.to) /\ c.hops = b.hops + 1 /\ c.kind = b.kind
    /\ a.to = "" /\ b.kind = "call" => /\ Rests(c) /\ c.next = "" /\ c.page = b.page
                                       /\ a.shows = "data" => c.outcome = "data"
    /\ a.to = "" /\ b.kind = "logout" =>
          Moves(c, b, "/login") /\ c.hops = b.hops /\ c.kind = "visit"
    /\ a.to = "" /\ b.kind = "visit" =>
          /\ Rests(c) /\ c.page = a.shows
          /\ c.next = (IF a.shows = "/login" THEN b.next ELSE "")

LEMMA EditIs ==
  ASSUME NEW b \in TabType
  PROVE  /\ \A v \in {"rest", "asked", "answered"} : [b EXCEPT !.pc = v] \in TabType
         /\ [b EXCEPT !.kind = "visit"] \in TabType
         /\ \A v \in Path : [b EXCEPT !.path = v] \in TabType
         /\ [b EXCEPT !.abroad = FALSE] \in TabType
         /\ [b EXCEPT !.hops = 0] \in TabType /\ [b EXCEPT !.hops = @ + 1] \in TabType
         /\ \A v \in WayBack : [b EXCEPT !.next = v] \in TabType
         /\ \A v \in App \cup {"blank", "/login", "error"} : [b EXCEPT !.page = v] \in TabType
         /\ \A v \in {"none", "data", "401", "page", "error"} : [b EXCEPT !.outcome = v] \in TabType
         /\ [b EXCEPT !.to = ""] \in TabType /\ [b EXCEPT !.shows = ""] \in TabType
         /\ \A v \in BOOLEAN : [b EXCEPT !.had = v] \in TabType
<1>1. \A v \in {"rest", "asked", "answered"} : [b EXCEPT !.pc = v] \in TabType
  BY DEF TabType
<1>2. [b EXCEPT !.kind = "visit"] \in TabType
  BY DEF TabType
<1>3. \A v \in Path : [b EXCEPT !.path = v] \in TabType
  BY DEF TabType
<1>4. [b EXCEPT !.abroad = FALSE] \in TabType
  BY DEF TabType
<1>5. [b EXCEPT !.hops = 0] \in TabType /\ [b EXCEPT !.hops = @ + 1] \in TabType
  <2>1. \A v \in Nat : [b EXCEPT !.hops = v] \in TabType
    BY DEF TabType
  <2>2. b.hops \in Nat
    BY DEF TabType
  <2>3. 0 \in Nat /\ b.hops + 1 \in Nat
    BY <2>2
  <2> QED
    BY <2>1, <2>3
<1>6. \A v \in WayBack : [b EXCEPT !.next = v] \in TabType
  BY DEF TabType
<1>7. \A v \in App \cup {"blank", "/login", "error"} : [b EXCEPT !.page = v] \in TabType
  BY DEF TabType
<1>8. \A v \in {"none", "data", "401", "page", "error"} : [b EXCEPT !.outcome = v] \in TabType
  BY DEF TabType
<1>9. "" \in WayBack
  BY DEF WayBack
<1>10. [b EXCEPT !.to = ""] \in TabType
  BY <1>9 DEF TabType
<1>11. [b EXCEPT !.shows = ""] \in TabType
  <2>1. \A v \in App \cup {"", "/login", "data", "401", "ok"} : [b EXCEPT !.shows = v] \in TabType
    BY DEF TabType
  <2>2. "" \in App \cup {"", "/login", "data", "401", "ok"}
    OBVIOUS
  <2> QED
    BY <2>1, <2>2
<1>12. \A v \in BOOLEAN : [b EXCEPT !.had = v] \in TabType
  BY DEF TabType
<1> QED
  BY <1>1, <1>2, <1>3, <1>4, <1>5, <1>6, <1>7, <1>8, <1>10, <1>11, <1>12

LEMMA FollowIs ==
  ASSUME NEW a, NEW b \in TabType, NEW c, c = Follow(a, b),
         a.to \in WayBack \cup {"/login", "clear-and-login", "refresh-and-back"},
         b.kind = "visit" /\ a.to = "" => a.shows \in App \cup {"/login", "error"}
  PROVE  c \in TabType /\ Kept(c, b) /\ Leads(a, b, c)
<1> DEFINE next == IF a.shows = "/login" THEN b.next ELSE ""
           o == IF a.shows \in {"data", "401", "error"} THEN a.shows ELSE "page"
           rest == [b EXCEPT !.pc = "rest", !.kind = "visit", !.path = "/", !.abroad = FALSE,
                             !.hops = 0, !.next = next]
<1>1. b.kind \in {"visit", "call", "logout"}
  BY DEF TabType
<1>2. rest = [b EXCEPT !.pc = "rest", !.kind = "visit", !.path = "/", !.abroad = FALSE,
                       !.hops = 0, !.next = IF a.shows = "/login" THEN @ ELSE ""]
  OBVIOUS
<1>3. c = CASE a.to # "" -> [b EXCEPT !.pc = "asked", !.path = a.to, !.hops = @ + 1]
            [] a.to = "" /\ b.kind = "call" -> [rest EXCEPT !.next = "", !.outcome = o]
            [] a.to = "" /\ b.kind = "logout" ->
                 [b EXCEPT !.pc = "asked", !.path = "/login", !.kind = "visit"]
            [] OTHER -> [rest EXCEPT !.page = a.shows]
  BY <1>2 DEF Follow
<1>4. next \in WayBack /\ o \in {"data", "401", "page", "error"} /\ (a.shows = "data" => o = "data")
  BY DEF TabType, WayBack
<1>5. rest \in TabType
  <2> HIDE DEF next
  <2>1. PICK r1 : r1 = [b EXCEPT !.pc = "rest"]
    OBVIOUS
  <2>2. PICK r2 : r2 = [r1 EXCEPT !.kind = "visit"]
    OBVIOUS
  <2>3. PICK r3 : r3 = [r2 EXCEPT !.path = "/"]
    OBVIOUS
  <2>4. PICK r4 : r4 = [r3 EXCEPT !.abroad = FALSE]
    OBVIOUS
  <2>5. PICK r5 : r5 = [r4 EXCEPT !.hops = 0]
    OBVIOUS
  <2>6. rest = [r5 EXCEPT !.next = next]
    BY <2>1, <2>2, <2>3, <2>4, <2>5
  <2>7. r1 \in TabType
    BY <2>1, EditIs
  <2>8. r2 \in TabType
    BY <2>2, <2>7, EditIs
  <2>9. r3 \in TabType
    BY <2>3, <2>8, EditIs DEF Path
  <2>10. r4 \in TabType
    BY <2>4, <2>9, EditIs
  <2>11. r5 \in TabType
    BY <2>5, <2>10, EditIs
  <2> QED
    BY <1>4, <2>6, <2>11, EditIs
<1>6. Rests(rest) /\ Kept(rest, b) /\ rest.page = b.page /\ rest.next = next
  BY DEF TabType, Rests, Kept
<1>7. CASE a.to # ""
  <2>1. c = [b EXCEPT !.pc = "asked", !.path = a.to, !.hops = b.hops + 1]
    BY <1>3, <1>7
  <2>2. a.to \in Path
    BY <1>7 DEF Path, WayBack, App
  <2>3. PICK c1 : c1 = [b EXCEPT !.pc = "asked"]
    OBVIOUS
  <2>4. PICK c2 : c2 = [c1 EXCEPT !.path = a.to]
    OBVIOUS
  <2>5. c = [c2 EXCEPT !.hops = @ + 1]
    BY <2>1, <2>3, <2>4 DEF TabType
  <2>6. c1 \in TabType
    BY <2>3, EditIs
  <2>7. c2 \in TabType
    BY <2>2, <2>4, <2>6, EditIs
  <2>8. c \in TabType
    BY <2>5, <2>7, EditIs
  <2>9. Kept(c, b) /\ Moves(c, b, a.to) /\ c.hops = b.hops + 1 /\ c.kind = b.kind
    BY <2>1 DEF TabType, Kept, Moves
  <2> QED
    BY <1>7, <2>8, <2>9 DEF Leads
<1>8. CASE a.to = "" /\ b.kind = "call"
  <2>1. c = [rest EXCEPT !.next = "", !.outcome = o]
    BY <1>3, <1>8
  <2> HIDE DEF rest, o
  <2>2. PICK c1 : c1 = [rest EXCEPT !.next = ""]
    OBVIOUS
  <2>3. c = [c1 EXCEPT !.outcome = o]
    BY <2>1, <2>2
  <2>4. "" \in WayBack /\ o \in {"none", "data", "401", "page", "error"}
    BY <1>4 DEF WayBack
  <2>5. c1 \in TabType
    BY <1>5, <2>2, <2>4, EditIs
  <2>6. c \in TabType
    BY <2>3, <2>4, <2>5, EditIs
  <2>7. Kept(c, b) /\ Rests(c) /\ c.next = "" /\ c.page = b.page /\ c.outcome = o
    <3>1. /\ c.pc = rest.pc /\ c.kind = rest.kind /\ c.page = rest.page /\ c.want = rest.want
          /\ c.had = rest.had /\ c.path = rest.path /\ c.next = "" /\ c.abroad = rest.abroad
          /\ c.effect = rest.effect /\ c.pair = rest.pair /\ c.to = rest.to
          /\ c.hops = rest.hops /\ c.due = rest.due /\ c.outcome = o
      BY <1>5, <2>1 DEF TabType
    <3> QED
      BY <1>6, <3>1 DEF Kept, Rests
  <2> QED
    BY <1>4, <1>8, <2>6, <2>7 DEF Leads
<1>9. CASE a.to = "" /\ b.kind = "logout"
  <2>1. c = [b EXCEPT !.pc = "asked", !.path = "/login", !.kind = "visit"]
    BY <1>3, <1>9
  <2>2. PICK c1 : c1 = [b EXCEPT !.pc = "asked"]
    OBVIOUS
  <2>3. PICK c2 : c2 = [c1 EXCEPT !.path = "/login"]
    OBVIOUS
  <2>4. c = [c2 EXCEPT !.kind = "visit"]
    BY <2>1, <2>2, <2>3
  <2>5. c1 \in TabType
    BY <2>2, EditIs
  <2>6. c2 \in TabType
    BY <2>3, <2>5, EditIs DEF Path
  <2>7. c \in TabType
    BY <2>4, <2>6, EditIs
  <2>8. Kept(c, b) /\ Moves(c, b, "/login") /\ c.hops = b.hops /\ c.kind = "visit"
    BY <2>1 DEF TabType, Kept, Moves
  <2> QED
    BY <1>9, <2>7, <2>8 DEF Leads
<1>10. CASE a.to = "" /\ b.kind = "visit"
  <2>1. c = [rest EXCEPT !.page = a.shows]
    BY <1>3, <1>10
  <2> HIDE DEF rest
  <2>2. a.shows \in App \cup {"blank", "/login", "error"}
    BY <1>10
  <2>3. c \in TabType
    BY <1>5, <2>1, <2>2, EditIs
  <2>4. Kept(c, b) /\ Rests(c) /\ c.page = a.shows /\ c.next = rest.next
    <3>1. /\ c.pc = rest.pc /\ c.kind = rest.kind /\ c.page = a.shows /\ c.want = rest.want
          /\ c.had = rest.had /\ c.path = rest.path /\ c.next = rest.next /\ c.abroad = rest.abroad
          /\ c.effect = rest.effect /\ c.pair = rest.pair /\ c.to = rest.to
          /\ c.hops = rest.hops /\ c.due = rest.due
      BY <1>5, <2>1 DEF TabType
    <3> QED
      BY <1>6, <3>1 DEF Kept, Rests
  <2> QED
    BY <1>6, <1>10, <2>3, <2>4 DEF Leads
<1> QED
  BY <1>1, <1>7, <1>8, <1>9, <1>10

LEMMA LeftBound == \A c, j : Left(c, j) \in 0..6 /\ Left(c, j)' \in 0..6
<1>1. ASSUME NEW c, NEW m \in 0..5, NEW n \in 0..5
      PROVE  (CASE c.pc = "asked" -> m [] c.pc = "answered" /\ c.to # "" -> 1 + n
                [] OTHER -> 0) \in 0..6
  <2>1. m \in 0..6 /\ 1 + n \in 0..6 /\ 0 \in 0..6
    OBVIOUS
  <2>2. PICK k : k = 1 + n
    OBVIOUS
  <2>3. PICK six : six = 0..6
    OBVIOUS
  <2>4. m \in six /\ k \in six /\ 0 \in six
    BY <2>1, <2>2, <2>3
  <2>5. (CASE c.pc = "asked" -> m [] c.pc = "answered" /\ c.to # "" -> k [] OTHER -> 0) \in six
    BY <2>4
  <2> QED
    BY <2>2, <2>3, <2>5
<1>2. ASSUME NEW c, NEW j PROVE Left(c, j) \in 0..6
  <2>1. Rank(c.path, j) \in 0..5 /\ Rank(c.to, After(c, j)) \in 0..5
    BY RankBound
  <2> QED
    BY <1>1, <2>1 DEF Left
<1>3. ASSUME NEW c, NEW j PROVE Left(c, j)' \in 0..6
  <2>1. Rank(c.path, j)' \in 0..5 /\ Rank(c.to, After(c, j))' \in 0..5
    BY RankBound
  <2> QED
    BY <1>1, <2>1 DEF Left
<1> QED
  BY <1>2, <1>3

LEMMA TickKeeps ==
  ASSUME WebInv, Tick PROVE WebInv'
<1>1. /\ now < MaxTime /\ now' = now + 1 /\ UNCHANGED <<pairs, revokedPairs, jar>>
      /\ undisturbed' = (undisturbed /\ Resting)
      /\ tab' = [t \in Tab |-> [tab[t] EXCEPT !.hops = 0]]
  BY DEF Tick
<1>2. tab \in [Tab -> TabType] /\ undisturbed \in BOOLEAN
  BY DEF WebInv, WebTypes, TabsOk
<1>3. ASSUME NEW t \in Tab
      PROVE  /\ tab'[t] \in TabType /\ Shape(tab'[t]) /\ tab'[t].pair <= Len(pairs)
             /\ tab'[t].pc = tab[t].pc /\ tab'[t].hops = 0 /\ (Landed(tab[t]) => Landed(tab'[t]))
  <2>1. tab[t] \in TabType /\ Shape(tab[t]) /\ tab[t].pair <= Len(pairs)
    BY DEF WebInv, WebTypes, TabsOk
  <2>2. PICK c : c = [tab[t] EXCEPT !.hops = 0]
    OBVIOUS
  <2>3. tab'[t] = c
    BY <1>1, <2>2
  <2>4. c \in TabType
    BY <2>1, <2>2 DEF TabType
  <2>5. Shape(c) /\ c.pair = tab[t].pair /\ c.pc = tab[t].pc /\ c.hops = 0
    BY <2>1, <2>2 DEF Shape, TabType
  <2>6. Landed(tab[t]) => Landed(c)
    BY <2>1, <2>2 DEF Landed, TabType
  <2> QED
    BY <2>1, <2>3, <2>4, <2>5, <2>6
<1>4. PairsOk'
  <2>1. now' \in 0..MaxTime
    BY <1>1, TTLAssumption DEF WebInv, WebTypes, PairsOk
  <2> QED
    BY <1>1, <2>1 DEF WebInv, WebTypes, PairsOk
<1>5. WebTypes'
  <2>1. JarOk'
    BY <1>1 DEF WebInv, WebTypes, JarOk
  <2>2. TabsOk'
    <3>1. tab' \in [Tab -> TabType]
      BY <1>1, <1>3
    <3> QED
      BY <1>1, <1>3, <3>1 DEF TabsOk
  <2>3. undisturbed' \in BOOLEAN
    BY <1>1
  <2> QED
    BY <1>4, <2>1, <2>2, <2>3 DEF WebTypes
<1>6. FewLeft'
  <2>1. ASSUME NEW t \in Tab, NEW c, c = tab'[t], NEW j, j = jar'
        PROVE  c.hops + Left(c, j)' <= 6
    <3>1. Left(c, j)' \in 0..6
      BY LeftBound
    <3>2. c.hops = 0
      BY <1>3, <2>1
    <3> QED
      BY <3>1, <3>2
  <2>2. ASSUME NEW t \in Tab PROVE (tab[t].hops + Left(tab[t], jar) <= 6)'
    BY <2>1
  <2> QED
    BY <2>2 DEF FewLeft
<1>7. Undisturbed'
  <2> SUFFICES ASSUME undisturbed' PROVE Undisturbed'
    BY DEF Undisturbed
  <2>1. undisturbed /\ Resting
    BY <1>1, <1>2
  <2>2. Resting' /\ OneRequest' /\ \A t \in Tab : tab'[t].pc = "rest"
    BY <1>3, <2>1 DEF Resting, OneRequest
  <2>3. Honest(jar)'
    BY <1>1, <2>1 DEF WebInv, Undisturbed, Honest
  <2>4. \A t \in Tab : Landed(tab'[t])
    BY <1>3, <2>1 DEF WebInv, Undisturbed, Resting
  <2> QED
    BY <2>2, <2>3, <2>4 DEF Undisturbed
<1> QED
  BY <1>5, <1>6, <1>7 DEF WebInv

\* The tab a has taken its answer, and then had the session or not, as h says.
Took(b, a, h) ==
    /\ b.effect = "keep" /\ b.pair = 0 /\ b.to = "" /\ b.shows = "" /\ b.had = h
    /\ b.pc = a.pc /\ b.kind = a.kind /\ b.page = a.page /\ b.want = a.want /\ b.path = a.path
    /\ b.next = a.next /\ b.abroad = a.abroad /\ b.hops = a.hops /\ b.due = a.due

LEMMA TookIs ==
  ASSUME NEW a \in TabType, NEW h \in BOOLEAN
  PROVE  /\ \E b \in TabType : /\ b = [a EXCEPT !.effect = "keep", !.pair = 0, !.to = "",
                                                !.shows = ""]
                               /\ Took(b, a, a.had)
         /\ \E b \in TabType : /\ b = [a EXCEPT !.effect = "keep", !.pair = 0, !.to = "",
                                                !.shows = "", !.had = h]
                               /\ Took(b, a, h)
<1>1. PICK b1 : b1 = [a EXCEPT !.effect = "keep", !.pair = 0]
  OBVIOUS
<1>2. PICK b2 : b2 = [b1 EXCEPT !.to = ""]
  OBVIOUS
<1>3. PICK b3 : b3 = [b2 EXCEPT !.shows = ""]
  OBVIOUS
<1>4. PICK b : b = [b3 EXCEPT !.had = h]
  OBVIOUS
<1>5. b1 \in TabType
  BY <1>1 DEF TabType
<1>6. b2 \in TabType
  BY <1>2, <1>5, EditIs
<1>7. b3 \in TabType
  BY <1>3, <1>6, EditIs
<1>8. b \in TabType
  BY <1>4, <1>7, EditIs
<1>9. /\ b3 = [a EXCEPT !.effect = "keep", !.pair = 0, !.to = "", !.shows = ""]
      /\ b = [a EXCEPT !.effect = "keep", !.pair = 0, !.to = "", !.shows = "", !.had = h]
  BY <1>1, <1>2, <1>3, <1>4
<1>10. Took(b3, a, a.had)
  BY <1>9 DEF Took, TabType
<1>11. Took(b, a, h)
  BY <1>9 DEF Took, TabType
<1> QED
  BY <1>7, <1>8, <1>9, <1>10, <1>11

LEMMA ShapeStays ==
  ASSUME NEW a \in TabType, Shape(a), a.pc = "answered",
         NEW b \in TabType, NEW h, Took(b, a, h),
         NEW x, x.to = "" \/ x.to = a.to, x.to = "" => x.shows = a.shows \/ x.shows = "error",
         x.to = "" => a.to = "" \/ x.shows = "error",
         NEW c, c = Follow(x, b)
  PROVE  c \in TabType /\ Kept(c, b) /\ Leads(x, b, c) /\ Shape(c) /\ c.pair = 0
<1>1. /\ x.to \in WayBack \cup {"/login", "clear-and-login", "refresh-and-back"}
      /\ b.kind = "visit" /\ x.to = "" => x.shows \in App \cup {"/login", "error"}
  BY DEF TabType, Shape, Took, WayBack
<1>2. c \in TabType /\ Kept(c, b) /\ Leads(x, b, c)
  BY <1>1, FollowIs
<1>3. c.pair = 0 /\ c.effect = "keep" /\ c.to = "" /\ c.due = a.due
  BY <1>2 DEF Kept, Took
<1>4. b.kind = a.kind /\ b.next = a.next /\ b.abroad = a.abroad /\ b.page = a.page
  BY DEF Took
<1>5. CASE x.to # ""
  <2>1. /\ c.pc = "asked" /\ c.path = a.to /\ c.next = a.next /\ c.abroad = a.abroad
        /\ c.page = a.page /\ c.kind = a.kind
    BY <1>2, <1>4, <1>5 DEF Leads, Moves
  <2>2. a.to \notin {"", "logout"}
    BY <1>5 DEF TabType, WayBack, App
  <2>3. Shape(c)
    BY <1>3, <2>1, <2>2 DEF Shape
  <2> QED
    BY <1>2, <1>3, <2>3
<1>6. CASE x.to = "" /\ b.kind = "call"
  <2>1. c.next = "" /\ Rests(c) /\ c.page = a.page
    BY <1>2, <1>4, <1>6 DEF Leads
  <2>2. Shape(c)
    BY <1>3, <2>1 DEF Shape, Rests
  <2> QED
    BY <1>2, <1>3, <2>2
<1>7. CASE x.to = "" /\ b.kind = "logout"
  <2>1. c.pc = "asked" /\ c.path = "/login" /\ c.next = a.next /\ c.kind = "visit"
    BY <1>2, <1>4, <1>7 DEF Leads, Moves
  <2>2. ~c.due /\ c.next # "/api/chat"
    BY <1>3, <1>4, <1>7, <2>1 DEF Shape
  <2>3. Shape(c)
    BY <1>3, <2>1, <2>2 DEF Shape
  <2> QED
    BY <1>2, <1>3, <2>3
<1>8. CASE x.to = "" /\ b.kind = "visit"
  <2>1. Rests(c) /\ (c.next = a.next \/ c.next = "")
    BY <1>2, <1>4, <1>8 DEF Leads
  <2>2. ~c.due /\ c.next # "/api/chat"
    BY <1>3, <1>4, <1>8, <2>1 DEF Shape
  <2>3. Shape(c)
    BY <1>3, <2>1, <2>2 DEF Shape, Rests
  <2> QED
    BY <1>2, <1>3, <2>3
<1> QED
  BY <1>5, <1>6, <1>7, <1>8 DEF TabType

LEMMA LoseKeeps ==
  ASSUME WebInv, NEW t \in Tab, Lose(t) PROVE WebInv'
<1>1. PICK a : a = tab[t]
  OBVIOUS
<1>2. a \in TabType /\ Shape(a) /\ tab \in [Tab -> TabType] /\ a.had \in BOOLEAN
  BY <1>1 DEF WebInv, WebTypes, TabsOk, TabType
<1>3. PICK b \in TabType : Took(b, a, a.had) /\ b = [a EXCEPT !.effect = "keep", !.pair = 0,
                                                                 !.to = "", !.shows = ""]
  BY <1>2, TookIs
<1>5. PICK x : x = [b EXCEPT !.shows = "error"]
  OBVIOUS
<1>6. PICK c : c = Follow(x, b)
  OBVIOUS
<1>7. /\ a.pc = "answered" /\ tab' = [tab EXCEPT ![t] = c] /\ undisturbed' = FALSE
      /\ UNCHANGED <<now, pairs, revokedPairs, jar>>
  BY <1>1, <1>3, <1>5, <1>6 DEF Lose
<1>8. x.to = "" /\ x.shows = "error"
  BY <1>3, <1>5 DEF Took, TabType
<1>9. c \in TabType /\ Leads(x, b, c) /\ Shape(c) /\ c.pair = 0
  BY <1>2, <1>3, <1>6, <1>7, <1>8, ShapeStays
<1>10. /\ tab' \in [Tab -> TabType] /\ tab'[t] = c
       /\ \A u \in Tab \ {t} : tab'[u] = tab[u]
  BY <1>2, <1>7, <1>9
<1>11. Grows
  BY <1>7, StillIs
<1>12. WebTypes'
  <2>1. c.pair <= Len(pairs)
    <3>1. PairsOk
      BY DEF WebInv, WebTypes
    <3>2. Len(pairs) \in Nat
      BY <3>1, LenIs
    <3>3. c.pair = 0
      BY <1>9
    <3> QED
      BY <3>2, <3>3
  <2>2. TabsOk'
    BY <1>7, <1>9, <1>10, <2>1 DEF WebInv, WebTypes, TabsOk
  <2> QED
    BY <1>7, <2>2 DEF WebInv, WebTypes, PairsOk, JarOk
<1>13. FewLeft'
  <2>1. ASSUME NEW u \in Tab \ {t}, NEW d, d = tab[u] PROVE d.hops + Left(d, jar)' <= 6
    <3>1. d.hops + Left(d, jar) <= 6
      BY <2>1 DEF WebInv, FewLeft
    <3>2. Left(d, jar)' = Left(d, jar)
      BY <1>11, <2>1, LeftStays DEF WebInv
    <3> QED
      BY <3>1, <3>2
  <2>2. c.hops + Left(c, jar)' <= 6
    <3>1. Left(c, jar)' \in 0..6
      BY LeftBound
    <3>2. c.hops = 0
      <4>1. b.kind \in {"visit", "call", "logout"} /\ b.kind = a.kind /\ b.hops = a.hops
        BY <1>3 DEF Took, TabType
      <4>2. CASE b.kind = "logout"
        <5>1. c.hops = a.hops
          BY <1>8, <1>9, <4>1, <4>2 DEF Leads
        <5> QED
          BY <1>2, <4>1, <4>2, <5>1 DEF Shape
      <4>3. CASE b.kind \in {"visit", "call"}
        BY <1>8, <1>9, <4>3 DEF Leads, Rests
      <4> QED
        BY <4>1, <4>2, <4>3
    <3> QED
      BY <3>1, <3>2
  <2> QED
    BY <1>10, <2>1, <2>2 DEF FewLeft
<1>14. Undisturbed'
  BY <1>7 DEF Undisturbed
<1> QED
  BY <1>12, <1>13, <1>14 DEF WebInv

LEMMA DeliverKeeps ==
  ASSUME WebInv, NEW t \in Tab, Deliver(t) PROVE WebInv'
<1>1. PICK a : a = tab[t]
  OBVIOUS
<1>2. /\ a \in TabType /\ Shape(a) /\ a.pair <= Len(pairs) /\ tab \in [Tab -> TabType]
      /\ a.had \in BOOLEAN /\ a.pair \in Nat /\ a.kind \in {"visit", "call", "logout"}
  BY <1>1 DEF WebInv, WebTypes, TabsOk, TabType
<1>3. PICK h : h = (a.had \/ a.effect = "set")
  OBVIOUS
<1>4. h \in BOOLEAN /\ (h <=> Had(a))
  BY <1>3 DEF Had
<1>5. PICK b \in TabType : /\ b = [a EXCEPT !.effect = "keep", !.pair = 0, !.to = "",
                                            !.shows = "", !.had = h]
                           /\ Took(b, a, h)
  BY <1>2, <1>4, TookIs
<1>6. PICK c : c = Follow(a, b)
  OBVIOUS
<1>7. PICK j : j = After(a, jar)
  OBVIOUS
<1>8. /\ a.pc = "answered" /\ jar' = j /\ UNCHANGED <<now, pairs, revokedPairs, undisturbed>>
      /\ tab' = [u \in Tab |->
            IF u # t THEN [tab[u] EXCEPT !.hops = IF a.effect = "keep" THEN @ ELSE 0] ELSE c]
  <2>1. a.pc = "answered" /\ UNCHANGED <<now, pairs, revokedPairs, undisturbed>>
    BY <1>1 DEF Deliver
  <2>2. jar' = j
    <3>1. jar' = CASE a.effect = "set" -> setSession(t)
                   [] a.effect = "clear" -> clearSession(t)
                   [] a.effect = "tidy" -> Tidied
                   [] OTHER -> jar
      BY <1>1 DEF Deliver
    <3>2. setSession(t) = [at |-> a.pair, rt |-> a.pair, legacy |-> 0]
      <4>1. PICK n : n = a.pair
        OBVIOUS
      <4>2. [Empty EXCEPT !.at = n] = [at |-> n, rt |-> 0, legacy |-> 0]
        BY DEF Empty
      <4>3. [Empty EXCEPT !.at = n, !.rt = n] = [[Empty EXCEPT !.at = n] EXCEPT !.rt = n]
        OBVIOUS
      <4>4. [[at |-> n, rt |-> 0, legacy |-> 0] EXCEPT !.rt = n] = [at |-> n, rt |-> n, legacy |-> 0]
        OBVIOUS
      <4>5. setSession(t) = [Empty EXCEPT !.at = n, !.rt = n]
        BY <1>1, <4>1 DEF setSession
      <4> QED
        BY <4>1, <4>2, <4>3, <4>4, <4>5
    <3> QED
      BY <1>7, <3>1, <3>2 DEF After, clearSession, Tidied
  <2>3. b = [a EXCEPT !.effect = "keep", !.pair = 0, !.to = "", !.shows = "",
                      !.had = @ \/ a.effect = "set"]
    BY <1>3, <1>5
  <2>4. tab' = [u \in Tab |->
            IF u # t THEN [tab[u] EXCEPT !.hops = IF a.effect = "keep" THEN @ ELSE 0]
            ELSE Follow(a, [a EXCEPT !.effect = "keep", !.pair = 0, !.to = "", !.shows = "",
                                     !.had = @ \/ a.effect = "set"])]
    BY <1>1 DEF Deliver
  <2> QED
    BY <1>6, <2>1, <2>2, <2>3, <2>4
<1>9. c \in TabType /\ Kept(c, b) /\ Leads(a, b, c) /\ Shape(c) /\ c.pair = 0
  BY <1>2, <1>5, <1>6, <1>8, ShapeStays
<1>10. c.effect = "keep" /\ c.had = h /\ c.want = a.want /\ c.due = a.due
  BY <1>5, <1>9 DEF Kept, Took
<1>11. ASSUME NEW u \in Tab \ {t}, NEW d, d = tab[u]
       PROVE  \E e \in TabType :
                 /\ tab'[u] = e /\ Shape(e) /\ e.pair = d.pair
                 /\ e.hops = IF a.effect = "keep" THEN d.hops ELSE 0
                 /\ e.pc = d.pc /\ e.path = d.path /\ e.effect = d.effect /\ e.to = d.to
                 /\ Landed(d) => Landed(e)
  <2>1. d \in TabType /\ Shape(d)
    BY <1>11 DEF WebInv, WebTypes, TabsOk
  <2>2. PICK n : n = IF a.effect = "keep" THEN d.hops ELSE 0
    OBVIOUS
  <2>3. PICK e : e = [d EXCEPT !.hops = n]
    OBVIOUS
  <2>4. tab'[u] = e
    BY <1>8, <1>11, <2>2, <2>3
  <2>5. e \in TabType
    <3>1. CASE n = 0
      BY <2>1, <2>3, <3>1, EditIs
    <3>2. CASE n = d.hops
      BY <2>1, <2>3, <3>2 DEF TabType
    <3> QED
      BY <2>2, <3>1, <3>2
  <2>6. Shape(e)
    BY <2>1, <2>2, <2>3 DEF Shape, TabType
  <2>7. Landed(d) => Landed(e)
    BY <2>1, <2>3 DEF Landed, TabType
  <2>8. /\ e.pair = d.pair /\ e.hops = n /\ e.pc = d.pc /\ e.path = d.path
        /\ e.effect = d.effect /\ e.to = d.to
    BY <2>1, <2>3 DEF TabType
  <2> QED
    BY <2>2, <2>4, <2>5, <2>6, <2>7, <2>8
<1>12. Len(pairs) \in Nat /\ Len(pairs) >= 1 /\ 0 <= Len(pairs)
  <2>1. PairsOk
    BY DEF WebInv, WebTypes
  <2>2. Len(pairs) \in Nat /\ Len(pairs) >= 1
    BY <2>1, LenIs
  <2> QED
    BY <2>2
<1>13. tab' \in [Tab -> TabType] /\ tab'[t] = c
  <2>1. \A u \in Tab \ {t} : tab'[u] \in TabType
    BY <1>11
  <2> QED
    BY <1>8, <1>9, <2>1
<1>14. WebTypes'
  <2>1. JarOk'
    <3>1. jar \in [at : 0..Len(pairs), rt : 0..Len(pairs), legacy : {0, 1}]
          /\ jar.at = jar.rt /\ (jar.at # 0 => jar.legacy = 0)
      BY DEF WebInv, WebTypes, JarOk
    <3>2. a.pair \in 0..Len(pairs) /\ 0 \in 0..Len(pairs)
      BY <1>2, <1>12
    <3>3. j \in [at : 0..Len(pairs), rt : 0..Len(pairs), legacy : {0, 1}]
          /\ j.at = j.rt /\ (j.at # 0 => j.legacy = 0)
      BY <1>7, <3>1, <3>2 DEF After, Empty
    <3> QED
      BY <1>8, <3>3 DEF JarOk
  <2>2. TabsOk'
    <3>1. ASSUME NEW u \in Tab \ {t} PROVE Shape(tab'[u]) /\ tab'[u].pair <= Len(pairs)
      <4>1. tab[u].pair <= Len(pairs)
        BY DEF WebInv, WebTypes, TabsOk
      <4> QED
        BY <1>11, <4>1
    <3>2. Shape(tab'[t]) /\ tab'[t].pair <= Len(pairs)
      BY <1>9, <1>12, <1>13
    <3> QED
      BY <1>8, <1>13, <3>1, <3>2 DEF TabsOk
  <2>3. PairsOk' /\ undisturbed' \in BOOLEAN
    BY <1>8 DEF WebInv, WebTypes, PairsOk
  <2> QED
    BY <2>1, <2>2, <2>3 DEF WebTypes
<1>15. /\ \A path : Rank(path, jar)' = Rank(path, j)
       /\ Valid(jar)' <=> Valid(j)
       /\ \A abroad : Signed(jar, abroad)' <=> Signed(j, abroad)
       /\ Honest(jar)' <=> Honest(j)
  BY <1>8 DEF Rank, AppRank, Valid, PairOf, Alive, Usable, Signed, Honest
<1>16. FewLeft'
  <2>1. ASSUME NEW u \in Tab \ {t}, NEW d, d = tab[u], NEW e, e = tab'[u]
        PROVE  e.hops + Left(e, jar)' <= 6
    <3>1. e.hops = (IF a.effect = "keep" THEN d.hops ELSE 0) /\ e.pc = d.pc /\ e.path = d.path
          /\ e.effect = d.effect /\ e.to = d.to /\ e.pair = d.pair
      BY <1>11, <2>1
    <3>2. CASE a.effect # "keep"
      <4>1. Left(e, jar)' \in 0..6
        BY LeftBound
      <4>2. e.hops = 0
        BY <3>1, <3>2
      <4> QED
        BY <4>1, <4>2
    <3>3. CASE a.effect = "keep"
      <4>1. UNCHANGED <<now, pairs, revokedPairs, jar>>
        BY <1>7, <1>8, <3>3 DEF After
      <4>2. Left(d, jar)' = Left(d, jar)
        BY <2>1, <4>1, StillIs, LeftStays DEF WebInv
      <4>3. Left(e, jar)' = Left(d, jar)'
        BY <3>1 DEF Left, After
      <4>4. d.hops + Left(d, jar) <= 6
        BY <2>1 DEF WebInv, FewLeft
      <4>5. e.hops = d.hops
        BY <3>1, <3>3
      <4> QED
        BY <4>2, <4>3, <4>4, <4>5
    <3> QED
      BY <3>2, <3>3
  <2>2. c.hops + Left(c, jar)' <= 6
    <3>1. a.hops + Left(a, jar) <= 6 /\ a.hops \in Nat
      BY <1>1, <1>2 DEF WebInv, FewLeft, TabType
    <3>2. b.hops = a.hops /\ b.kind = a.kind
      BY <1>5 DEF Took
    <3>3. CASE a.to # ""
      <4>1. c.pc = "asked" /\ c.path = a.to /\ c.hops = a.hops + 1
        BY <1>9, <3>2, <3>3 DEF Leads, Moves
      <4>2. Left(c, jar)' = Rank(a.to, j)
        BY <1>15, <4>1 DEF Left
      <4>3. Left(a, jar) = 1 + Rank(a.to, j)
        BY <1>7, <1>8, <3>3 DEF Left
      <4>4. Rank(a.to, j) \in 0..5
        BY RankBound
      <4> QED
        BY <3>1, <4>1, <4>2, <4>3, <4>4
    <3>4. CASE a.to = ""
      <4>1. Left(c, jar)' \in 0..6
        BY LeftBound
      <4>2. c.hops = 0
        <5>1. CASE b.kind = "logout"
          <6>1. c.hops = a.hops
            BY <1>9, <3>2, <3>4, <5>1 DEF Leads
          <6> QED
            BY <1>2, <3>2, <5>1, <6>1 DEF Shape
        <5>2. CASE b.kind \in {"visit", "call"}
          BY <1>9, <3>4, <5>2 DEF Leads, Rests
        <5> QED
          BY <1>2, <3>2, <5>1, <5>2
      <4> QED
        BY <4>1, <4>2
    <3> QED
      BY <3>3, <3>4
  <2> QED
    BY <1>13, <2>1, <2>2 DEF FewLeft
<1>17. Undisturbed'
  <2> SUFFICES ASSUME undisturbed' PROVE Undisturbed'
    BY DEF Undisturbed
  <2>1. /\ OnItsWay(a, jar) /\ Honest(j)
        /\ \A u \in Tab \ {t} : tab[u].pc = "rest" /\ Landed(tab[u])
    BY <1>1, <1>7, <1>8 DEF WebInv, Undisturbed, OneRequest
  <2>2. \A u \in Tab \ {t} : tab'[u].pc = "rest" /\ Landed(tab'[u])
    BY <1>11, <2>1
  <2>3. Honest(jar)' /\ Honest(After(c, jar))'
    BY <1>10, <1>15, <2>1 DEF After
  <2>4. IF c.pc = "rest" THEN Landed(c) ELSE OnItsWay(c, jar)'
    <3>1. /\ b.kind = a.kind /\ b.next = a.next /\ b.abroad = a.abroad /\ b.page = a.page
      BY <1>5 DEF Took
    <3>2. CASE a.kind = "logout"
      <4>1. a.to = ""
        BY <1>2, <3>2 DEF Shape
      <4>2. /\ c.pc = "asked" /\ c.path = "/login" /\ c.kind = "visit" /\ c.next = a.next
        BY <1>9, <3>1, <3>2, <4>1 DEF Leads, Moves
      <4>3. a.want = "/login" /\ a.next = "" /\ ~a.had /\ a.effect = "clear"
        BY <1>8, <2>1, <3>2 DEF OnItsWay
      <4>4. ~Had(c) /\ c.want = "/login" /\ c.next = ""
        BY <1>4, <1>10, <4>2, <4>3 DEF Had
      <4>5. ~Valid(j) /\ \A abroad : ~Signed(j, abroad)
        BY <1>7, <4>3, Barren DEF After, WebInv
      <4>6. Bound(c, "/login", "", jar)'
        BY <1>15, <4>4, <4>5 DEF Bound, GoodNext, Expected, App
      <4> QED
        BY <4>2, <4>4, <4>6 DEF OnItsWay
    <3>3. CASE a.kind = "call"
      <4>1. a.had /\ a.page = Expected(a.want) /\ (a.due => a.to = "" /\ a.shows = "data")
        BY <1>8, <2>1, <3>3 DEF OnItsWay
      <4>2. c.had /\ c.want = a.want /\ c.due = a.due
        BY <1>4, <1>10, <4>1 DEF Had
      <4>3. CASE a.to # ""
        <5>1. c.pc = "asked" /\ c.kind = "call" /\ c.page = a.page
          BY <1>9, <3>1, <3>3, <4>3 DEF Leads, Moves
        <5> QED
          BY <4>1, <4>2, <4>3, <5>1 DEF OnItsWay
      <4>4. CASE a.to = ""
        <5>1. c.pc = "rest" /\ c.page = a.page /\ (a.shows = "data" => c.outcome = "data")
          BY <1>9, <3>1, <3>3, <4>4 DEF Leads, Rests
        <5> QED
          BY <4>1, <4>2, <5>1 DEF Landed
      <4> QED
        BY <4>3, <4>4
    <3>4. CASE a.kind = "visit"
      <4>1. Had(c) <=> Had(a)
        BY <1>4, <1>10 DEF Had
      <4>2. CASE a.to # ""
        <5>1. /\ c.pc = "asked" /\ c.kind = "visit" /\ c.path = a.to /\ c.next = a.next
              /\ c.abroad = a.abroad
          BY <1>9, <3>1, <3>4, <4>2 DEF Leads, Moves
        <5>2. Bound(a, a.to, a.next, j)
          BY <1>7, <1>8, <2>1, <3>4, <4>2 DEF OnItsWay
        <5>3. Bound(c, a.to, a.next, jar)'
          BY <1>10, <1>15, <4>1, <5>1, <5>2 DEF Bound
        <5> QED
          BY <5>1, <5>3 DEF OnItsWay
      <4>3. CASE a.to = ""
        <5>1. /\ c.pc = "rest" /\ c.page = a.shows
              /\ c.next = (IF a.shows = "/login" THEN a.next ELSE "")
          BY <1>9, <3>1, <3>4, <4>3 DEF Leads, Rests
        <5>2. IF Had(a) THEN a.shows = Expected(a.want)
              ELSE a.shows = "/login" /\ GoodNext(a.next, a.want)
          BY <1>8, <2>1, <3>4, <4>3 DEF OnItsWay
        <5>3. ~c.due
          BY <1>2, <1>8, <1>10, <3>4 DEF Shape
        <5>4. c.had <=> Had(a)
          BY <1>4, <1>10
        <5> QED
          BY <1>10, <5>1, <5>2, <5>3, <5>4 DEF Landed
      <4> QED
        BY <4>2, <4>3
    <3> QED
      BY <1>2, <3>2, <3>3, <3>4
  <2>5. OneRequest'
    BY <2>2 DEF OneRequest
  <2> QED
    BY <1>13, <2>2, <2>3, <2>4, <2>5 DEF Undisturbed
<1> QED
  BY <1>14, <1>16, <1>17 DEF WebInv

(***************************************************************************)
(* WebSession: every step                                                  *)
(***************************************************************************)

LEMMA InitWeb == ASSUME WebInit PROVE WebInv
<1>1. PICK e \in {0, AccessTTL}, u \in 0..RefreshTTL :
         e <= u /\ pairs = <<[ends |-> e, until |-> u]>>
  BY DEF WebInit
<1>2. /\ now = 0 /\ revokedPairs = {} /\ undisturbed = TRUE /\ tab = [t \in Tab |-> Blank]
      /\ jar \in {Empty, [Empty EXCEPT !.legacy = 1], [Empty EXCEPT !.at = 1, !.rt = 1]}
  BY DEF WebInit
<1>3. AccessTTL \in Nat /\ RefreshTTL \in Nat /\ MaxPairs \in Nat /\ MaxTime \in Nat /\ MaxPairs > 0
  BY TTLAssumption
<1>4. Len(pairs) = 1
  BY <1>1
<1>5. PairsOk
  <2>1. PICK p : p = [ends |-> e, until |-> u]
    OBVIOUS
  <2>2. p \in [ends : Nat, until : Nat] /\ p.ends <= p.until
    BY <1>1, <1>3, <2>1
  <2>3. pairs \in Seq([ends : Nat, until : Nat]) /\ pairs[1] = p
    BY <1>1, <2>1, <2>2
  <2>4. \A n \in 1..Len(pairs) : pairs[n].ends <= pairs[n].until
    BY <1>4, <2>2, <2>3
  <2>5. Len(pairs) \in 1..MaxPairs /\ now \in 0..MaxTime
    BY <1>2, <1>3, <1>4
  <2> QED
    BY <1>2, <2>3, <2>4, <2>5 DEF PairsOk
<1>6. JarOk
  <2>1. PICK I : I = 0..Len(pairs)
    OBVIOUS
  <2>2. 0 \in I /\ 1 \in I
    BY <1>4, <2>1
  <2>3. /\ jar \in [at : I, rt : I, legacy : {0, 1}]
        /\ jar.at = jar.rt /\ (jar.at # 0 => jar.legacy = 0)
    <3>1. CASE jar = Empty
      BY <2>2, <3>1 DEF Empty
    <3>2. CASE jar = [Empty EXCEPT !.legacy = 1]
      BY <2>2, <3>2 DEF Empty
    <3>3. CASE jar = [Empty EXCEPT !.at = 1, !.rt = 1]
      BY <2>2, <3>3 DEF Empty
    <3> QED
      BY <1>2, <3>1, <3>2, <3>3
  <2> QED
    BY <2>1, <2>3 DEF JarOk
<1>7. /\ Blank \in TabType /\ Shape(Blank) /\ Blank.pair = 0 /\ Blank.pc = "rest"
      /\ Blank.hops = 0 /\ Landed(Blank)
  BY DEF Blank, TabType, WayBack, Path, App, Shape, Landed
<1>8. WebTypes
  <2>1. 0 <= Len(pairs)
    BY <1>4
  <2>2. TabsOk
    BY <1>2, <1>7, <2>1 DEF TabsOk
  <2> QED
    BY <1>2, <1>5, <1>6, <2>2 DEF WebTypes
<1>9. FewLeft
  <2>1. ASSUME NEW t \in Tab PROVE tab[t].hops + Left(tab[t], jar) <= 6
    <3>1. tab[t] = Blank
      BY <1>2
    <3>2. tab[t].hops = 0 /\ Left(tab[t], jar) = 0
      BY <1>7, <3>1 DEF Left
    <3> QED
      BY <3>2
  <2> QED
    BY <2>1 DEF FewLeft
<1>10. Undisturbed
  BY <1>2, <1>7 DEF Undisturbed, OneRequest, Honest
<1> QED
  BY <1>8, <1>9, <1>10 DEF WebInv

LEMMA WebStep == ASSUME WebInv, [WebNext]_webVars PROVE WebInv'
<1>1. CASE Tick
  BY <1>1, TickKeeps
<1>2. ASSUME NEW t \in Tab, Serve(t) PROVE WebInv'
  BY <1>2, proxyKeeps, HomeKeeps, LoginPageKeeps, requireUserKeeps, BridgeKeeps,
     ClearAndLoginKeeps, withAuthKeeps, LogoutRouteKeeps, loginActionKeeps DEF Serve
<1>3. ASSUME NEW t \in Tab, Visit(t) \/ Fetch(t) \/ MenuLogout(t) \/ Submit(t) \/ Deliver(t) \/ Lose(t)
      PROVE  WebInv'
  BY <1>3, VisitKeeps, FetchKeeps, MenuLogoutKeeps, SubmitKeeps, DeliverKeeps, LoseKeeps
<1>4. CASE UNCHANGED webVars
  <2>1. UNCHANGED <<now, pairs, revokedPairs, jar, tab, undisturbed>>
    BY <1>4 DEF webVars
  <2>2. Grows
    BY <2>1, StillIs
  <2>3. WebTypes'
    BY <2>1 DEF WebInv, WebTypes, PairsOk, JarOk, TabsOk
  <2>4. FewLeft'
    <3>1. ASSUME NEW u \in Tab, NEW d, d = tab[u] PROVE d.hops + Left(d, jar)' <= 6
      <4>1. d.hops + Left(d, jar) <= 6
        BY <3>1 DEF WebInv, FewLeft
      <4>2. Left(d, jar)' = Left(d, jar)
        BY <2>2, <3>1, LeftStays DEF WebInv
      <4> QED
        BY <4>1, <4>2
    <3> QED
      BY <2>1, <3>1 DEF FewLeft
  <2>5. Undisturbed'
    <3>1. \A c : OnItsWay(c, jar)' <=> OnItsWay(c, jar)
      <4>1. \A c, path, next, j : Bound(c, path, next, j)' <=> Bound(c, path, next, j)
        BY <2>1, StillIs DEF Bound
      <4>2. \A j : Valid(j)' <=> Valid(j)
        BY <2>1, StillIs
      <4> QED
        BY <2>1, <4>1, <4>2 DEF OnItsWay, After
    <3>2. \A c : Honest(After(c, jar))' <=> Honest(After(c, jar))
      BY <2>1 DEF Honest, After
    <3>3. Honest(jar)' <=> Honest(jar)
      BY <2>1 DEF Honest
    <3>4. Undisturbed
      BY DEF WebInv
    <3> QED
      BY <2>1, <3>1, <3>2, <3>3, <3>4 DEF Undisturbed, OneRequest, Resting
  <2> QED
    BY <2>3, <2>4, <2>5 DEF WebInv
<1> QED
  BY <1>1, <1>2, <1>3, <1>4 DEF WebNext

\* What was claimed of the cookies, the tabs and the pairs holds throughout.
THEOREM WebInvHolds == WebSpec => []WebInv
<1>1. WebInit => WebInv
  BY InitWeb
<1>2. WebInv /\ [WebNext]_webVars => WebInv'
  BY WebStep
<1> QED
  BY <1>1, <1>2, PTL DEF WebSpec

\* The pairs are dated, the cookies name pairs that were issued, and a tab shows
\* a page and asks for a path that there is.
THEOREM WebSessionTypes == WebSpec => []WebTypeOK
<1>1. WebInv => WebTypeOK
  <2> SUFFICES ASSUME WebInv PROVE WebTypeOK
    OBVIOUS
  <2>1. PairsOk /\ JarOk /\ TabsOk /\ undisturbed \in BOOLEAN
    BY DEF WebInv, WebTypes
  <2>2. pairs \in Seq([ends : Nat, until : Nat]) /\ DOMAIN pairs = 1..Len(pairs)
    BY <2>1 DEF PairsOk
  <2>3. jar \in [at : {0} \cup DOMAIN pairs, rt : {0} \cup DOMAIN pairs, legacy : {0, 1}]
    <3>1. Len(pairs) \in Nat
      BY <2>1, LenIs
    <3>2. 0..Len(pairs) = {0} \cup DOMAIN pairs
      BY <2>2, <3>1
    <3> QED
      BY <2>1, <3>2 DEF JarOk
  <2>4. \A t \in Tab :
          /\ tab[t].pc \in {"rest", "asked", "answered"}
          /\ tab[t].path \in Path
          /\ tab[t].page \in App \cup {"blank", "/login", "error"}
          /\ tab[t].outcome \in {"none", "data", "401", "page", "error"}
    BY <2>1 DEF TabsOk, TabType
  <2> QED
    BY <2>1, <2>2, <2>3, <2>4 DEF WebTypeOK, PairsOk
<1> QED
  BY <1>1, WebInvHolds, PTL

\* Whatever cookies the browser brings, however many detours a visit takes and
\* whenever tokens end: an undisturbed user comes to the page they asked for, or
\* to the form that will lead there, requireUser, the bridge and the login action
\* taken together.
THEOREM VisitsLand == WebSpec => []CalmLands
<1>1. WebInv => CalmLands
  <2> SUFFICES ASSUME WebInv, undisturbed, NEW t \in Tab, tab[t].pc = "rest",
                      tab[t].page # "blank"
               PROVE  IF tab[t].had THEN tab[t].page = Expected(tab[t].want)
                      ELSE /\ tab[t].page = "/login"
                           /\ tab[t].want \in App => tab[t].next = tab[t].want
    BY DEF CalmLands
  <2>1. Landed(tab[t])
    BY RestIs
  <2> QED
    BY <2>1 DEF Landed, GoodNext
<1> QED
  BY <1>1, WebInvHolds, PTL

\* An undisturbed page whose session can still be refreshed gets its data from
\* the BFF: withAuth rotates the tokens and sets the new cookies on the way.
THEOREM CallsAreAnswered == WebSpec => []CalmCallAnswered
<1>1. WebInv => CalmCallAnswered
  BY RestIs DEF CalmCallAnswered, Landed
<1> QED
  BY <1>1, WebInvHolds, PTL

\* At most six redirects in a row come of one state of the cookies and the clock,
\* whatever the backend answers: each leads to a path of a lower rank.
THEOREM RedirectsEnd == WebSpec => []NoRedirectLoop
<1>1. WebInv => NoRedirectLoop
  <2> SUFFICES ASSUME WebInv, NEW t \in Tab PROVE tab[t].hops < MaxRedirects
    BY DEF NoRedirectLoop
  <2>1. tab[t].hops + Left(tab[t], jar) <= 6 /\ tab[t].hops \in Nat
    BY DEF WebInv, FewLeft, WebTypes, TabsOk, TabType
  <2>2. Left(tab[t], jar) \in 0..6
    BY LeftBound
  <2>3. tab[t].hops <= 6
    BY <2>1, <2>2
  <2> QED
    BY <2>1, <2>3, RedirectAssumption
<1> QED
  BY <1>1, WebInvHolds, PTL
=============================================================================

--------------------------- MODULE OAuthLoginProofs ---------------------------
(***************************************************************************)
(* Proofs about OAuthLogin, for any number of tabs, pages, logins and      *)
(* reloads: its types, what the cookies hold, what the state check refuses *)
(* and where a sign-in lands.                                              *)
(*                                                                         *)
(* The invariant: no two tabs are in the same login, the cookies tell of   *)
(* the logins that nothing cleared (CookiesExact), and the cookies that a  *)
(* callback carries tell the same of the moment it was sent.               *)
(***************************************************************************)
EXTENDS OAuthLogin, TLAPS

Running == {"sent", "exchange", "fetch", "session"}

TabStates ==
  [pc : {"idle", "provider", "sent", "exchange", "fetch", "session"},
   login : 0 .. MaxLogins, denied : BOOLEAN, sent : Jars,
   page : {Home, "notFound", "refused", "signinFailed"} \cup SafePages,
   saw : 0 .. MaxLogins, sawGone : 0 .. MaxLogins]

(* Login i is the browser's latest, and still remembered, in state (hi, lo). *)
Current(i, lo, hi) == i = hi /\ lo < hi

SentOK(r) ==
  /\ r.saw <= n
  /\ r.sent.state = IF r.saw > r.sawGone THEN r.saw ELSE 0
  /\ LastSafe(r.sent.next, r.sawGone, r.saw)

TabOK(r) ==
  /\ r.login <= n
  /\ r.pc # "idle" => r.login # 0
  /\ r.pc = "idle" /\ r.page = "refused" =>
       r.login # 0 /\ ~Current(r.login, r.sawGone, r.saw)
  /\ r.pc \in Running => SentOK(r)
  /\ r.pc \in {"exchange", "fetch", "session"} => r.sent.state = r.login

OwnLogins ==
  \A t, u \in Tabs : t # u /\ tab[t].login # 0 => tab[t].login # tab[u].login

TabsOK == (\A t \in Tabs : TabOK(tab[t])) /\ OwnLogins

IInv == TypeOK /\ CookiesExact /\ TabsOK

LEMMA ShowingType ==
  ASSUME NEW page \in {Home, "notFound", "refused", "signinFailed"} \cup SafePages,
         NEW i \in 0 .. MaxLogins
  PROVE  /\ Showing(page, i) \in TabStates
         /\ Showing(page, i).pc = "idle" /\ Showing(page, i).page = page
         /\ Showing(page, i).login = i
BY BoundsNat DEF Showing, TabStates, NoJar, Jars

LEMMA InitIInv == Init => IInv
<1> SUFFICES ASSUME Init PROVE IInv
  OBVIOUS
<1>1. Showing(Home, 0) \in TabStates /\ Showing(Home, 0).pc = "idle"
      /\ Showing(Home, 0).page = Home /\ Showing(Home, 0).login = 0
  BY ShowingType, BoundsNat
<1>2. tab \in [Tabs -> TabStates]
      /\ \A t \in Tabs : tab[t].pc = "idle" /\ tab[t].page = Home /\ tab[t].login = 0
  BY <1>1 DEF Init
<1>3. TypeOK
  BY <1>2, BoundsNat DEF Init, TypeOK, NoJar, Jars, Logins, TabStates
<1>4. CookiesExact
  BY DEF Init, CookiesExact, LastSafe, NoJar
<1>5. TabsOK
  BY <1>2, RefusedIsNoPage DEF Init, TabsOK, TabOK, OwnLogins, Running
<1> QED
  BY <1>3, <1>4, <1>5 DEF IInv

(* One tab moves on within its login, or ends it.                          *)
LEMMA TabStep ==
  ASSUME IInv, NEW t \in Tabs, NEW r \in TabStates,
         tab' = [tab EXCEPT ![t] = r],
         UNCHANGED <<n, asked>>,
         TabOK(r), r.login \in {0, tab[t].login}
  PROVE  tab' \in [Tabs -> TabStates] /\ TabsOK'
<1>1. tab' \in [Tabs -> TabStates]
  BY DEF IInv, TypeOK, TabStates
<1>2. tab'[t] = r /\ \A u \in Tabs \ {t} : tab'[u] = tab[u]
  BY DEF IInv, TypeOK
<1>3. OwnLogins'
  BY <1>2 DEF OwnLogins, IInv, TabsOK
<1>4. \A u \in Tabs : TabOK(tab[u])'
  BY <1>2 DEF TabOK, SentOK, LastSafe, SafeNext, Current, Running, IInv, TabsOK
<1> QED
  BY <1>1, <1>3, <1>4 DEF TabsOK

LEMMA ShowStep ==
  ASSUME IInv, NEW t \in Tabs,
         NEW page \in {Home, "notFound", "signinFailed"} \cup SafePages,
         Shows(t, page), UNCHANGED <<n, asked>>
  PROVE  tab' \in [Tabs -> TabStates] /\ TabsOK'
<1> DEFINE r == Showing(page, 0)
<1>1. r \in TabStates /\ r.pc = "idle" /\ r.page = page /\ r.login = 0
  BY ShowingType, BoundsNat
<1>2. tab' = [tab EXCEPT ![t] = r]
  BY DEF Shows
<1> HIDE DEF r
<1>3. TabOK(r)
  BY <1>1, RefusedIsNoPage DEF TabOK, Running, IInv, TypeOK
<1> QED
  BY <1>1, <1>2, <1>3, TabStep

(* The answer that clears the cookies.                                     *)
LEMMA ClearStep ==
  ASSUME IInv, NEW session \in 0 .. MaxLogins, ClearCookies(session), n' = n
  PROVE  /\ jar' \in Jars /\ jar'.next = 0 /\ gone' \in 0 .. n'
         /\ CookiesExact'
<1>1. jar' = [state |-> 0, next |-> 0, session |-> session] /\ gone' = n
  BY DEF ClearCookies
<1>2. n \in Nat
  BY DEF IInv, TypeOK
<1> QED
  BY <1>1, <1>2, BoundsNat DEF Jars, CookiesExact, LastSafe

LEMMA FailedStep ==
  ASSUME IInv, NEW t \in Tabs, SigninFailed(t), UNCHANGED <<n, asked, reloads>>,
         used' \subseteq Logins
  PROVE  IInv'
<1>1. jar.session \in 0 .. MaxLogins
  BY DEF IInv, TypeOK, Jars
<1>2. jar' \in Jars /\ jar'.next = 0 /\ gone' \in 0 .. n' /\ CookiesExact'
  BY <1>1, ClearStep DEF SigninFailed
<1>3. tab' \in [Tabs -> TabStates] /\ TabsOK'
  BY ShowStep DEF SigninFailed
<1> QED
  BY <1>2, <1>3 DEF IInv, TypeOK, TabStates

(* A step that moves one tab and leaves the cookies alone.                 *)
LEMMA QuietStep ==
  ASSUME IInv, UNCHANGED <<n, asked, jar, gone>>,
         tab' \in [Tabs -> TabStates], TabsOK',
         reloads' \in 0 .. MaxReloads, used' \subseteq Logins
  PROVE  IInv'
<1>1. CookiesExact'
  BY DEF IInv, CookiesExact, LastSafe, SafeNext
<1> QED
  BY <1>1 DEF IInv, TypeOK, TabStates, SafeNext


(* A callback is sent, with the cookies of the moment.                     *)
LEMMA SendStep ==
  ASSUME IInv, NEW t \in Tabs, NEW denied \in BOOLEAN, Send(t, denied),
         tab[t].login # 0, UNCHANGED <<n, asked>>
  PROVE  tab' \in [Tabs -> TabStates] /\ TabsOK'
<1> DEFINE r == [tab[t] EXCEPT !.pc = "sent", !.denied = denied, !.sent = jar,
                               !.saw = n, !.sawGone = gone]
<1>1. tab[t] \in TabStates /\ jar \in Jars /\ n \in 0 .. MaxLogins /\ gone \in 0 .. n
  BY DEF IInv, TypeOK, TabStates
<1>2. n \in 0 .. MaxLogins /\ gone \in 0 .. MaxLogins /\ n \in Nat
  BY <1>1, BoundsNat
<1>3. /\ r \in TabStates /\ r.pc = "sent" /\ r.login = tab[t].login
      /\ r.sent = jar /\ r.saw = n /\ r.sawGone = gone
  BY <1>1, <1>2 DEF TabStates
<1>4. tab' = [tab EXCEPT ![t] = r]
  BY DEF Send, Attached
<1> HIDE DEF r
<1>5. SentOK(r)
  BY <1>2, <1>3 DEF SentOK, IInv, CookiesExact
<1>6. TabOK(r)
  BY <1>3, <1>5 DEF TabOK, IInv, TabsOK
<1> QED
  BY <1>3, <1>4, <1>6, TabStep

(* A callback that was sent goes on to the exchange or to the session, or  *)
(* is refused.                                                             *)
LEMMA GotoStep ==
  ASSUME IInv, NEW t \in Tabs, NEW pc \in {"exchange", "fetch", "session"},
         Goto(t, pc), tab[t].pc \in Running, StateMatches(t),
         UNCHANGED <<n, asked>>
  PROVE  tab' \in [Tabs -> TabStates] /\ TabsOK'
<1> DEFINE r == [tab[t] EXCEPT !.pc = pc]
<1>1. tab[t] \in TabStates /\ TabOK(tab[t])
  BY DEF IInv, TypeOK, TabStates, TabsOK
<1>2. /\ r \in TabStates /\ r.pc = pc /\ r.login = tab[t].login
      /\ r.sent = tab[t].sent /\ r.saw = tab[t].saw /\ r.sawGone = tab[t].sawGone
  BY <1>1 DEF TabStates
<1>3. tab' = [tab EXCEPT ![t] = r]
  BY DEF Goto
<1> HIDE DEF r
<1>4. TabOK(r)
  BY <1>1, <1>2 DEF TabOK, SentOK, StateMatches, Running
<1> QED
  BY <1>2, <1>3, <1>4, TabStep

LEMMA RefusedStep ==
  ASSUME IInv, NEW t \in Tabs, tab[t].pc = "sent", ~StateMatches(t),
         tab' = [tab EXCEPT ![t].pc = "idle", ![t].page = "refused"],
         UNCHANGED <<n, asked>>
  PROVE  tab' \in [Tabs -> TabStates] /\ TabsOK'
<1> DEFINE r == [tab[t] EXCEPT !.pc = "idle", !.page = "refused"]
<1>1. tab[t] \in TabStates /\ TabOK(tab[t])
  BY DEF IInv, TypeOK, TabStates, TabsOK
<1>2. /\ r \in TabStates /\ r.pc = "idle" /\ r.login = tab[t].login
      /\ r.saw = tab[t].saw /\ r.sawGone = tab[t].sawGone
  BY <1>1 DEF TabStates
<1>3. tab' = [tab EXCEPT ![t] = r]
  OBVIOUS
<1> HIDE DEF r
<1>4. tab[t].login # 0 /\ ~Current(tab[t].login, tab[t].sawGone, tab[t].saw)
  BY <1>1 DEF TabOK, SentOK, StateMatches, Running, Current, TabStates
<1>5. TabOK(r)
  BY <1>1, <1>2, <1>4 DEF TabOK, Running
<1> QED
  BY <1>2, <1>3, <1>5, TabStep

LEMMA CallbackStep ==
  ASSUME IInv, NEW t \in Tabs, Callback(t)
  PROVE  IInv'
<1>1. tab[t].pc = "sent" /\ UNCHANGED <<n, asked, used, reloads>>
  BY DEF Callback
<1>2. reloads' \in 0 .. MaxReloads /\ used' \subseteq Logins
  BY <1>1 DEF IInv, TypeOK
<1>3. CASE SigninFailed(t)
  BY <1>1, <1>2, <1>3, FailedStep
<1>4. CASE /\ ~StateMatches(t) /\ UNCHANGED <<jar, gone>>
           /\ tab' = [tab EXCEPT ![t].pc = "idle", ![t].page = "refused"]
  BY <1>1, <1>2, <1>4, RefusedStep, QuietStep
<1>5. CASE /\ StateMatches(t) /\ UNCHANGED <<jar, gone>>
           /\ Goto(t, "exchange")
  BY <1>1, <1>2, <1>5, GotoStep, QuietStep DEF Running
<1> QED
  BY <1>3, <1>4, <1>5 DEF Callback

LEMMA ExchangeStep ==
  ASSUME IInv, NEW t \in Tabs, ExchangeCode(t) \/ FetchUser(t)
  PROVE  IInv'
<1>1. /\ tab[t].pc \in {"exchange", "fetch"} /\ UNCHANGED <<n, asked, reloads>>
      /\ used' = used \/ used' = used \cup {tab[t].login}
  BY DEF ExchangeCode, FetchUser
<1>2. StateMatches(t)
  BY <1>1 DEF IInv, TabsOK, TabOK, StateMatches
<1>3. reloads' \in 0 .. MaxReloads
  BY <1>1 DEF IInv, TypeOK
<1>4. used' \subseteq Logins
  <2>1. tab[t].login \in 0 .. MaxLogins /\ tab[t].login # 0 /\ used \subseteq Logins
    BY <1>1 DEF IInv, TypeOK, TabsOK, TabOK
  <2>2. tab[t].login \in Logins
    BY <2>1, BoundsNat DEF Logins
  <2> QED
    BY <1>1, <2>1, <2>2
<1>5. ASSUME NEW pc \in {"fetch", "session"}, Goto(t, pc), UNCHANGED <<jar, gone>>
      PROVE  IInv'
  BY <1>1, <1>2, <1>3, <1>4, <1>5, GotoStep, QuietStep DEF Running
<1>6. CASE SigninFailed(t)
  BY <1>1, <1>4, <1>6, FailedStep
<1> QED
  BY <1>5, <1>6 DEF ExchangeCode, FetchUser

LEMMA SessionStep ==
  ASSUME IInv, NEW t \in Tabs, Session(t)
  PROVE  IInv'
<1>1. UNCHANGED <<n, asked, used, reloads>>
  BY DEF Session
<1>2. reloads' \in 0 .. MaxReloads /\ used' \subseteq Logins
  BY <1>1 DEF IInv, TypeOK
<1>3. CASE SigninFailed(t)
  BY <1>1, <1>2, <1>3, FailedStep
<1>4. CASE Shows(t, Destination(t)) /\ ClearCookies(tab[t].login)
  <2>1. tab[t].login \in 0 .. MaxLogins
    BY DEF IInv, TypeOK
  <2>2. jar' \in Jars /\ jar'.next = 0 /\ gone' \in 0 .. n' /\ CookiesExact'
    BY <1>1, <1>4, <2>1, ClearStep
  <2>3. Destination(t) \in {Home} \cup SafePages
    BY DEF Destination, SafeNext
  <2>4. tab' \in [Tabs -> TabStates] /\ TabsOK'
    BY <1>1, <1>4, <2>3, ShowStep
  <2> QED
    BY <1>1, <1>2, <2>2, <2>4 DEF IInv, TypeOK, TabStates
<1> QED
  BY <1>3, <1>4 DEF Session

(* The user, at the provider and at the reload button.                     *)
LEMMA UserStep ==
  ASSUME IInv, NEW t \in Tabs,
         (\E denied \in BOOLEAN : Decide(t, denied)) \/ TurnBack(t) \/ Reload(t)
  PROVE  IInv'
<1>1. /\ UNCHANGED <<n, asked, used, jar, gone>> /\ reloads' \in 0 .. MaxReloads
      /\ used' \subseteq Logins
  <2>1. UNCHANGED <<n, asked, used, jar, gone>>
    BY DEF Decide, TurnBack, Reload
  <2>2. reloads' = reloads \/ (reloads < MaxReloads /\ reloads' = reloads + 1)
    BY DEF Decide, TurnBack, Reload
  <2>3. reloads \in 0 .. MaxReloads /\ used \subseteq Logins
    BY DEF IInv, TypeOK
  <2> QED
    BY <2>1, <2>2, <2>3, BoundsNat
<1>2. CASE \E denied \in BOOLEAN : Send(t, denied) /\ tab[t].login # 0
  BY <1>1, <1>2, SendStep, QuietStep
<1>3. CASE Shows(t, Home)
  BY <1>1, <1>3, ShowStep, QuietStep
<1>4. tab[t].denied \in BOOLEAN
  BY DEF IInv, TypeOK
<1>5. ~TurnBack(t) => tab[t].login # 0
  BY DEF Decide, Reload, IInv, TabsOK, TabOK
<1> QED
  BY <1>2, <1>3, <1>4, <1>5 DEF Decide, TurnBack, Reload

(* A login begins: it becomes the latest, whatever else is going on.       *)
LEMMA LoginStep ==
  ASSUME IInv, NEW t \in Tabs, NEW p \in Providers, NEW page \in Pages,
         OauthLogin(t, p, page)
  PROVE  IInv'
<1>1. CASE ~Configured(p)
  <2>1. UNCHANGED <<n, asked, jar, gone, reloads, used>> /\ Shows(t, "notFound")
    BY <1>1 DEF OauthLogin
  <2>2. reloads' \in 0 .. MaxReloads /\ used' \subseteq Logins
    BY <2>1 DEF IInv, TypeOK
  <2> QED
    BY <2>1, <2>2, ShowStep, QuietStep
<1>2. CASE Configured(p)
  <2> DEFINE r == [Showing(Home, n + 1) EXCEPT !.pc = "provider"]
             c == [jar EXCEPT !.state = n + 1, !.next = NextCookie(page)]
  <2>1. /\ n < MaxLogins /\ n' = n + 1 /\ asked' = [asked EXCEPT ![n + 1] = page]
        /\ jar' = c /\ tab' = [tab EXCEPT ![t] = r] /\ UNCHANGED <<used, reloads, gone>>
    BY <1>2 DEF OauthLogin
  <2>2. n \in Nat /\ gone \in 0 .. n /\ n + 1 \in Logins /\ n' \in 0 .. MaxLogins
    BY <2>1, BoundsNat DEF IInv, TypeOK, Logins
  <2>3. jar \in Jars /\ NextCookie(page) \in 0 .. MaxLogins
    BY <2>2 DEF IInv, TypeOK, NextCookie, Jars, Logins
  <2>4. c \in Jars /\ c.state = n + 1 /\ c.next = NextCookie(page)
    <3>1. n + 1 \in 0 .. MaxLogins
      BY <2>2, BoundsNat DEF Logins
    <3> QED
      BY <2>3, <3>1 DEF Jars
  <2>5. Showing(Home, n + 1) \in TabStates /\ Showing(Home, n + 1).login = n + 1
    BY <2>2, ShowingType DEF Logins
  <2>6. r \in TabStates /\ r.pc = "provider" /\ r.login = n + 1
    BY <2>5 DEF TabStates
  <2> HIDE DEF r, c
  <2>7. asked' \in [Logins -> Pages \cup {NoPage}]
    BY <2>1 DEF IInv, TypeOK
  <2>8. asked'[n + 1] = page /\ \A i \in 1 .. n : asked'[i] = asked[i]
    BY <2>1, <2>2, BoundsNat DEF IInv, TypeOK, Logins
  <2>9. CookiesExact'
    <3>1. jar'.state = IF n' > gone' THEN n' ELSE 0
      BY <2>1, <2>2, <2>4
    <3>2. LastSafe(jar.next, gone, n)
      BY DEF IInv, CookiesExact
    <3>3. jar.next \in Nat /\ gone' = gone /\ jar'.next = NextCookie(page)
      BY <2>1, <2>3, <2>4, BoundsNat DEF Jars
    <3>4. LastSafe(jar.next, gone, n)'
      <4>1. CASE SafeNext(page)
        <5>1. jar'.next = n + 1
          BY <3>3, <4>1 DEF NextCookie
        <5> QED
          BY <2>1, <2>2, <2>8, <3>3, <4>1, <5>1 DEF LastSafe, SafeNext
      <4>2. CASE ~SafeNext(page)
        <5>1. jar'.next = jar.next
          BY <3>3, <4>2 DEF NextCookie
        <5>2. \A j \in gone + 1 .. n + 1 : j \in gone + 1 .. n \/ j = n + 1
          BY <2>2
        <5>3. \A j \in gone + 1 .. n + 1 : j > jar.next => asked'[j] \notin SafePages
          BY <2>2, <2>8, <3>2, <3>3, <4>2, <5>2 DEF LastSafe, SafeNext
        <5>4. jar.next # 0 => jar.next \in gone + 1 .. n + 1 /\ asked'[jar.next] \in SafePages
          BY <2>2, <2>8, <3>2, <3>3 DEF LastSafe, SafeNext
        <5> QED
          BY <2>1, <3>3, <5>1, <5>3, <5>4 DEF LastSafe, SafeNext
      <4> QED
        BY <4>1, <4>2
    <3> QED
      BY <3>1, <3>4 DEF CookiesExact
  <2>10. jar'.next # 0 => SafeNext(asked[jar.next])' 
    BY <2>9 DEF CookiesExact, LastSafe, SafeNext
  <2>11. tab' \in [Tabs -> TabStates] /\ tab'[t] = r
         /\ \A u \in Tabs \ {t} : tab'[u] = tab[u]
    BY <2>1, <2>6 DEF IInv, TypeOK, TabStates
  <2>12. TabOK(tab[t])'
    BY <2>1, <2>2, <2>6, <2>11 DEF TabOK, Running
  <2>13. ASSUME NEW u \in Tabs, u # t
         PROVE  TabOK(tab[u])'
    <3>1. tab'[u] = tab[u] /\ tab[u] \in TabStates /\ TabOK(tab[u])
      BY <2>11, <2>13 DEF IInv, TypeOK, TabStates, TabsOK
    <3>2. SentOK(tab[u]) => SentOK(tab[u])'
      BY <2>1, <2>2, <2>8, <3>1 DEF SentOK, LastSafe, SafeNext, TabStates, Jars
    <3> QED
      BY <2>1, <2>2, <3>1, <3>2 DEF TabOK, TabStates, Running, Current
  <2>14. OwnLogins'
    BY <2>2, <2>6, <2>11 DEF OwnLogins, IInv, TabsOK, TabOK, TypeOK
  <2> QED
    BY <2>1, <2>2, <2>4, <2>7, <2>9, <2>10, <2>11, <2>12, <2>13, <2>14
    DEF IInv, TypeOK, TabsOK, TabStates
<1> QED
  BY <1>1, <1>2

(* Cookies expire.                                                         *)
LEMMA ExpireStep ==
  ASSUME IInv, NEW i \in Logins, Expire(i)
  PROVE  IInv'
<1> DEFINE c == [jar EXCEPT !.state = IF @ <= i THEN 0 ELSE @,
                            !.next  = IF @ <= i THEN 0 ELSE @]
<1>1. /\ gone < i /\ i <= n /\ jar' = c /\ gone' = i
      /\ UNCHANGED <<n, asked, used, tab, reloads>>
  BY DEF Expire
<1>2. jar \in Jars /\ n \in Nat /\ gone \in Nat /\ i \in Nat /\ 0 \in 0 .. MaxLogins
  BY BoundsNat DEF IInv, TypeOK, Logins
<1>3. /\ c \in Jars
      /\ c.state = IF jar.state <= i THEN 0 ELSE jar.state
      /\ c.next = IF jar.next <= i THEN 0 ELSE jar.next
  BY <1>2 DEF Jars
<1> HIDE DEF c
<1>4. CookiesExact'
  <2>1. jar'.state = IF n' > gone' THEN n' ELSE 0
    BY <1>1, <1>2, <1>3 DEF IInv, CookiesExact
  <2>2. LastSafe(jar'.next, gone', n')
    BY <1>1, <1>2, <1>3 DEF IInv, CookiesExact, LastSafe, Jars
  <2> QED
    BY <1>1, <2>1, <2>2 DEF CookiesExact, LastSafe, SafeNext
<1>5. jar'.next # 0 => SafeNext(asked[jar.next])'
  BY <1>1, <1>2, <1>3 DEF IInv, TypeOK, SafeNext
<1>6. TabsOK'
  BY <1>1 DEF IInv, TabsOK, OwnLogins, TabOK, SentOK, LastSafe, SafeNext, Current, Running
<1> QED
  BY <1>1, <1>2, <1>3, <1>4, <1>5, <1>6 DEF IInv, TypeOK

LEMMA NextIInv == IInv /\ [Next]_vars => IInv'
<1> SUFFICES ASSUME IInv, [Next]_vars PROVE IInv'
  OBVIOUS
<1>1. CASE UNCHANGED vars
  BY <1>1 DEF vars, IInv, TypeOK, CookiesExact, TabsOK, OwnLogins, TabOK, SentOK,
              LastSafe, SafeNext, Current, Running
<1>2. CASE Next
  BY <1>2, CallbackStep, ExchangeStep, SessionStep, UserStep, LoginStep, ExpireStep
  DEF Next, Serve
<1> QED
  BY <1>1, <1>2

(* The inductive invariant holds in every state.                           *)
THEOREM Invariance == Spec => []IInv
BY InitIInv, NextIInv, PTL DEF Spec

(* Logins, cookies and tabs keep their types.                              *)
THEOREM TypeCorrect == Spec => []TypeOK
<1>1. IInv => TypeOK
  BY DEF IInv
<1> QED
  BY <1>1, Invariance, PTL

(* The cookies are those of the browser's latest login, and of the last    *)
(* one before it that asked for a page and got no answer.                  *)
THEOREM CookiesTellTheLatest == Spec => []CookiesExact
<1>1. IInv => CookiesExact
  BY DEF IInv
<1> QED
  BY <1>1, Invariance, PTL

(* The state check refuses the tabs that were crossed, and no other.       *)
THEOREM CheckIsExact == Spec => []StateCheckExact
<1>1. IInv => StateCheckExact
  <2> SUFFICES ASSUME IInv, NEW t \in Tabs
               PROVE  LET current == /\ tab[t].login = tab[t].saw
                                     /\ tab[t].saw > tab[t].sawGone
                      IN  /\ tab[t].pc \in {"exchange", "fetch", "session"} => current
                          /\ tab[t].pc = "idle" /\ tab[t].page = "refused" => ~current
    BY DEF StateCheckExact
  <2>1. tab[t] \in TabStates /\ TabOK(tab[t])
    BY DEF IInv, TypeOK, TabStates, TabsOK
  <2> QED
    BY <2>1 DEF TabOK, SentOK, Running, Current, TabStates
<1> QED
  BY <1>1, Invariance, PTL

-----------------------------------------------------------------------------

(* Where a step signs a tab in.                                            *)
Landing ==
  \A t \in Tabs :
    LET i == tab[t].login
    IN  tab[t].pc = "session" /\ jar'.session = i /\ jar.session # i =>
          \/ tab'[t].page = asked[i] /\ SafeNext(asked[i])
          \/ /\ ~SafeNext(asked[i])
             /\ \/ tab'[t].page = Home
                \/ \E j \in tab[t].sawGone + 1 .. i - 1 : tab'[t].page = asked[j]

LEMMA DestinationIs ==
  ASSUME IInv, NEW t \in Tabs, tab[t].pc = "session"
  PROVE  LET i == tab[t].login
         IN  \/ Destination(t) = asked[i] /\ SafeNext(asked[i])
             \/ /\ ~SafeNext(asked[i])
                /\ \/ Destination(t) = Home
                   \/ \E j \in tab[t].sawGone + 1 .. i - 1 : Destination(t) = asked[j]
<1> DEFINE i == tab[t].login
           k == tab[t].sent.next
<1>1. tab[t] \in TabStates /\ TabOK(tab[t])
  BY DEF IInv, TypeOK, TabStates, TabsOK
<1>2. /\ i = tab[t].saw /\ tab[t].sawGone < i /\ i \in Nat /\ tab[t].sawGone \in Nat
      /\ LastSafe(k, tab[t].sawGone, i) /\ k \in Nat
  BY <1>1, BoundsNat DEF TabOK, SentOK, Running, TabStates, Jars
<1> HIDE DEF i, k
<1>3. CASE SafeNext(asked[i])
  <2>1. k = i
    BY <1>2, <1>3 DEF LastSafe
  <2> QED
    BY <1>2, <1>3, <2>1 DEF Destination, i, k
<1>4. CASE ~SafeNext(asked[i]) /\ k = 0
  BY <1>4 DEF Destination, i, k
<1>5. CASE ~SafeNext(asked[i]) /\ k # 0
  <2>1. k \in tab[t].sawGone + 1 .. i - 1 /\ SafeNext(asked[k])
    BY <1>2, <1>5 DEF LastSafe
  <2>2. Destination(t) = asked[k]
    BY <1>5, <2>1 DEF Destination, k
  <2> QED
    BY <1>5, <2>1, <2>2 DEF i
<1> QED
  BY <1>3, <1>4, <1>5

LEMMA LandingStep == IInv /\ [Next]_vars => Landing
<1> SUFFICES ASSUME IInv, [Next]_vars, NEW t \in Tabs, tab[t].pc = "session",
                    jar'.session = tab[t].login, jar.session # tab[t].login
             PROVE  tab'[t].page = Destination(t)
  BY DestinationIs DEF Landing
<1>1. jar \in Jars
  BY DEF IInv, TypeOK
<1>2. PICK u \in Tabs : Session(u) /\ ClearCookies(tab[u].login) /\ Shows(u, Destination(u))
  <2>1. jar'.session # jar.session
    OBVIOUS
  <2>2. ASSUME NEW u \in Tabs, SigninFailed(u)
        PROVE  FALSE
    BY <2>1, <2>2 DEF SigninFailed, ClearCookies
  <2>3. ASSUME NEW u \in Tabs, NEW p \in Providers, NEW page \in Pages,
               OauthLogin(u, p, page)
        PROVE  FALSE
    BY <1>1, <2>1, <2>3 DEF OauthLogin, Jars
  <2>4. ASSUME NEW i \in Logins, Expire(i)
        PROVE  FALSE
    BY <1>1, <2>1, <2>4 DEF Expire, Jars
  <2>5. PICK u \in Tabs : \/ \E denied \in BOOLEAN : Decide(u, denied)
                         \/ TurnBack(u) \/ Reload(u) \/ Serve(u)
    BY <2>1, <2>3, <2>4 DEF Next, vars
  <2>6. Session(u)
    BY <2>1, <2>2, <2>5 DEF Decide, TurnBack, Reload, Serve, Callback, ExchangeCode,
                            FetchUser
  <2> QED
    BY <2>2, <2>6 DEF Session
<1>3. tab[u].login = tab[t].login /\ tab[t].login # 0
  BY <1>2 DEF ClearCookies, IInv, TabsOK, TabOK
<1>4. u = t
  BY <1>3 DEF IInv, TabsOK, OwnLogins
<1> QED
  BY <1>2, <1>4 DEF Shows, Showing, IInv, TypeOK

(* A sign-in returns the tab to the page its own login asked for; for want *)
(* of one, to that of an abandoned login still remembered, or home.        *)
THEOREM SignInLands == Spec => LandsWhereStarted
<1>1. IInv /\ [Next]_vars => [Landing]_vars
  BY LandingStep
<1>2. Spec => [][Landing]_vars
  BY <1>1, Invariance, PTL DEF Spec
<1>3. LandsWhereStarted <=> [][Landing]_vars
  BY PTL DEF LandsWhereStarted, Landing
<1> QED
  BY <1>2, <1>3

=============================================================================

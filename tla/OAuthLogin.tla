------------------------------ MODULE OAuthLogin ------------------------------
(***************************************************************************)
(* The OAuth round trip of one browser with several tabs: oauth_login puts *)
(* a fresh state, and the page to return to, into cookies and sends the    *)
(* tab to the provider; the provider sends it back to oauth_callback,      *)
(* which compares the state, trades the code for a session, and returns    *)
(* the tab to its page.  The cookies belong to the browser, so the tabs    *)
(* overwrite and clear each other's; a request carries the cookies of the  *)
(* moment it is sent, while its answer sets them when it arrives.          *)
(*                                                                         *)
(* A login is known by its number, which also stands for its state, its    *)
(* code and its session; the cookie of the return page holds the number of *)
(* the login that set it.  0 is no cookie.  Whose account a session is for *)
(* is the business of module Accounts.                                     *)
(***************************************************************************)
EXTENDS Integers

CONSTANTS
  Tabs,
  Providers, Enabled,   \* provider names, and those that are configured
  Pages, SafePages,     \* what ?next= may be, and what safe_next accepts of it
  NoPage,               \* no ?next=
  Home,                 \* web_post_login_url
  MaxLogins,            \* bound: logins
  MaxReloads            \* bound: reloads of a callback

ASSUME EnabledProvided == Enabled \subseteq Providers
ASSUME SafeAreAsked    == SafePages \subseteq Pages /\ NoPage \notin SafePages
ASSUME RefusedIsNoPage == "refused" # Home /\ "refused" \notin SafePages
ASSUME BoundsNat       == MaxLogins \in Nat /\ MaxReloads \in Nat

VARIABLES
  n,        \* logins begun
  asked,    \* per login, the page it asks to return to
  used,     \* the logins whose authorization code the provider has taken
  jar,      \* the cookies of the browser
  tab,      \* per tab, where it is in its round trip
  reloads,  \* reloads so far
  gone      \* history: the last login whose cookies were cleared or expired

vars == <<n, asked, used, jar, tab, reloads, gone>>

Logins == 1 .. MaxLogins

NoJar == [state |-> 0, next |-> 0, session |-> 0]

(* A tab that shows a page, at the end of login i.  saw and sawGone are    *)
(* history: n and gone as they were when its callback was sent.            *)
Showing(page, i) ==
  [pc |-> "idle", page |-> page, login |-> i, denied |-> FALSE, sent |-> NoJar,
   saw |-> 0, sawGone |-> 0]

Init ==
  /\ n = 0 /\ used = {} /\ reloads = 0 /\ gone = 0
  /\ asked = [i \in Logins |-> NoPage]
  /\ jar = NoJar
  /\ tab = [t \in Tabs |-> Showing(Home, 0)]

-----------------------------------------------------------------------------

Configured(p) == p \in Enabled

SafeNext(page) == page \in SafePages

(* The return page is remembered if it is one of ours; if not, the cookie  *)
(* stays as it was.                                                        *)
NextCookie(page) == IF SafeNext(page) THEN n + 1 ELSE jar.next

Shows(t, page) == tab' = [tab EXCEPT ![t] = Showing(page, 0)]

Goto(t, pc) == tab' = [tab EXCEPT ![t].pc = pc]

(* oauth_login                                                             *)
OauthLogin(t, p, page) ==
  /\ tab[t].pc = "idle"
  /\ \/ /\ ~Configured(p)
        /\ Shows(t, "notFound")
        /\ UNCHANGED <<n, asked, jar>>
     \/ /\ Configured(p) /\ n < MaxLogins
        /\ n' = n + 1
        /\ asked' = [asked EXCEPT ![n + 1] = page]
        /\ jar' = [jar EXCEPT !.state = n + 1, !.next = NextCookie(page)]
        /\ tab' = [tab EXCEPT ![t] = [Showing(Home, n + 1) EXCEPT !.pc = "provider"]]
  /\ UNCHANGED <<used, reloads, gone>>

(* The cookies a callback carries: SameSite=Lax lets them come along.      *)
Attached == jar

(* The tab goes to the callback, with an error or with a code.             *)
Send(t, denied) ==
  tab' = [tab EXCEPT ![t].pc = "sent", ![t].denied = denied, ![t].sent = Attached,
                     ![t].saw = n, ![t].sawGone = gone]

(* At the provider the user consents, denies, or turns back.               *)
Decide(t, denied) ==
  /\ tab[t].pc = "provider"
  /\ Send(t, denied)
  /\ UNCHANGED <<n, asked, used, jar, reloads, gone>>

TurnBack(t) ==
  /\ tab[t].pc = "provider"
  /\ Shows(t, Home)
  /\ UNCHANGED <<n, asked, used, jar, reloads, gone>>

(* The user reloads a callback that was refused or takes too long: it is   *)
(* sent again, and nobody sees the answer to the first.                    *)
Reload(t) ==
  /\ \/ tab[t].pc \in {"sent", "exchange", "fetch", "session"}
     \/ tab[t].pc = "idle" /\ tab[t].page = "refused"
  /\ reloads < MaxReloads
  /\ reloads' = reloads + 1
  /\ Send(t, tab[t].denied)
  /\ UNCHANGED <<n, asked, used, jar, gone>>

-----------------------------------------------------------------------------

(* Mutant of ClearCookies: the return page is forgotten.                   *)
ClearStateOnly(session) ==
  /\ jar' = [jar EXCEPT !.state = 0, !.session = session]
  /\ gone' = n

(* The answer clears both cookies, whichever login set them by now.        *)
ClearCookies(session) ==
  /\ jar' = [state |-> 0, next |-> 0, session |-> session]
  /\ gone' = n

SigninFailed(t) == Shows(t, "signinFailed") /\ ClearCookies(jar.session)

(* Mutant of StateMatches: any state cookie will do.                       *)
StatePresent(t) == tab[t].sent.state # 0

(* The state cookie is there and is what the provider returned.            *)
StateMatches(t) == tab[t].sent.state = tab[t].login

(* oauth_callback, up to the exchange.                                     *)
Callback(t) ==
  /\ tab[t].pc = "sent"
  /\ \/ tab[t].denied /\ SigninFailed(t)
     \/ /\ ~tab[t].denied /\ ~StateMatches(t)
        /\ tab' = [tab EXCEPT ![t].pc = "idle", ![t].page = "refused"]
        /\ UNCHANGED <<jar, gone>>
     \/ /\ ~tab[t].denied /\ StateMatches(t)
        /\ Goto(t, "exchange")
        /\ UNCHANGED <<jar, gone>>
  /\ UNCHANGED <<n, asked, used, reloads>>

(* Mutant of ExchangeCode: a failed exchange is tried again.               *)
ExchangeCodeAgain(t) ==
  /\ tab[t].pc = "exchange"
  /\ \/ /\ tab[t].login \notin used
        /\ used' = used \cup {tab[t].login}
        /\ Goto(t, "fetch")
     \/ UNCHANGED <<used, tab>>
  /\ UNCHANGED <<n, asked, jar, reloads, gone>>

(* exchange_code: the provider takes a code once.  It may also be out of   *)
(* reach, before it took the code or after.                                *)
ExchangeCode(t) ==
  LET i == tab[t].login
  IN  /\ tab[t].pc = "exchange"
      /\ \/ /\ i \notin used
            /\ used' = used \cup {i}
            /\ Goto(t, "fetch")
            /\ UNCHANGED <<jar, gone>>
         \/ used' \in {used, used \cup {i}} /\ SigninFailed(t)
      /\ UNCHANGED <<n, asked, reloads>>

(* fetch_user: a request or two to the provider, which may fail, or know   *)
(* no verified address.                                                    *)
FetchUser(t) ==
  /\ tab[t].pc = "fetch"
  /\ \/ SigninFailed(t)
     \/ Goto(t, "session") /\ UNCHANGED <<jar, gone>>
  /\ UNCHANGED <<n, asked, used, reloads>>

(* Mutant of Destination: the return page is read when the answer is sent, *)
(* not from the cookies the request came with.                             *)
DestinationNow(t) ==
  LET i == jar.next
  IN  IF i # 0 /\ SafeNext(asked[i]) THEN asked[i] ELSE Home

(* Where a sign-in takes the tab: to the page of the cookie, or home.      *)
Destination(t) ==
  LET i == tab[t].sent.next
  IN  IF i # 0 /\ SafeNext(asked[i]) THEN asked[i] ELSE Home

(* The account is resolved, which may fail, and the tab is signed in.      *)
Session(t) ==
  /\ tab[t].pc = "session"
  /\ \/ SigninFailed(t)
     \/ Shows(t, Destination(t)) /\ ClearCookies(tab[t].login)
  /\ UNCHANGED <<n, asked, used, reloads>>

(* Ten minutes after login i its cookies expire, and the older ones too.   *)
Expire(i) ==
  /\ gone < i /\ i <= n
  /\ jar' = [jar EXCEPT !.state = IF @ <= i THEN 0 ELSE @,
                        !.next  = IF @ <= i THEN 0 ELSE @]
  /\ gone' = i
  /\ UNCHANGED <<n, asked, used, tab, reloads>>

Serve(t) == Callback(t) \/ ExchangeCode(t) \/ FetchUser(t) \/ Session(t)

Next ==
  \/ \E t \in Tabs :
       \/ \E p \in Providers, page \in Pages : OauthLogin(t, p, page)
       \/ \E denied \in BOOLEAN : Decide(t, denied)
       \/ TurnBack(t) \/ Reload(t) \/ Serve(t)
  \/ \E i \in Logins : Expire(i)

Spec == Init /\ [][Next]_vars

(* A callback that was sent is served to the end.                          *)
LiveSpec == Spec /\ \A t \in Tabs : WF_vars(Serve(t))

-----------------------------------------------------------------------------

Jars == [state : 0 .. MaxLogins, next : 0 .. MaxLogins, session : 0 .. MaxLogins]

TypeOK ==
  /\ n \in 0 .. MaxLogins /\ gone \in 0 .. n /\ reloads \in 0 .. MaxReloads
  /\ asked \in [Logins -> Pages \cup {NoPage}]
  /\ used \subseteq Logins
  /\ jar \in Jars /\ (jar.next # 0 => SafeNext(asked[jar.next]))
  /\ tab \in [Tabs -> [pc : {"idle", "provider", "sent", "exchange", "fetch", "session"},
                       login : 0 .. MaxLogins, denied : BOOLEAN, sent : Jars,
                       page : {Home, "notFound", "refused", "signinFailed"} \cup SafePages,
                       saw : 0 .. MaxLogins, sawGone : 0 .. MaxLogins]]

(* Login i is the last of the logins lo + 1 .. hi that has a usable return *)
(* page; 0 if none has.                                                    *)
LastSafe(i, lo, hi) ==
  /\ i # 0 => i \in lo + 1 .. hi /\ SafeNext(asked[i])
  /\ \A j \in lo + 1 .. hi : j > i => ~SafeNext(asked[j])

(* Whatever the tabs do to each other's cookies, the state cookie is that  *)
(* of the browser's latest login, unless an answer or time has taken it    *)
(* since, and the return page is of the same login or, if that has none    *)
(* that is usable, of the last one before it whose cookies nothing cleared *)
(* - a login that got no answer.                                           *)
CookiesExact ==
  /\ jar.state = IF n > gone THEN n ELSE 0
  /\ LastSafe(jar.next, gone, n)

(* The state check refuses a tab exactly when its login is not the         *)
(* browser's latest any more, or its cookies were cleared or expired, by   *)
(* the time its callback is sent ("the state cookie we set at login must   *)
(* match"): no tab is signed in by another login's cookies, and none is    *)
(* refused that nothing crossed.                                           *)
StateCheckExact ==
  \A t \in Tabs :
    LET current == tab[t].login = tab[t].saw /\ tab[t].saw > tab[t].sawGone
    IN  /\ tab[t].pc \in {"exchange", "fetch", "session"} => current
        /\ tab[t].pc = "idle" /\ tab[t].page = "refused" => ~current

(* A tab that signs in returns to the page its own login asked for         *)
(* ("Return the user to where they started (the validated next cookie),    *)
(* else home").  If its login asked for none that is usable, it goes home, *)
(* or to the page of an abandoned login that was still remembered when the *)
(* callback was sent.                                                      *)
LandsWhereStarted ==
  [][ \A t \in Tabs :
        LET i == tab[t].login
        IN  tab[t].pc = "session" /\ jar'.session = i /\ jar.session # i =>
              \/ tab'[t].page = asked[i] /\ SafeNext(asked[i])
              \/ /\ ~SafeNext(asked[i])
                 /\ \/ tab'[t].page = Home
                    \/ \E j \in tab[t].sawGone + 1 .. i - 1 : tab'[t].page = asked[j] ]_vars

(* Every callback is answered: the tab ends up signed in, refused, or told *)
(* that signing in failed.                                                 *)
CallbackAnswered == \A t \in Tabs : tab[t].pc = "sent" ~> tab[t].pc = "idle"

=============================================================================

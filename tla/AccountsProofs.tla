---------------------------- MODULE AccountsProofs ----------------------------
(***************************************************************************)
(* Proofs about Accounts, for all accounts, providers, browsers and        *)
(* connections: sessions are exact, logouts revoke, every account stays    *)
(* reachable and every identity keeps its account.                         *)
(***************************************************************************)
EXTENDS Accounts, TLAPS

USE DEF vars

-----------------------------------------------------------------------------

(* With the accounts us, session s is current, or stale and ended for good: *)
(* its account is gone or has moved on to a later version.                 *)
OKIn(s, us) ==
  s \in Sessions =>
    IF s.stale
    THEN us[s.sub] = Gone \/ (us[s.sub] \in Accounts /\ s.ver < us[s.sub].version)
    ELSE us[s.sub] \in Accounts /\ us[s.sub].version = s.ver

SessionOK(s) == OKIn(s, user)

SessionsOK ==
  /\ \A b \in Browsers : SessionOK(cookie[b])
  /\ \A h \in Handlers : SessionOK(tx[h].session)

(* What a request has done before it reaches each stage.                   *)
Stage(r) ==
  /\ r.pc \in {"fetched", "looked", "read", "resolved"} => r.op = "login"
  /\ r.pc \in {"sent", "known"} => r.op # "login"
  /\ r.pc = "sent" /\ r.op # "logout" => r.session \in Sessions
  /\ r.pc = "read" /\ r.known = NoOne /\ r.holder # NoOne =>
       r.session \in Sessions /\ r.session.sub = r.holder
  /\ r.pc = "answer" /\ r.op = "logout" =>
       r.session = NoSession \/ r.session.stale \/ r.unread

Stages == \A h \in Handlers : Stage(tx[h])

IInv == TypeOK /\ Stages /\ SessionsOK /\ AccountsReachable

-----------------------------------------------------------------------------

(* The part of TypeOK about one request.                                   *)
Typed(r) ==
  /\ r \in Requests
  /\ r.pc \in {"resolved", "known"} => r.session \in Sessions
  /\ r.pc = "answer" => r.session \in Sessions \/ r.op = "logout"
  /\ r.pc # "idle" => r.browser \in Browsers
  /\ r.op = "login" => r.identity \in Identities
  /\ r.op = "login" => r.email \in Emails

(* TypeOK is about each request by itself.                                 *)
LEMMA TypeParts ==
  TypeOK <=> /\ mail \in [Identities -> Emails]
             /\ user \in [UserIds -> Accounts \cup {Unborn, Gone}]
             /\ identity \in [Identities -> UserIds \cup {NoOne}]
             /\ cookie \in [Browsers -> Sessions \cup {NoSession}]
             /\ tx \in [Handlers -> Requests]
             /\ \A h \in Handlers : Typed(tx[h])
  BY DEF TypeOK, Typed

(* The idle request is typed and carries no session.                       *)
LEMMA IdleTyped == Typed(Idle) /\ Stage(Idle) /\ Idle.session \notin Sessions
  BY NoSessionIsNone DEF Typed, Stage, Idle, Requests

(* A session stays as it should be while its account keeps its version.    *)
LEMMA SessionKept ==
  ASSUME NEW s, SessionOK(s),
         s \in Sessions =>
           /\ user[s.sub] = Gone => user'[s.sub] = Gone
           /\ user[s.sub] \in Accounts =>
                /\ user'[s.sub] \in Accounts
                /\ user'[s.sub].version = user[s.sub].version
  PROVE  OKIn(s, user')
  BY DEF SessionOK, OKIn

(* A step of one request alone: it stays idle or moves on to a request     *)
(* that is typed, at its stage, and carries a session that is as it should *)
(* be, while no account changes its version.                               *)
LEMMA RequestStep ==
  ASSUME IInv, NEW h \in Handlers, NEW r,
         tx' = [tx EXCEPT ![h] = r],
         Typed(r), Stage(r), SessionOK(r.session),
         UNCHANGED <<mail, user, identity, cookie>>
  PROVE  IInv'
<1>1. /\ tx' \in [Handlers -> Requests]
      /\ \A x \in Handlers : tx'[x] = IF x = h THEN r ELSE tx[x]
  BY DEF IInv, TypeOK, Typed
<1>2. TypeOK'
  BY <1>1, TypeParts DEF IInv, TypeOK, Typed
<1>3. Stages'
  BY <1>1 DEF IInv, Stages, Stage
<1>4. SessionsOK'
  BY <1>1 DEF IInv, SessionsOK, SessionOK, OKIn
<1>5. AccountsReachable'
  BY DEF IInv, AccountsReachable, Live
<1>6. QED
  BY <1>2, <1>3, <1>4, <1>5 DEF IInv

(* The same when the step ends a request.                                  *)
LEMMA FinishStep ==
  ASSUME IInv, NEW h \in Handlers, Finish(h),
         UNCHANGED <<mail, user, identity, cookie>>
  PROVE  IInv'
<1>1. SessionOK(Idle.session)
  BY IdleTyped DEF SessionOK, OKIn
<1>2. QED
  BY <1>1, IdleTyped, RequestStep DEF Finish

(* A step of one request that changes accounts or identities, but neither  *)
(* revives an account nor changes a version.                               *)
LEMMA WriteStep ==
  ASSUME IInv, NEW h \in Handlers, NEW r,
         tx' = [tx EXCEPT ![h] = r],
         Typed(r), Stage(r), OKIn(r.session, user'),
         UNCHANGED <<mail, cookie>>,
         user' \in [UserIds -> Accounts \cup {Unborn, Gone}],
         identity' \in [Identities -> UserIds \cup {NoOne}],
         \A u \in UserIds :
           /\ user[u] = Gone => user'[u] = Gone
           /\ user[u] \in Accounts =>
                user'[u] \in Accounts /\ user'[u].version = user[u].version,
         AccountsReachable'
  PROVE  IInv'
<1>1. /\ tx' \in [Handlers -> Requests]
      /\ \A x \in Handlers : tx'[x] = IF x = h THEN r ELSE tx[x]
  BY DEF IInv, TypeOK, Typed
<1>2. TypeOK'
  BY <1>1, TypeParts DEF IInv, TypeOK, Typed
<1>3. Stages'
  BY <1>1 DEF IInv, Stages, Stage
<1>4. ASSUME NEW s, SessionOK(s) PROVE SessionOK(s)'
  <2>1. s \in Sessions => s.sub \in UserIds
    BY DEF Sessions
  <2>2. QED
    BY <1>4, <2>1, SessionKept DEF SessionOK, OKIn
<1>5. SessionsOK'
  <2>1. \A b \in Browsers : SessionOK(cookie[b])'
    BY <1>4 DEF IInv, SessionsOK
  <2>2. \A x \in Handlers \ {h} : SessionOK(tx[x].session)'
    BY <1>1, <1>4 DEF IInv, SessionsOK, SessionOK, OKIn
  <2>3. SessionOK(tx[h].session)'
    BY <1>1 DEF SessionOK, OKIn
  <2>4. QED
    BY <2>1, <2>2, <2>3 DEF SessionsOK
<1>6. QED
  BY <1>2, <1>3, <1>5 DEF IInv

-----------------------------------------------------------------------------

LEMMA InitEstablishes == Init => IInv
<1> SUFFICES ASSUME Init PROVE IInv
  OBVIOUS
<1>2. \A h \in Handlers : tx[h] = Idle
  BY DEF Init
<1>3. TypeOK
  BY <1>2, IdleTyped, TypeParts DEF Init, Typed
<1>4. Stages
  BY <1>2, IdleTyped DEF Stages
<1>5. SessionsOK
  BY <1>2, IdleTyped, NoSessionIsNone DEF Init, SessionsOK, SessionOK, OKIn
<1>6. AccountsReachable
  BY NoAccountIsNone DEF Init, AccountsReachable, Live
<1>7. QED
  BY <1>3, <1>4, <1>5, <1>6 DEF IInv

LEMMA StutterPreserves == IInv /\ UNCHANGED vars => IInv'
  BY DEF IInv, TypeOK, Stages, Stage, SessionsOK, SessionOK, OKIn,
         AccountsReachable, Live

LEMMA ChangeMailPreserves ==
  ASSUME IInv, NEW i \in Identities, NEW e \in Emails, ChangeMail(i, e)
  PROVE  IInv'
<1>1. mail' \in [Identities -> Emails]
  BY DEF IInv, TypeOK, ChangeMail
<1>2. QED
  BY <1>1 DEF IInv, TypeOK, Stages, Stage, SessionsOK, SessionOK, OKIn,
              AccountsReachable, Live, ChangeMail

LEMMA StartLoginPreserves ==
  ASSUME IInv, NEW h \in Handlers, NEW b \in Browsers, NEW i \in Identities,
         StartLogin(h, b, i)
  PROVE  IInv'
<1> DEFINE r == [Idle EXCEPT !.pc = "fetched", !.op = "login",
                             !.browser = b, !.identity = i, !.email = mail[i]]
<1>1. mail[i] \in Emails
  BY DEF IInv, TypeOK
<1>2. Typed(r) /\ Stage(r) /\ SessionOK(r.session)
  BY <1>1, NoSessionIsNone DEF Typed, Stage, SessionOK, OKIn, Idle, Requests
<1>3. tx' = [tx EXCEPT ![h] = r] /\ UNCHANGED <<mail, user, identity, cookie>>
  BY DEF StartLogin
<1> HIDE DEF r
<1>4. QED
  BY <1>2, <1>3, RequestStep

LEMMA ReadIdentityPreserves ==
  ASSUME IInv, NEW h \in Handlers, ReadIdentity(h)
  PROVE  IInv'
<1> DEFINE k == identity[tx[h].identity]
           r == [tx[h] EXCEPT !.pc = "looked", !.known = k]
<1>1. Typed(tx[h]) /\ Stage(tx[h]) /\ SessionOK(tx[h].session) /\ tx[h].pc = "fetched"
  BY TypeParts DEF IInv, Stages, SessionsOK, ReadIdentity
<1>2. k \in UserIds \cup {NoOne}
  BY <1>1 DEF IInv, TypeOK, Stage, Typed
<1> HIDE DEF k
<1>3. Typed(r) /\ Stage(r) /\ SessionOK(r.session)
  BY <1>1, <1>2 DEF Typed, Stage, Requests
<1>4. tx' = [tx EXCEPT ![h] = r] /\ UNCHANGED <<mail, user, identity, cookie>>
  BY DEF ReadIdentity, k, IInv, TypeOK
<1> HIDE DEF r
<1>5. QED
  BY <1>3, <1>4, RequestStep

(* What IInv says of one request.                                          *)
LEMMA RequestOK ==
  ASSUME IInv, NEW h \in Handlers
  PROVE  Typed(tx[h]) /\ Stage(tx[h]) /\ SessionOK(tx[h].session)
  BY TypeParts DEF IInv, Stages, SessionsOK

(* Looking an account up by its address finds an account.                  *)
LEMMA FoundIsLive ==
  ASSUME IInv, NEW e, NEW u, Holders(e, u) # {}
  PROVE  /\ (CHOOSE v \in Holders(e, u) : TRUE) \in UserIds
         /\ user[CHOOSE v \in Holders(e, u) : TRUE] \in Accounts
<1>1. (CHOOSE v \in Holders(e, u) : TRUE) \in Holders(e, u)
  OBVIOUS
<1>2. QED
  BY <1>1 DEF Holders, Live

(* The session of an account as it is now is as it should be.              *)
LEMMA SessionOfOK ==
  ASSUME NEW u \in UserIds, user[u] \in Accounts
  PROVE  /\ SessionOf(u) \in Sessions
         /\ SessionOf(u).sub = u
         /\ SessionOK(SessionOf(u))
  BY DEF SessionOf, Sessions, Accounts, SessionOK, OKIn

LEMMA ReadEmailPreserves ==
  ASSUME IInv, NEW h \in Handlers, ReadEmail(h)
  PROVE  IInv'
<1> DEFINE found  == Holders(tx[h].email, tx[h].known)
           someone == CHOOSE v \in found : TRUE
           holder == IF found = {} THEN NoOne ELSE someone
           session == IF tx[h].known = NoOne /\ found # {}
                      THEN SessionOf(someone) ELSE NoSession
           r == [tx[h] EXCEPT !.pc = "read", !.holder = holder, !.session = session]
<1>1. Typed(tx[h]) /\ Stage(tx[h]) /\ SessionOK(tx[h].session) /\ tx[h].pc = "looked"
  BY RequestOK DEF ReadEmail
<1>2. found # {} => someone \in UserIds /\ user[someone] \in Accounts
  BY FoundIsLive
<1>3. holder \in UserIds \cup {NoOne}
  BY <1>2
<1>4. /\ session \in Sessions \cup {NoSession}
      /\ SessionOK(session)
      /\ tx[h].known = NoOne /\ holder # NoOne =>
           session \in Sessions /\ session.sub = holder
  <2> HIDE DEF someone, found
  <2>1. CASE tx[h].known = NoOne /\ found # {}
    BY <2>1, <1>2, SessionOfOK
  <2>2. CASE ~(tx[h].known = NoOne /\ found # {})
    <3>1. session = NoSession
      BY <2>2
    <3>2. QED
      BY <2>2, <3>1, NoSessionIsNone DEF SessionOK, OKIn
  <2>3. QED
    BY <2>1, <2>2
<1>5. tx' = [tx EXCEPT ![h] = r] /\ UNCHANGED <<mail, user, identity, cookie>>
  BY DEF ReadEmail, IInv, TypeOK
<1> HIDE DEF found, someone, holder, session
<1>6. r.session = session
  BY <1>1 DEF Typed, Requests
<1>7. Typed(r) /\ Stage(r)
  BY <1>1, <1>3, <1>4 DEF Typed, Stage, Requests
<1> HIDE DEF r
<1>8. QED
  BY <1>4, <1>5, <1>6, <1>7, RequestStep

LEMMA IssueJwtPreserves ==
  ASSUME IInv, NEW h \in Handlers, IssueJwt(h)
  PROVE  IInv'
<1>1. CASE tx[h].session.sub \in Live
  <2> DEFINE r == [tx[h] EXCEPT !.pc = "answer"]
  <2>1. Typed(tx[h]) /\ Stage(tx[h]) /\ SessionOK(tx[h].session)
        /\ tx[h].pc = "resolved"
    BY RequestOK DEF IssueJwt
  <2>2. Typed(r) /\ Stage(r) /\ SessionOK(r.session)
    BY <2>1 DEF Typed, Stage, Requests
  <2>3. tx' = [tx EXCEPT ![h] = r] /\ UNCHANGED <<mail, user, identity, cookie>>
    BY <1>1 DEF IssueJwt, IInv, TypeOK
  <2> HIDE DEF r
  <2>4. QED
    BY <2>2, <2>3, RequestStep
<1>2. CASE tx[h].session.sub \notin Live
  BY <1>2, FinishStep DEF IssueJwt
<1>3. QED
  BY <1>1, <1>2

LEMMA SendPreserves ==
  ASSUME IInv, NEW h \in Handlers, NEW b \in Browsers,
         NEW op \in {"rename", "logout", "delete"}, Send(h, b, op)
  PROVE  IInv'
<1> DEFINE r == [Idle EXCEPT !.pc = "sent", !.op = op,
                             !.browser = b, !.session = cookie[b]]
<1>1. /\ cookie[b] \in Sessions \cup {NoSession}
      /\ SessionOK(cookie[b])
      /\ op = "logout" \/ cookie[b] # NoSession
  BY DEF IInv, TypeOK, SessionsOK, Send
<1>2. Typed(r) /\ Stage(r) /\ SessionOK(r.session)
  BY <1>1 DEF Typed, Stage, Idle, Requests
<1>3. tx' = [tx EXCEPT ![h] = r] /\ UNCHANGED <<mail, user, identity, cookie>>
  BY DEF Send
<1> HIDE DEF r
<1>4. QED
  BY <1>2, <1>3, RequestStep

(* A session that is as it should be is accepted unless it is stale.       *)
LEMMA AcceptedIffFresh ==
  ASSUME NEW s \in Sessions, SessionOK(s)
  PROVE  Accepted(s) <=> ~s.stale
<1>1. s.sub \in UserIds /\ s.ver \in Int /\ s.stale \in BOOLEAN
  BY VersionIsNatural DEF Sessions
<1>2. CASE s.stale
  <2>1. user[s.sub] \in Accounts => user[s.sub].version \in Int
    BY VersionIsNatural DEF Accounts
  <2>3. ~Accepted(s)
    BY <1>1, <1>2, <2>1, NoAccountIsNone DEF SessionOK, OKIn, Accepted, Live
  <2>4. QED
    BY <1>2, <2>3
<1>3. CASE ~s.stale
  BY <1>1, <1>3 DEF SessionOK, OKIn, Accepted, Live
<1>4. QED
  BY <1>2, <1>3

LEMMA AuthorizePreserves ==
  ASSUME IInv, NEW h \in Handlers, Authorize(h)
  PROVE  IInv'
<1> DEFINE r(pc) == [tx[h] EXCEPT !.pc = pc]
<1>1. Typed(tx[h]) /\ Stage(tx[h]) /\ SessionOK(tx[h].session) /\ tx[h].pc = "sent"
  BY RequestOK DEF Authorize
<1>2. UNCHANGED <<mail, user, identity, cookie>>
  BY DEF Authorize
<1>3. CASE Accepted(tx[h].session)
  <2>1. Typed(r("known")) /\ Stage(r("known")) /\ SessionOK(r("known").session)
    BY <1>1, <1>3 DEF Typed, Stage, Requests, Accepted
  <2>2. tx' = [tx EXCEPT ![h] = r("known")]
    BY <1>3 DEF Authorize, IInv, TypeOK
  <2> HIDE DEF r
  <2>3. QED
    BY <1>2, <2>1, <2>2, RequestStep
<1>4. CASE ~Accepted(tx[h].session) /\ tx[h].op = "logout"
  <2>1. tx[h].session = NoSession \/ tx[h].session.stale
    BY <1>1, <1>4, AcceptedIffFresh DEF Typed, Requests
  <2>2. Typed(r("answer")) /\ Stage(r("answer")) /\ SessionOK(r("answer").session)
    BY <1>1, <1>4, <2>1 DEF Typed, Stage, Requests
  <2>3. tx' = [tx EXCEPT ![h] = r("answer")]
    BY <1>4 DEF Authorize, IInv, TypeOK
  <2> HIDE DEF r
  <2>4. QED
    BY <1>2, <2>2, <2>3, RequestStep
<1>5. CASE ~Accepted(tx[h].session) /\ tx[h].op # "logout"
  BY <1>2, <1>5, FinishStep DEF Authorize
<1>6. QED
  BY <1>3, <1>4, <1>5

LEMMA AuthorizeUnreadPreserves ==
  ASSUME IInv, NEW h \in Handlers, AuthorizeUnread(h)
  PROVE  IInv'
<1> DEFINE r == [tx[h] EXCEPT !.pc = "answer", !.unread = TRUE]
<1>1. Typed(tx[h]) /\ Stage(tx[h]) /\ SessionOK(tx[h].session) /\ tx[h].pc = "sent"
      /\ tx[h].op = "logout"
  BY RequestOK DEF AuthorizeUnread
<1>2. Typed(r) /\ Stage(r) /\ SessionOK(r.session)
  BY <1>1 DEF Typed, Stage, Requests
<1>3. tx' = [tx EXCEPT ![h] = r] /\ UNCHANGED <<mail, user, identity, cookie>>
  BY DEF AuthorizeUnread, IInv, TypeOK
<1> HIDE DEF r
<1>4. QED
  BY <1>2, <1>3, RequestStep

LEMMA UpdateMePreserves ==
  ASSUME IInv, NEW h \in Handlers, UpdateMe(h)
  PROVE  IInv'
<1>1. CASE tx[h].session.sub \in Live
  <2> DEFINE r == [tx[h] EXCEPT !.pc = "answer"]
  <2>1. Typed(tx[h]) /\ Stage(tx[h]) /\ SessionOK(tx[h].session)
        /\ tx[h].pc = "known" /\ tx[h].op = "rename"
    BY RequestOK DEF UpdateMe
  <2>2. Typed(r) /\ Stage(r) /\ SessionOK(r.session)
    BY <2>1 DEF Typed, Stage, Requests
  <2>3. tx' = [tx EXCEPT ![h] = r] /\ UNCHANGED <<mail, user, identity, cookie>>
    BY <1>1 DEF UpdateMe, IInv, TypeOK
  <2> HIDE DEF r
  <2>4. QED
    BY <2>2, <2>3, RequestStep
<1>2. CASE tx[h].session.sub \notin Live
  BY <1>2, FinishStep DEF UpdateMe
<1>3. QED
  BY <1>1, <1>2

LEMMA RefreshProfilePreserves ==
  ASSUME IInv, NEW h \in Handlers, RefreshProfile(h)
  PROVE  IInv'
<1> DEFINE u == tx[h].known
           bad == u \notin Live \/ (tx[h].holder = NoOne /\ Holders(tx[h].email, u) # {})
           r == [tx[h] EXCEPT !.pc = "resolved", !.session = SessionOf(u)]
<1>1. Typed(tx[h]) /\ Stage(tx[h]) /\ SessionOK(tx[h].session) /\ tx[h].pc = "read"
  BY RequestOK DEF RefreshProfile
<1>2. CASE bad
  BY <1>2, FinishStep DEF RefreshProfile
<1>3. CASE ~bad
  <2>1. u \in UserIds /\ user[u] \in Accounts
    BY <1>3 DEF Live
  <2>2. SessionOf(u) \in Sessions /\ SessionOK(SessionOf(u))
    BY <2>1, SessionOfOK
  <2>3. tx[h].email \in Emails
    BY <1>1 DEF Typed, Stage
  <2>4. /\ user' = IF tx[h].holder = NoOne
                   THEN [user EXCEPT ![u].email = tx[h].email] ELSE user
        /\ tx' = [tx EXCEPT ![h] = r]
        /\ UNCHANGED <<mail, identity, cookie>>
    BY <1>3 DEF RefreshProfile, IInv, TypeOK
  <2> HIDE DEF u, bad
  <2>5. r.session = SessionOf(u)
    BY <1>1 DEF Typed, Requests
  <2>6. Typed(r) /\ Stage(r)
    BY <1>1, <2>2 DEF Typed, Stage, Requests
  <2> HIDE DEF r
  <2>7. [user[u] EXCEPT !.email = tx[h].email] \in Accounts
        /\ [user[u] EXCEPT !.email = tx[h].email].version = user[u].version
    BY <2>1, <2>3 DEF Accounts
  <2>8. /\ user' \in [UserIds -> Accounts \cup {Unborn, Gone}]
        /\ \A v \in UserIds \ {u} : user'[v] = user[v]
        /\ user'[u] \in Accounts /\ user'[u].version = user[u].version
    <3>1. CASE tx[h].holder = NoOne
      <4> DEFINE a == [user[u] EXCEPT !.email = tx[h].email]
      <4>1. user' = [user EXCEPT ![u] = a]
        BY <2>4, <3>1
      <4>2. a \in Accounts /\ a.version = user[u].version
        BY <2>7
      <4> HIDE DEF a
      <4>3. QED
        BY <2>1, <4>1, <4>2 DEF IInv, TypeOK
    <3>2. CASE tx[h].holder # NoOne
      BY <2>1, <2>4, <3>2 DEF IInv, TypeOK
    <3>3. QED
      BY <3>1, <3>2
  <2>9. \A v \in UserIds :
          /\ user[v] = Gone => user'[v] = Gone
          /\ user[v] \in Accounts =>
               user'[v] \in Accounts /\ user'[v].version = user[v].version
    BY <2>1, <2>8, NoAccountIsNone
  <2>10. AccountsReachable'
    <3>1. Live' = Live
      BY <2>1, <2>8 DEF Live
    <3>2. QED
      BY <2>4, <3>1 DEF IInv, AccountsReachable
  <2>11. OKIn(r.session, user')
    <3>1. SessionOf(u).sub = u
      BY <2>1, SessionOfOK
    <3>2. SessionOK(r.session)
      BY <2>2, <2>5
    <3>3. r.session \in Sessions => r.session.sub \in UserIds
      BY DEF Sessions
    <3>4. QED
      BY <2>9, <3>2, <3>3, SessionKept DEF SessionOK, OKIn
  <2>12. identity' \in [Identities -> UserIds \cup {NoOne}]
    BY <2>4 DEF IInv, TypeOK
  <2>13. QED
    BY <2>4, <2>6, <2>8, <2>9, <2>10, <2>11, <2>12, WriteStep
<1>4. QED
  BY <1>2, <1>3

LEMMA LinkPreserves ==
  ASSUME IInv, NEW h \in Handlers, Link(h)
  PROVE  IInv'
<1> DEFINE u == tx[h].holder
           r == [tx[h] EXCEPT !.pc = "resolved"]
<1>1. /\ Typed(tx[h]) /\ Stage(tx[h]) /\ SessionOK(tx[h].session)
      /\ tx[h].pc = "read" /\ tx[h].known = NoOne /\ u # NoOne
      /\ UNCHANGED <<mail, user, cookie>>
  BY RequestOK DEF Link
<1>2. CASE ~(Unlinked(h) /\ u \in Live)
  BY <1>1, <1>2, FinishStep DEF Link
<1>3. CASE Unlinked(h) /\ u \in Live
  <2>1. /\ u \in UserIds /\ u \in Live
        /\ tx[h].identity \in Identities
        /\ identity[tx[h].identity] = NoOne
    BY <1>1, <1>3 DEF Unlinked, Live, Typed, Stage
  <2>2. /\ identity' = [identity EXCEPT ![tx[h].identity] = u]
        /\ tx' = [tx EXCEPT ![h] = r]
    BY <1>3 DEF Link, LinkTo, IInv, TypeOK
  <2>3. Typed(r) /\ Stage(r) /\ SessionOK(r.session)
    BY <1>1 DEF Typed, Stage, Requests
  <2> HIDE DEF u, r
  <2>4. OKIn(r.session, user')
    BY <1>1, <2>3 DEF SessionOK, OKIn
  <2>5. identity' \in [Identities -> UserIds \cup {NoOne}]
    BY <2>1, <2>2 DEF IInv, TypeOK
  <2>6. AccountsReachable'
    <3>1. Live' = Live
      BY <1>1 DEF Live
    <3>2. \A i \in Identities :
            identity'[i] = IF i = tx[h].identity THEN u ELSE identity[i]
      BY <2>1, <2>2 DEF IInv, TypeOK
    <3>3. NoOne \notin Live
      BY NoOneIsNoUser DEF Live
    <3>4. QED
      BY <2>1, <3>1, <3>2, <3>3 DEF IInv, AccountsReachable
  <2>7. user' \in [UserIds -> Accounts \cup {Unborn, Gone}]
    BY <1>1 DEF IInv, TypeOK
  <2>8. QED
    BY <1>1, <2>2, <2>3, <2>4, <2>5, <2>6, <2>7, WriteStep
<1>4. QED
  BY <1>2, <1>3

LEMMA CreatePreserves ==
  ASSUME IInv, NEW h \in Handlers, NEW u \in UserIds, Create(h, u)
  PROVE  IInv'
<1> DEFINE a == [email |-> tx[h].email, version |-> 0]
           new == [sub |-> u, ver |-> 0, stale |-> FALSE]
           ok == Unlinked(h) /\ Holders(tx[h].email, NoOne) = {}
           r == [tx[h] EXCEPT !.pc = "resolved", !.session = new]
<1>1. /\ Typed(tx[h]) /\ Stage(tx[h]) /\ SessionOK(tx[h].session)
      /\ tx[h].pc = "read" /\ user[u] = Unborn
      /\ UNCHANGED <<mail, cookie>>
  BY RequestOK DEF Create
<1>2. CASE ~ok
  BY <1>1, <1>2, FinishStep DEF Create
<1>3. CASE ok
  <2>1. /\ tx[h].identity \in Identities /\ tx[h].email \in Emails
        /\ identity[tx[h].identity] = NoOne
    BY <1>1, <1>3 DEF Unlinked, Typed, Stage
  <2>2. /\ user' = [user EXCEPT ![u] = a]
        /\ identity' = [identity EXCEPT ![tx[h].identity] = u]
        /\ tx' = [tx EXCEPT ![h] = r]
    BY <1>3 DEF Create, LinkTo, IInv, TypeOK
  <2>3. a \in Accounts /\ a.version = 0 /\ new \in Sessions
    BY <2>1, VersionIsNatural DEF Accounts, Sessions
  <2>4. new.sub = u /\ new.ver = 0 /\ ~new.stale
    OBVIOUS
  <2>5. Typed(r) /\ Stage(r) /\ r.session = new
    <3> HIDE DEF new, a, ok
    <3>1. QED
      BY <1>1, <2>3 DEF Typed, Stage, Requests
  <2> HIDE DEF a, new, ok, r
  <2>6. /\ user' \in [UserIds -> Accounts \cup {Unborn, Gone}]
        /\ \A v \in UserIds : user'[v] = IF v = u THEN a ELSE user[v]
        /\ identity' \in [Identities -> UserIds \cup {NoOne}]
        /\ \A i \in Identities :
             identity'[i] = IF i = tx[h].identity THEN u ELSE identity[i]
    BY <2>1, <2>2, <2>3 DEF IInv, TypeOK
  <2>7. \A v \in UserIds :
          /\ user[v] = Gone => user'[v] = Gone
          /\ user[v] \in Accounts =>
               user'[v] \in Accounts /\ user'[v].version = user[v].version
    BY <1>1, <2>6, NoAccountIsNone
  <2>8. OKIn(r.session, user')
    BY <2>3, <2>4, <2>5, <2>6 DEF SessionOK, OKIn
  <2>9. AccountsReachable'
    <3>1. Live' = Live \cup {u}
      BY <1>1, <2>3, <2>6, NoAccountIsNone DEF Live
    <3>2. NoOne \notin Live
      BY NoOneIsNoUser DEF Live
    <3>3. QED
      BY <2>1, <2>6, <3>1, <3>2 DEF IInv, AccountsReachable
  <2>10. QED
    BY <1>1, <2>2, <2>5, <2>6, <2>7, <2>8, <2>9, WriteStep
<1>4. QED
  BY <1>2, <1>3

LEMMA AnswerPreserves ==
  ASSUME IInv, NEW h \in Handlers, Answer(h)
  PROVE  IInv'
<1> DEFINE s == IF tx[h].op \in {"login", "rename"} THEN tx[h].session ELSE NoSession
<1>1. /\ Typed(tx[h]) /\ SessionOK(tx[h].session) /\ tx[h].pc = "answer"
      /\ UNCHANGED <<mail, user, identity>>
  BY RequestOK DEF Answer
<1>2. /\ cookie' = [cookie EXCEPT ![tx[h].browser] = s]
      /\ tx' = [tx EXCEPT ![h] = Idle]
  BY DEF Answer, Finish
<1>3. s \in Sessions \cup {NoSession} /\ SessionOK(s)
  BY <1>1, NoSessionIsNone DEF Typed, SessionOK, OKIn
<1> HIDE DEF s
<1>4. /\ tx' \in [Handlers -> Requests]
      /\ \A x \in Handlers : tx'[x] = IF x = h THEN Idle ELSE tx[x]
      /\ cookie' \in [Browsers -> Sessions \cup {NoSession}]
      /\ \A b \in Browsers : cookie'[b] \in {s, cookie[b]}
  BY <1>2, <1>3, IdleTyped DEF IInv, TypeOK, Typed
<1>5. TypeOK'
  BY <1>1, <1>4, IdleTyped, TypeParts DEF IInv, TypeOK, Typed
<1>6. Stages'
  BY <1>4, IdleTyped DEF IInv, Stages, Stage
<1>7. SessionsOK'
  BY <1>1, <1>3, <1>4, IdleTyped DEF IInv, SessionsOK, SessionOK, OKIn
<1>8. AccountsReachable'
  BY <1>1 DEF IInv, AccountsReachable, Live
<1>9. QED
  BY <1>5, <1>6, <1>7, <1>8 DEF IInv

(* Revoking the sessions of an account leaves every session as it should   *)
(* be: those of the account are stale, and ended.                          *)
LEMMA RevokedOK ==
  ASSUME NEW u \in UserIds, NEW s, SessionOK(s),
         user' \in [UserIds -> Accounts \cup {Unborn, Gone}],
         \A v \in UserIds \ {u} : user'[v] = user[v],
         \/ user'[u] = Gone
         \/ /\ user[u] \in Accounts /\ user'[u] \in Accounts
            /\ user[u].version < user'[u].version
  PROVE  /\ OKIn(Revoked(s, u), user')
         /\ s \notin Sessions => Revoked(s, u) = s
         /\ s \in Sessions => /\ Revoked(s, u) \in Sessions
                              /\ Revoked(s, u).sub = s.sub
                              /\ s.stale => Revoked(s, u).stale
                              /\ s.sub = u => Revoked(s, u).stale
<1>1. CASE s \notin Sessions
  BY <1>1 DEF Revoked, OKIn
<1>2. CASE s \in Sessions /\ s.sub # u
  <2>1. Revoked(s, u) = s /\ s.sub \in UserIds
    BY <1>2 DEF Revoked, Sessions
  <2>2. QED
    BY <1>2, <2>1 DEF SessionOK, OKIn
<1>3. CASE s \in Sessions /\ s.sub = u
  <2> DEFINE t == [s EXCEPT !.stale = TRUE]
  <2>1. Revoked(s, u) = t
    BY <1>3 DEF Revoked
  <2>2. t \in Sessions /\ t.sub = u /\ t.ver = s.ver /\ t.stale
    BY <1>3 DEF Sessions
  <2> HIDE DEF t
  <2>3. s.ver \in Int
    BY <1>3, VersionIsNatural DEF Sessions
  <2>4. \A a \in Accounts : a.version \in Int
    BY VersionIsNatural DEF Accounts
  <2>5. user'[u] = Gone \/ (user'[u] \in Accounts /\ t.ver < user'[u].version)
    BY <1>3, <2>2, <2>3, <2>4, NoAccountIsNone DEF SessionOK, OKIn
  <2>6. OKIn(t, user')
    BY <2>2, <2>5 DEF OKIn
  <2>7. QED
    BY <1>3, <2>1, <2>2, <2>6
<1>4. QED
  BY <1>1, <1>2, <1>3

(* A step that revokes the sessions of the account the request is about.   *)
LEMMA RevokeStep ==
  ASSUME IInv, NEW h \in Handlers, NEW u \in UserIds,
         tx[h].pc = "known", tx[h].op \in {"logout", "delete"},
         tx[h].session.sub = u,
         RevokeAll(h, u), UNCHANGED mail,
         user' \in [UserIds -> Accounts \cup {Unborn, Gone}],
         \A v \in UserIds \ {u} : user'[v] = user[v],
         \/ user'[u] = Gone
         \/ /\ user[u] \in Accounts /\ user'[u] \in Accounts
            /\ user[u].version < user'[u].version,
         identity' \in [Identities -> UserIds \cup {NoOne}],
         AccountsReachable'
  PROVE  IInv'
<1>1. ASSUME NEW x \in Handlers
      PROVE  Typed(tx'[x]) /\ Stage(tx'[x]) /\ OKIn(tx'[x].session, user')
  <2> DEFINE p == IF x = h THEN "answer" ELSE tx[x].pc
             s == Revoked(tx[x].session, u)
             r == [tx[x] EXCEPT !.pc = p, !.session = s]
  <2>1. /\ Typed(tx[x]) /\ Stage(tx[x]) /\ SessionOK(tx[x].session)
        /\ Typed(tx[h]) /\ Stage(tx[h]) /\ tx[h].session \in Sessions
    BY RequestOK DEF Typed
  <2>2. tx'[x] = r
    BY DEF RevokeAll
  <2>3. /\ OKIn(s, user')
        /\ tx[x].session \notin Sessions => s = tx[x].session
        /\ tx[x].session \in Sessions =>
             /\ s \in Sessions
             /\ s.sub = tx[x].session.sub
             /\ tx[x].session.stale => s.stale
             /\ tx[x].session.sub = u => s.stale
    BY <2>1, RevokedOK
  <2> HIDE DEF s
  <2>4. r \in Requests
    <3>1. p \in {"idle", "fetched", "looked", "read", "resolved",
                 "sent", "known", "answer"}
      BY <2>1 DEF Typed, Requests
    <3>2. s \in Sessions \cup {NoSession}
      BY <2>1, <2>3 DEF Typed, Requests
    <3> HIDE DEF p
    <3>3. QED
      BY <2>1, <3>1, <3>2 DEF Typed, Requests
  <2>5. /\ r.pc = p /\ r.session = s
        /\ r.op = tx[x].op /\ r.browser = tx[x].browser
        /\ r.identity = tx[x].identity /\ r.email = tx[x].email
        /\ r.known = tx[x].known /\ r.holder = tx[x].holder
        /\ r.unread = tx[x].unread
    BY <2>1 DEF Typed, Requests
  <2> HIDE DEF r
  <2>6. Typed(r) /\ Stage(r)
    <3>1. CASE x = h
      BY <2>1, <2>3, <2>4, <2>5, <3>1 DEF Typed, Stage
    <3>2. CASE x # h
      BY <2>1, <2>3, <2>4, <2>5, <3>2, NoSessionIsNone DEF Typed, Stage
    <3>3. QED
      BY <3>1, <3>2
  <2>7. QED
    BY <2>2, <2>3, <2>5, <2>6
<1>2. ASSUME NEW b \in Browsers
      PROVE  cookie'[b] \in Sessions \cup {NoSession} /\ OKIn(cookie'[b], user')
  <2>1. cookie'[b] = Revoked(cookie[b], u)
    BY DEF RevokeAll
  <2>2. SessionOK(cookie[b]) /\ cookie[b] \in Sessions \cup {NoSession}
    BY DEF IInv, TypeOK, SessionsOK
  <2>3. QED
    BY <2>1, <2>2, RevokedOK
<1>3. TypeOK'
  <2>1. cookie' \in [Browsers -> Sessions \cup {NoSession}]
    BY <1>2 DEF RevokeAll
  <2>2. tx' \in [Handlers -> Requests]
    BY <1>1 DEF RevokeAll, Typed
  <2>3. mail' \in [Identities -> Emails]
    BY DEF IInv, TypeOK
  <2>4. \A x \in Handlers : Typed(tx[x])'
    BY <1>1 DEF Typed
  <2>5. QED
    BY <2>1, <2>2, <2>3, <2>4 DEF TypeOK, Typed
<1>4. Stages'
  BY <1>1 DEF Stages, Stage
<1>5. SessionsOK'
  BY <1>1, <1>2 DEF SessionsOK, SessionOK
<1>6. QED
  BY <1>3, <1>4, <1>5 DEF IInv

(* The account a checked session is about exists or is gone for good.      *)
LEMMA KnownAccount ==
  ASSUME IInv, NEW h \in Handlers, tx[h].pc = "known"
  PROVE  /\ tx[h].session.sub \in UserIds
         /\ user[tx[h].session.sub] \in Accounts \cup {Gone}
<1>1. tx[h].session \in Sessions /\ SessionOK(tx[h].session)
  BY RequestOK DEF Typed
<1>2. QED
  BY <1>1 DEF Sessions, SessionOK, OKIn

LEMMA BumpVersionPreserves ==
  ASSUME IInv, NEW h \in Handlers, BumpVersion(h)
  PROVE  IInv'
<1> DEFINE u == tx[h].session.sub
<1>1. /\ tx[h].pc = "known" /\ tx[h].op = "logout"
      /\ RevokeAll(h, u) /\ UNCHANGED <<mail, identity>>
  BY DEF BumpVersion
<1>2. u \in UserIds /\ user[u] \in Accounts \cup {Gone}
  BY <1>1, KnownAccount
<1>3. CASE u \in Live
  <2> DEFINE a == [user[u] EXCEPT !.version = @ + 1]
  <2>1. user[u] \in Accounts /\ user[u].version < MaxVersion
        /\ user' = [user EXCEPT ![u] = a]
    BY <1>3 DEF BumpVersion, Live
  <2>2. a \in Accounts /\ user[u].version < a.version
    BY <2>1, VersionIsNatural DEF Accounts
  <2> HIDE DEF a, u
  <2>3. /\ user' \in [UserIds -> Accounts \cup {Unborn, Gone}]
        /\ user'[u] = a
        /\ \A v \in UserIds \ {u} : user'[v] = user[v]
    BY <1>2, <2>1, <2>2 DEF IInv, TypeOK
  <2>4. Live' = Live
    BY <2>1, <2>2, <2>3 DEF Live
  <2>5. AccountsReachable'
    BY <1>1, <2>4 DEF IInv, AccountsReachable
  <2>6. tx[h].session.sub = u
    BY DEF u
  <2>7. identity' \in [Identities -> UserIds \cup {NoOne}]
    BY <1>1 DEF IInv, TypeOK
  <2>8. QED
    BY <1>1, <1>2, <2>1, <2>2, <2>3, <2>5, <2>6, <2>7, RevokeStep
<1>4. CASE u \notin Live
  <2>1. UNCHANGED user /\ user[u] = Gone
    BY <1>2, <1>4 DEF BumpVersion, Live
  <2>2. AccountsReachable'
    BY <1>1, <2>1 DEF IInv, AccountsReachable, Live
  <2>3. /\ user' \in [UserIds -> Accounts \cup {Unborn, Gone}]
        /\ identity' \in [Identities -> UserIds \cup {NoOne}]
    BY <1>1, <2>1 DEF IInv, TypeOK
  <2>4. QED
    BY <1>1, <1>2, <2>1, <2>2, <2>3, RevokeStep
<1>5. QED
  BY <1>3, <1>4

LEMMA DeleteUserPreserves ==
  ASSUME IInv, NEW h \in Handlers, DeleteUser(h)
  PROVE  IInv'
<1> DEFINE u == tx[h].session.sub
<1>1. /\ tx[h].pc = "known" /\ tx[h].op = "delete"
      /\ RevokeAll(h, u) /\ UNCHANGED mail
      /\ user' = [user EXCEPT ![u] = Gone]
      /\ identity' = [i \in Identities |->
                        IF identity[i] = u THEN NoOne ELSE identity[i]]
  BY DEF DeleteUser
<1>2. u \in UserIds
  BY <1>1, KnownAccount
<1>3. tx[h].session.sub = u
  OBVIOUS
<1> HIDE DEF u
<1>4. /\ user' \in [UserIds -> Accounts \cup {Unborn, Gone}]
      /\ user'[u] = Gone
      /\ \A v \in UserIds \ {u} : user'[v] = user[v]
      /\ identity' \in [Identities -> UserIds \cup {NoOne}]
  BY <1>1, <1>2 DEF IInv, TypeOK
<1>5. AccountsReachable'
  <2>1. Live' = Live \ {u}
    BY <1>2, <1>4, NoAccountIsNone DEF Live
  <2>2. \A i \in Identities :
          identity'[i] = IF identity[i] = u THEN NoOne ELSE identity[i]
    BY <1>1
  <2>3. QED
    BY <2>1, <2>2 DEF IInv, AccountsReachable
<1>6. QED
  BY <1>1, <1>2, <1>3, <1>4, <1>5, RevokeStep

LEMMA FailPreserves ==
  ASSUME IInv, NEW h \in Handlers, Fail(h)
  PROVE  IInv'
  BY FinishStep DEF Fail

-----------------------------------------------------------------------------

(* The invariant is inductive: every step keeps it.                        *)
LEMMA NextPreserves == IInv /\ [Next]_vars => IInv'
<1> SUFFICES ASSUME IInv, [Next]_vars PROVE IInv'
  OBVIOUS
<1>1. CASE UNCHANGED vars
  BY <1>1, StutterPreserves
<1>2. ASSUME NEW i \in Identities, NEW e \in Emails, ChangeMail(i, e) PROVE IInv'
  BY <1>2, ChangeMailPreserves
<1>3. ASSUME NEW h \in Handlers, Login(h) PROVE IInv'
  BY <1>3, StartLoginPreserves, ReadIdentityPreserves, ReadEmailPreserves,
     RefreshProfilePreserves, LinkPreserves, CreatePreserves, IssueJwtPreserves
  DEF Login
<1>4. ASSUME NEW h \in Handlers, Session(h) PROVE IInv'
  BY <1>4, SendPreserves, AuthorizePreserves, AuthorizeUnreadPreserves,
     UpdateMePreserves, BumpVersionPreserves, DeleteUserPreserves DEF Session
<1>5. ASSUME NEW h \in Handlers, Answer(h) PROVE IInv'
  BY <1>5, AnswerPreserves
<1>6. ASSUME NEW h \in Handlers, Fail(h) PROVE IInv'
  BY <1>6, FailPreserves
<1>7. QED
  BY <1>1, <1>2, <1>3, <1>4, <1>5, <1>6 DEF Next

(* The inductive invariant holds in every state of every behaviour.        *)
THEOREM InvariantHolds == Spec => []IInv
  BY InitEstablishes, NextPreserves, PTL DEF Spec

(* Accounts, identities, cookies and requests keep their types.            *)
THEOREM TypeCorrect == Spec => []TypeOK
<1>1. IInv => TypeOK
  BY DEF IInv
<1>2. QED
  BY <1>1, InvariantHolds, PTL

(* A session works exactly until its account is logged out or deleted,     *)
(* whatever logins, renames and answers cross the revocation.              *)
THEOREM SessionsStayExact == Spec => []SessionsExact
<1>1. IInv => SessionsExact
  <2> SUFFICES ASSUME IInv, NEW s \in Outstanding PROVE Accepted(s) <=> ~s.stale
    BY DEF SessionsExact
  <2>1. s \in Sessions /\ SessionOK(s)
    BY DEF IInv, TypeOK, SessionsOK, Outstanding, Requests
  <2>2. QED
    BY <2>1, AcceptedIffFresh
<1>2. QED
  BY <1>1, InvariantHolds, PTL

(* A logout that answers has revoked its session or could not look it up.  *)
THEOREM LogoutEndsSession == Spec => []LogoutRevokes
<1>1. IInv => LogoutRevokes
  <2> SUFFICES ASSUME IInv, NEW h \in Handlers,
                      tx[h].op = "logout", tx[h].pc = "answer", ~tx[h].unread
               PROVE  ~Accepted(tx[h].session)
    BY DEF LogoutRevokes
  <2>1. Stage(tx[h]) /\ SessionOK(tx[h].session)
    BY RequestOK
  <2>2. tx[h].session = NoSession \/ tx[h].session.stale
    BY <2>1 DEF Stage
  <2>3. CASE tx[h].session \in Sessions
    BY <2>1, <2>2, <2>3, AcceptedIffFresh, NoSessionIsNone
  <2>4. CASE tx[h].session \notin Sessions
    BY <2>4 DEF Accepted
  <2>5. QED
    BY <2>3, <2>4
<1>2. QED
  BY <1>1, InvariantHolds, PTL

(* However logins race, fail or are cut short, every account has an        *)
(* identity to log in with and no identity points to a deleted account.    *)
THEOREM AccountsStayReachable == Spec => []AccountsReachable
<1>1. IInv => AccountsReachable
  BY DEF IInv
<1>2. QED
  BY <1>1, InvariantHolds, PTL

-----------------------------------------------------------------------------

(* What IdentityKept says of one step.                                     *)
KeptStep ==
  \A i \in Identities :
    identity[i] # NoOne /\ identity'[i] # identity[i] =>
      identity'[i] = NoOne /\ user'[identity[i]] = Gone

(* Only Link, Create and DeleteUser change identities: the first two only  *)
(* those that are linked to no account.                                    *)
LEMMA StepKeepsIdentities == IInv /\ [Next]_vars => KeptStep \/ UNCHANGED vars
<1> SUFFICES ASSUME IInv, Next PROVE KeptStep
  OBVIOUS
<1>1. CASE UNCHANGED identity
  BY <1>1 DEF KeptStep
<1>2. ASSUME NEW h \in Handlers, NEW u, LinkTo(h, u), Unlinked(h)
      PROVE  KeptStep
  BY <1>2 DEF KeptStep, LinkTo, Unlinked, IInv, TypeOK
<1>3. ASSUME NEW h \in Handlers, DeleteUser(h)
      PROVE  KeptStep
  <2>1. tx[h].session.sub \in UserIds
    BY <1>3, KnownAccount DEF DeleteUser
  <2>2. QED
    BY <1>3, <2>1 DEF DeleteUser, KeptStep, IInv, TypeOK
<1>4. ASSUME NEW h \in Handlers, Login(h) PROVE KeptStep
  BY <1>1, <1>2, <1>4 DEF Login, StartLogin, ReadIdentity, ReadEmail,
     RefreshProfile, Link, Create, IssueJwt
<1>5. ASSUME NEW h \in Handlers, Session(h) PROVE KeptStep
  BY <1>1, <1>3, <1>5 DEF Session, Send, Authorize, AuthorizeUnread, UpdateMe,
     BumpVersion
<1>6. ASSUME NEW h \in Handlers, Answer(h) \/ Fail(h) PROVE KeptStep
  BY <1>1, <1>6 DEF Answer, Fail
<1>7. ASSUME NEW i \in Identities, NEW e \in Emails, ChangeMail(i, e) PROVE KeptStep
  BY <1>1, <1>7 DEF ChangeMail
<1>8. QED
  BY <1>4, <1>5, <1>6, <1>7 DEF Next

(* An identity keeps its account until the account is deleted.             *)
THEOREM IdentityStays == Spec => IdentityKept
<1>1. IInv /\ [Next]_vars => [KeptStep]_vars
  BY StepKeepsIdentities
<1>2. Spec => [][KeptStep]_vars
  BY <1>1, InvariantHolds, PTL DEF Spec
<1>3. QED
  BY <1>2 DEF IdentityKept, KeptStep

=============================================================================

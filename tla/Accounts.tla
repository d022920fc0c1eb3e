------------------------------- MODULE Accounts -------------------------------
(***************************************************************************)
(* Accounts and their sessions: the OAuth login that finds, links or       *)
(* creates an account (db.rs: resolve_oauth_user), the JWT in the browser's *)
(* cookie with the token_version it was issued at (auth.rs), and the       *)
(* handlers that issue, use and revoke it (main.rs: oauth_callback,        *)
(* update_me, delete_me, logout).                                          *)
(*                                                                         *)
(* A provider account - (provider, subject) - is a member of Identities,   *)
(* a normalized e-mail address one of Emails, and a JWT is the two claims  *)
(* the code compares: sub and ver.  Names, the OAuth state and the seven   *)
(* days of a session are left out.  Each read of the database sees what is *)
(* committed then; the writes of a transaction, which nothing reads in     *)
(* between, are one step with its commit.  Account ids are UUIDs and never *)
(* used again.                                                             *)
(***************************************************************************)
EXTENDS Integers

CONSTANTS
  Identities,    \* accounts people have at the providers
  Emails,        \* e-mail addresses
  UserIds,       \* ids of accounts
  Unborn, Gone,  \* the state of an account not yet created, or deleted
  NoOne,         \* no account
  Browsers,      \* cookie jars
  NoSession,     \* no session cookie
  Handlers,      \* connections that serve requests
  MaxVersion     \* bound: how often each account's sessions are revoked

ASSUME NoOneIsNoUser    == NoOne \notin UserIds
ASSUME VersionIsNatural == MaxVersion \in Nat

Sessions == [sub : UserIds, ver : 0 .. MaxVersion, stale : BOOLEAN]

ASSUME NoSessionIsNone == NoSession \notin Sessions

Accounts == [email : Emails, version : 0 .. MaxVersion]

ASSUME NoAccountIsNone == {Unborn, Gone} \cap Accounts = {} /\ Unborn # Gone

VARIABLES
  mail,       \* the verified address each provider account has there
  user,       \* app_user
  identity,   \* oauth_identity: the account each provider account logs in to
  cookie,     \* the session cookie of each browser
  tx          \* per connection, the request it serves

vars == <<mail, user, identity, cookie, tx>>

-----------------------------------------------------------------------------

Live == {u \in UserIds : user[u] \in Accounts}

(* The accounts, other than u, that have the address e.                    *)
Holders(e, u) == {v \in Live \ {u} : user[v].email = e}

(* A session of account u as it is now.  stale is history: whether the     *)
(* account has been logged out or deleted since the login that started the *)
(* session.                                                                *)
SessionOf(u) == [sub |-> u, ver |-> user[u].version, stale |-> FALSE]

(* CurrentUser: the account exists and has the version of the claim.       *)
Accepted(s) == s \in Sessions /\ s.sub \in Live /\ user[s.sub].version = s.ver

Idle ==
  [pc       |-> "idle",
   op       |-> "none",
   browser  |-> NoSession,
   identity |-> NoOne,      \* what the provider says of a login: who ...
   email    |-> NoOne,      \* ... and which address
   known    |-> NoOne,      \* the account the identity is linked to
   holder   |-> NoOne,      \* the account that has the address
   session  |-> NoSession,  \* the session to check, or to answer with
   unread   |-> FALSE]      \* OptionalUser could not look the account up

Init ==
  /\ mail \in [Identities -> Emails]
  /\ user = [u \in UserIds |-> Unborn]
  /\ identity = [i \in Identities |-> NoOne]
  /\ cookie = [b \in Browsers |-> NoSession]
  /\ tx = [h \in Handlers |-> Idle]

Finish(h) == tx' = [tx EXCEPT ![h] = Idle]

(* What a session of u becomes when all its sessions are revoked.          *)
Revoked(s, u) ==
  IF s \in Sessions /\ s.sub = u THEN [s EXCEPT !.stale = TRUE] ELSE s

-----------------------------------------------------------------------------

(* A person changes the address at the provider.                           *)
ChangeMail(i, e) ==
  /\ mail[i] # e
  /\ mail' = [mail EXCEPT ![i] = e]
  /\ UNCHANGED <<user, identity, cookie, tx>>

(* oauth_callback: the provider has said who logs in.                      *)
StartLogin(h, b, i) ==
  /\ tx[h].pc = "idle"
  /\ tx' = [tx EXCEPT ![h] = [Idle EXCEPT !.pc = "fetched", !.op = "login",
                                !.browser = b, !.identity = i, !.email = mail[i]]]
  /\ UNCHANGED <<mail, user, identity, cookie>>

(* resolve_oauth_user looks for the identity ...                           *)
ReadIdentity(h) ==
  /\ tx[h].pc = "fetched"
  /\ tx' = [tx EXCEPT ![h].pc = "looked", ![h].known = identity[tx[h].identity]]
  /\ UNCHANGED <<mail, user, identity, cookie>>

(* ... and for the account that has its address: for a known identity,     *)
(* another one (the NOT EXISTS of its UPDATE), else the one to link to.    *)
(* The version read with that one is what its session will carry.          *)
ReadEmail(h) ==
  /\ tx[h].pc = "looked"
  /\ LET found == Holders(tx[h].email, tx[h].known)
     IN  tx' = [tx EXCEPT
           ![h].pc = "read",
           ![h].holder = IF found = {} THEN NoOne ELSE CHOOSE v \in found : TRUE,
           ![h].session = IF tx[h].known = NoOne /\ found # {}
                          THEN SessionOf(CHOOSE v \in found : TRUE)
                          ELSE NoSession]
  /\ UNCHANGED <<mail, user, identity, cookie>>

(* A known identity: the account takes the new address unless another one  *)
(* held it.  The login fails if the account is deleted by now, or if the   *)
(* address was taken meanwhile (the unique index).                         *)
RefreshProfile(h) ==
  /\ tx[h].pc = "read"
  /\ tx[h].known # NoOne
  /\ LET u == tx[h].known
     IN  IF u \notin Live \/ (tx[h].holder = NoOne /\ Holders(tx[h].email, u) # {})
         THEN Finish(h) /\ UNCHANGED user
         ELSE /\ tx' = [tx EXCEPT ![h].pc = "resolved", ![h].session = SessionOf(u)]
              /\ user' = IF tx[h].holder = NoOne
                         THEN [user EXCEPT ![u].email = tx[h].email]
                         ELSE user
  /\ UNCHANGED <<mail, identity, cookie>>

(* The row of oauth_identity that links the login to account u, if its     *)
(* keys allow it.                                                          *)
Unlinked(h) == identity[tx[h].identity] = NoOne

LinkTo(h, u) == identity' = [identity EXCEPT ![tx[h].identity] = u]

(* A first login whose address an account has is linked to it.             *)
Link(h) ==
  /\ tx[h].pc = "read"
  /\ tx[h].known = NoOne /\ tx[h].holder # NoOne
  /\ IF Unlinked(h) /\ tx[h].holder \in Live
     THEN LinkTo(h, tx[h].holder) /\ tx' = [tx EXCEPT ![h].pc = "resolved"]
     ELSE Finish(h) /\ UNCHANGED identity
  /\ UNCHANGED <<mail, user, cookie>>

(* Mutant of Create: no transaction holds the two inserts together.        *)
CreateThenLink(h, u) ==
  /\ tx[h].pc = "read"
  /\ tx[h].known = NoOne /\ tx[h].holder = NoOne
  /\ user[u] = Unborn
  /\ IF Holders(tx[h].email, NoOne) = {}
     THEN /\ user' = [user EXCEPT ![u] = [email |-> tx[h].email, version |-> 0]]
          /\ IF Unlinked(h)
             THEN /\ LinkTo(h, u)
                  /\ tx' = [tx EXCEPT ![h].pc = "resolved",
                              ![h].session = [sub |-> u, ver |-> 0, stale |-> FALSE]]
             ELSE Finish(h) /\ UNCHANGED identity
     ELSE Finish(h) /\ UNCHANGED <<user, identity>>
  /\ UNCHANGED <<mail, cookie>>

(* Mutant of Create: the identity is upserted.                             *)
CreateAndMove(h, u) ==
  /\ tx[h].pc = "read"
  /\ tx[h].known = NoOne /\ tx[h].holder = NoOne
  /\ user[u] = Unborn
  /\ IF Holders(tx[h].email, NoOne) = {}
     THEN /\ user' = [user EXCEPT ![u] = [email |-> tx[h].email, version |-> 0]]
          /\ LinkTo(h, u)
          /\ tx' = [tx EXCEPT ![h].pc = "resolved",
                      ![h].session = [sub |-> u, ver |-> 0, stale |-> FALSE]]
     ELSE Finish(h) /\ UNCHANGED <<user, identity>>
  /\ UNCHANGED <<mail, cookie>>

(* Otherwise a new account is created - unless the address or the identity *)
(* was taken meanwhile, which fails the login and undoes it.               *)
Create(h, u) ==
  /\ tx[h].pc = "read"
  /\ tx[h].known = NoOne /\ tx[h].holder = NoOne
  /\ user[u] = Unborn
  /\ IF Unlinked(h) /\ Holders(tx[h].email, NoOne) = {}
     THEN /\ user' = [user EXCEPT ![u] = [email |-> tx[h].email, version |-> 0]]
          /\ LinkTo(h, u)
          /\ tx' = [tx EXCEPT ![h].pc = "resolved",
                      ![h].session = [sub |-> u, ver |-> 0, stale |-> FALSE]]
     ELSE Finish(h) /\ UNCHANGED <<user, identity>>
  /\ UNCHANGED <<mail, cookie>>

(* effective_display_name fails for an account deleted since; issue_jwt.   *)
IssueJwt(h) ==
  /\ tx[h].pc = "resolved"
  /\ IF tx[h].session.sub \in Live
     THEN tx' = [tx EXCEPT ![h].pc = "answer"]
     ELSE Finish(h)
  /\ UNCHANGED <<mail, user, identity, cookie>>

-----------------------------------------------------------------------------

(* The browser sends a request with its cookie.                            *)
Send(h, b, op) ==
  /\ tx[h].pc = "idle"
  /\ op = "logout" \/ cookie[b] # NoSession
  /\ tx' = [tx EXCEPT ![h] = [Idle EXCEPT !.pc = "sent", !.op = op,
                                          !.browser = b, !.session = cookie[b]]]
  /\ UNCHANGED <<mail, user, identity, cookie>>

(* Mutant of Authorize: a logout only clears the cookie.                   *)
AuthorizeNoLogout(h) ==
  /\ tx[h].pc = "sent"
  /\ IF tx[h].op = "logout" THEN tx' = [tx EXCEPT ![h].pc = "answer"]
     ELSE IF Accepted(tx[h].session) THEN tx' = [tx EXCEPT ![h].pc = "known"]
     ELSE Finish(h)
  /\ UNCHANGED <<mail, user, identity, cookie>>

(* CurrentUser refuses a session that is not accepted; a logout, with      *)
(* OptionalUser, goes on and only clears the cookie.                       *)
Authorize(h) ==
  /\ tx[h].pc = "sent"
  /\ IF Accepted(tx[h].session) THEN tx' = [tx EXCEPT ![h].pc = "known"]
     ELSE IF tx[h].op = "logout" THEN tx' = [tx EXCEPT ![h].pc = "answer"]
     ELSE Finish(h)
  /\ UNCHANGED <<mail, user, identity, cookie>>

(* A logout for which the lookup of the version fails goes on likewise:    *)
(* OptionalUser turns every error into None.                               *)
AuthorizeUnread(h) ==
  /\ tx[h].pc = "sent"
  /\ tx[h].op = "logout" /\ tx[h].session # NoSession
  /\ tx' = [tx EXCEPT ![h].pc = "answer", ![h].unread = TRUE]
  /\ UNCHANGED <<mail, user, identity, cookie>>

(* Mutant of UpdateMe: the session is issued at the version the account    *)
(* has now.                                                                *)
UpdateMeAtCurrentVersion(h) ==
  /\ tx[h].pc = "known" /\ tx[h].op = "rename"
  /\ IF tx[h].session.sub \in Live
     THEN tx' = [tx EXCEPT ![h].pc = "answer",
                           ![h].session.ver = user[tx[h].session.sub].version]
     ELSE Finish(h)
  /\ UNCHANGED <<mail, user, identity, cookie>>

(* update_me: set_screen_name, which fails for an account deleted since,   *)
(* and a new cookie with the version that was checked.                     *)
UpdateMe(h) ==
  /\ tx[h].pc = "known" /\ tx[h].op = "rename"
  /\ IF tx[h].session.sub \in Live
     THEN tx' = [tx EXCEPT ![h].pc = "answer"]
     ELSE Finish(h)
  /\ UNCHANGED <<mail, user, identity, cookie>>

(* Every session of account u there is, in a browser or on its way there.  *)
RevokeAll(h, u) ==
  /\ cookie' = [b \in Browsers |-> Revoked(cookie[b], u)]
  /\ tx' = [x \in Handlers |->
              [tx[x] EXCEPT !.pc = IF x = h THEN "answer" ELSE @,
                            !.session = Revoked(@, u)]]

(* logout: bump_token_version, which updates nothing if the account is     *)
(* gone.                                                                   *)
BumpVersion(h) ==
  /\ tx[h].pc = "known" /\ tx[h].op = "logout"
  /\ LET u == tx[h].session.sub
     IN  /\ RevokeAll(h, u)
         /\ IF u \in Live
            THEN /\ user[u].version < MaxVersion
                 /\ user' = [user EXCEPT ![u].version = @ + 1]
            ELSE UNCHANGED user
  /\ UNCHANGED <<mail, identity>>

(* delete_me: delete_user and the cascade to oauth_identity.               *)
DeleteUser(h) ==
  /\ tx[h].pc = "known" /\ tx[h].op = "delete"
  /\ LET u == tx[h].session.sub
     IN  /\ RevokeAll(h, u)
         /\ user' = [user EXCEPT ![u] = Gone]
         /\ identity' = [i \in Identities |->
                           IF identity[i] = u THEN NoOne ELSE identity[i]]
  /\ UNCHANGED mail

(* The answer reaches the browser and sets its cookie, or clears it.       *)
Answer(h) ==
  /\ tx[h].pc = "answer"
  /\ cookie' = [cookie EXCEPT ![tx[h].browser] =
                  IF tx[h].op \in {"login", "rename"} THEN tx[h].session
                                                      ELSE NoSession]
  /\ Finish(h)
  /\ UNCHANGED <<mail, user, identity>>

(* A statement fails, the connection or the instance is lost, or the       *)
(* answer is.                                                              *)
Fail(h) ==
  /\ tx[h].pc # "idle"
  /\ Finish(h)
  /\ UNCHANGED <<mail, user, identity, cookie>>

Login(h) ==
  \/ \E b \in Browsers, i \in Identities : StartLogin(h, b, i)
  \/ ReadIdentity(h) \/ ReadEmail(h)
  \/ RefreshProfile(h) \/ Link(h)
  \/ \E u \in UserIds : Create(h, u)
  \/ IssueJwt(h)

Session(h) ==
  \/ \E b \in Browsers, op \in {"rename", "logout", "delete"} : Send(h, b, op)
  \/ Authorize(h) \/ AuthorizeUnread(h)
  \/ UpdateMe(h) \/ BumpVersion(h) \/ DeleteUser(h)

Next ==
  \/ \E i \in Identities, e \in Emails : ChangeMail(i, e)
  \/ \E h \in Handlers : Login(h) \/ Session(h) \/ Answer(h) \/ Fail(h)

Spec == Init /\ [][Next]_vars

-----------------------------------------------------------------------------

Requests ==
  [pc       : {"idle", "fetched", "looked", "read", "resolved",
               "sent", "known", "answer"},
   op       : {"none", "login", "rename", "logout", "delete"},
   browser  : Browsers \cup {NoSession},
   identity : Identities \cup {NoOne},
   email    : Emails \cup {NoOne},
   known    : UserIds \cup {NoOne},
   holder   : UserIds \cup {NoOne},
   session  : Sessions \cup {NoSession},
   unread   : BOOLEAN]

(* The state has the declared shape, and a step that uses a session has    *)
(* one.                                                                    *)
TypeOK ==
  /\ mail \in [Identities -> Emails]
  /\ user \in [UserIds -> Accounts \cup {Unborn, Gone}]
  /\ identity \in [Identities -> UserIds \cup {NoOne}]
  /\ cookie \in [Browsers -> Sessions \cup {NoSession}]
  /\ tx \in [Handlers -> Requests]
  /\ \A h \in Handlers :
       /\ tx[h].pc \in {"resolved", "known"} => tx[h].session \in Sessions
       /\ tx[h].pc = "answer" =>
            tx[h].session \in Sessions \/ tx[h].op = "logout"
       /\ tx[h].pc # "idle" => tx[h].browser \in Browsers
       /\ tx[h].op = "login" => tx[h].identity \in Identities
       /\ tx[h].op = "login" => tx[h].email \in Emails

(* Every session there is, in a browser or on its way there.               *)
Outstanding ==
  {s \in {cookie[b] : b \in Browsers} \cup {tx[h].session : h \in Handlers} :
     s # NoSession}

(* A session works exactly until the account is next logged out or         *)
(* deleted: "revoking every outstanding session" (main.rs:1511), also one  *)
(* that update_me or a login is about to hand out, and no other session.   *)
SessionsExact == \A s \in Outstanding : Accepted(s) <=> ~s.stale

(* A logout that answers has ended the session it came with, whatever      *)
(* answers cross it, unless it could not look that session up - then the   *)
(* cookie is cleared, but no session is revoked.                           *)
LogoutRevokes ==
  \A h \in Handlers :
    tx[h].op = "logout" /\ tx[h].pc = "answer" =>
      ~Accepted(tx[h].session) \/ tx[h].unread

(* No account is left that nobody can log in to, and no identity points to *)
(* an account that is gone - however logins race, fail or are cut short.   *)
AccountsReachable ==
  /\ \A u \in Live : \E i \in Identities : identity[i] = u
  /\ \A i \in Identities : identity[i] \in Live \cup {NoOne}

(* "the (provider, subject) row is authoritative: an email change at the   *)
(* provider follows the account instead of forking it" (db.rs:498): an     *)
(* identity keeps its account until that is deleted.                       *)
IdentityKept ==
  [][\A i \in Identities :
       identity[i] # NoOne /\ identity'[i] # identity[i] =>
         identity'[i] = NoOne /\ user'[identity[i]] = Gone]_vars

=============================================================================

----------------------------- MODULE GuidesProofs -----------------------------
(***************************************************************************)
(* Proofs about Guides, for any number of accounts, guides, episodes and   *)
(* connections: LikesNeedRace, GuideIsWhole, NothingDangles and            *)
(* CapOvershoot.                                                           *)
(*                                                                         *)
(* The invariant says of each request what its checks have established     *)
(* (Stages) and what its locks protect (Holds): a guide being edited or    *)
(* liked is there and stays, an account being deleted gets no new guide    *)
(* and no new like, and the likes it counted are those it would count now, *)
(* unless it missed a commit (Seen).  Apart says what no two requests do   *)
(* at once.                                                                *)
(*                                                                         *)
(* CapOvershoot needs the guides that requests past the check are about to *)
(* publish: those and the published ones grow only at the check, which     *)
(* counts fewer than the cap, beside one guide for each other connection.  *)
(***************************************************************************)
EXTENDS Guides, TLAPS, FiniteSetTheorems

(* What each stage of a request says of it, and what its locks protect.    *)
Stages(w) ==
  /\ tx[w].pc = "idle" <=> tx[w].req = NoRequest
  /\ tx[w].pc = "authorized" => tx[w].req.op \in {"update", "delete", "like"}
  /\ tx[w].pc \in {"valid", "capped"} => tx[w].req.op \in {"create", "update"}
  /\ tx[w].pc = "sweep" => tx[w].req.op = "erase"
  /\ InTx(w) => tx[w].req.op # "create"
  /\ tx[w].req.op = "create" => guide[tx[w].req.guide] = Unborn
  /\ tx[w].req.op \in {"update", "delete", "like", "unlike"} =>
       guide[tx[w].req.guide] # Unborn
  /\ tx[w].req.op = "update" /\ tx[w].pc # "authorized" =>
       guide[tx[w].req.guide] = Gone \/ guide[tx[w].req.guide].author = tx[w].req.user

(* The guides a transaction changes the likes of, and those it deletes.    *)
Holds(w) ==
  /\ tx[w].claim \subseteq tx[w].todo
  /\ tx[w].todo \cup tx[w].written \subseteq Live \ tx[w].dropped
  /\ \A g \in tx[w].dropped : guide[g] # Unborn
  /\ ~InTx(w) => tx[w].todo = {} /\ tx[w].written = {} /\ tx[w].dropped = {}
  /\ InTx(w) /\ tx[w].req.op = "update" =>
       /\ tx[w].req.guide \in Live
       /\ tx[w].todo = {} /\ tx[w].written = {} /\ tx[w].dropped = {}
  /\ InTx(w) /\ tx[w].req.op = "delete" => tx[w].todo = {} /\ tx[w].written = {}
  /\ InTx(w) /\ tx[w].req.op \in {"like", "unlike"} =>
       /\ tx[w].todo \cup tx[w].written = {tx[w].req.guide}
       /\ tx[w].dropped = {}
  /\ InTx(w) /\ tx[w].req.op = "like" => tx[w].req.user \in users
  /\ InTx(w) /\ tx[w].req.op = "erase" =>
       /\ Authored(tx[w].req.user) \subseteq tx[w].dropped
       /\ \A g \in Live : tx[w].req.user \in likes[g] =>
            g \in tx[w].todo \cup tx[w].written \cup tx[w].dropped

(* The likes a transaction counted are those it would count now, unless it *)
(* missed a commit.                                                        *)
Seen(w) ==
  \A g \in (tx[w].claim \cup tx[w].written) \ tx[w].missed : tx[w].seen[g] = View(w, g)

(* Two requests under way do not get in each other's way.                  *)
Apart(x, y) ==
  /\ tx[x].req.op = "create" /\ tx[y].req.op = "create" =>
       tx[x].req.guide # tx[y].req.guide
  /\ tx[x].pc \in {"sweep", "open"} /\ tx[x].req.op = "erase"
     /\ InTx(y) /\ tx[y].req.op = "like" => tx[x].req.user # tx[y].req.user
  /\ InTx(x) /\ tx[x].req.op = "update" => tx[x].req.guide \notin tx[y].dropped

(* The requests that will publish a guide of u, and what u would then have *)
(* published.                                                              *)
Publishes(w, u) ==
  /\ tx[w].pc = "capped" \/ (InTx(w) /\ tx[w].req.op = "update")
  /\ tx[w].req.user = u /\ tx[w].req.input.published

ToBePublished(u) == {tx[w].req.guide : w \in {x \in Handlers : Publishes(x, u)}}

Potential(u) == Published(u) \cup ToBePublished(u)

CapOK ==
  \A u \in Users :
    Cardinality(Potential(u)) < MAX_PUBLISHED_PER_SHOW + Cardinality(Handlers)

(* A guide that is not there has no count.                                 *)
NoGuideNoCount == \A g \in GuideIds \ Live : count[g] = 0

DBInv == LikesNeedRace /\ NoGuideNoCount /\ NothingDangles /\ GuideIsWhole

TxInv ==
  /\ \A w \in Handlers : Stages(w) /\ Holds(w) /\ Seen(w)
  /\ \A x, y \in Handlers : x # y => Apart(x, y)

IInv == TypeOK /\ DBInv /\ TxInv

-----------------------------------------------------------------------------

(* The likes a transaction sees are accounts.                              *)
LEMMA ViewType ==
  ASSUME TypeOK, NEW w \in Handlers, NEW g \in GuideIds
  PROVE  View(w, g) \in SUBSET Users
<1>1. tx[w].req \in AllRequests \cup {NoRequest} /\ likes[g] \in SUBSET Users
  BY DEF TypeOK, Transactions
<1>2. CASE Doing(w, "like", g)
  <2>1. tx[w].req \in AllRequests /\ tx[w].req.op = "like"
    BY <1>1, <1>2 DEF Doing, NoRequest
  <2>2. tx[w].req.user \in Users
    BY <2>1 DEF AllRequests
  <2> QED
    BY <1>1, <2>2 DEF View
<1>3. CASE ~Doing(w, "like", g)
  BY <1>1, <1>3 DEF View
<1> QED
  BY <1>2, <1>3

(* A request has the fields its operation needs.                           *)
LEMMA RequestType ==
  ASSUME NEW r \in AllRequests
  PROVE  /\ r.user \in Users
         /\ r.op \in {"create", "update", "delete", "like", "unlike", "erase"}
         /\ r.op # "erase" => r.guide \in GuideIds
         /\ r.op \in {"create", "update"} => r.input \in Inputs
         /\ r # NoRequest
BY DEF AllRequests, NoRequest

LEMMA IdleType == Idle \in Transactions
BY DEF Idle, Transactions

LEMMA InitIInv == Init => IInv
<1> SUFFICES ASSUME Init PROVE IInv
  OBVIOUS
<1>1. TypeOK
  BY IdleType DEF Init, TypeOK
<1>2. Live = {}
  BY DEF Init, Live
<1>3. DBInv
  BY <1>2 DEF Init, DBInv, LikesNeedRace, NoGuideNoCount, NothingDangles, GuideIsWhole
<1>4. \A w \in Handlers : tx[w] = Idle
  BY DEF Init
<1>5. TxInv
  BY <1>2, <1>4 DEF TxInv, Stages, Holds, Seen, Apart, Idle, NoRequest, InTx
<1> QED
  BY <1>1, <1>3, <1>5 DEF IInv

-----------------------------------------------------------------------------

(* A step that touches no table and one connection keeps the invariant if  *)
(* that connection's own bookkeeping stays right and does not meet what    *)
(* the others do.                                                          *)
LEMMA LocalStep ==
  ASSUME IInv, NEW w \in Handlers, UNCHANGED db,
         tx' = [tx EXCEPT ![w] = tx'[w]], tx'[w] \in Transactions,
         Stages(w)', Holds(w)', Seen(w)',
         \A y \in Handlers \ {w} : Apart(w, y)' /\ Apart(y, w)'
  PROVE  IInv'
<1>1. TypeOK'
  BY DEF IInv, TypeOK, db
<1>2. Live' = Live /\ \A u \in Users : Authored(u)' = Authored(u)
  BY DEF db, Live, Authored
<1>3. DBInv'
  BY <1>2 DEF IInv, DBInv, LikesNeedRace, NoGuideNoCount, NothingDangles, GuideIsWhole, db
<1>4. \A x \in Handlers \ {w} : tx'[x] = tx[x]
  BY DEF IInv, TypeOK
<1>5. ASSUME NEW x \in Handlers \ {w}
      PROVE  Stages(x)' /\ Holds(x)' /\ Seen(x)'
  <2>1. tx'[x] = tx[x] /\ Stages(x) /\ Holds(x) /\ Seen(x)
    BY <1>4 DEF IInv, TxInv
  <2>2. InTx(x)' = InTx(x) /\ \A g \in GuideIds : View(x, g)' = View(x, g)
    BY <2>1 DEF View, InTx, Doing, db
  <2>3. tx[x] \in Transactions
    BY DEF IInv, TypeOK
  <2>4. Stages(x)'
    BY <2>1, <2>2 DEF Stages, db
  <2>5. Holds(x)'
    <3>1. Authored(tx[x].req.user)' = Authored(tx[x].req.user)
      BY <2>1 DEF db, Live, Authored
    <3> QED
      BY <2>1, <2>2, <1>2, <3>1 DEF Holds, db
  <2>6. Seen(x)'
    BY <2>1, <2>2, <2>3 DEF Seen, Transactions
  <2> QED
    BY <2>4, <2>5, <2>6
<1>6. \A x, y \in Handlers \ {w} : x # y => Apart(x, y)'
  BY <1>4 DEF IInv, TxInv, Apart, InTx
<1>7. TxInv'
  BY <1>5, <1>6 DEF TxInv
<1> QED
  BY <1>1, <1>3, <1>7 DEF IInv

(* The end of a request releases everything it held.                       *)
LEMMA FinishStep ==
  ASSUME IInv, NEW w \in Handlers, Finish(w), UNCHANGED db
  PROVE  IInv'
<1>1. tx' = [tx EXCEPT ![w] = tx'[w]] /\ tx'[w] = Idle
  BY DEF Finish, IInv, TypeOK
<1>2. /\ Idle.pc = "idle" /\ Idle.req = NoRequest /\ NoRequest.op = "none"
      /\ Idle.dropped = {} /\ Idle.todo = {} /\ Idle.claim = {} /\ Idle.written = {}
  BY DEF Idle, NoRequest
<1>3. ~InTx(w)'
  BY <1>1, <1>2 DEF InTx
<1>4. Stages(w)' /\ Holds(w)' /\ Seen(w)'
  BY <1>1, <1>2, <1>3 DEF Stages, Holds, Seen
<1>5. \A y \in Handlers \ {w} : Apart(w, y)' /\ Apart(y, w)'
  BY <1>1, <1>2, <1>3 DEF Apart
<1> QED
  BY <1>1, <1>4, <1>5, IdleType, LocalStep

(* A transaction record with another stage is one.                         *)
LEMMA Moved ==
  ASSUME IInv, NEW w \in Handlers, Goto(w, tx'[w].pc),
         tx'[w].pc \in {"known", "valid", "capped", "sweep", "open"}
  PROVE  /\ tx' = [tx EXCEPT ![w] = tx'[w]]
         /\ tx'[w] \in Transactions
         /\ tx'[w].req = tx[w].req
         /\ tx'[w].dropped = tx[w].dropped
         /\ tx'[w].todo = tx[w].todo
         /\ tx'[w].claim = tx[w].claim
         /\ tx'[w].written = tx[w].written
<1> DEFINE pc == tx'[w].pc
<1> HIDE DEF pc
<1>1. tx[w] \in Transactions
  BY DEF IInv, TypeOK
<1>2. tx' = [tx EXCEPT ![w] = [tx[w] EXCEPT !.pc = pc]]
  BY DEF Goto, pc, IInv, TypeOK
<1>3. tx'[w] = [tx[w] EXCEPT !.pc = pc]
  BY <1>2 DEF IInv, TypeOK
<1>4. pc \in {"known", "valid", "capped", "sweep", "open"}
  BY DEF pc
<1>5. tx' = [tx EXCEPT ![w] = tx'[w]]
  BY <1>2, <1>3
<1>6. [tx[w] EXCEPT !.pc = pc] \in Transactions
  BY <1>1, <1>4 DEF Transactions
<1> DEFINE t == [tx[w] EXCEPT !.pc = pc]
<1>7. /\ t.req = tx[w].req /\ t.dropped = tx[w].dropped /\ t.todo = tx[w].todo
      /\ t.claim = tx[w].claim /\ t.written = tx[w].written
  BY <1>1 DEF Transactions
<1> QED
  BY <1>3, <1>5, <1>6, <1>7

(* A request that goes on to its next check or statement.                  *)
LEMMA GotoStep ==
  ASSUME IInv, NEW w \in Handlers, Goto(w, tx'[w].pc), UNCHANGED db,
         tx[w].pc \in {"authorized", "known", "valid"},
         tx'[w].pc \in {"known", "valid", "capped"},
         tx'[w].pc \in {"valid", "capped"} => tx[w].req.op \in {"create", "update"},
         tx[w].req.op = "update" =>
           \/ guide[tx[w].req.guide] = Gone
           \/ guide[tx[w].req.guide].author = tx[w].req.user
  PROVE  IInv'
<1>1. /\ tx' = [tx EXCEPT ![w] = tx'[w]]
      /\ tx'[w] \in Transactions
      /\ tx'[w].req = tx[w].req
      /\ tx'[w].dropped = tx[w].dropped
      /\ tx'[w].todo = tx[w].todo
      /\ tx'[w].claim = tx[w].claim
      /\ tx'[w].written = tx[w].written
  BY Moved
<1>2. Stages(w) /\ Holds(w) /\ ~InTx(w) /\ ~InTx(w)'
  BY DEF IInv, TxInv, InTx
<1>3. Stages(w)'
  BY <1>1, <1>2 DEF Stages, db
<1>4. Holds(w)' /\ Seen(w)'
  BY <1>1, <1>2 DEF Holds, Seen
<1>5. \A y \in Handlers \ {w} : tx'[y] = tx[y] /\ Apart(w, y) /\ Apart(y, w)
  BY <1>1 DEF IInv, TypeOK, TxInv
<1>6. \A y \in Handlers \ {w} : Apart(w, y)' /\ Apart(y, w)'
  BY <1>1, <1>2, <1>5 DEF Apart, InTx
<1> QED
  BY <1>1, <1>3, <1>4, <1>6, LocalStep

LEMMA AuthorizeStep ==
  ASSUME IInv, NEW w \in Handlers, NEW r \in Requests, Authorize(w, r)
  PROVE  IInv'
<1> DEFINE pc == IF r.op \in {"update", "delete", "like"} THEN "authorized" ELSE "known"
<1>1. r \in AllRequests
  BY RequestsValid
<1>2. tx' = [tx EXCEPT ![w] = tx'[w]] /\ tx'[w] = [tx[w] EXCEPT !.req = r, !.pc = pc]
  BY DEF Authorize, IInv, TypeOK
<1>3. tx[w] \in Transactions /\ Stages(w) /\ Holds(w) /\ ~InTx(w)
  BY DEF IInv, TypeOK, TxInv, Authorize, InTx
<1>4. pc \in {"authorized", "known"}
  OBVIOUS
<1>5. pc = "authorized" <=> r.op \in {"update", "delete", "like"}
  OBVIOUS
<1> HIDE DEF pc
<1>6. /\ tx'[w] \in Transactions
      /\ tx'[w].req = r /\ tx'[w].pc = pc
      /\ tx'[w].dropped = {} /\ tx'[w].todo = {} /\ tx'[w].written = {} /\ tx'[w].claim = {}
  BY <1>1, <1>2, <1>3, <1>4 DEF Transactions, Holds
<1>7. ~InTx(w)'
  BY <1>4, <1>6 DEF InTx
<1>8. UNCHANGED db /\ Nameable(r) /\ guide' = guide
  BY DEF Authorize, db
<1>9. Stages(w)'
  BY <1>1, <1>4, <1>5, <1>6, <1>7, <1>8, RequestType DEF Stages, Nameable
<1>10. Holds(w)' /\ Seen(w)'
  BY <1>6, <1>7 DEF Holds, Seen
<1>11. ASSUME NEW y \in Handlers \ {w}
       PROVE  Apart(w, y)' /\ Apart(y, w)'
  <2>1. tx'[y] = tx[y]
    BY <1>2 DEF IInv, TypeOK
  <2>2. r.op = "create" /\ tx[y].req.op = "create" => r.guide # tx[y].req.guide
    BY <1>8 DEF Nameable, Doing
  <2> QED
    BY <1>4, <1>6, <1>7, <2>1, <2>2 DEF Apart, InTx
<1> QED
  BY <1>2, <1>6, <1>8, <1>9, <1>10, <1>11, LocalStep

LEMMA ReadMetaStep ==
  ASSUME IInv, NEW w \in Handlers, ReadMeta(w)
  PROVE  IInv'
<1>1. CASE Finish(w)
  BY <1>1, FinishStep DEF ReadMeta
<1>2. CASE ~Finish(w)
  <2>1. Goto(w, "known") /\ UNCHANGED db /\ tx[w].pc = "authorized"
    BY <1>2 DEF ReadMeta
  <2>2. tx'[w].pc = "known"
    BY <2>1 DEF Goto, IInv, TypeOK, Transactions
  <2>3. tx[w].req.op # "like" => guide[tx[w].req.guide].author = tx[w].req.user
    BY <1>2 DEF ReadMeta
  <2> QED
    BY <2>1, <2>2, <2>3, GotoStep
<1> QED
  BY <1>1, <1>2

LEMMA ValidateEntriesStep ==
  ASSUME IInv, NEW w \in Handlers, ValidateEntries(w)
  PROVE  IInv'
<1>1. CASE Finish(w)
  BY <1>1, FinishStep DEF ValidateEntries
<1>2. CASE ~Finish(w)
  <2>1. /\ Goto(w, "valid") /\ UNCHANGED db /\ tx[w].pc = "known"
        /\ tx[w].req.op \in {"create", "update"}
    BY <1>2 DEF ValidateEntries
  <2>2. tx'[w].pc = "valid"
    BY <2>1 DEF Goto, IInv, TypeOK, Transactions
  <2>3. Stages(w)
    BY DEF IInv, TxInv
  <2> QED
    BY <2>1, <2>2, <2>3, GotoStep DEF Stages
<1> QED
  BY <1>1, <1>2

LEMMA CheckCapStep ==
  ASSUME IInv, NEW w \in Handlers, CheckCap(w)
  PROVE  IInv'
<1>1. CASE Finish(w)
  BY <1>1, FinishStep DEF CheckCap
<1>2. CASE ~Finish(w)
  <2>1. Goto(w, "capped") /\ UNCHANGED db /\ tx[w].pc = "valid"
    BY <1>2 DEF CheckCap
  <2>2. tx'[w].pc = "capped"
    BY <2>1 DEF Goto, IInv, TypeOK, Transactions
  <2>3. Stages(w)
    BY DEF IInv, TxInv
  <2> QED
    BY <2>1, <2>2, <2>3, GotoStep DEF Stages
<1> QED
  BY <1>1, <1>2

(* An edit opens its transaction on a guide nobody else holds.             *)
LEMMA UpdateGuideStep ==
  ASSUME IInv, NEW w \in Handlers, UpdateGuide(w)
  PROVE  IInv'
<1>1. CASE Finish(w)
  BY <1>1, FinishStep DEF UpdateGuide
<1>2. CASE ~Finish(w)
  <2>1. /\ Goto(w, "open") /\ UNCHANGED db
        /\ tx[w].pc = "capped" /\ tx[w].req.op = "update"
        /\ tx[w].req.guide \in Live /\ ~RowLocked(w, tx[w].req.guide)
    BY <1>2 DEF UpdateGuide
  <2>2. tx'[w].pc = "open"
    BY <2>1 DEF Goto, IInv, TypeOK, Transactions
  <2>3. /\ tx' = [tx EXCEPT ![w] = tx'[w]]
        /\ tx'[w] \in Transactions
        /\ tx'[w].req = tx[w].req
        /\ tx'[w].dropped = tx[w].dropped
        /\ tx'[w].todo = tx[w].todo
        /\ tx'[w].claim = tx[w].claim
        /\ tx'[w].written = tx[w].written
    BY <2>1, <2>2, Moved
  <2>4. Stages(w) /\ Holds(w) /\ ~InTx(w) /\ InTx(w)'
    BY <2>1, <2>2 DEF IInv, TxInv, InTx
  <2>5. Stages(w)'
    BY <2>1, <2>2, <2>3, <2>4 DEF Stages, db
  <2>6. Live' = Live /\ guide' = guide
    BY <2>1 DEF db, Live
  <2>7. Holds(w)' /\ Seen(w)'
    BY <2>1, <2>3, <2>4, <2>6 DEF Holds, Seen
  <2>8. ASSUME NEW y \in Handlers \ {w}
        PROVE  Apart(w, y)' /\ Apart(y, w)'
    <3>1. tx'[y] = tx[y] /\ Apart(w, y) /\ Apart(y, w) /\ Holds(y)
      BY <2>3 DEF IInv, TypeOK, TxInv
    <3>2. tx[w].req.guide \notin tx[y].dropped
      BY <2>1, <3>1 DEF RowLocked, Holds
    <3>3. tx[w].dropped = {}
      BY <2>4 DEF Holds
    <3> QED
      BY <2>1, <2>3, <3>1, <3>2, <3>3 DEF Apart, InTx
  <2> QED
    BY <2>1, <2>3, <2>5, <2>7, <2>8, LocalStep
<1> QED
  BY <1>1, <1>2

(* What a transaction that opens with guides to delete and counts to       *)
(* refresh has to fear from the others: an edit of what it deletes, and,   *)
(* if it adds a like, the deletion of its account.                         *)
LEMMA OpenStep ==
  ASSUME IInv, NEW w \in Handlers, UNCHANGED db,
         NEW drop \in SUBSET GuideIds, NEW rows \in SUBSET GuideIds,
         tx' = [tx EXCEPT ![w].pc = "open", ![w].dropped = drop, ![w].todo = rows],
         tx[w].pc \in {"known", "sweep"},
         tx[w].req.op \in {"delete", "like", "unlike", "erase"},
         tx[w].req.op = "delete" => rows = {} /\ drop \subseteq Live,
         tx[w].req.op \in {"like", "unlike"} =>
           rows = {tx[w].req.guide} /\ rows \subseteq Live /\ drop = {},
         tx[w].req.op = "like" =>
           tx[w].req.user \in users /\ ~Erasing(w, tx[w].req.user),
         tx[w].req.op = "erase" =>
           /\ tx[w].pc = "sweep"
           /\ drop = Authored(tx[w].req.user)
           /\ rows = {g \in Live \ drop : tx[w].req.user \in likes[g]},
         \A g \in drop : ~RowLocked(w, g)
  PROVE  IInv'
<1>1. tx[w] \in Transactions /\ Stages(w) /\ Holds(w) /\ ~InTx(w)
  BY DEF IInv, TypeOK, TxInv, InTx
<1>2. tx' = [tx EXCEPT ![w] = tx'[w]]
      /\ tx'[w] = [tx[w] EXCEPT !.pc = "open", !.dropped = drop, !.todo = rows]
  BY DEF IInv, TypeOK
<1>a. tx[w].claim = {} /\ tx[w].written = {}
  BY <1>1 DEF Holds
<1>3. /\ tx'[w] \in Transactions
      /\ tx'[w].pc = "open" /\ tx'[w].req = tx[w].req
      /\ tx'[w].dropped = drop /\ tx'[w].todo = rows
      /\ tx'[w].claim = {} /\ tx'[w].written = {}
  <2> DEFINE t == [tx[w] EXCEPT !.pc = "open", !.dropped = drop, !.todo = rows]
  <2>1. t \in Transactions
    BY <1>1 DEF Transactions
  <2>2. /\ t.pc = "open" /\ t.req = tx[w].req /\ t.dropped = drop /\ t.todo = rows
        /\ t.claim = tx[w].claim /\ t.written = tx[w].written
    BY <1>1 DEF Transactions
  <2> QED
    BY <1>2, <1>a, <2>1, <2>2
<1>4. /\ Live' = Live /\ guide' = guide /\ users' = users /\ likes' = likes
      /\ Authored(tx[w].req.user)' = Authored(tx[w].req.user)
  BY <1>3 DEF db, Live, Authored
<1>5. drop \subseteq Live
  BY DEF Authored
<1>6. Stages(w)'
  BY <1>1, <1>3, <1>4 DEF Stages, InTx
<1>7. Holds(w)'
  <2>1. InTx(w)' /\ rows \subseteq Live \ drop
    BY <1>3 DEF InTx
  <2>2. \A g \in drop : guide[g] # Unborn
    BY <1>5 DEF Live
  <2>3. tx[w].req.op = "erase" =>
          \A g \in Live : tx[w].req.user \in likes[g] => g \in rows \cup drop
    OBVIOUS
  <2>4. tx[w].req.op # "update"
    OBVIOUS
  <2>5. tx'[w].req.op = "erase" =>
          /\ Authored(tx[w].req.user)' \subseteq tx'[w].dropped
          /\ \A g \in Live' : tx'[w].req.user \in likes'[g] =>
               g \in tx'[w].todo \cup tx'[w].written \cup tx'[w].dropped
    BY <1>3, <1>4, <2>3
  <2>6. /\ tx'[w].claim \subseteq tx'[w].todo
        /\ tx'[w].todo \cup tx'[w].written \subseteq Live' \ tx'[w].dropped
        /\ \A g \in tx'[w].dropped : guide'[g] # Unborn
        /\ tx'[w].req.op # "update"
    BY <1>3, <1>4, <2>1, <2>2, <2>4
  <2>7. /\ tx'[w].req.op = "delete" => tx'[w].todo = {} /\ tx'[w].written = {}
        /\ tx'[w].req.op \in {"like", "unlike"} =>
             /\ tx'[w].todo \cup tx'[w].written = {tx'[w].req.guide}
             /\ tx'[w].dropped = {}
        /\ tx'[w].req.op = "like" => tx'[w].req.user \in users'
    <3>1. tx'[w].req.op = "delete" => tx'[w].todo = {} /\ tx'[w].written = {}
      BY <1>3
    <3>2. tx'[w].req.op = "like" => tx'[w].req.user \in users'
      BY <1>3, <1>4
    <3>3. rows \cup {} = rows
      OBVIOUS
    <3>4. tx'[w].req.op \in {"like", "unlike"} =>
            tx'[w].todo \cup tx'[w].written = {tx'[w].req.guide} /\ tx'[w].dropped = {}
      BY <1>3, <3>3
    <3> QED
      BY <3>1, <3>2, <3>4
  <2> QED
    BY <2>1, <2>5, <2>6, <2>7 DEF Holds, Authored
<1>8. Seen(w)'
  BY <1>3 DEF Seen
<1>9. ASSUME NEW y \in Handlers \ {w}
      PROVE  Apart(w, y)' /\ Apart(y, w)'
  <2>1. tx'[y] = tx[y] /\ Apart(w, y) /\ Apart(y, w)
    BY <1>2 DEF IInv, TypeOK, TxInv
  <2>2. InTx(y) /\ tx[y].req.op = "update" => tx[y].req.guide \notin drop
    BY DEF RowLocked, Doing
  <2>3. tx[y].pc \in {"sweep", "open"} /\ tx[y].req.op = "erase" /\ tx[w].req.op = "like"
          => tx[y].req.user # tx[w].req.user
    <3>1. tx[y].req \in AllRequests \cup {NoRequest}
      BY DEF IInv, TypeOK, Transactions
    <3>2. tx[y].req.op = "erase" => tx[y].req = [op |-> "erase", user |-> tx[y].req.user]
      BY <3>1 DEF AllRequests, NoRequest
    <3> QED
      BY <3>2 DEF Erasing
  <2> QED
    BY <1>3, <2>1, <2>2, <2>3 DEF Apart, InTx
<1> QED
  BY <1>2, <1>3, <1>6, <1>7, <1>8, <1>9, LocalStep

LEMMA DeleteGuideStep ==
  ASSUME IInv, NEW w \in Handlers, DeleteGuide(w)
  PROVE  IInv'
<1>1. CASE Finish(w)
  BY <1>1, FinishStep DEF DeleteGuide
<1>2. CASE ~Finish(w)
  <2> DEFINE g == tx[w].req.guide
  <2>1. /\ tx' = [tx EXCEPT ![w].pc = "open", ![w].dropped = {g}]
        /\ UNCHANGED db /\ g \in Live /\ ~RowLocked(w, g)
        /\ tx[w].pc = "known" /\ tx[w].req.op = "delete"
    BY <1>2 DEF DeleteGuide
  <2>2. tx[w] \in Transactions /\ tx[w].todo = {} /\ {g} \in SUBSET GuideIds
    BY <2>1 DEF IInv, TypeOK, TxInv, Holds, InTx, Live
  <2>a. {g} \subseteq Live /\ \A h \in {g} : ~RowLocked(w, h)
    BY <2>1
  <2> HIDE DEF g
  <2>3. tx' = [tx EXCEPT ![w].pc = "open", ![w].dropped = {g}, ![w].todo = {}]
    <3>1. [tx[w] EXCEPT !.pc = "open", !.dropped = {g}]
            = [tx[w] EXCEPT !.pc = "open", !.dropped = {g}, !.todo = {}]
      BY <2>2 DEF Transactions
    <3> QED
      BY <2>1, <3>1
  <2>4. {} \in SUBSET GuideIds
    OBVIOUS
  <2> QED
    BY <2>1, <2>2, <2>a, <2>3, <2>4, OpenStep
<1> QED
  BY <1>1, <1>2

(* A like or its withdrawal: one count to refresh.                         *)
LEMMA LikeStep ==
  ASSUME IInv, NEW w \in Handlers, UNCHANGED db, tx[w].pc = "known",
         tx[w].req.op \in {"like", "unlike"}, tx[w].req.guide \in Live,
         tx[w].req.op = "like" => tx[w].req.user \in users,
         ~Erasing(w, tx[w].req.user),
         tx' = [tx EXCEPT ![w].pc = "open", ![w].todo = {tx[w].req.guide}]
  PROVE  IInv'
<1> DEFINE g == tx[w].req.guide
<1>1. tx[w] \in Transactions /\ tx[w].dropped = {} /\ {g} \in SUBSET GuideIds
  BY DEF IInv, TypeOK, TxInv, Holds, InTx, Live
<1>2. g \in Live /\ g = tx[w].req.guide
      /\ tx' = [tx EXCEPT ![w].pc = "open", ![w].todo = {g}]
  OBVIOUS
<1> HIDE DEF g
<1>3. tx' = [tx EXCEPT ![w].pc = "open", ![w].dropped = {}, ![w].todo = {g}]
  <2>1. [tx[w] EXCEPT !.pc = "open", !.todo = {g}]
          = [tx[w] EXCEPT !.pc = "open", !.dropped = {}, !.todo = {g}]
    BY <1>1 DEF Transactions
  <2> QED
    BY <1>2, <2>1
<1>4. {g} = {tx[w].req.guide} /\ {g} \subseteq Live
  BY <1>2
<1> QED
  BY <1>1, <1>3, <1>4, OpenStep

LEMMA InsertLikeStep ==
  ASSUME IInv, NEW w \in Handlers, InsertLike(w)
  PROVE  IInv'
<1>1. CASE Finish(w)
  BY <1>1, FinishStep DEF InsertLike
<1>2. CASE ~Finish(w)
  BY <1>2, LikeStep DEF InsertLike
<1> QED
  BY <1>1, <1>2

LEMMA DeleteLikeStep ==
  ASSUME IInv, NEW w \in Handlers, DeleteLike(w)
  PROVE  IInv'
<1>1. CASE Finish(w)
  BY <1>1, FinishStep DEF DeleteLike
<1>2. CASE ~Finish(w)
  <2>1. tx[w].req \in AllRequests /\ tx[w].req.op = "unlike"
    BY DEF DeleteLike, IInv, TypeOK, Transactions, NoRequest
  <2>2. tx[w].req.guide \in GuideIds
    BY <2>1, RequestType
  <2>3. tx[w].req.guide \in Live
    BY <1>2, <2>2 DEF DeleteLike, IInv, DBInv, NothingDangles
  <2> QED
    BY <1>2, <2>1, <2>3, LikeStep DEF DeleteLike
<1> QED
  BY <1>1, <1>2

LEMMA EraseAccountStep ==
  ASSUME IInv, NEW w \in Handlers, EraseAccount(w)
  PROVE  IInv'
<1>1. CASE Finish(w)
  BY <1>1, FinishStep DEF EraseAccount
<1>2. CASE ~Finish(w)
  <2>1. /\ Goto(w, "sweep") /\ UNCHANGED db
        /\ tx[w].pc = "known" /\ tx[w].req.op = "erase"
        /\ \A g \in GuideIds : ~LikeHeld(w, "like", tx[w].req.user, g)
    BY <1>2 DEF EraseAccount
  <2>2. tx'[w].pc = "sweep"
    BY <2>1 DEF Goto, IInv, TypeOK, Transactions
  <2>3. /\ tx' = [tx EXCEPT ![w] = tx'[w]]
        /\ tx'[w] \in Transactions
        /\ tx'[w].req = tx[w].req
        /\ tx'[w].dropped = tx[w].dropped
        /\ tx'[w].todo = tx[w].todo
        /\ tx'[w].claim = tx[w].claim
        /\ tx'[w].written = tx[w].written
    BY <2>1, <2>2, Moved
  <2>4. Stages(w) /\ Holds(w) /\ ~InTx(w) /\ ~InTx(w)'
    BY <2>1, <2>2 DEF IInv, TxInv, InTx
  <2>5. Stages(w)' /\ Holds(w)' /\ Seen(w)'
    BY <2>1, <2>2, <2>3, <2>4 DEF Stages, Holds, Seen
  <2>6. ASSUME NEW y \in Handlers \ {w}
        PROVE  Apart(w, y)' /\ Apart(y, w)'
    <3>1. tx'[y] = tx[y] /\ Apart(w, y) /\ Apart(y, w)
      BY <2>3 DEF IInv, TypeOK, TxInv
    <3>2. InTx(y) /\ tx[y].req.op = "like" => tx[w].req.user # tx[y].req.user
      <4>1. tx[y].req \in AllRequests \cup {NoRequest}
        BY DEF IInv, TypeOK, Transactions
      <4>2. tx[y].req.op = "like" => tx[y].req.guide \in GuideIds
        BY <4>1, RequestType DEF NoRequest
      <4> QED
        BY <2>1, <4>2 DEF LikeHeld, Doing
    <3> QED
      BY <2>1, <2>2, <2>3, <2>4, <3>1, <3>2 DEF Apart, InTx
  <2> QED
    BY <2>1, <2>3, <2>5, <2>6, LocalStep
<1> QED
  BY <1>1, <1>2

LEMMA SweepStep ==
  ASSUME IInv, NEW w \in Handlers, Sweep(w)
  PROVE  IInv'
<1> DEFINE u    == tx[w].req.user
           drop == Authored(u)
           rows == {g \in Live \ drop : u \in likes[g]}
<1>1. /\ tx' = [tx EXCEPT ![w].pc = "open", ![w].dropped = drop, ![w].todo = rows]
      /\ UNCHANGED db /\ tx[w].pc = "sweep"
      /\ \A g \in drop : ~RowLocked(w, g)
  BY DEF Sweep
<1>2. tx[w].req.op = "erase"
  BY <1>1 DEF IInv, TxInv, Stages
<1>3. drop \in SUBSET GuideIds /\ rows \in SUBSET GuideIds
  BY DEF Authored, Live
<1>4. drop = Authored(tx[w].req.user) /\ rows = {g \in Live \ drop : tx[w].req.user \in likes[g]}
  OBVIOUS
<1> HIDE DEF drop, rows
<1> QED
  BY <1>1, <1>2, <1>3, <1>4, OpenStep

(* What w sees of a guide changes only with its likes or its own request.  *)
LEMMA SameView ==
  ASSUME NEW w \in Handlers, NEW g \in GuideIds, likes'[g] = likes[g],
         tx'[w].pc = tx[w].pc, tx'[w].req = tx[w].req
  PROVE  View(w, g)' = View(w, g)
BY DEF View, InTx, Doing

(* A step inside a transaction that changes what it counts and has written *)
(* and nothing else.                                                       *)
LEMMA CountStep ==
  ASSUME IInv, NEW w \in Handlers, UNCHANGED db, InTx(w),
         tx' = [tx EXCEPT ![w] = tx'[w]], tx'[w] \in Transactions,
         tx'[w].pc = tx[w].pc, tx'[w].req = tx[w].req,
         tx'[w].dropped = tx[w].dropped,
         tx'[w].claim \subseteq tx'[w].todo,
         tx'[w].todo \cup tx'[w].written = tx[w].todo \cup tx[w].written,
         Seen(w)'
  PROVE  IInv'
<1>1. Stages(w) /\ Holds(w) /\ InTx(w)'
  BY DEF IInv, TxInv, InTx
<1>2. Stages(w)'
  BY <1>1 DEF Stages, db
<1>3. /\ Live' = Live /\ Authored(tx[w].req.user)' = Authored(tx[w].req.user)
      /\ users' = users /\ likes' = likes /\ guide' = guide
  BY DEF db, Live, Authored
<1>4. tx[w].todo = {} /\ tx[w].written = {} => tx'[w].todo = {} /\ tx'[w].written = {}
  OBVIOUS
<1>5. Holds(w)'
  BY <1>1, <1>3, <1>4 DEF Holds
<1>6. ASSUME NEW y \in Handlers \ {w}
      PROVE  Apart(w, y)' /\ Apart(y, w)'
  <2>1. tx'[y] = tx[y] /\ Apart(w, y) /\ Apart(y, w)
    BY DEF IInv, TypeOK, TxInv
  <2> QED
    BY <1>1, <2>1 DEF Apart, InTx
<1> QED
  BY <1>2, <1>5, <1>6, LocalStep

LEMMA RecountStep ==
  ASSUME IInv, NEW w \in Handlers, NEW g \in GuideIds, Recount(w, g)
  PROVE  IInv'
<1> DEFINE seen == [tx[w].seen EXCEPT ![g] = View(w, g)]
           one  == {g}
<1>1. tx[w] \in Transactions /\ Holds(w) /\ Seen(w) /\ InTx(w) /\ UNCHANGED db
  BY DEF IInv, TypeOK, TxInv, Recount
<1>2. /\ tx' = [tx EXCEPT ![w] = tx'[w]]
      /\ tx'[w] = [tx[w] EXCEPT !.claim = one, !.seen = seen]
  BY <1>1 DEF Recount, IInv, TypeOK, Transactions
<1>3. seen \in [GuideIds -> SUBSET Users]
  BY <1>1, ViewType DEF IInv, Transactions
<1>4. seen[g] = View(w, g) /\ \A f \in GuideIds \ {g} : seen[f] = tx[w].seen[f]
  BY <1>1 DEF Transactions
<1>5. one \subseteq GuideIds /\ one = {g} /\ tx[w].claim = {} /\ g \in tx[w].todo
  BY DEF Recount
<1> HIDE DEF seen, one
<1>6. /\ tx'[w] \in Transactions
      /\ tx'[w].claim = one /\ tx'[w].seen = seen
      /\ tx'[w].pc = tx[w].pc /\ tx'[w].req = tx[w].req
      /\ tx'[w].dropped = tx[w].dropped /\ tx'[w].missed = tx[w].missed
      /\ tx'[w].todo = tx[w].todo /\ tx'[w].written = tx[w].written
  <2> DEFINE t == [tx[w] EXCEPT !.claim = one, !.seen = seen]
  <2>1. t \in Transactions
    BY <1>1, <1>3, <1>5 DEF Transactions
  <2>2. /\ t.claim = one /\ t.seen = seen /\ t.pc = tx[w].pc /\ t.req = tx[w].req
        /\ t.dropped = tx[w].dropped /\ t.missed = tx[w].missed
        /\ t.todo = tx[w].todo /\ t.written = tx[w].written
    BY <1>1 DEF Transactions
  <2> QED
    BY <1>2, <2>1, <2>2
<1>7. \A f \in GuideIds : View(w, f)' = View(w, f)
  BY <1>1, <1>6, SameView DEF db
<1>8. Seen(w)'
  <2> SUFFICES ASSUME NEW f \in (one \cup tx[w].written) \ tx[w].missed
               PROVE  seen[f] = View(w, f)
    BY <1>1, <1>5, <1>6, <1>7 DEF Seen, Transactions
  <2>1. f \in GuideIds
    BY <1>1, <1>5 DEF Transactions
  <2> QED
    BY <1>1, <1>4, <1>5, <2>1 DEF Seen
<1> QED
  BY <1>1, <1>2, <1>5, <1>6, <1>8, CountStep

LEMMA WriteCountStep ==
  ASSUME IInv, NEW w \in Handlers, WriteCount(w)
  PROVE  IInv'
<1>1. PICK g \in tx[w].claim :
        tx' = [tx EXCEPT ![w].claim = {}, ![w].todo = @ \ {g}, ![w].written = @ \cup {g}]
  BY DEF WriteCount
<1>2. tx[w] \in Transactions /\ Holds(w) /\ Seen(w) /\ InTx(w) /\ UNCHANGED db
  BY DEF IInv, TypeOK, TxInv, WriteCount
<1> DEFINE todo == tx[w].todo \ {g}
           written == tx[w].written \cup {g}
<1>3. g \in tx[w].todo /\ todo \subseteq GuideIds /\ written \subseteq GuideIds
  BY <1>2 DEF Holds, Transactions
<1>4. todo \cup written = tx[w].todo \cup tx[w].written
  BY <1>3
<1>5. /\ tx' = [tx EXCEPT ![w] = tx'[w]]
      /\ tx'[w] = [tx[w] EXCEPT !.claim = {}, !.todo = todo, !.written = written]
  BY <1>1, <1>2 DEF IInv, TypeOK, Transactions
<1>6. written \subseteq tx[w].claim \cup tx[w].written
  OBVIOUS
<1> HIDE DEF todo, written
<1>7. /\ tx'[w] \in Transactions
      /\ tx'[w].claim = {} /\ tx'[w].seen = tx[w].seen
      /\ tx'[w].pc = tx[w].pc /\ tx'[w].req = tx[w].req
      /\ tx'[w].dropped = tx[w].dropped /\ tx'[w].missed = tx[w].missed
      /\ tx'[w].todo = todo /\ tx'[w].written = written
  <2> DEFINE t == [tx[w] EXCEPT !.claim = {}, !.todo = todo, !.written = written]
  <2>1. t \in Transactions
    BY <1>2, <1>3 DEF Transactions
  <2>2. /\ t.claim = {} /\ t.seen = tx[w].seen /\ t.pc = tx[w].pc /\ t.req = tx[w].req
        /\ t.dropped = tx[w].dropped /\ t.missed = tx[w].missed
        /\ t.todo = todo /\ t.written = written
    BY <1>2 DEF Transactions
  <2> QED
    BY <1>5, <2>1, <2>2
<1>8. \A f \in GuideIds : View(w, f)' = View(w, f)
  BY <1>2, <1>7, SameView DEF db
<1>9. Seen(w)'
  BY <1>2, <1>3, <1>6, <1>7, <1>8 DEF Seen
<1> QED
  BY <1>2, <1>4, <1>5, <1>7, <1>9, CountStep

-----------------------------------------------------------------------------

(* A guide whose count a transaction neither refreshed nor deletes keeps   *)
(* the likes it has.                                                       *)
LEMMA LikesKept ==
  ASSUME IInv, NEW w \in Handlers, tx[w].todo = {},
         NEW g \in Live \ (tx[w].written \cup tx[w].dropped)
  PROVE  View(w, g) = likes[g]
<1>1. Holds(w) /\ likes[g] \in SUBSET Users
  BY DEF IInv, TypeOK, TxInv, Live
<1>2. InTx(w) => ~Doing(w, "like", g) /\ ~Doing(w, "unlike", g)
  BY <1>1 DEF Holds, Doing
<1>3. InTx(w) /\ tx[w].req.op = "erase" => tx[w].req.user \notin likes[g]
  BY <1>1 DEF Holds
<1> QED
  BY <1>1, <1>2, <1>3 DEF View

(* A guide that is not there keeps no likes, whoever commits.              *)
LEMMA NoLikesKept ==
  ASSUME IInv, NEW w \in Handlers, NEW g \in GuideIds \ Live
  PROVE  View(w, g) = {}
<1>1. Holds(w) /\ likes[g] = {}
  BY DEF IInv, DBInv, NothingDangles, TxInv
<1>2. InTx(w) => ~Doing(w, "like", g)
  BY <1>1 DEF Holds, Doing
<1> QED
  BY <1>1, <1>2 DEF View

(* What a commit leaves of the guides: none it deletes, all others.        *)
LEMMA CommitRows ==
  ASSUME IInv, NEW w \in Handlers, Commit(w), ReferencesHold(w)
  PROVE  /\ Live' = Live \ tx[w].dropped
         /\ guide' \in [GuideIds -> Rows \cup {Unborn, Gone}]
         /\ \A g \in GuideIds :
              /\ guide[g] # Unborn => guide'[g] # Unborn
              /\ guide[g] = Unborn => guide'[g] = Unborn
              /\ g \in Live' => guide'[g].author = guide[g].author
<1>1. Holds(w) /\ InTx(w) /\ tx[w] \in Transactions
  BY DEF IInv, TypeOK, TxInv, Commit
<1>2. guide' = [g \in GuideIds |-> NewRow(w, g)]
  BY DEF Commit
<1>3. ASSUME NEW g \in GuideIds
      PROVE  /\ NewRow(w, g) \in Rows \cup {Unborn, Gone}
             /\ g \in tx[w].dropped => NewRow(w, g) = Gone /\ guide[g] # Unborn
             /\ g \notin tx[w].dropped => /\ g \in Live <=> NewRow(w, g) \in Rows
                                          /\ g \notin Live => NewRow(w, g) = guide[g]
                                          /\ g \in Live => NewRow(w, g).author = guide[g].author
  <2>1. guide[g] \in Rows \cup {Unborn, Gone} /\ (g \in Live <=> guide[g] \in Rows)
    BY NoRowSentinels DEF IInv, TypeOK, Live
  <2>2. CASE g \in tx[w].dropped
    BY <1>1, <2>2 DEF NewRow, Holds
  <2>3. CASE g \notin tx[w].dropped /\ ~Doing(w, "update", g)
    BY <2>1, <2>3, NoRowSentinels DEF NewRow
  <2>4. CASE g \notin tx[w].dropped /\ Doing(w, "update", g)
    <3> DEFINE i == tx[w].req.input
               row == [guide[g] EXCEPT !.title = i.title, !.published = i.published]
    <3>1. tx[w].req \in AllRequests /\ tx[w].req.op = "update"
      BY <1>1, <2>4 DEF Doing, Transactions, NoRequest
    <3>2. i \in Inputs
      BY <3>1, RequestType
    <3>3. i.title \in {j.title : j \in Inputs} /\ i.published \in BOOLEAN
      BY <3>2, InputsValid DEF AllInputs
    <3>4. g \in Live
      BY <1>1, <2>4 DEF Holds, Doing
    <3>5. NewRow(w, g) = row
      BY <2>4 DEF NewRow
    <3> HIDE DEF i
    <3>6. row \in Rows /\ row.author = guide[g].author
      BY <2>1, <3>3, <3>4 DEF Rows
    <3> QED
      BY <2>4, <3>4, <3>5, <3>6
  <2> QED
    BY <2>2, <2>3, <2>4
<1>4. \A g \in GuideIds : guide'[g] = NewRow(w, g)
  BY <1>2
<1>5. guide' \in [GuideIds -> Rows \cup {Unborn, Gone}]
  BY <1>2, <1>3
<1>6. ASSUME NEW g \in GuideIds
      PROVE  g \in Live' <=> g \in Live \ tx[w].dropped
  <2>1. g \in Live' <=> NewRow(w, g) \in Rows
    BY <1>3, <1>4, NoRowSentinels DEF Live
  <2> QED
    BY <1>3, <2>1, NoRowSentinels
<1>7. Live' = Live \ tx[w].dropped
  BY <1>6 DEF Live
<1> QED
  BY <1>3, <1>4, <1>5, <1>7, NoRowSentinels DEF Live

(* ... and of the other transactions: what they have missed grows.         *)
LEMMA CommitOthers ==
  ASSUME IInv, NEW w \in Handlers, Commit(w), ReferencesHold(w)
  PROVE  /\ tx' \in [Handlers -> Transactions]
         /\ tx'[w] = Idle
         /\ \A x \in Handlers \ {w} :
              /\ tx'[x].pc = tx[x].pc /\ tx'[x].req = tx[x].req
              /\ tx'[x].dropped = tx[x].dropped /\ tx'[x].todo = tx[x].todo
              /\ tx'[x].claim = tx[x].claim /\ tx'[x].written = tx[x].written
              /\ tx'[x].seen = tx[x].seen
              /\ tx'[x].missed = tx[x].missed \cup
                   (tx[w].written \cap (tx[x].claim \cup tx[x].written))
<1> DEFINE more(x) == tx[w].written \cap (tx[x].claim \cup tx[x].written)
           t(x) == [tx[x] EXCEPT !.missed = tx[x].missed \cup more(x)]
<1>1. tx' = [x \in Handlers |-> IF x = w THEN Idle ELSE t(x)]
  BY DEF Commit, IInv, TypeOK, Transactions
<1>2. ASSUME NEW x \in Handlers
      PROVE  /\ t(x) \in Transactions
             /\ t(x).pc = tx[x].pc /\ t(x).req = tx[x].req
             /\ t(x).dropped = tx[x].dropped /\ t(x).todo = tx[x].todo
             /\ t(x).claim = tx[x].claim /\ t(x).written = tx[x].written
             /\ t(x).seen = tx[x].seen /\ t(x).missed = tx[x].missed \cup more(x)
  <2>1. tx[x] \in Transactions /\ more(x) \subseteq GuideIds
    BY DEF IInv, TypeOK, Transactions
  <2> HIDE DEF more
  <2> QED
    BY <2>1 DEF Transactions
<1> HIDE DEF t
<1> QED
  BY <1>1, <1>2, IdleType

(* The tables after a commit are again as they should be.                  *)
LEMMA CommitTables ==
  ASSUME IInv, NEW w \in Handlers, Commit(w), ReferencesHold(w)
  PROVE  /\ users' \subseteq Users
         /\ entries' \in [GuideIds -> SUBSET Episodes]
         /\ likes' \in [GuideIds -> SUBSET Users]
         /\ count' \in [GuideIds -> Nat]
         /\ raced' \in [GuideIds -> BOOLEAN]
         /\ DBInv'
<1>1. /\ Holds(w) /\ Seen(w) /\ InTx(w) /\ tx[w] \in Transactions /\ tx[w].todo = {}
      /\ tx[w].claim = {}
  BY DEF IInv, TypeOK, TxInv, Commit, Holds
<1>2. /\ \A g \in GuideIds :
           /\ guide'[g] = NewRow(w, g)
           /\ entries'[g] = NewEntries(w, g)
           /\ likes'[g] = IF g \in tx[w].dropped THEN {} ELSE View(w, g)
           /\ count'[g] = IF g \in tx[w].dropped THEN 0
                          ELSE IF g \in tx[w].written
                          THEN Cardinality(tx[w].seen[g]) ELSE count[g]
           /\ raced'[g] = IF g \in tx[w].written THEN g \in tx[w].missed
                          ELSE raced[g] /\ g \notin tx[w].dropped
      /\ users' = IF tx[w].req.op = "erase" THEN users \ {tx[w].req.user} ELSE users
      /\ episodes' = episodes
  BY DEF Commit
<1>3. Live' = Live \ tx[w].dropped
  BY CommitRows
<1>4. users' \subseteq Users
  BY <1>2 DEF IInv, TypeOK
<1>5. \A g \in GuideIds : tx[w].req.op = "update" /\ Doing(w, "update", g) =>
        tx[w].req.input \in Inputs /\ tx[w].req.input.entries \subseteq episodes
  <2>1. tx[w].req \in AllRequests \cup {NoRequest}
    BY <1>1 DEF Transactions
  <2> QED
    BY <2>1, RequestType DEF ReferencesHold, NoRequest
<1>6. entries' \in [GuideIds -> SUBSET Episodes]
  <2>1. \A g \in GuideIds : NewEntries(w, g) \in SUBSET Episodes
    BY <1>5 DEF NewEntries, IInv, TypeOK, Doing
  <2> QED
    BY <2>1 DEF Commit
<1>7. likes' \in [GuideIds -> SUBSET Users]
  <2>1. \A g \in GuideIds : View(w, g) \in SUBSET Users
    BY ViewType DEF IInv
  <2> QED
    BY <2>1 DEF Commit
<1>8. count' \in [GuideIds -> Nat]
  <2>1. \A g \in GuideIds : Cardinality(tx[w].seen[g]) \in Nat
    <3> SUFFICES ASSUME NEW g \in GuideIds PROVE Cardinality(tx[w].seen[g]) \in Nat
      OBVIOUS
    <3>1. tx[w].seen[g] \in SUBSET Users
      BY <1>1 DEF Transactions
    <3> QED
      BY <3>1, FiniteSizes, FS_Subset, FS_CardinalityType
  <2>2. \A g \in GuideIds : count[g] \in Nat
    BY DEF IInv, TypeOK
  <2> QED
    BY <2>1, <2>2 DEF Commit
<1>9. raced' \in [GuideIds -> BOOLEAN]
  <2> DEFINE now(g) == IF g \in tx[w].written THEN g \in tx[w].missed
                       ELSE raced[g] /\ g \notin tx[w].dropped
  <2>1. raced' = [g \in GuideIds |-> now(g)]
    BY DEF Commit
  <2>2. ASSUME NEW g \in GuideIds
        PROVE  now(g) \in BOOLEAN
    <3>1. (g \in tx[w].missed) \in BOOLEAN
      OBVIOUS
    <3>2. (raced[g] /\ g \notin tx[w].dropped) \in BOOLEAN
      OBVIOUS
    <3> QED
      BY <3>1, <3>2
  <2> HIDE DEF now
  <2> QED
    BY <2>1, <2>2
<1>10. LikesNeedRace'
  <2> SUFFICES ASSUME NEW g \in Live', ~raced'[g]
               PROVE  count'[g] = Cardinality(likes'[g])
    BY DEF LikesNeedRace
  <2>1. g \in GuideIds /\ g \in Live /\ g \notin tx[w].dropped
    BY <1>3 DEF Live
  <2>2. CASE g \in tx[w].written
    BY <1>1, <1>2, <2>1, <2>2 DEF Seen
  <2>3. CASE g \notin tx[w].written
    <3>1. View(w, g) = likes[g] /\ ~raced[g]
      BY <1>1, <1>2, <2>1, <2>3, LikesKept
    <3> QED
      BY <1>2, <2>1, <2>3, <3>1 DEF IInv, DBInv, LikesNeedRace
  <2> QED
    BY <2>2, <2>3
<1>11. NoGuideNoCount'
  <2> SUFFICES ASSUME NEW g \in GuideIds \ Live' PROVE count'[g] = 0
    BY DEF NoGuideNoCount
  <2>1. CASE g \in tx[w].dropped
    BY <1>2, <2>1
  <2>2. CASE g \notin tx[w].dropped
    BY <1>1, <1>2, <1>3, <2>2 DEF IInv, DBInv, NoGuideNoCount, Holds
  <2> QED
    BY <2>1, <2>2
<1>12. NothingDangles'
  <2> SUFFICES ASSUME NEW g \in GuideIds
               PROVE  IF g \in Live' THEN guide'[g].author \in users' /\ likes'[g] \subseteq users'
                      ELSE entries'[g] = {} /\ likes'[g] = {}
    BY DEF NothingDangles
  <2>1. CASE g \in Live'
    <3>1. g \in Live /\ g \notin tx[w].dropped /\ guide'[g].author = guide[g].author
      BY <1>3, <2>1, CommitRows
    <3>2. guide[g].author \in users /\ likes[g] \subseteq users
      BY <3>1 DEF IInv, DBInv, NothingDangles
    <3>3. tx[w].req.op = "erase" => guide[g].author # tx[w].req.user
      BY <1>1, <3>1 DEF Holds, Authored
    <3>4. View(w, g) \subseteq users'
      BY <1>1, <1>2, <3>2 DEF View, Holds, Doing
    <3> QED
      BY <1>2, <2>1, <3>1, <3>2, <3>3, <3>4
  <2>2. CASE g \notin Live'
    <3>1. CASE g \in tx[w].dropped
      BY <1>2, <2>2, <3>1 DEF NewEntries
    <3>2. CASE g \notin tx[w].dropped
      <4>1. g \notin Live
        BY <1>3, <2>2, <3>2
      <4>2. ~Doing(w, "update", g)
        BY <1>1, <4>1 DEF Holds, Doing
      <4> QED
        BY <1>2, <2>2, <3>2, <4>1, <4>2, NoLikesKept DEF NewEntries, IInv, DBInv, NothingDangles
    <3> QED
      BY <3>1, <3>2
  <2> QED
    BY <2>1, <2>2
<1>13. GuideIsWhole'
  <2> SUFFICES ASSUME NEW g \in Live'
               PROVE  \E i \in Inputs : /\ guide'[g].title = i.title
                                        /\ guide'[g].published = i.published
                                        /\ entries'[g] = i.entries \cap episodes'
    BY DEF GuideIsWhole
  <2>1. g \in GuideIds /\ g \in Live /\ g \notin tx[w].dropped
    BY <1>3 DEF Live
  <2>2. CASE Doing(w, "update", g)
    <3> DEFINE i == tx[w].req.input
    <3>1. i \in Inputs /\ i.entries \subseteq episodes
      BY <1>5, <2>1, <2>2 DEF Doing
    <3>2. guide[g] \in Rows
      BY <2>1 DEF IInv, TypeOK, Live
    <3>3. guide'[g] = [guide[g] EXCEPT !.title = i.title, !.published = i.published]
      BY <1>2, <2>1, <2>2 DEF NewRow
    <3>4. entries'[g] = i.entries
      BY <1>2, <2>1, <2>2 DEF NewEntries
    <3> HIDE DEF i
    <3>5. guide'[g].title = i.title /\ guide'[g].published = i.published
      BY <3>2, <3>3 DEF Rows
    <3> QED
      BY <1>2, <3>1, <3>4, <3>5
  <2>3. CASE ~Doing(w, "update", g)
    <3>1. PICK i \in Inputs : /\ guide[g].title = i.title
                              /\ guide[g].published = i.published
                              /\ entries[g] = i.entries \cap episodes
      BY <2>1 DEF IInv, DBInv, GuideIsWhole
    <3>2. guide'[g] = guide[g]
      BY <1>2, <2>1, <2>3 DEF NewRow
    <3>3. entries'[g] = entries[g] /\ episodes' = episodes
      BY <1>2, <2>1, <2>3 DEF NewEntries
    <3> QED
      BY <3>1, <3>2, <3>3
  <2> QED
    BY <2>2, <2>3
<1> QED
  BY <1>4, <1>6, <1>7, <1>8, <1>9, <1>10, <1>11, <1>12, <1>13 DEF DBInv

(* A commit takes nothing from the others that their locks protect.        *)
LEMMA CommitStep ==
  ASSUME IInv, NEW w \in Handlers, Commit(w)
  PROVE  IInv'
<1>1. CASE ~ReferencesHold(w)
  <2>1. Finish(w) /\ UNCHANGED db
    BY <1>1 DEF Commit, db
  <2> QED
    BY <2>1, FinishStep
<1>2. CASE ReferencesHold(w)
  <2>1. /\ Live' = Live \ tx[w].dropped
        /\ guide' \in [GuideIds -> Rows \cup {Unborn, Gone}]
        /\ \A g \in GuideIds :
             /\ guide[g] # Unborn => guide'[g] # Unborn
             /\ guide[g] = Unborn => guide'[g] = Unborn
             /\ g \in Live' => guide'[g].author = guide[g].author
    BY <1>2, CommitRows
  <2>2. /\ tx' \in [Handlers -> Transactions]
        /\ tx'[w] = Idle
        /\ \A x \in Handlers \ {w} :
             /\ tx'[x].pc = tx[x].pc /\ tx'[x].req = tx[x].req
             /\ tx'[x].dropped = tx[x].dropped /\ tx'[x].todo = tx[x].todo
             /\ tx'[x].claim = tx[x].claim /\ tx'[x].written = tx[x].written
             /\ tx'[x].seen = tx[x].seen
             /\ tx'[x].missed = tx[x].missed \cup
                  (tx[w].written \cap (tx[x].claim \cup tx[x].written))
    BY <1>2, CommitOthers
  <2>3. TypeOK' /\ DBInv'
    <3>1. episodes' \subseteq Episodes
      BY DEF Commit, IInv, TypeOK
    <3> QED
      BY <1>2, <2>1, <2>2, <3>1, CommitTables DEF TypeOK
  <2>4. /\ Holds(w) /\ InTx(w) /\ tx[w].todo = {}
        /\ \A x \in Handlers \ {w} : tx[w].dropped \cap (tx[x].todo \cup tx[x].written) = {}
        /\ users' = IF tx[w].req.op = "erase" THEN users \ {tx[w].req.user} ELSE users
        /\ \A g \in GuideIds :
             likes'[g] = IF g \in tx[w].dropped THEN {} ELSE View(w, g)
    BY <1>2 DEF Commit, IInv, TxInv
  <2>5. Stages(w)' /\ Holds(w)' /\ Seen(w)'
    <3>1. /\ Idle.pc = "idle" /\ Idle.req = NoRequest /\ NoRequest.op = "none"
          /\ Idle.dropped = {} /\ Idle.todo = {} /\ Idle.claim = {} /\ Idle.written = {}
      BY DEF Idle, NoRequest
    <3> QED
      BY <2>2, <3>1 DEF Stages, Holds, Seen, InTx
  <2>6. ASSUME NEW x \in Handlers \ {w}
        PROVE  Stages(x)' /\ Holds(x)' /\ Seen(x)'
    <3>1. /\ tx[x] \in Transactions /\ Stages(x) /\ Holds(x) /\ Seen(x)
          /\ Apart(x, w) /\ Apart(w, x)
      BY DEF IInv, TypeOK, TxInv
    <3>2. tx[x].req \in AllRequests \cup {NoRequest} /\ (InTx(x)' <=> InTx(x))
      BY <2>2, <3>1 DEF Transactions, InTx
    <3>3. tx[x].req.op \in {"create", "update", "delete", "like", "unlike"} =>
            tx[x].req.guide \in GuideIds
      BY <3>2, RequestType DEF NoRequest
    <3>4. Stages(x)'
      <4>1. tx[x].req.op = "create" => guide'[tx[x].req.guide] = Unborn
        BY <2>1, <3>1, <3>3 DEF Stages
      <4>2. tx[x].req.op \in {"update", "delete", "like", "unlike"} =>
              guide'[tx[x].req.guide] # Unborn
        BY <2>1, <3>1, <3>3 DEF Stages
      <4>3. tx[x].req.op = "update" /\ tx[x].pc # "authorized" =>
              \/ guide'[tx[x].req.guide] = Gone
              \/ guide'[tx[x].req.guide].author = tx[x].req.user
        <5> SUFFICES ASSUME tx[x].req.op = "update", tx[x].pc # "authorized",
                            guide'[tx[x].req.guide] # Gone
                     PROVE  guide'[tx[x].req.guide].author = tx[x].req.user
          OBVIOUS
        <5>1. tx[x].req.guide \in Live'
          BY <3>3, <4>2 DEF Live
        <5>2. guide[tx[x].req.guide] # Gone
          BY <2>1, <5>1 DEF Live
        <5> QED
          BY <2>1, <3>1, <3>3, <5>1, <5>2 DEF Stages
      <4> QED
        BY <2>2, <3>1, <3>2, <4>1, <4>2, <4>3 DEF Stages
    <3>5. Holds(x)'
      <4>1. /\ tx[x].claim \subseteq tx[x].todo
            /\ tx[x].todo \cup tx[x].written \subseteq Live' \ tx[x].dropped
        BY <2>1, <2>4, <3>1 DEF Holds
      <4>2. \A g \in tx[x].dropped : guide'[g] # Unborn
        BY <2>1, <3>1 DEF Holds, Transactions
      <4>3. InTx(x) /\ tx[x].req.op = "update" => tx[x].req.guide \in Live'
        BY <2>1, <3>1 DEF Holds, Apart
      <4>4. InTx(x) /\ tx[x].req.op = "like" => tx[x].req.user \in users'
        BY <2>4, <3>1 DEF Holds, Apart, InTx
      <4>5. ASSUME InTx(x), tx[x].req.op = "erase"
            PROVE  /\ {g \in Live' : guide'[g].author = tx[x].req.user} \subseteq tx[x].dropped
                   /\ \A g \in Live' : tx[x].req.user \in likes'[g] =>
                        g \in tx[x].todo \cup tx[x].written \cup tx[x].dropped
        <5>1. {g \in Live' : guide'[g].author = tx[x].req.user} \subseteq Authored(tx[x].req.user)
          BY <2>1 DEF Authored, Live
        <5>2. ASSUME NEW g \in Live', tx[x].req.user \in likes'[g]
              PROVE  tx[x].req.user \in likes[g]
          <6>1. g \in GuideIds /\ g \notin tx[w].dropped
            BY <2>1 DEF Live
          <6>2. tx[x].req.user \in View(w, g)
            BY <2>4, <5>2, <6>1
          <6>3. tx[w].req.op = "like" => tx[w].req.user # tx[x].req.user
            BY <2>4, <3>1, <4>5 DEF Apart, InTx
          <6> QED
            BY <6>2, <6>3 DEF View, Doing
        <5> QED
          BY <2>1, <3>1, <4>5, <5>1, <5>2 DEF Holds
      <4>6. Authored(tx[x].req.user)' = {g \in Live' : guide'[g].author = tx[x].req.user}
        BY <2>2 DEF Authored
      <4> QED
        BY <2>2, <3>1, <3>2, <4>1, <4>2, <4>3, <4>4, <4>5, <4>6 DEF Holds
    <3>6. Seen(x)'
      <4> SUFFICES ASSUME NEW g \in (tx[x].claim \cup tx[x].written) \ tx[x].missed,
                          g \notin tx[w].written
                   PROVE  tx[x].seen[g] = View(x, g)'
        BY <2>2 DEF Seen
      <4>1. g \in Live /\ g \in tx[x].todo \cup tx[x].written /\ g \in GuideIds
        BY <3>1 DEF Holds, Live
      <4>2. g \notin tx[w].dropped
        BY <2>4, <4>1
      <4>3. likes'[g] = likes[g]
        BY <2>4, <4>1, <4>2, LikesKept
      <4>4. View(x, g)' = View(x, g)
        BY <2>2, <4>1, <4>3, SameView
      <4> QED
        BY <3>1, <4>4 DEF Seen
    <3> QED
      BY <3>4, <3>5, <3>6
  <2>7. ASSUME NEW x \in Handlers, NEW y \in Handlers, x # y
        PROVE  Apart(x, y)'
    <3>1. Idle.pc = "idle" /\ Idle.req.op = "none" /\ Idle.dropped = {}
      BY DEF Idle, NoRequest
    <3>2. CASE x = w \/ y = w
      BY <2>2, <2>7, <3>1, <3>2 DEF Apart, InTx
    <3>3. CASE x # w /\ y # w
      BY <2>2, <2>7, <3>3 DEF Apart, InTx, IInv, TxInv
    <3> QED
      BY <3>2, <3>3
  <2>8. TxInv'
    BY <2>5, <2>6, <2>7 DEF TxInv
  <2> QED
    BY <2>3, <2>8 DEF IInv
<1> QED
  BY <1>1, <1>2

-----------------------------------------------------------------------------

(* A new guide has an id that no other request knows, an author whose      *)
(* account nobody is deleting, and no likes.                               *)
LEMMA InsertGuideStep ==
  ASSUME IInv, NEW w \in Handlers, InsertGuide(w)
  PROVE  IInv'
<1> DEFINE r == tx[w].req
           new == [author |-> r.user, title |-> r.input.title,
                   published |-> r.input.published]
<1>1. CASE ~(r.user \in users /\ r.input.entries \subseteq episodes)
  <2>1. Finish(w) /\ UNCHANGED db
    BY <1>1 DEF InsertGuide, db
  <2> QED
    BY <2>1, FinishStep
<1>2. CASE r.user \in users /\ r.input.entries \subseteq episodes
  <2>1. /\ guide' = [guide EXCEPT ![r.guide] = new]
        /\ entries' = [entries EXCEPT ![r.guide] = r.input.entries]
        /\ users' = users /\ episodes' = episodes /\ likes' = likes
        /\ count' = count /\ raced' = raced
        /\ tx' = [tx EXCEPT ![w] = Idle]
        /\ r.op = "create" /\ ~Erasing(w, r.user)
    BY <1>2 DEF InsertGuide, Finish
  <2>2. r \in AllRequests /\ guide[r.guide] = Unborn
    BY <2>1 DEF IInv, TypeOK, Transactions, NoRequest, TxInv, Stages
  <2>3. /\ r.user \in Users /\ r.guide \in GuideIds /\ r.input \in Inputs
        /\ r.input.title \in {i.title : i \in Inputs} /\ r.input.published \in BOOLEAN
        /\ r.input.entries \subseteq Episodes
    BY <2>1, <2>2, RequestType, InputsValid DEF AllInputs
  <2>4. new \in Rows /\ new.author = r.user
        /\ new.title = r.input.title /\ new.published = r.input.published
    BY <2>3 DEF Rows
  <2> HIDE DEF new
  <2>5. r.guide \notin Live /\ Live' = Live \cup {r.guide}
    BY <2>1, <2>2, <2>3, <2>4, NoRowSentinels DEF Live, IInv, TypeOK
  <2>6. \A g \in GuideIds \ {r.guide} : guide'[g] = guide[g] /\ entries'[g] = entries[g]
    BY <2>1 DEF IInv, TypeOK
  <2>7. guide'[r.guide] = new /\ entries'[r.guide] = r.input.entries
    BY <2>1, <2>3 DEF IInv, TypeOK
  <2>8. TypeOK'
    BY <2>1, <2>3, <2>4, IdleType DEF TypeOK, IInv
  <2>9. DBInv'
    <3>1. likes[r.guide] = {} /\ count[r.guide] = 0
      BY <2>3, <2>5 DEF IInv, DBInv, NothingDangles, NoGuideNoCount
    <3>2. LikesNeedRace' /\ NoGuideNoCount'
      BY <2>1, <2>5, <3>1, FS_EmptySet DEF IInv, DBInv, LikesNeedRace, NoGuideNoCount
    <3>3. NothingDangles'
      <4> SUFFICES ASSUME NEW g \in GuideIds
                   PROVE  IF g \in Live' THEN guide'[g].author \in users /\ likes[g] \subseteq users
                          ELSE entries'[g] = {} /\ likes[g] = {}
        BY <2>1 DEF NothingDangles
      <4>1. CASE g = r.guide
        BY <1>2, <2>4, <2>5, <2>7, <3>1, <4>1
      <4>2. CASE g # r.guide
        BY <2>5, <2>6, <4>2 DEF IInv, DBInv, NothingDangles
      <4> QED
        BY <4>1, <4>2
    <3>4. GuideIsWhole'
      <4> SUFFICES ASSUME NEW g \in Live'
                   PROVE  \E i \in Inputs : /\ guide'[g].title = i.title
                                            /\ guide'[g].published = i.published
                                            /\ entries'[g] = i.entries \cap episodes
        BY <2>1 DEF GuideIsWhole
      <4>1. CASE g = r.guide
        BY <1>2, <2>3, <2>4, <2>7, <4>1
      <4>2. CASE g # r.guide
        <5>1. g \in Live /\ g \in GuideIds
          BY <2>5, <4>2 DEF Live
        <5> QED
          BY <2>6, <4>2, <5>1 DEF IInv, DBInv, GuideIsWhole
      <4> QED
        BY <4>1, <4>2
    <3> QED
      BY <3>2, <3>3, <3>4 DEF DBInv
  <2>10. ASSUME NEW x \in Handlers \ {w}
         PROVE  Stages(x)' /\ Holds(x)' /\ Seen(x)'
    <3>1. /\ tx'[x] = tx[x] /\ tx[x] \in Transactions
          /\ Stages(x) /\ Holds(x) /\ Seen(x) /\ Apart(x, w) /\ Apart(w, x)
      BY <2>1 DEF IInv, TypeOK, TxInv
    <3>2. tx[x].req \in AllRequests \cup {NoRequest} /\ (InTx(x)' <=> InTx(x))
      BY <3>1 DEF Transactions, InTx
    <3>3. tx[x].req.op \in {"create", "update", "delete", "like", "unlike"} =>
            tx[x].req.guide \in GuideIds \ {r.guide}
      BY <2>1, <2>2, <3>1, <3>2, RequestType DEF NoRequest, Stages, Apart
    <3>4. Stages(x)'
      BY <2>6, <3>1, <3>2, <3>3 DEF Stages
    <3>5. Holds(x)'
      <4>1. \A g \in tx[x].dropped : guide'[g] # Unborn
        BY <2>1, <2>2, <2>6, <3>1 DEF Holds, Transactions
      <4>2. InTx(x) /\ tx[x].req.op = "erase" => r.user # tx[x].req.user
        <5>1. tx[x].req.op = "erase" => tx[x].req = [op |-> "erase", user |-> tx[x].req.user]
          BY <3>2 DEF AllRequests, NoRequest
        <5> QED
          BY <2>1, <5>1 DEF Erasing, InTx
      <4>3. InTx(x) /\ tx[x].req.op = "erase" =>
              Authored(tx[x].req.user)' = Authored(tx[x].req.user)
        BY <2>4, <2>5, <2>6, <2>7, <3>1, <4>2 DEF Authored, Live
      <4>4. likes[r.guide] = {} /\ r.guide \notin tx[x].dropped
        BY <2>2, <2>3, <2>5, <3>1 DEF IInv, DBInv, NothingDangles, Holds
      <4>5. tx[x].todo \cup tx[x].written \subseteq Live' \ tx[x].dropped
        BY <2>5, <3>1 DEF Holds
      <4> QED
        BY <2>1, <2>5, <3>1, <3>2, <4>1, <4>3, <4>4, <4>5 DEF Holds
    <3>6. Seen(x)'
      <4>1. \A g \in GuideIds : View(x, g)' = View(x, g)
        BY <2>1, <3>1, SameView
      <4> QED
        BY <3>1, <4>1 DEF Seen, Transactions
    <3> QED
      BY <3>4, <3>5, <3>6
  <2>11. tx'[w] = Idle
    BY <2>1 DEF IInv, TypeOK
  <2>12. Stages(w)' /\ Holds(w)' /\ Seen(w)'
    <3>1. /\ Idle.pc = "idle" /\ Idle.req = NoRequest /\ NoRequest.op = "none"
          /\ Idle.dropped = {} /\ Idle.todo = {} /\ Idle.claim = {} /\ Idle.written = {}
      BY DEF Idle, NoRequest
    <3> QED
      BY <2>11, <3>1 DEF Stages, Holds, Seen, InTx
  <2>13. ASSUME NEW x \in Handlers, NEW y \in Handlers, x # y
         PROVE  Apart(x, y)'
    <3>1. Idle.pc = "idle" /\ Idle.req.op = "none" /\ Idle.dropped = {}
      BY DEF Idle, NoRequest
    <3>2. \A z \in Handlers \ {w} : tx'[z] = tx[z]
      BY <2>1 DEF IInv, TypeOK
    <3>3. CASE x = w \/ y = w
      BY <2>11, <2>13, <3>1, <3>3 DEF Apart, InTx
    <3>4. CASE x # w /\ y # w
      BY <2>13, <3>2, <3>4 DEF Apart, InTx, IInv, TxInv
    <3> QED
      BY <3>3, <3>4
  <2> QED
    BY <2>8, <2>9, <2>10, <2>12, <2>13 DEF IInv, TxInv
<1> QED
  BY <1>1, <1>2

(* An import takes an episode out of every guide.                          *)
LEMMA DropEpisodeStep ==
  ASSUME IInv, NEW e \in Episodes, DropEpisode(e)
  PROVE  IInv'
<1>1. /\ episodes' = episodes \ {e}
      /\ \A g \in GuideIds : entries'[g] = entries[g] \ {e}
      /\ users' = users /\ guide' = guide /\ likes' = likes /\ count' = count
      /\ raced' = raced /\ tx' = tx
  BY DEF DropEpisode
<1>2. TypeOK'
  <2>1. entries' \in [GuideIds -> SUBSET Episodes]
    BY DEF DropEpisode, IInv, TypeOK
  <2> QED
    BY <1>1, <2>1 DEF IInv, TypeOK
<1>3. Live' = Live /\ \A u : Authored(u)' = Authored(u)
  BY <1>1 DEF Live, Authored
<1>4. DBInv'
  <2>1. LikesNeedRace' /\ NoGuideNoCount' /\ NothingDangles'
    BY <1>1, <1>3 DEF IInv, DBInv, LikesNeedRace, NoGuideNoCount, NothingDangles
  <2>2. GuideIsWhole'
    <3> SUFFICES ASSUME NEW g \in Live
                 PROVE  \E i \in Inputs : /\ guide[g].title = i.title
                                          /\ guide[g].published = i.published
                                          /\ entries'[g] = i.entries \cap episodes'
      BY <1>1, <1>3 DEF GuideIsWhole
    <3>1. PICK i \in Inputs : /\ guide[g].title = i.title
                              /\ guide[g].published = i.published
                              /\ entries[g] = i.entries \cap episodes
      BY DEF IInv, DBInv, GuideIsWhole
    <3>2. entries'[g] = i.entries \cap episodes'
      BY <1>1, <3>1 DEF Live
    <3> QED
      BY <3>1, <3>2
  <2> QED
    BY <2>1, <2>2 DEF DBInv
<1>5. ASSUME NEW x \in Handlers
      PROVE  Stages(x)' /\ Holds(x)' /\ Seen(x)'
  <2>1. Stages(x) /\ Holds(x) /\ Seen(x) /\ tx[x] \in Transactions
    BY DEF IInv, TypeOK, TxInv
  <2>2. \A g \in GuideIds : View(x, g)' = View(x, g)
    BY <1>1, SameView
  <2>3. Stages(x)'
    BY <1>1, <2>1 DEF Stages, InTx
  <2>4. Holds(x)'
    <3>1. Authored(tx[x].req.user)' = Authored(tx[x].req.user)
      BY <1>1 DEF Authored, Live
    <3> QED
      BY <1>1, <1>3, <2>1, <3>1 DEF Holds, InTx
  <2>5. Seen(x)'
    BY <1>1, <2>1, <2>2 DEF Seen, Transactions
  <2> QED
    BY <2>3, <2>4, <2>5
<1>6. \A x, y \in Handlers : x # y => Apart(x, y)'
  BY <1>1 DEF IInv, TxInv, Apart, InTx
<1> QED
  BY <1>2, <1>4, <1>5, <1>6 DEF IInv, TxInv

LEMMA NextIInv == IInv /\ [Next]_vars => IInv'
<1> SUFFICES ASSUME IInv, [Next]_vars PROVE IInv'
  OBVIOUS
<1>1. ASSUME NEW w \in Handlers, NEW r \in Requests, Authorize(w, r) PROVE IInv'
  BY <1>1, AuthorizeStep
<1>2. ASSUME NEW w \in Handlers, Progress(w) PROVE IInv'
  BY <1>2, ReadMetaStep, ValidateEntriesStep, CheckCapStep, InsertGuideStep,
     UpdateGuideStep, DeleteGuideStep, InsertLikeStep, DeleteLikeStep,
     EraseAccountStep, SweepStep, RecountStep, WriteCountStep, CommitStep DEF Progress
<1>3. ASSUME NEW w \in Handlers, Fail(w) PROVE IInv'
  BY <1>3, FinishStep DEF Fail
<1>4. ASSUME NEW e \in Episodes, DropEpisode(e) PROVE IInv'
  BY <1>4, DropEpisodeStep
<1>5. CASE UNCHANGED vars
  <2>1. UNCHANGED db /\ tx' = tx
    BY <1>5 DEF vars, db
  <2>2. Live' = Live /\ TypeOK' /\ DBInv'
    BY <2>1 DEF db, Live, IInv, TypeOK, DBInv, LikesNeedRace, NoGuideNoCount,
                NothingDangles, GuideIsWhole
  <2>3. ASSUME NEW x \in Handlers
        PROVE  Stages(x)' /\ Holds(x)' /\ Seen(x)'
    <3>1. Stages(x) /\ Holds(x) /\ Seen(x) /\ tx[x] \in Transactions
      BY DEF IInv, TypeOK, TxInv
    <3>2. \A g \in GuideIds : View(x, g)' = View(x, g)
      BY <2>1, SameView DEF db
    <3>3. Authored(tx[x].req.user)' = Authored(tx[x].req.user)
      BY <2>1 DEF db, Authored, Live
    <3> QED
      BY <2>1, <2>2, <3>1, <3>2, <3>3 DEF db, Stages, Holds, Seen, InTx, Transactions
  <2>4. \A x, y \in Handlers : x # y => Apart(x, y)'
    BY <2>1 DEF IInv, TxInv, Apart, InTx
  <2> QED
    BY <2>2, <2>3, <2>4 DEF IInv, TxInv
<1> QED
  BY <1>1, <1>2, <1>3, <1>4, <1>5 DEF Next

-----------------------------------------------------------------------------

(* What is or will be published are guides.                                *)
LEMMA PotentialType ==
  ASSUME IInv, NEW u \in Users
  PROVE  /\ Potential(u) \in SUBSET GuideIds
         /\ \A w \in Handlers :
              Publishes(w, u) => tx[w].req.guide \in GuideIds /\ tx[w].req \in AllRequests
<1>1. ASSUME NEW w \in Handlers, Publishes(w, u)
      PROVE  tx[w].req.guide \in GuideIds /\ tx[w].req \in AllRequests
  <2>1. tx[w].req \in AllRequests \cup {NoRequest} /\ Stages(w)
    BY DEF IInv, TypeOK, Transactions, TxInv
  <2>2. tx[w].req.op \in {"create", "update"}
    BY <1>1, <2>1 DEF Publishes, Stages
  <2>3. tx[w].req \in AllRequests
    BY <2>1, <2>2 DEF NoRequest
  <2> QED
    BY <2>2, <2>3, RequestType
<1>2. ToBePublished(u) \subseteq GuideIds
  BY <1>1 DEF ToBePublished
<1> QED
  BY <1>1, <1>2 DEF Potential, Published, Authored, Live

(* What a step leaves alone: nothing is published, and no further request  *)
(* is about to publish.                                                    *)
LEMMA NothingNew ==
  ASSUME NEW u \in Users, guide' = guide,
         \A x \in Handlers : Publishes(x, u)' => Publishes(x, u) /\ tx'[x].req = tx[x].req
  PROVE  Potential(u)' \subseteq Potential(u)
<1>1. Published(u)' = Published(u)
  BY DEF Published, Authored, Live
<1>2. ToBePublished(u)' \subseteq ToBePublished(u)
  BY DEF ToBePublished
<1> QED
  BY <1>1, <1>2 DEF Potential

(* A step of w that neither writes guides nor passes the check.            *)
LEMMA QuietStep ==
  ASSUME IInv, NEW w \in Handlers, NEW u \in Users,
         \/ \E r \in Requests : Authorize(w, r)
         \/ ReadMeta(w) \/ ValidateEntries(w) \/ UpdateGuide(w)
         \/ DeleteGuide(w) \/ InsertLike(w) \/ DeleteLike(w)
         \/ EraseAccount(w) \/ Sweep(w)
         \/ \E g \in GuideIds : Recount(w, g)
         \/ WriteCount(w)
         \/ Finish(w) /\ UNCHANGED db
  PROVE  Potential(u)' \subseteq Potential(u)
<1>1. guide' = guide /\ \A x \in Handlers \ {w} : tx'[x] = tx[x]
  BY DEF IInv, TypeOK, Authorize, ReadMeta, ValidateEntries, UpdateGuide, DeleteGuide,
         InsertLike, DeleteLike, EraseAccount, Sweep, Recount, WriteCount, Finish,
         Goto, db
<1>2. tx[w] \in Transactions /\ Stages(w)
  BY DEF IInv, TypeOK, TxInv
<1>3. Publishes(w, u)' => Publishes(w, u) /\ tx'[w].req = tx[w].req
  <2>1. CASE Finish(w)
    <3>1. tx'[w].pc = "idle"
      BY <2>1 DEF Finish, Idle, IInv, TypeOK
    <3> QED
      BY <3>1 DEF Publishes, InTx
  <2>2. ASSUME NEW r \in Requests, Authorize(w, r)
        PROVE  ~Publishes(w, u)'
    <3>1. tx'[w].pc \in {"authorized", "known"}
      BY <1>2, <2>2 DEF Authorize, Transactions, IInv, TypeOK
    <3> QED
      BY <3>1 DEF Publishes, InTx
  <2>3. CASE ~Finish(w) /\ (ReadMeta(w) \/ ValidateEntries(w) \/ EraseAccount(w))
    <3>1. tx'[w].pc \in {"known", "valid", "sweep"}
      BY <1>2, <2>3 DEF ReadMeta, ValidateEntries, EraseAccount, Goto, Transactions, IInv, TypeOK
    <3> QED
      BY <3>1 DEF Publishes, InTx
  <2>4. CASE ~Finish(w) /\ (DeleteGuide(w) \/ InsertLike(w) \/ DeleteLike(w) \/ Sweep(w))
    <3>1. /\ tx'[w].req = tx[w].req /\ tx'[w].pc = "open"
          /\ tx[w].req.op \in {"delete", "like", "unlike", "erase"}
      BY <1>2, <2>4 DEF DeleteGuide, InsertLike, DeleteLike, Sweep, Transactions,
                        IInv, TypeOK, Stages
    <3> QED
      BY <3>1 DEF Publishes, InTx
  <2>5. CASE ~Finish(w) /\ UpdateGuide(w)
    <3>1. tx'[w].req = tx[w].req /\ tx[w].pc = "capped"
      BY <1>2, <2>5 DEF UpdateGuide, Goto, Transactions, IInv, TypeOK
    <3> QED
      BY <3>1 DEF Publishes
  <2>6. CASE WriteCount(w) \/ \E g \in GuideIds : Recount(w, g)
    <3>1. CASE WriteCount(w)
      <4>1. PICK g \in tx[w].claim :
              tx' = [tx EXCEPT ![w].claim = {},
                               ![w].todo = @ \ {g},
                               ![w].written = @ \cup {g}]
        BY <3>1 DEF WriteCount
      <4>2. tx'[w] = [tx[w] EXCEPT !.claim = {},
                                   !.todo = @ \ {g},
                                   !.written = @ \cup {g}]
        BY <4>1 DEF IInv, TypeOK
      <4>3. tx'[w].req = tx[w].req /\ tx'[w].pc = tx[w].pc
        BY <1>2, <4>2 DEF Transactions
      <4> QED
        BY <4>3 DEF Publishes, InTx
    <3>2. CASE \E g \in GuideIds : Recount(w, g)
      <4>1. PICK g \in GuideIds :
              tx' = [tx EXCEPT ![w].claim = {g}, ![w].seen[g] = View(w, g)]
        BY <3>2 DEF Recount
      <4> DEFINE V == View(w, g)
      <4> HIDE DEF V
      <4>2. tx'[w] = [tx[w] EXCEPT !.claim = {g}, !.seen[g] = V]
        BY <4>1 DEF IInv, TypeOK, V
      <4>3. tx'[w].req = tx[w].req /\ tx'[w].pc = tx[w].pc
        BY <1>2, <4>2 DEF Transactions
      <4> QED
        BY <4>3 DEF Publishes, InTx
    <3> QED
      BY <2>6, <3>1, <3>2
  <2> QED
    BY <2>1, <2>2, <2>3, <2>4, <2>5, <2>6
<1>4. \A x \in Handlers \ {w} : Publishes(x, u)' => Publishes(x, u)
  BY <1>1 DEF Publishes, InTx
<1> QED
  BY <1>1, <1>3, <1>4, NothingNew

(* What is inserted was about to be published.                             *)
LEMMA InsertPotential ==
  ASSUME IInv, NEW w \in Handlers, NEW u \in Users, InsertGuide(w)
  PROVE  Potential(u)' \subseteq Potential(u)
<1>1. CASE guide' = guide
  <2>1. Finish(w)
    BY DEF InsertGuide
  <2>2. \A x \in Handlers : Publishes(x, u)' => Publishes(x, u) /\ tx'[x].req = tx[x].req
    BY <2>1 DEF Finish, Idle, Publishes, InTx, IInv, TypeOK
  <2> QED
    BY <1>1, <2>2, NothingNew
<1>2. CASE guide' # guide
  <2> DEFINE r == tx[w].req
             new == [author |-> r.user, title |-> r.input.title,
                     published |-> r.input.published]
  <2>1. /\ guide' = [guide EXCEPT ![r.guide] = new] /\ tx' = [tx EXCEPT ![w] = Idle]
        /\ tx[w].pc = "capped"
    BY <1>2 DEF InsertGuide, Finish
  <2>2. new.author = r.user /\ new.published = r.input.published
    OBVIOUS
  <2> HIDE DEF new
  <2>3. \A g \in GuideIds \ {r.guide} : guide'[g] = guide[g]
    BY <2>1 DEF IInv, TypeOK
  <2>4. Published(u)' \subseteq Published(u) \cup ToBePublished(u)
    <3> SUFFICES ASSUME NEW g \in Published(u)', g \notin Published(u)
                 PROVE  g \in ToBePublished(u)
      OBVIOUS
    <3>1. /\ g \in GuideIds /\ guide'[g] \notin {Unborn, Gone} /\ guide'[g].author = u
          /\ guide'[g].published
      BY DEF Published, Authored, Live
    <3>2. g = r.guide
      BY <2>3, <3>1 DEF Published, Authored, Live
    <3>3. guide'[g] = new
      BY <2>1, <3>1, <3>2 DEF IInv, TypeOK
    <3>4. Publishes(w, u)
      BY <2>1, <2>2, <3>1, <3>3 DEF Publishes
    <3> QED
      BY <3>2, <3>4 DEF ToBePublished
  <2>5. ToBePublished(u)' \subseteq ToBePublished(u)
    <3>1. \A x \in Handlers : Publishes(x, u)' => Publishes(x, u) /\ tx'[x].req = tx[x].req
      BY <2>1 DEF Idle, Publishes, InTx, IInv, TypeOK
    <3> QED
      BY <3>1 DEF ToBePublished
  <2> QED
    BY <2>4, <2>5 DEF Potential
<1> QED
  BY <1>1, <1>2

(* What an edit publishes was about to be published, by its author.        *)
LEMMA CommitPotential ==
  ASSUME IInv, NEW w \in Handlers, NEW u \in Users, Commit(w), ReferencesHold(w)
  PROVE  Potential(u)' \subseteq Potential(u)
<1>1. /\ InTx(w) /\ Stages(w)
      /\ \A g \in GuideIds : guide'[g] = NewRow(w, g)
  BY DEF Commit, IInv, TxInv
<1>2. Published(u)' \subseteq Published(u) \cup ToBePublished(u)
  <2> SUFFICES ASSUME NEW g \in Published(u)'
               PROVE  g \in Published(u) \cup ToBePublished(u)
    OBVIOUS
  <2>1. /\ g \in GuideIds /\ g \in Live' /\ guide'[g].author = u /\ guide'[g].published
    BY DEF Published, Authored, Live
  <2>2. g \in Live /\ g \notin tx[w].dropped /\ guide[g].author = u
    BY <2>1, CommitRows
  <2>3. guide[g] \in Rows
    BY <2>1, <2>2 DEF IInv, TypeOK, Live
  <2>4. CASE Doing(w, "update", g)
    <3> DEFINE i == tx[w].req.input
    <3>1. guide'[g] = [guide[g] EXCEPT !.title = i.title, !.published = i.published]
      BY <1>1, <2>1, <2>2, <2>4 DEF NewRow
    <3> HIDE DEF i
    <3>2. guide'[g].published = i.published
      BY <2>3, <3>1 DEF Rows
    <3>3. tx[w].req.user = u
      BY <1>1, <2>2, <2>4 DEF Stages, Doing, InTx, Live
    <3>4. Publishes(w, u)
      BY <1>1, <2>1, <2>4, <3>2, <3>3 DEF Publishes, Doing, i
    <3> QED
      BY <2>4, <3>4 DEF ToBePublished, Doing
  <2>5. CASE ~Doing(w, "update", g)
    BY <1>1, <2>1, <2>2, <2>5 DEF NewRow, Published, Authored
  <2> QED
    BY <2>4, <2>5
<1>3. ToBePublished(u)' \subseteq ToBePublished(u)
  <2>1. \A x \in Handlers : Publishes(x, u)' => Publishes(x, u) /\ tx'[x].req = tx[x].req
    <3>1. ~Publishes(w, u)'
      BY CommitOthers DEF Publishes, InTx, Idle
    <3>2. \A x \in Handlers \ {w} :
            Publishes(x, u)' => Publishes(x, u) /\ tx'[x].req = tx[x].req
      BY CommitOthers DEF Publishes, InTx
    <3> QED
      BY <3>1, <3>2
  <2> QED
    BY <2>1 DEF ToBePublished
<1> QED
  BY <1>2, <1>3 DEF Potential

(* At the check an author has fewer than the cap published, beside one     *)
(* guide for each of the other connections.                                *)
LEMMA CheckCapPotential ==
  ASSUME IInv, CapOK, NEW w \in Handlers, NEW u \in Users, CheckCap(w), ~Finish(w)
  PROVE  Cardinality(Potential(u)') < MAX_PUBLISHED_PER_SHOW + Cardinality(Handlers)
<1> DEFINE r      == tx[w].req
           others == {x \in Handlers \ {w} : Publishes(x, u)}
           theirs == {tx[x].req.guide : x \in others}
           mine   == Published(u) \ {r.guide}
<1>1. /\ guide' = guide /\ Goto(w, "capped") /\ tx[w].pc = "valid"
      /\ r.input.published => Cardinality(Published(r.user) \ {r.guide}) < MAX_PUBLISHED_PER_SHOW
  <2>1. Goto(w, "capped") /\ guide' = guide /\ tx[w].pc = "valid"
    BY DEF CheckCap, db
  <2>2. ~(r.input.published /\
            Cardinality(Published(r.user) \ {r.guide}) >= MAX_PUBLISHED_PER_SHOW)
    BY DEF CheckCap
  <2>3. IsFiniteSet(Published(r.user) \ {r.guide})
    <3>1. Published(r.user) \ {r.guide} \in SUBSET GuideIds
      BY DEF Published, Authored, Live
    <3> QED
      BY <3>1, FiniteSizes, FS_Subset
  <2>4. Cardinality(Published(r.user) \ {r.guide}) \in Nat
    BY <2>3, FS_CardinalityType
  <2> QED
    BY <2>1, <2>2, <2>4, CapIsNatural
<1>2. tx'[w].req = r /\ tx'[w].pc = "capped" /\ \A x \in Handlers \ {w} : tx'[x] = tx[x]
  BY <1>1 DEF Goto, IInv, TypeOK, Transactions
<1>3. Published(u)' = Published(u)
  BY <1>1 DEF Published, Authored, Live
<1>4. \A x \in Handlers \ {w} : Publishes(x, u)' <=> Publishes(x, u)
  BY <1>2 DEF Publishes, InTx
<1>5. CASE ~(r.user = u /\ r.input.published)
  <2>1. ~Publishes(w, u)'
    BY <1>2, <1>5 DEF Publishes
  <2>2. Potential(u)' \subseteq Potential(u)
    BY <1>1, <1>2, <1>4, <2>1, NothingNew
  <2>3. Potential(u) \in SUBSET GuideIds
    BY PotentialType
  <2>4. Cardinality(Potential(u)') <= Cardinality(Potential(u))
    BY <2>2, <2>3, FiniteSizes, FS_Subset
  <2>5. /\ Cardinality(Potential(u)) \in Nat /\ Cardinality(Potential(u)') \in Nat
        /\ Cardinality(Handlers) \in Nat
    BY <2>2, <2>3, FiniteSizes, FS_Subset, FS_CardinalityType
  <2>6. Cardinality(Potential(u)) < MAX_PUBLISHED_PER_SHOW + Cardinality(Handlers)
    BY DEF CapOK
  <2> QED
    BY <2>4, <2>5, <2>6, CapIsNatural
<1>6. CASE r.user = u /\ r.input.published
  <2>1. Potential(u)' \subseteq (mine \cup theirs) \cup {r.guide}
    BY <1>2, <1>3, <1>4 DEF Potential, ToBePublished
  <2>2. IsFiniteSet(mine) /\ Cardinality(mine) \in Nat /\ Cardinality(mine) < MAX_PUBLISHED_PER_SHOW
    <3>1. mine \in SUBSET GuideIds
      BY DEF Published, Authored, Live
    <3>2. IsFiniteSet(mine) /\ Cardinality(mine) \in Nat
      BY <3>1, FiniteSizes, FS_Subset, FS_CardinalityType
    <3> QED
      BY <1>1, <1>6, <3>2
  <2>3. IsFiniteSet(theirs) /\ Cardinality(theirs) \in Nat
        /\ Cardinality(theirs) <= Cardinality(Handlers) - 1
    <3> DEFINE f == [x \in others |-> tx[x].req.guide]
    <3>1. f \in Surjection(others, theirs)
      BY DEF Surjection
    <3>2. IsFiniteSet(Handlers \ {w}) /\ Cardinality(Handlers \ {w}) = Cardinality(Handlers) - 1
      BY FiniteSizes, FS_RemoveElement
    <3>3. others \in SUBSET (Handlers \ {w})
      OBVIOUS
    <3> HIDE DEF others, theirs, f
    <3>4. IsFiniteSet(others) /\ Cardinality(others) <= Cardinality(Handlers) - 1
      BY <3>2, <3>3, FS_Subset
    <3>5. IsFiniteSet(theirs) /\ Cardinality(theirs) <= Cardinality(others)
      BY <3>1, <3>4, FS_Surjection
    <3>6. /\ Cardinality(others) \in Nat /\ Cardinality(theirs) \in Nat
          /\ Cardinality(Handlers) \in Nat
      BY <3>4, <3>5, FiniteSizes, FS_CardinalityType
    <3> QED
      BY <3>4, <3>5, <3>6
  <2> HIDE DEF mine, theirs
  <2>4. /\ IsFiniteSet(mine \cup theirs)
        /\ Cardinality(mine \cup theirs) <= Cardinality(mine) + Cardinality(theirs)
        /\ Cardinality(mine \cup theirs) \in Nat
    <3>1. /\ IsFiniteSet(mine \cup theirs)
          /\ Cardinality(mine \cup theirs) =
               Cardinality(mine) + Cardinality(theirs) - Cardinality(mine \cap theirs)
      BY <2>2, <2>3, FS_Union
    <3>2. IsFiniteSet(mine \cap theirs)
      BY <2>2, FS_Intersection
    <3>3. Cardinality(mine \cap theirs) \in Nat /\ Cardinality(mine \cup theirs) \in Nat
      BY <3>1, <3>2, FS_CardinalityType
    <3> QED
      BY <2>2, <2>3, <3>1, <3>3
  <2> DEFINE both == mine \cup theirs
             all  == both \cup {r.guide}
  <2>6. Potential(u)' \in SUBSET all
    BY <2>1
  <2>5. IsFiniteSet(all) /\ Cardinality(all) <= Cardinality(both) + 1
    <3>1. IsFiniteSet(both) /\ Cardinality(both) \in Nat
      BY <2>4
    <3> HIDE DEF both
    <3>2. /\ IsFiniteSet(both \cup {r.guide})
          /\ r.guide \in both => Cardinality(both \cup {r.guide}) = Cardinality(both)
          /\ r.guide \notin both => Cardinality(both \cup {r.guide}) = Cardinality(both) + 1
      BY <3>1, FS_AddElement
    <3> QED
      BY <3>1, <3>2
  <2> HIDE DEF all
  <2>7. /\ Cardinality(Potential(u)') <= Cardinality(all)
        /\ Cardinality(Potential(u)') \in Nat /\ Cardinality(all) \in Nat
        /\ Cardinality(Handlers) \in Nat
    BY <2>5, <2>6, FiniteSizes, FS_Subset, FS_CardinalityType
  <2> QED
    BY <2>2, <2>3, <2>4, <2>5, <2>7, CapIsNatural
<1> QED
  BY <1>5, <1>6

LEMMA NextCapOK == IInv /\ CapOK /\ [Next]_vars => CapOK'
<1> SUFFICES ASSUME IInv, CapOK, [Next]_vars, NEW u \in Users
             PROVE  Cardinality(Potential(u)') < MAX_PUBLISHED_PER_SHOW + Cardinality(Handlers)
  BY DEF CapOK
<1>1. ASSUME Potential(u)' \subseteq Potential(u)
      PROVE  Cardinality(Potential(u)') < MAX_PUBLISHED_PER_SHOW + Cardinality(Handlers)
  <2>1. Potential(u) \in SUBSET GuideIds
    BY PotentialType
  <2>2. Cardinality(Potential(u)') <= Cardinality(Potential(u))
    BY <1>1, <2>1, FiniteSizes, FS_Subset
  <2>3. /\ Cardinality(Potential(u)) \in Nat /\ Cardinality(Potential(u)') \in Nat
        /\ Cardinality(Handlers) \in Nat
    BY <1>1, <2>1, FiniteSizes, FS_Subset, FS_CardinalityType
  <2>4. Cardinality(Potential(u)) < MAX_PUBLISHED_PER_SHOW + Cardinality(Handlers)
    BY DEF CapOK
  <2> QED
    BY <2>2, <2>3, <2>4, CapIsNatural
<1>2. ASSUME NEW w \in Handlers, Finish(w) /\ UNCHANGED db
      PROVE  Potential(u)' \subseteq Potential(u)
  BY <1>2, QuietStep
<1>3. ASSUME NEW w \in Handlers, NEW r \in Requests, Authorize(w, r)
      PROVE  Potential(u)' \subseteq Potential(u)
  BY <1>3, QuietStep
<1>4. ASSUME NEW w \in Handlers, Commit(w)
      PROVE  Potential(u)' \subseteq Potential(u)
  <2>1. CASE ReferencesHold(w)
    BY <1>4, <2>1, CommitPotential
  <2>2. CASE ~ReferencesHold(w)
    <3>1. Finish(w) /\ UNCHANGED db
      BY <1>4, <2>2 DEF Commit, db
    <3> QED
      BY <3>1, <1>2
  <2> QED
    BY <2>1, <2>2
<1>5. ASSUME NEW w \in Handlers, Progress(w), ~CheckCap(w)
      PROVE  Potential(u)' \subseteq Potential(u)
  BY <1>4, <1>5, QuietStep, InsertPotential DEF Progress
<1>6. ASSUME NEW w \in Handlers, CheckCap(w)
      PROVE  Cardinality(Potential(u)') < MAX_PUBLISHED_PER_SHOW + Cardinality(Handlers)
  <2>1. CASE Finish(w)
    BY <1>1, <1>2, <1>6, <2>1 DEF CheckCap
  <2>2. CASE ~Finish(w)
    BY <1>6, <2>2, CheckCapPotential
  <2> QED
    BY <2>1, <2>2
<1>7. ASSUME NEW w \in Handlers, Fail(w)
      PROVE  Potential(u)' \subseteq Potential(u)
  BY <1>2, <1>7 DEF Fail
<1>8. CASE UNCHANGED vars \/ \E e \in Episodes : DropEpisode(e)
  BY <1>1, <1>8, NothingNew DEF vars, DropEpisode, Publishes, InTx
<1> QED
  BY <1>1, <1>3, <1>5, <1>6, <1>7, <1>8 DEF Next

LEMMA InitCapOK == Init => CapOK
<1> SUFFICES ASSUME Init, NEW u \in Users
             PROVE  Cardinality(Potential(u)) < MAX_PUBLISHED_PER_SHOW + Cardinality(Handlers)
  BY DEF CapOK
<1>1. Published(u) = {}
  BY DEF Init, Published, Authored, Live
<1>2. ToBePublished(u) = {}
  BY DEF Init, ToBePublished, Publishes, InTx, Idle
<1>3. Cardinality(Potential(u)) = 0
  BY <1>1, <1>2, FS_EmptySet DEF Potential
<1>4. Cardinality(Handlers) \in Nat /\ Cardinality(Handlers) # 0
  BY FiniteSizes, SomeHandler, FS_CardinalityType, FS_EmptySet
<1> QED
  BY <1>3, <1>4, CapIsNatural

-----------------------------------------------------------------------------

LEMMA Invariance == Spec => [](IInv /\ CapOK)
<1>1. Init => IInv /\ CapOK
  BY InitIInv, InitCapOK
<1>2. (IInv /\ CapOK) /\ [Next]_vars => (IInv /\ CapOK)'
  BY NextIInv, NextCapOK
<1> QED
  BY <1>1, <1>2, PTL DEF Spec

(* The tables and the requests under way have their shapes.                *)
THEOREM TypeCorrect == Spec => []TypeOK
<1>1. IInv => TypeOK
  BY DEF IInv
<1> QED
  BY <1>1, Invariance, PTL

(* like_count is the number of likes, except where its last writer had     *)
(* counted before some other like of the same guide was committed.         *)
THEOREM LikesOnlyRace == Spec => []LikesNeedRace
<1>1. IInv => LikesNeedRace
  BY DEF IInv, DBInv
<1> QED
  BY <1>1, Invariance, PTL

(* A guide is one submission as a whole, never part of one and part of     *)
(* another, however many edits of it are under way.                        *)
THEOREM GuidesStayWhole == Spec => []GuideIsWhole
<1>1. IInv => GuideIsWhole
  BY DEF IInv, DBInv
<1> QED
  BY <1>1, Invariance, PTL

(* Nothing refers to an account, a guide or an episode that is gone.       *)
THEOREM NothingLeftBehind == Spec => []NothingDangles
<1>1. IInv => NothingDangles
  BY DEF IInv, DBInv
<1> QED
  BY <1>1, Invariance, PTL

(* An author exceeds the cap by fewer guides than there are connections,   *)
(* as each that raced past the check publishes one.                        *)
THEOREM CapHolds == Spec => []CapOvershoot
<1>1. IInv /\ CapOK => CapOvershoot
  <2> SUFFICES ASSUME IInv, CapOK, NEW u \in Users
               PROVE  Cardinality(Published(u)) < MAX_PUBLISHED_PER_SHOW + Cardinality(Handlers)
    BY DEF CapOvershoot
  <2>1. Potential(u) \in SUBSET GuideIds /\ Published(u) \in SUBSET Potential(u)
    BY PotentialType DEF Potential
  <2>2. /\ IsFiniteSet(Potential(u)) /\ IsFiniteSet(Published(u))
        /\ Cardinality(Published(u)) <= Cardinality(Potential(u))
    BY <2>1, FiniteSizes, FS_Subset
  <2>3. /\ Cardinality(Published(u)) \in Nat /\ Cardinality(Potential(u)) \in Nat
        /\ Cardinality(Handlers) \in Nat
    BY <2>2, FiniteSizes, FS_CardinalityType
  <2>4. Cardinality(Potential(u)) < MAX_PUBLISHED_PER_SHOW + Cardinality(Handlers)
    BY DEF CapOK
  <2> QED
    BY <2>2, <2>3, <2>4, CapIsNatural
<1> QED
  BY <1>1, Invariance, PTL

=============================================================================

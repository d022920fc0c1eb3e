--------------------------- MODULE VoteTallyProofs ---------------------------
(***************************************************************************)
(* Proofs about VoteTally, for any number of accounts, episodes, handlers  *)
(* and jobs: its inductive invariant, DriftNeedsRace, DroppedLeavesNothing *)
(* and the implementation of VoteBook and, for each episode, of            *)
(* EpisodeLabel.                                                           *)
(*                                                                         *)
(* The invariant says of each transaction which locks protect what it has  *)
(* seen: the votes it counted are still the votes it would see now, unless *)
(* it missed a commit; what it votes on still exists; and no account is    *)
(* being deleted while one of its votes is being written.                  *)
(***************************************************************************)
EXTENDS VoteTally, TLAPS, FiniteSetTheorems

Voting(w) == InTx(w) /\ WritesVote(w)

(* The bookkeeping of one connection, and what its locks protect.          *)
TxOK(w) ==
  /\ tx[w].claim \subseteq tx[w].todo
  /\ ~InTx(w) => tx[w].todo = {} /\ tx[w].written = {}
  /\ w \in Jobs => tx[w].req \in {NoRequest, Recompute}
  /\ Voting(w) => /\ tx[w].todo \cup tx[w].written = {tx[w].req.ep}
                  /\ tx[w].req.user \in users
                  /\ tx[w].req.ep \in episodes
  /\ \A e \in Counted(w) \ tx[w].missed : tx[w].seen[e] = View(w, e)

(* An account is not deleted while one of its votes is being written.      *)
EraseExcludesVoting ==
  \A x, y \in Workers :
    /\ InTx(x) /\ tx[x].req.op = "erase"
    /\ Voting(y)
    => tx[x].req.user # tx[y].req.user

IInv ==
  /\ TypeOK
  /\ \A w \in Workers : TxOK(w)
  /\ EraseExcludesVoting
  /\ DriftNeedsRace
  /\ DroppedLeavesNothing

-----------------------------------------------------------------------------

(* The recount of no votes is the absent score row.                        *)
LEMMA TallyOfNoVotes == Tally(NoVotes) = NoScore
<1>1. \A v \in VoteValues :
        {u \in Users : NoVotes[u] # NoVote /\ NoVotes[u].value = v} = {}
  BY DEF NoVotes
<1>2. Cardinality({}) = 0
  BY FS_EmptySet
<1> QED
  BY <1>1, <1>2 DEF Tally, NoScore

(* A recount is a tally: three natural numbers.                            *)
LEMMA TallyType ==
  ASSUME NEW view \in Views
  PROVE  Tally(view) \in Tallies
<1>1. ASSUME NEW v \in VoteValues
      PROVE  Cardinality({u \in Users : view[u] # NoVote /\ view[u].value = v})
               \in Nat
  <2>1. IsFiniteSet({u \in Users : view[u] # NoVote /\ view[u].value = v})
    BY UsersFinite, FS_Subset
  <2> QED
    BY <2>1, FS_CardinalityType
<1> QED
  BY <1>1 DEF Tally, Tallies

(* What a transaction sees of an episode is a set of votes on it.          *)
LEMMA ViewType ==
  ASSUME TypeOK, NEW w \in Workers, NEW e \in Episodes
  PROVE  View(w, e) \in Views
<1>1. CASE InTx(w) /\ WritesVote(w) /\ tx[w].req.ep = e
  <2>1. tx[w].req \in VoteRequests
    BY <1>1 DEF TypeOK, Transactions, WritesVote, EraseRequests, NoRequest,
                Recompute
  <2>2. tx[w].req.user \in Users /\ tx[w].req.slot \in Slots
    BY <2>1 DEF VoteRequests, Slots
  <2> QED
    BY <1>1, <2>2 DEF TypeOK, View, Views
<1>2. CASE ~(InTx(w) /\ WritesVote(w) /\ tx[w].req.ep = e)
  BY <1>2 DEF TypeOK, View
<1> QED
  BY <1>1, <1>2

LEMMA InitIInv == Init => IInv
<1> SUFFICES ASSUME Init PROVE IInv
  OBVIOUS
<1>1. TypeOK
  <2>1. Idle \in Transactions
    BY DEF Idle, Transactions, NoVotes, Views, Slots
  <2> QED
    BY <2>1 DEF Init, TypeOK, Tallies, NoScore, NoVotes, Views, Slots
<1>2. \A w \in Workers : TxOK(w)
  BY DEF Init, TxOK, Idle, Voting, InTx, Counted, NoRequest
<1>3. EraseExcludesVoting
  BY DEF Init, EraseExcludesVoting, InTx, Voting, Idle
<1>4. DriftNeedsRace
  BY TallyOfNoVotes DEF Init, DriftNeedsRace
<1>5. DroppedLeavesNothing
  BY DEF Init, DroppedLeavesNothing
<1> QED
  BY <1>1, <1>2, <1>3, <1>4, <1>5 DEF IInv

-----------------------------------------------------------------------------

(* A step that touches no table and one connection keeps the invariant if  *)
(* that connection's own bookkeeping stays right and it neither starts to  *)
(* vote for an account being deleted nor to delete one being voted for.    *)
LEMMA LocalStep ==
  ASSUME IInv, NEW w \in Workers, UNCHANGED db,
         tx' = [tx EXCEPT ![w] = tx'[w]], tx'[w] \in Transactions, TxOK(w)',
         \A y \in Workers \ {w} :
           /\ InTx(w)' /\ tx'[w].req.op = "erase" /\ Voting(y)
              => tx'[w].req.user # tx[y].req.user
           /\ Voting(w)' /\ InTx(y) /\ tx[y].req.op = "erase"
              => tx[y].req.user # tx'[w].req.user
  PROVE  IInv'
<1>1. TypeOK'
  BY DEF IInv, TypeOK, db
<1>2. \A x \in Workers \ {w} : tx'[x] = tx[x]
  BY DEF IInv, TypeOK
<1>3. ASSUME NEW x \in Workers \ {w}
      PROVE  TxOK(x)'
  <2>1. tx'[x] = tx[x] /\ TxOK(x)
    BY <1>2 DEF IInv
  <2>2. \A e \in Episodes : View(x, e)' = View(x, e)
    BY <2>1 DEF View, InTx, WritesVote, db
  <2>3. Counted(x)' = Counted(x) /\ Counted(x) \subseteq Episodes
    BY <2>1 DEF Counted, IInv, TypeOK, Transactions
  <2> QED
    BY <2>1, <2>2, <2>3 DEF TxOK, Voting, InTx, WritesVote, db
<1>4. EraseExcludesVoting'
  <2> SUFFICES ASSUME NEW x \in Workers, NEW y \in Workers,
                      InTx(x)', tx'[x].req.op = "erase", Voting(y)'
               PROVE  tx'[x].req.user # tx'[y].req.user
    BY DEF EraseExcludesVoting
  <2>1. x # y
    BY DEF Voting, WritesVote
  <2>2. CASE x = w
    BY <1>2, <2>1, <2>2 DEF Voting, InTx, WritesVote
  <2>3. CASE y = w
    BY <1>2, <2>1, <2>3 DEF Voting, InTx, WritesVote
  <2>4. CASE x # w /\ y # w
    BY <1>2, <2>4 DEF IInv, EraseExcludesVoting, Voting, InTx, WritesVote
  <2> QED
    BY <2>2, <2>3, <2>4
<1>5. DriftNeedsRace' /\ DroppedLeavesNothing'
  BY DEF IInv, DriftNeedsRace, DroppedLeavesNothing, db
<1> QED
  BY <1>1, <1>3, <1>4, <1>5 DEF IInv

(* The end of a request releases everything it held.                       *)
LEMMA FinishStep ==
  ASSUME IInv, NEW w \in Workers, Finish(w), UNCHANGED db
  PROVE  IInv'
<1>1. tx' = [tx EXCEPT ![w] = Idle] /\ tx'[w] = Idle
  BY DEF Finish, IInv, TypeOK
<1>2. Idle \in Transactions
  BY DEF Idle, Transactions, NoVotes, Views, Slots
<1>3. TxOK(w)'
  BY <1>1 DEF TxOK, Idle, Voting, InTx, Counted
<1>4. ~InTx(w)' /\ ~Voting(w)'
  BY <1>1 DEF Idle, Voting, InTx
<1> QED
  BY <1>1, <1>2, <1>3, <1>4, LocalStep

(* A handler's request is one of those clients send.                       *)
LEMMA AuthorizeStep ==
  ASSUME IInv, NEW w \in Handlers, NEW r \in VoteRequests \cup EraseRequests,
         Authorize(w, r)
  PROVE  IInv'
<1> w \in Workers /\ w \notin Jobs
  BY WorkersDisjoint DEF Workers
<1>1. /\ tx' = [tx EXCEPT ![w] = tx'[w]]
      /\ tx'[w] = [tx[w] EXCEPT !.pc = IF r.op = "erase" THEN "checked"
                                                        ELSE "authorized",
                                !.req = r]
  BY DEF Authorize, IInv, TypeOK
<1>2. tx[w] \in Transactions
  BY DEF IInv, TypeOK
<1>3. tx'[w] \in Transactions
  BY <1>1, <1>2 DEF Transactions
<1>4. ~InTx(w) /\ ~InTx(w)' /\ ~Voting(w)'
  <2>1. tx'[w].pc \in {"checked", "authorized"}
    BY <1>1, <1>2 DEF Transactions
  <2> QED
    BY <2>1 DEF Authorize, InTx, Voting
<1>5. TxOK(w)'
  <2>1. TxOK(w)
    BY DEF IInv
  <2> QED
    BY <1>1, <1>2, <1>4, <2>1 DEF TxOK, Counted, Transactions
<1> QED
  BY <1>1, <1>3, <1>4, <1>5, LocalStep DEF Authorize

LEMMA CheckEpisodeStep ==
  ASSUME IInv, NEW w \in Workers, CheckEpisode(w)
  PROVE  IInv'
<1>1. CASE Finish(w)
  BY <1>1, FinishStep DEF CheckEpisode
<1>2. CASE ~Finish(w)
  <2>1. /\ tx' = [tx EXCEPT ![w] = tx'[w]]
        /\ tx'[w] = [tx[w] EXCEPT !.pc = "checked"]
    BY <1>2 DEF CheckEpisode, IInv, TypeOK
  <2>2. tx[w] \in Transactions /\ TxOK(w)
    BY DEF IInv, TypeOK
  <2>3. tx'[w] \in Transactions
    BY <2>1, <2>2 DEF Transactions
  <2>4. ~InTx(w) /\ ~InTx(w)' /\ ~Voting(w)'
    BY <2>1, <2>2 DEF CheckEpisode, InTx, Voting, Transactions
  <2>5. TxOK(w)'
    BY <2>1, <2>2, <2>4 DEF TxOK, Counted, Transactions
  <2> QED
    BY <2>1, <2>3, <2>4, <2>5, LocalStep DEF CheckEpisode
<1> QED
  BY <1>1, <1>2

(* A request that reaches its write statement is a vote or a deletion.     *)
LEMMA CheckedRequest ==
  ASSUME IInv, NEW w \in Workers, tx[w].req.op \in {"put", "delete", "erase"}
  PROVE  /\ w \notin Jobs
         /\ WritesVote(w) => tx[w].req \in VoteRequests
         /\ WritesVote(w) => /\ tx[w].req.user \in Users
                             /\ tx[w].req.ep \in Episodes
                             /\ tx[w].req.slot \in Slots
         /\ tx[w].req.op = "erase" => tx[w].req.user \in Users
<1>1. tx[w].req \in VoteRequests \cup EraseRequests \cup {NoRequest, Recompute}
  BY DEF IInv, TypeOK, Transactions
<1>2. tx[w].req \notin {NoRequest, Recompute}
  BY DEF NoRequest, Recompute
<1>3. w \notin Jobs
  BY <1>2 DEF IInv, TxOK
<1>4. WritesVote(w) => tx[w].req \in VoteRequests
  BY <1>1, <1>2 DEF WritesVote, EraseRequests
<1>5. tx[w].req.op = "erase" => tx[w].req \in EraseRequests
  BY <1>1, <1>2 DEF VoteRequests
<1> QED
  BY <1>3, <1>4, <1>5 DEF VoteRequests, EraseRequests, Slots

(* A statement that starts writing votes: its one score row is still to be *)
(* refreshed, and it holds nothing else.                                   *)
LEMMA BeginVoteStep ==
  ASSUME IInv, NEW w \in Workers, ~InTx(w), WritesVote(w),
         Begin(w, {tx[w].req.ep}),
         tx[w].req.user \in users, tx[w].req.ep \in episodes,
         ~RowLocked(w, tx[w].req.user, tx[w].req.ep),
         UNCHANGED db
  PROVE  IInv'
<1> DEFINE rows == {tx[w].req.ep}
<1>1. /\ tx' = [tx EXCEPT ![w] = tx'[w]]
      /\ tx'[w] = [tx[w] EXCEPT !.pc = "open", !.todo = rows]
  BY DEF Begin, IInv, TypeOK
<1>2. tx[w] \in Transactions /\ TxOK(w)
  BY DEF IInv, TypeOK
<1>3. tx[w].req.ep \in Episodes /\ w \notin Jobs /\ rows \subseteq Episodes
  BY CheckedRequest DEF WritesVote
<1> HIDE DEF rows
<1>4. /\ tx'[w] \in Transactions
      /\ tx'[w].pc = "open"
      /\ tx'[w].todo = rows
      /\ tx'[w].req = tx[w].req
      /\ tx'[w].claim = tx[w].claim
      /\ tx'[w].written = tx[w].written
  BY <1>1, <1>2, <1>3 DEF Transactions
<1>5. tx[w].claim = {} /\ tx[w].written = {}
  BY <1>2 DEF TxOK
<1>6. TxOK(w)'
  <2>1. Counted(w)' = {}
    BY <1>3, <1>4, <1>5 DEF Counted
  <2> QED
    BY <1>3, <1>4, <1>5, <2>1 DEF rows, TxOK, Voting, InTx, db
<1>7. tx'[w].req.op # "erase"
  BY <1>4 DEF WritesVote
<1>8. \A y \in Workers \ {w} :
        InTx(y) /\ tx[y].req.op = "erase" => tx[y].req.user # tx[w].req.user
  BY DEF RowLocked
<1> QED
  BY <1>1, <1>4, <1>6, <1>7, <1>8, LocalStep

LEMMA PutVoteStep ==
  ASSUME IInv, NEW w \in Workers, PutVote(w)
  PROVE  IInv'
<1>1. CASE Finish(w)
  BY <1>1, FinishStep DEF PutVote
<1>2. CASE ~Finish(w)
  <2>1. ~InTx(w) /\ WritesVote(w)
    BY DEF PutVote, InTx, WritesVote
  <2> QED
    BY <1>2, <2>1, BeginVoteStep DEF PutVote
<1> QED
  BY <1>1, <1>2

LEMMA DeleteVoteStep ==
  ASSUME IInv, NEW w \in Workers, DeleteVote(w)
  PROVE  IInv'
<1>1. CASE Finish(w)
  BY <1>1, FinishStep DEF DeleteVote
<1>2. CASE ~Finish(w)
  <2>1. ~InTx(w) /\ WritesVote(w)
    BY DEF DeleteVote, InTx, WritesVote
  <2>2. tx[w].req.ep \in Episodes /\ tx[w].req.user \in Users
    BY <2>1, CheckedRequest DEF WritesVote
  <2>3. tx[w].req.ep \in episodes
    BY <1>2, <2>2 DEF DeleteVote, IInv, DroppedLeavesNothing, NoVotes
  <2> QED
    BY <1>2, <2>1, <2>3, BeginVoteStep DEF DeleteVote
<1> QED
  BY <1>1, <1>2

(* The deletion waits for the votes of its account that are being written. *)
LEMMA DeleteUserStep ==
  ASSUME IInv, NEW w \in Workers, DeleteUser(w)
  PROVE  IInv'
<1>1. CASE Finish(w)
  BY <1>1, FinishStep DEF DeleteUser
<1>2. CASE ~Finish(w)
  <2> DEFINE votedOn == {e \in Episodes : vote[e][tx[w].req.user] # NoVote}
  <2>1. Begin(w, votedOn) /\ ~AccountLocked(w, tx[w].req.user)
    BY <1>2 DEF DeleteUser
  <2>2. /\ tx' = [tx EXCEPT ![w] = tx'[w]]
        /\ tx'[w] = [tx[w] EXCEPT !.pc = "open", !.todo = votedOn]
    BY <2>1 DEF Begin, IInv, TypeOK
  <2>3. tx[w] \in Transactions /\ TxOK(w)
    BY DEF IInv, TypeOK
  <2>4. tx[w].req.op = "erase" /\ w \notin Jobs
    BY CheckedRequest DEF DeleteUser
  <2> HIDE DEF votedOn
  <2>5. votedOn \subseteq Episodes
    BY DEF votedOn
  <2>6. /\ tx'[w] \in Transactions
        /\ tx'[w].pc = "open"
        /\ tx'[w].req = tx[w].req
        /\ tx'[w].claim = tx[w].claim
        /\ tx'[w].written = tx[w].written
    BY <2>2, <2>3, <2>5 DEF Transactions
  <2>7. tx[w].claim = {} /\ tx[w].written = {}
    BY <2>3 DEF TxOK, DeleteUser, InTx
  <2>8. ~Voting(w)'
    BY <2>4, <2>6 DEF Voting, WritesVote
  <2>9. TxOK(w)'
    <3>1. Counted(w)' = {}
      BY <2>4, <2>6, <2>7 DEF Counted
    <3> QED
      BY <2>4, <2>6, <2>7, <2>8, <3>1 DEF TxOK, InTx
  <2>10. \A y \in Workers \ {w} :
           Voting(y) => tx[w].req.user # tx[y].req.user
    <3> SUFFICES ASSUME NEW y \in Workers \ {w}, Voting(y),
                        tx[w].req.user = tx[y].req.user
                 PROVE  FALSE
      OBVIOUS
    <3>1. tx[y].req.ep \in Episodes
      BY CheckedRequest DEF Voting, WritesVote
    <3>2. RowLocked(w, tx[w].req.user, tx[y].req.ep)
      BY DEF RowLocked, Voting
    <3> QED
      BY <2>1, <3>1, <3>2 DEF AccountLocked
  <2> QED
    BY <2>2, <2>6, <2>8, <2>9, <2>10, LocalStep DEF DeleteUser
<1> QED
  BY <1>1, <1>2

(* The job counts every episode at once, and sees what it counts.          *)
LEMMA StartRecomputeStep ==
  ASSUME IInv, NEW w \in Jobs, StartRecompute(w)
  PROVE  IInv'
<1> DEFINE t == [Idle EXCEPT !.pc = "open", !.req = Recompute,
                             !.todo = episodes, !.seen = vote]
<1>1. tx' = [tx EXCEPT ![w] = tx'[w]] /\ tx'[w] = t /\ w \in Workers
  BY DEF StartRecompute, IInv, TypeOK, Workers
<1>2. t \in Transactions
  BY DEF Idle, Transactions, IInv, TypeOK
<1>3. /\ t.pc = "open" /\ t.req = Recompute /\ t.todo = episodes
      /\ t.claim = {} /\ t.written = {} /\ t.seen = vote
  BY DEF Idle
<1> HIDE DEF t
<1>4. ~WritesVote(w)' /\ tx'[w].req.op # "erase"
  BY <1>1, <1>3 DEF WritesVote, Recompute
<1>5. TxOK(w)'
  <2>1. Counted(w)' = episodes
    BY <1>1, <1>3 DEF Counted
  <2>2. \A e \in Episodes : View(w, e)' = vote[e]
    BY <1>4 DEF View, StartRecompute, db
  <2>3. episodes \subseteq Episodes
    BY DEF IInv, TypeOK
  <2> QED
    BY <1>1, <1>3, <1>4, <2>1, <2>2, <2>3 DEF TxOK, Voting, InTx
<1> QED
  BY <1>1, <1>2, <1>4, <1>5, LocalStep DEF StartRecompute, Voting

(* What w sees changes only with the vote table or its own request.        *)
LEMMA SameView ==
  ASSUME NEW w \in Workers, NEW e \in Episodes, vote' = vote,
         tx'[w].pc = tx[w].pc, tx'[w].req = tx[w].req
  PROVE  View(w, e)' = View(w, e)
BY DEF View, InTx, WritesVote

(* A trigger's recount is what its transaction sees at that moment.        *)
LEMMA RecountStep ==
  ASSUME IInv, NEW w \in Workers, NEW e \in Episodes, Recount(w, e)
  PROVE  IInv'
<1> DEFINE view == IF w \in Jobs THEN tx[w].seen[e] ELSE View(w, e)
           seen == [tx[w].seen EXCEPT ![e] = view]
           one  == {e}
<1>1. tx[w] \in Transactions /\ TxOK(w) /\ InTx(w)
  BY DEF IInv, TypeOK, Recount
<1>2. /\ tx' = [tx EXCEPT ![w] = tx'[w]]
      /\ tx'[w] = [tx[w] EXCEPT !.claim = one, !.seen = seen]
  BY <1>1 DEF Recount, IInv, TypeOK, Transactions
<1>3. seen \in [Episodes -> Views]
  BY <1>1, ViewType DEF IInv, Transactions
<1>4. seen[e] = view /\ \A f \in Episodes \ {e} : seen[f] = tx[w].seen[f]
  BY <1>1 DEF Transactions
<1>b. one \subseteq Episodes /\ one = {e}
  OBVIOUS
<1>a. /\ tx[w].claim = {} /\ e \in tx[w].todo
      /\ users' = users /\ episodes' = episodes /\ vote' = vote
  BY DEF Recount, db
<1> HIDE DEF seen, view, one
<1>5. /\ tx'[w] \in Transactions
      /\ tx'[w].claim = one /\ tx'[w].seen = seen
      /\ tx'[w].pc = tx[w].pc /\ tx'[w].req = tx[w].req
      /\ tx'[w].todo = tx[w].todo /\ tx'[w].written = tx[w].written
      /\ tx'[w].missed = tx[w].missed
  BY <1>1, <1>2, <1>3, <1>b DEF Transactions
<1>6. InTx(w)' /\ WritesVote(w)' = WritesVote(w) /\ Voting(w)' = Voting(w)
  BY <1>1, <1>5 DEF InTx, WritesVote, Voting
<1>7. \A f \in Episodes : View(w, f)' = View(w, f)
  BY <1>a, <1>5, SameView
<1>8. TxOK(w)'
  <2>1. ASSUME NEW f \in Counted(w)' \ tx'[w].missed
        PROVE  tx'[w].seen[f] = View(w, f)'
    <3>1. f \in Episodes
      BY <1>1, <1>5, <1>b DEF Counted, Transactions
    <3>2. CASE f = e /\ w \notin Jobs
      BY <1>4, <1>5, <1>7, <3>1, <3>2 DEF view
    <3>3. CASE f # e \/ w \in Jobs
      <4>1. f \in Counted(w) \ tx[w].missed
        BY <1>5, <1>a, <1>b, <3>3 DEF Counted
      <4>2. tx[w].seen[f] = View(w, f)
        BY <1>1, <4>1 DEF TxOK
      <4> QED
        BY <1>4, <1>5, <1>7, <3>1, <3>3, <4>2 DEF view
    <3> QED
      BY <3>2, <3>3
  <2> QED
    BY <1>1, <1>5, <1>6, <1>a, <1>b, <2>1 DEF TxOK
<1>9. \A y \in Workers \ {w} :
        /\ tx[w].req.op = "erase" /\ Voting(y) => tx[w].req.user # tx[y].req.user
        /\ Voting(w) /\ InTx(y) /\ tx[y].req.op = "erase"
           => tx[y].req.user # tx[w].req.user
  BY <1>1 DEF IInv, EraseExcludesVoting
<1> QED
  BY <1>2, <1>5, <1>6, <1>8, <1>9, LocalStep DEF Recount

(* Writing a counted row moves it from todo to written.                    *)
LEMMA WriteScoreStep ==
  ASSUME IInv, NEW w \in Workers, WriteScore(w)
  PROVE  IInv'
<1>1. tx[w] \in Transactions /\ TxOK(w) /\ InTx(w)
  BY DEF IInv, TypeOK, WriteScore
<1>2. PICK e \in tx[w].claim :
        tx' = [tx EXCEPT ![w].claim = {}, ![w].todo = @ \ {e},
                         ![w].written = @ \cup {e}]
  BY DEF WriteScore
<1>3. e \in Episodes /\ e \in tx[w].todo
  BY <1>1 DEF Transactions, TxOK
<1>4. /\ tx' = [tx EXCEPT ![w] = tx'[w]]
      /\ tx'[w] \in Transactions
      /\ tx'[w].claim = {}
      /\ tx'[w].todo = tx[w].todo \ {e}
      /\ tx'[w].written = tx[w].written \cup {e}
      /\ tx'[w].pc = tx[w].pc /\ tx'[w].req = tx[w].req
      /\ tx'[w].seen = tx[w].seen /\ tx'[w].missed = tx[w].missed
  BY <1>1, <1>2, <1>3 DEF IInv, TypeOK, Transactions
<1>5. InTx(w)' /\ WritesVote(w)' = WritesVote(w) /\ Voting(w)' = Voting(w)
  BY <1>1, <1>4 DEF InTx, WritesVote, Voting
<1>a. users' = users /\ episodes' = episodes /\ vote' = vote
  BY DEF WriteScore, db
<1>6. \A f \in Episodes : View(w, f)' = View(w, f)
  BY <1>4, <1>a, SameView
<1>7. Counted(w)' \subseteq Counted(w) /\ Counted(w) \subseteq Episodes
  BY <1>1, <1>3, <1>4 DEF Counted, Transactions
<1>8. TxOK(w)'
  <2>1. \A f \in Counted(w)' \ tx'[w].missed : tx'[w].seen[f] = View(w, f)'
    BY <1>1, <1>4, <1>6, <1>7 DEF TxOK
  <2>2. Voting(w)' => tx'[w].todo \cup tx'[w].written = {tx'[w].req.ep}
    BY <1>1, <1>3, <1>4, <1>5 DEF TxOK
  <2> QED
    BY <1>1, <1>4, <1>5, <1>a, <2>1, <2>2 DEF TxOK
<1>9. \A y \in Workers \ {w} :
        /\ tx[w].req.op = "erase" /\ Voting(y) => tx[w].req.user # tx[y].req.user
        /\ Voting(w) /\ InTx(y) /\ tx[y].req.op = "erase"
           => tx[y].req.user # tx[w].req.user
  BY <1>1 DEF IInv, EraseExcludesVoting
<1> QED
  BY <1>4, <1>5, <1>8, <1>9, LocalStep DEF WriteScore

(* A transaction that takes effect writes what it has seen; the ones that  *)
(* had counted its episode have missed it.                                 *)
LEMMA CommitStep ==
  ASSUME IInv, NEW w \in Workers, Commit(w)
  PROVE  IInv'
<1>1. CASE ~ReferencesHold(w)
  BY <1>1, FinishStep DEF Commit
<1>2. CASE ReferencesHold(w)
  <2> DEFINE ep == tx[w].req.ep
             missers(x) == WritesVote(w) /\ ep \in Counted(x)
  <2>1. tx[w] \in Transactions /\ TxOK(w) /\ InTx(w) /\ tx[w].todo = {}
    BY DEF IInv, TypeOK, Commit
  <2>2. /\ vote' = [e \in Episodes |-> View(w, e)]
        /\ users' = IF tx[w].req.op = "erase" THEN users \ {tx[w].req.user}
                                              ELSE users
        /\ score' = [e \in Episodes |->
                       IF e \in tx[w].written THEN Tally(tx[w].seen[e])
                                              ELSE score[e]]
        /\ raced' = [e \in Episodes |->
                       IF e \in tx[w].written THEN e \in tx[w].missed
                                              ELSE raced[e]]
        /\ episodes' = episodes
    BY <1>2 DEF Commit
  <2>3. /\ tx'[w] = Idle
        /\ DOMAIN tx' = Workers
        /\ \A x \in Workers \ {w} :
             tx'[x] = IF missers(x)
                      THEN [tx[x] EXCEPT !.missed = @ \cup {ep}]
                      ELSE tx[x]
    BY <1>2 DEF Commit
  <2>4. WritesVote(w) => ep \in Episodes /\ tx[w].written = {ep}
    BY <2>1, CheckedRequest DEF WritesVote, TxOK, Voting
  <2>5. \A e \in Episodes : ~(WritesVote(w) /\ e = ep) => vote'[e] = vote[e]
    BY <2>2 DEF View
  <2>6. ASSUME NEW x \in Workers \ {w}
        PROVE  /\ tx'[x] \in Transactions
               /\ tx'[x].pc = tx[x].pc /\ tx'[x].req = tx[x].req
               /\ tx'[x].todo = tx[x].todo /\ tx'[x].claim = tx[x].claim
               /\ tx'[x].written = tx[x].written /\ tx'[x].seen = tx[x].seen
               /\ tx[x].missed \subseteq tx'[x].missed
               /\ missers(x) => ep \in tx'[x].missed
    <3>1. tx[x] \in Transactions
      BY DEF IInv, TypeOK
    <3>2. CASE missers(x)
      <4> DEFINE more == tx[x].missed \cup {ep}
      <4>1. more \subseteq Episodes
        BY <2>4, <3>1, <3>2 DEF Transactions
      <4>2. tx'[x] = [tx[x] EXCEPT !.missed = more]
        BY <2>3, <3>2
      <4>3. tx[x].missed \subseteq more /\ ep \in more
        OBVIOUS
      <4> HIDE DEF more, ep, missers
      <4> QED
        BY <3>1, <4>1, <4>2, <4>3 DEF Transactions
    <3>3. CASE ~missers(x)
      BY <2>3, <3>1, <3>3
    <3> QED
      BY <3>2, <3>3
  <2> HIDE DEF missers
  <2>7. TypeOK'
    <3>1. vote' \in [Episodes -> Views]
      BY <2>2, ViewType DEF IInv
    <3>2. score' \in [Episodes -> Tallies]
      <4>1. \A e \in Episodes : tx[w].seen[e] \in Views
        BY <2>1 DEF Transactions
      <4>2. \A e \in Episodes : Tally(tx[w].seen[e]) \in Tallies
        BY <4>1, TallyType
      <4> QED
        BY <2>2, <4>2 DEF IInv, TypeOK
    <3>3. raced' \in [Episodes -> BOOLEAN]
      <4>1. \A e \in Episodes : raced[e] \in BOOLEAN
        BY DEF IInv, TypeOK
      <4>2. \A e \in Episodes : (e \in tx[w].missed) \in BOOLEAN
        OBVIOUS
      <4> QED
        BY <2>2, <4>1, <4>2
    <3>4. Idle \in Transactions
      BY DEF Idle, Transactions, NoVotes, Views, Slots
    <3>5. tx' \in [Workers -> Transactions]
      <4>1. tx' = [x \in Workers |-> tx'[x]]
        BY <1>2 DEF Commit
      <4>2. \A x \in Workers : tx'[x] \in Transactions
        BY <2>3, <2>6, <3>4
      <4> QED
        BY <4>1, <4>2
    <3>6. users' \subseteq Users /\ episodes' \subseteq Episodes
      BY <2>2 DEF IInv, TypeOK
    <3> QED
      BY <3>1, <3>2, <3>3, <3>5, <3>6 DEF TypeOK
  <2>8. ASSUME NEW x \in Workers
        PROVE  TxOK(x)'
    <3>1. CASE x = w
      BY <2>3, <3>1 DEF TxOK, Idle, Voting, InTx, Counted
    <3>2. CASE x # w
      <4>1. TxOK(x) /\ tx[x] \in Transactions
        BY DEF IInv, TypeOK
      <4>2. Voting(x)' = Voting(x) /\ InTx(x)' = InTx(x)
        BY <2>6, <3>2 DEF Voting, InTx, WritesVote
      <4>3. Voting(x) => tx[x].req.user \in users'
        BY <2>1, <2>2, <3>2, <4>1 DEF TxOK, IInv, EraseExcludesVoting
      <4>4. Counted(x)' = Counted(x) /\ Counted(x) \subseteq Episodes
        BY <2>6, <3>2, <4>1 DEF Counted, Transactions
      <4>5. ASSUME NEW f \in Counted(x)' \ tx'[x].missed
            PROVE  tx'[x].seen[f] = View(x, f)'
        <5>1. f \in Counted(x) \ tx[x].missed /\ f \in Episodes
          BY <2>6, <3>2, <4>4
        <5>2. ~(WritesVote(w) /\ f = ep)
          BY <2>6, <3>2, <5>1 DEF missers
        <5>3. vote'[f] = vote[f]
          BY <2>5, <5>1, <5>2
        <5>4. View(x, f)' = View(x, f)
          BY <2>6, <3>2, <5>3 DEF View, InTx, WritesVote
        <5> QED
          BY <2>6, <3>2, <4>1, <5>1, <5>4 DEF TxOK
      <4> QED
        BY <2>2, <2>6, <3>2, <4>1, <4>2, <4>3, <4>5 DEF TxOK
    <3> QED
      BY <3>1, <3>2
  <2>9. EraseExcludesVoting'
    <3> SUFFICES ASSUME NEW x \in Workers, NEW y \in Workers,
                        InTx(x)', tx'[x].req.op = "erase", Voting(y)'
                 PROVE  tx'[x].req.user # tx'[y].req.user
      BY DEF EraseExcludesVoting
    <3>1. x # w /\ y # w
      BY <2>3 DEF Voting, InTx, Idle
    <3> QED
      BY <2>6, <3>1 DEF IInv, EraseExcludesVoting, Voting, InTx, WritesVote
  <2>10. \A e \in Episodes \ tx[w].written :
           vote'[e] = vote[e] /\ score'[e] = score[e] /\ raced'[e] = raced[e]
    BY <2>2, <2>4, <2>5
  <2>11. DriftNeedsRace'
    <3> SUFFICES ASSUME NEW e \in episodes, ~raced'[e]
                 PROVE  score'[e] = Tally(vote'[e])
      BY <2>2 DEF DriftNeedsRace, Tally
    <3>1. e \in Episodes
      BY DEF IInv, TypeOK
    <3>2. CASE e \in tx[w].written
      <4>1. e \notin tx[w].missed /\ score'[e] = Tally(tx[w].seen[e])
        BY <2>2, <3>1, <3>2
      <4>2. tx[w].seen[e] = View(w, e)
        BY <2>1, <3>2, <4>1 DEF TxOK, Counted
      <4> QED
        BY <2>2, <3>1, <4>1, <4>2
    <3>3. CASE e \notin tx[w].written
      BY <2>10, <3>1, <3>3 DEF IInv, DriftNeedsRace
    <3> QED
      BY <3>2, <3>3
  <2>12. DroppedLeavesNothing'
    BY <1>2, <2>2, <2>10 DEF IInv, DroppedLeavesNothing, ReferencesHold
  <2> QED
    BY <2>7, <2>8, <2>9, <2>11, <2>12 DEF IInv
<1> QED
  BY <1>1, <1>2

(* The import removes an episode no transaction votes on or has written.   *)
LEMMA DropEpisodeStep ==
  ASSUME IInv, NEW e \in Episodes, DropEpisode(e)
  PROVE  IInv'
<1>1. /\ users' = users /\ vote' = vote /\ tx' = tx /\ raced' = raced
      /\ episodes' = episodes \ {e} /\ score' = [score EXCEPT ![e] = NoScore]
      /\ vote[e] = NoVotes
  BY DEF DropEpisode
<1>2. TypeOK'
  <2>1. NoScore \in Tallies
    BY DEF NoScore, Tallies
  <2> QED
    BY <1>1, <2>1 DEF IInv, TypeOK
<1>3. ASSUME NEW x \in Workers
      PROVE  TxOK(x)'
  <2>1. Voting(x) => tx[x].req.ep # e
    BY DEF DropEpisode, Voting
  <2>2. \A f \in Episodes : View(x, f)' = View(x, f)
    BY <1>1 DEF View, InTx, WritesVote
  <2>3. Counted(x)' = Counted(x) /\ Counted(x) \subseteq Episodes
    BY <1>1 DEF Counted, IInv, TypeOK, Transactions
  <2> QED
    BY <1>1, <2>1, <2>2, <2>3 DEF IInv, TxOK, Voting, InTx, WritesVote
<1>4. EraseExcludesVoting'
  BY <1>1 DEF IInv, EraseExcludesVoting, Voting, InTx, WritesVote
<1>5. \A f \in Episodes : f # e => score'[f] = score[f]
  BY <1>1
<1>6. DriftNeedsRace' /\ DroppedLeavesNothing'
  <2>1. score'[e] = NoScore
    BY <1>1 DEF IInv, TypeOK
  <2> QED
    BY <1>1, <1>5, <2>1
    DEF IInv, TypeOK, DriftNeedsRace, DroppedLeavesNothing, Tally
<1> QED
  BY <1>2, <1>3, <1>4, <1>6 DEF IInv

LEMMA NextIInv == IInv /\ [Next]_vars => IInv'
<1> SUFFICES ASSUME IInv, [Next]_vars PROVE IInv'
  OBVIOUS
<1>1. ASSUME NEW w \in Handlers, NEW r \in VoteRequests \cup EraseRequests,
             Authorize(w, r)
      PROVE  IInv'
  BY <1>1, AuthorizeStep
<1>2. ASSUME NEW w \in Jobs, StartRecompute(w)
      PROVE  IInv'
  BY <1>2, StartRecomputeStep
<1>3. ASSUME NEW w \in Workers, Progress(w)
      PROVE  IInv'
  <2>1. CASE CheckEpisode(w)
    BY <2>1, CheckEpisodeStep
  <2>2. CASE PutVote(w)
    BY <2>2, PutVoteStep
  <2>3. CASE DeleteVote(w)
    BY <2>3, DeleteVoteStep
  <2>4. CASE DeleteUser(w)
    BY <2>4, DeleteUserStep
  <2>5. CASE \E e \in Episodes : Recount(w, e)
    BY <2>5, RecountStep
  <2>6. CASE WriteScore(w)
    BY <2>6, WriteScoreStep
  <2>7. CASE Commit(w)
    BY <2>7, CommitStep
  <2>8. CASE DeadlockAbort(w)
    BY <2>8, FinishStep DEF DeadlockAbort
  <2> QED
    BY <1>3, <2>1, <2>2, <2>3, <2>4, <2>5, <2>6, <2>7, <2>8 DEF Progress
<1>4. ASSUME NEW w \in Workers, Fail(w)
      PROVE  IInv'
  BY <1>4, FinishStep DEF Fail
<1>5. ASSUME NEW e \in Episodes, DropEpisode(e)
      PROVE  IInv'
  BY <1>5, DropEpisodeStep
<1>6. CASE UNCHANGED vars
  <2>1. \A x \in Workers, f \in Episodes : View(x, f)' = View(x, f)
    BY <1>6 DEF vars, View, InTx, WritesVote
  <2>2. \A x \in Workers : Counted(x)' = Counted(x) /\ Counted(x) \subseteq Episodes
    BY <1>6 DEF vars, Counted, IInv, TypeOK, Transactions
  <2>3. \A x \in Workers : TxOK(x)'
    BY <1>6, <2>1, <2>2 DEF vars, IInv, TxOK, Voting, InTx, WritesVote
  <2>4. TypeOK' /\ EraseExcludesVoting'
    BY <1>6
    DEF vars, IInv, TypeOK, EraseExcludesVoting, Voting, InTx, WritesVote
  <2>5. DriftNeedsRace' /\ DroppedLeavesNothing'
    BY <1>6 DEF vars, IInv, DriftNeedsRace, DroppedLeavesNothing, Tally
  <2> QED
    BY <2>3, <2>4, <2>5 DEF IInv
<1> QED
  BY <1>1, <1>2, <1>3, <1>4, <1>5, <1>6 DEF Next

(* The inductive invariant holds in every state.                           *)
THEOREM Invariance == Spec => []IInv
BY InitIInv, NextIInv, PTL DEF Spec

(* Accounts, episodes, votes, tallies and every connection's bookkeeping   *)
(* keep their types: in particular no tally is ever negative.              *)
THEOREM TypeCorrect == Spec => []TypeOK
<1>1. IInv => TypeOK
  BY DEF IInv
<1> QED
  BY <1>1, Invariance, PTL

(* However many requests, deletions and recomputes interleave, a tally     *)
(* that is not the recount of the votes was left by a transaction that     *)
(* counted before, and wrote after, a vote on that episode committed.      *)
THEOREM DriftOnlyFromRaces == Spec => []DriftNeedsRace
<1>1. IInv => DriftNeedsRace
  BY DEF IInv
<1> QED
  BY <1>1, Invariance, PTL

(* No request or recompute brings back a vote or a tally of an episode an  *)
(* import deleted.                                                         *)
THEOREM DroppedStaysGone == Spec => []DroppedLeavesNothing
<1>1. IInv => DroppedLeavesNothing
  BY DEF IInv
<1> QED
  BY <1>1, Invariance, PTL

-----------------------------------------------------------------------------
(* Every step is, for the vote table, an atomic step of VoteBook or none.  *)

(* A transaction takes effect on the vote table at its commit.             *)
LEMMA CommitRefines ==
  ASSUME IInv, NEW w \in Workers, Commit(w)
  PROVE  [Book!Next]_<<users, episodes, vote>>
<1>1. CASE ~ReferencesHold(w)
  BY <1>1 DEF Commit, db
<1>2. CASE ReferencesHold(w)
  <2>1. /\ vote' = [e \in Episodes |-> View(w, e)]
        /\ users' = IF tx[w].req.op = "erase" THEN users \ {tx[w].req.user}
                                              ELSE users
        /\ episodes' = episodes
    BY <1>2 DEF Commit
  <2>2. vote \in [Episodes -> Views]
    BY DEF IInv, TypeOK
  <2>3. CASE WritesVote(w)
    <3> DEFINE u == tx[w].req.user
               f == tx[w].req.ep
               b == tx[w].req.slot
    <3>1. Voting(w) /\ u \in users /\ f \in episodes
      BY <2>3 DEF Commit, Voting, IInv, TxOK
    <3>2. u \in Users /\ f \in Episodes /\ tx[w].req \in VoteRequests
      BY <2>3, CheckedRequest DEF WritesVote
    <3>3. vote' = [vote EXCEPT ![f] = [@ EXCEPT ![u] = b]]
      <4>1. \A e \in Episodes :
              vote'[e] = IF e = f THEN [vote[f] EXCEPT ![u] = b] ELSE vote[e]
        BY <2>1, <3>1 DEF View, Voting
      <4>2. DOMAIN vote' = Episodes /\ vote' = [e \in Episodes |-> vote'[e]]
        BY <2>1
      <4> QED
        BY <2>2, <3>2, <4>1, <4>2
    <3>4. users' = users
      BY <2>1, <2>3 DEF WritesVote
    <3> HIDE DEF u, f, b
    <3>5. CASE tx[w].req.op = "put"
      <4>1. b \in Ballots
        BY <3>2, <3>5 DEF VoteRequests, b
      <4>2. Book!Put(u, f, b)
        BY <2>1, <3>1, <3>3, <3>4 DEF Book!Put
      <4> QED
        BY <3>2, <4>1, <4>2 DEF Book!Next
    <3>6. CASE tx[w].req.op = "delete"
      <4>1. b = NoVote
        BY <3>2, <3>6 DEF VoteRequests, b
      <4>2. Book!Retract(u, f)
        BY <2>1, <3>1, <3>3, <3>4, <4>1 DEF Book!Retract
      <4> QED
        BY <3>2, <4>2 DEF Book!Next
    <3> QED
      BY <2>3, <3>5, <3>6 DEF WritesVote
  <2>4. CASE ~WritesVote(w)
    <3>1. vote' = vote
      <4>1. \A e \in Episodes : vote'[e] = vote[e]
        BY <2>1, <2>4 DEF View
      <4>2. DOMAIN vote' = Episodes /\ vote' = [e \in Episodes |-> vote'[e]]
        BY <2>1
      <4> QED
        BY <2>2, <4>1, <4>2
    <3>2. CASE tx[w].req.op = "erase"
      <4>1. tx[w].req.user \in Users
        BY <3>2, CheckedRequest
      <4>2. Book!CloseAccount(tx[w].req.user)
        BY <2>1, <3>1, <3>2 DEF Book!CloseAccount
      <4> QED
        BY <4>1, <4>2 DEF Book!Next
    <3>3. CASE tx[w].req.op # "erase"
      BY <2>1, <3>1, <3>3
    <3> QED
      BY <3>2, <3>3
  <2> QED
    BY <2>3, <2>4
<1> QED
  BY <1>1, <1>2

LEMMA NextRefines ==
  IInv /\ [Next]_vars => [Book!Next]_<<users, episodes, vote>>
<1> SUFFICES ASSUME IInv, [Next]_vars
             PROVE  [Book!Next]_<<users, episodes, vote>>
  OBVIOUS
<1>1. CASE UNCHANGED db
  BY <1>1 DEF db
<1>2. ASSUME NEW w \in Workers, Progress(w)
      PROVE  [Book!Next]_<<users, episodes, vote>>
  <2>1. Commit(w) \/ UNCHANGED db
    BY <1>2 DEF Progress, CheckEpisode, PutVote, DeleteVote, DeleteUser,
                Recount, WriteScore, DeadlockAbort
  <2> QED
    BY <1>1, <2>1, CommitRefines
<1>3. ASSUME NEW e \in Episodes, DropEpisode(e)
      PROVE  [Book!Next]_<<users, episodes, vote>>
  <2>1. \A u \in Users : vote[e][u] = NoVote
    BY <1>3 DEF DropEpisode, NoVotes
  <2>2. Book!RemoveEpisode(e)
    BY <1>3, <2>1 DEF DropEpisode, Book!RemoveEpisode
  <2> QED
    BY <2>2 DEF Book!Next
<1>4. CASE UNCHANGED vars
  BY <1>4 DEF vars
<1>5. ASSUME NEW w \in Workers, Fail(w)
      PROVE  UNCHANGED db
  BY <1>5 DEF Fail
<1>6. ASSUME NEW w \in Handlers, NEW r \in VoteRequests \cup EraseRequests,
             Authorize(w, r)
      PROVE  UNCHANGED db
  BY <1>6 DEF Authorize
<1>7. ASSUME NEW w \in Jobs, StartRecompute(w)
      PROVE  UNCHANGED db
  BY <1>7 DEF StartRecompute
<1> QED
  BY <1>1, <1>2, <1>3, <1>4, <1>5, <1>6, <1>7 DEF Next

(* Under every interleaving, the account, episode and vote tables behave   *)
(* as if each request took effect at once: nobody votes from a deleted     *)
(* account or on a deleted episode, and no vote is lost or altered by      *)
(* another account's request or deletion.                                  *)
THEOREM Refinement == Spec => ImplementsVoteBook
<1>1. Init => Book!Init
  BY DEF Init, Book!Init, NoVotes
<1> QED
  BY <1>1, NextRefines, Invariance, PTL
  DEF Spec, ImplementsVoteBook, Book!Spec

-----------------------------------------------------------------------------
(* The label of an episode.                                                *)

(* The votes on e as the voters of EpisodeLabel: its tally is their recount.*)
Label(e) ==
  INSTANCE EpisodeLabel WITH MaxVotes <- Cardinality(Users), tally <- Tally(vote[e])

(* The votes of every episode come, change and go as EpisodeLabel says, one*)
(* at a time, whatever requests, deletions and recomputes interleave.      *)
ImplementsEpisodeLabel == \A e \in Episodes : Label(e)!LabelSpec

(* Who voted v.                                                            *)
Voted(view, v) == {u \in Users : view[u] # NoVote /\ view[u].value = v}

(* They are finitely many.                                                 *)
LEMMA VotedFinite ==
  ASSUME NEW view, NEW v
  PROVE  IsFiniteSet(Voted(view, v)) /\ Cardinality(Voted(view, v)) \in Nat
BY UsersFinite, FS_Subset, FS_CardinalityType DEF Voted

(* One account's slot changes: its old vote leaves the recount and the new *)
(* one joins it.                                                           *)
LEMMA OneSlotCounts ==
  ASSUME NEW view \in Views, NEW u \in Users, NEW s \in Slots, NEW v \in VoteValues,
         NEW next, next = [view EXCEPT ![u] = s]
  PROVE  LET new  == Tally(next)[v]
             old  == Tally(view)[v]
             was  == view[u] # NoVote /\ view[u].value = v
             is   == s # NoVote /\ s.value = v
         IN  /\ old \in Nat
             /\ was /\ is => new = old
             /\ was /\ ~is => new = old - 1
             /\ ~was /\ is => new = old + 1
             /\ ~was /\ ~is => new = old
             /\ was => old > 0
<1> DEFINE A == Voted(view, v) \ {u}
           n == Cardinality(A)
           old == Tally(view)[v]
           new == Tally(next)[v]
           was == view[u] # NoVote /\ view[u].value = v
           is == s # NoVote /\ s.value = v
<1>1. old = Cardinality(Voted(view, v)) /\ new = Cardinality(Voted(next, v))
  BY DEF Tally, Voted
<1>2. IsFiniteSet(A) /\ n \in Nat /\ u \notin A
  <2>1. A \subseteq Users
    BY DEF Voted
  <2> QED
    BY <2>1, UsersFinite, FS_Subset, FS_CardinalityType
<1>3. /\ Voted(view, v) = IF was THEN A \cup {u} ELSE A
      /\ Voted(next, v) = IF is THEN A \cup {u} ELSE A
  BY DEF Voted, Views
<1>4. Cardinality(A \cup {u}) = n + 1
  <2> HIDE DEF A
  <2> QED
    BY <1>2, FS_AddElement
<1> HIDE DEF A, was, is, old, new
<1>5. /\ was => old = n + 1
      /\ ~was => old = n
      /\ is => new = n + 1
      /\ ~is => new = n
  BY <1>1, <1>3, <1>4
<1> HIDE DEF n
<1>6. /\ old \in Nat
      /\ was /\ is => new = old
      /\ was /\ ~is => new = old - 1
      /\ ~was /\ is => new = old + 1
      /\ ~was /\ ~is => new = old
      /\ was => old > 0
  BY <1>2, <1>5
<1> QED
  BY <1>6 DEF was, is, old, new

(* While an account's slot is empty, the votes are fewer than the accounts. *)
LEMMA RoomForOne ==
  ASSUME NEW view \in Views, NEW u \in Users, view[u] = NoVote
  PROVE  Total(Tally(view)) < Cardinality(Users)
<1> DEFINE F == Voted(view, "FILLER")
           W == Voted(view, "WORTH_WATCHING")
           C == Voted(view, "CANON")
           R == Users \ {u}
<1>1. Total(Tally(view)) = Cardinality(F) + Cardinality(W) + Cardinality(C)
  BY DEF Total, Tally, Voted, VoteValues
<1>2. F \cap W = {} /\ (F \cup W) \cap C = {} /\ (F \cup W) \cup C \subseteq R
  BY DEF Voted
<1>3. /\ IsFiniteSet(F) /\ IsFiniteSet(W) /\ IsFiniteSet(C)
      /\ Cardinality(F) \in Nat /\ Cardinality(W) \in Nat /\ Cardinality(C) \in Nat
  BY VotedFinite
<1>4. /\ IsFiniteSet(R) /\ Cardinality(R) \in Nat /\ Cardinality(Users) \in Nat
      /\ Cardinality(R) < Cardinality(Users)
  <2>1. IsFiniteSet(R) /\ Cardinality(R) = Cardinality(Users) - 1
    BY UsersFinite, FS_RemoveElement
  <2>2. Cardinality(Users) \in Nat /\ Cardinality(R) \in Nat
    BY <2>1, UsersFinite, FS_CardinalityType
  <2> QED
    BY <2>1, <2>2
<1> HIDE DEF F, W, C, R
<1>5. /\ IsFiniteSet(F \cup W)
      /\ Cardinality(F \cup W) = Cardinality(F) + Cardinality(W) - Cardinality(F \cap W)
      /\ Cardinality((F \cup W) \cup C) =
           Cardinality(F \cup W) + Cardinality(C) - Cardinality((F \cup W) \cap C)
  BY <1>3, FS_Union
<1>6. Cardinality(F \cap W) = 0 /\ Cardinality((F \cup W) \cap C) = 0
  BY <1>2, FS_EmptySet
<1>7. Cardinality((F \cup W) \cup C) <= Cardinality(R)
  BY <1>2, <1>4, FS_Subset
<1>8. Cardinality((F \cup W) \cup C) = (Cardinality(F) + Cardinality(W) - 0) + Cardinality(C) - 0
  BY <1>5, <1>6
<1> QED
  BY <1>1, <1>3, <1>4, <1>7, <1>8

(* A change of one slot of an episode is a step of its label.              *)
LEMMA SlotStep ==
  ASSUME NEW e \in Episodes, NEW u \in Users, NEW s \in Slots,
         vote \in [Episodes -> Views],
         vote'[e] = [vote[e] EXCEPT ![u] = s]
  PROVE  [Label(e)!LabelNext]_(Tally(vote[e]))
<1> DEFINE old == Tally(vote[e])
           new == Tally(vote'[e])
           a == vote[e][u]
<1>1. vote[e] \in Views /\ a \in Slots
  BY DEF Views
<1>2. ASSUME NEW v \in VoteValues
      PROVE  LET was == a # NoVote /\ a.value = v
                 is  == s # NoVote /\ s.value = v
             IN  /\ old[v] \in Nat
                 /\ was /\ is => new[v] = old[v]
                 /\ was /\ ~is => new[v] = old[v] - 1
                 /\ ~was /\ is => new[v] = old[v] + 1
                 /\ ~was /\ ~is => new[v] = old[v]
                 /\ was => old[v] > 0
  BY <1>1, OneSlotCounts
<1>3. \A b \in Slots \ {NoVote} : b.value \in VoteValues
  BY BallotsValid DEF Slots, ValidBallots
<1>4. /\ old = [v \in VoteValues |-> old[v]]
      /\ new = [v \in VoteValues |-> new[v]]
  BY DEF Tally
<1>5. a = NoVote => Total(old) < Cardinality(Users)
  BY <1>1, RoomForOne
<1> DEFINE LNext == [Label(e)!LabelNext]_(Tally(vote[e]))
<1> SUFFICES LNext
  OBVIOUS
<1>6. ASSUME NEW v \in VoteValues,
             \/ Total(old) < Cardinality(Users) /\ new = [old EXCEPT ![v] = @ + 1]
             \/ old[v] > 0 /\ new = [old EXCEPT ![v] = @ - 1]
      PROVE  LNext
  BY <1>6 DEF Label!LabelNext, Label!Cast, Label!Retract, Label!VoteValues, Label!Total,
              VoteValues, Total
<1>7. ASSUME NEW v \in VoteValues, NEW x \in VoteValues, v # x, old[v] > 0,
             new = [old EXCEPT ![v] = @ - 1, ![x] = @ + 1]
      PROVE  LNext
  BY <1>7 DEF Label!LabelNext, Label!Change, Label!VoteValues, VoteValues
<1>8. new = old => LNext
  OBVIOUS
<1> HIDE DEF old, new, a, LNext
<1>9. CASE a = NoVote /\ s # NoVote
  <2> DEFINE x == s.value
  <2>1. x \in VoteValues
    BY <1>3, <1>9
  <2>2. new[x] = old[x] + 1 /\ \A v \in VoteValues \ {x} : new[v] = old[v]
    BY <1>2, <1>9, <2>1
  <2>3. new = [old EXCEPT ![x] = @ + 1]
    BY <1>4, <2>1, <2>2
  <2> QED
    BY <1>5, <1>6, <1>9, <2>1, <2>3
<1>10. CASE a # NoVote /\ s = NoVote
  <2> DEFINE v == a.value
  <2>1. v \in VoteValues
    BY <1>1, <1>3, <1>10
  <2>2. old[v] > 0 /\ new[v] = old[v] - 1 /\ \A x \in VoteValues \ {v} : new[x] = old[x]
    BY <1>2, <1>10, <2>1
  <2>3. new = [old EXCEPT ![v] = @ - 1]
    BY <1>4, <2>1, <2>2
  <2> QED
    BY <1>6, <2>1, <2>2, <2>3
<1>11. CASE a # NoVote /\ s # NoVote /\ a.value # s.value
  <2> DEFINE v == a.value
             x == s.value
  <2>1. v \in VoteValues /\ x \in VoteValues
    BY <1>1, <1>3, <1>11
  <2>2. /\ old[v] > 0 /\ new[v] = old[v] - 1
        /\ new[x] = old[x] + 1
        /\ \A y \in VoteValues \ {v, x} : new[y] = old[y]
    BY <1>2, <1>11, <2>1
  <2>3. new = [old EXCEPT ![v] = @ - 1, ![x] = @ + 1]
    BY <1>4, <1>11, <2>1, <2>2
  <2> QED
    BY <1>7, <1>11, <2>1, <2>2, <2>3
<1>12. CASE \/ a = NoVote /\ s = NoVote
            \/ a # NoVote /\ s # NoVote /\ a.value = s.value
  <2>1. \A v \in VoteValues : new[v] = old[v]
    BY <1>2, <1>12
  <2> QED
    BY <1>4, <1>8, <2>1
<1> QED
  BY <1>9, <1>10, <1>11, <1>12

(* A step of VoteBook changes one slot at most, so it moves a label by a   *)
(* step at most.                                                           *)
LEMMA BookMovesLabel ==
  ASSUME NEW e \in Episodes, vote \in [Episodes -> Views],
         [Book!Next]_<<users, episodes, vote>>
  PROVE  [Label(e)!LabelNext]_(Tally(vote[e]))
<1>1. CASE vote' = vote
  BY <1>1
<1>2. ASSUME NEW u \in Users, NEW f \in Episodes, NEW s \in Slots,
             vote' = [vote EXCEPT ![f] = [@ EXCEPT ![u] = s]]
      PROVE  [Label(e)!LabelNext]_(Tally(vote[e]))
  <2>1. CASE e = f
    <3>1. vote'[e] = [vote[e] EXCEPT ![u] = s]
      BY <1>2, <2>1
    <3> QED
      BY <3>1, SlotStep
  <2>2. CASE e # f
    <3>1. vote'[e] = vote[e]
      BY <1>2, <2>2
    <3> QED
      BY <3>1
  <2> QED
    BY <2>1, <2>2
<1>3. ASSUME NEW u \in Users, NEW f \in Episodes, NEW b \in Ballots, Book!Put(u, f, b)
      PROVE  [Label(e)!LabelNext]_(Tally(vote[e]))
  BY <1>2, <1>3 DEF Book!Put, Slots
<1>4. ASSUME NEW u \in Users, NEW f \in Episodes, Book!Retract(u, f)
      PROVE  [Label(e)!LabelNext]_(Tally(vote[e]))
  BY <1>2, <1>4 DEF Book!Retract, Slots
<1> QED
  BY <1>1, <1>3, <1>4 DEF Book!Next, Book!CloseAccount, Book!RemoveEpisode

(* VoteTally implements EpisodeLabel for every episode: what ShowProofs    *)
(* proves of a label holds of the recount of any episode's votes.          *)
THEOREM VotesMoveLabels == Spec => ImplementsEpisodeLabel
<1> SUFFICES ASSUME NEW e \in Episodes PROVE Spec => Label(e)!LabelSpec
  BY DEF ImplementsEpisodeLabel
<1>1. Init => Label(e)!LabelInit
  <2> SUFFICES ASSUME Init PROVE Tally(vote[e]) = NoScore
    BY DEF Label!LabelInit, Label!VoteValues, VoteValues, NoScore
  <2> QED
    BY TallyOfNoVotes DEF Init
<1>2. IInv /\ [Next]_vars => [Label(e)!LabelNext]_(Tally(vote[e]))
  BY NextRefines, BookMovesLabel DEF IInv, TypeOK
<1> QED
  BY <1>1, <1>2, Invariance, PTL DEF Spec, Label!LabelSpec

=============================================================================

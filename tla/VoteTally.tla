------------------------------ MODULE VoteTally ------------------------------
(***************************************************************************)
(* Votes and the maintained per-episode tally (episode_score), as the      *)
(* request handlers, the vote_refresh_score trigger and the                *)
(* recompute-scores job really interleave on one Postgres database.        *)
(*                                                                         *)
(* Every statement of the API runs in its own READ COMMITTED transaction   *)
(* on a pooled connection; several instances of the service share the      *)
(* database.  One vote statement is, inside Postgres, a sequence of steps  *)
(* another connection can interleave with:                                 *)
(*   - it writes the vote row (row lock) and checks the foreign keys;      *)
(*   - its AFTER trigger recounts the votes in a fresh snapshot: what is   *)
(*     committed by now, plus the transaction's own write;                 *)
(*   - it upserts that count into episode_score, waiting for the lock on   *)
(*     that row if another transaction holds it - and then writes the      *)
(*     count it made before it waited;                                     *)
(*   - it commits, which releases its locks.                               *)
(*                                                                         *)
(* Votes of deleted accounts keep their row (ON DELETE SET NULL), so the   *)
(* row of user u on episode e stays at vote[e][u] and is anonymous exactly *)
(* when u \notin users.  Ids are UUIDs and are never used again.           *)
(***************************************************************************)
EXTENDS Scoring, FiniteSets

CONSTANTS
  Users,      \* accounts
  Episodes,   \* imported episodes
  Ballots,    \* the vote bodies clients send, a subset of ValidBallots
  NoVote,     \* the absence of a vote row
  Handlers,   \* connections that serve requests
  Jobs,       \* connections that run recompute-scores
  MayFail     \* whether a statement may also fail for a reason of its own

ASSUME UsersFinite     == IsFiniteSet(Users)
ASSUME BallotsValid    == Ballots \subseteq ValidBallots /\ NoVote \notin Ballots
ASSUME WorkersDisjoint == Handlers \cap Jobs = {}
ASSUME MayFailBoolean  == MayFail \in BOOLEAN

Workers == Handlers \cup Jobs

VARIABLES
  users,      \* app_user: the accounts that exist
  episodes,   \* episode: the episodes that exist
  vote,       \* vote: per episode, each user's committed ballot or NoVote
  score,      \* episode_score: per episode, the committed tally
  tx,         \* per connection, the request and its transaction
  raced       \* history, see Commit

db   == <<users, episodes, vote, score, raced>>
vars == <<users, episodes, vote, score, raced, tx>>

-----------------------------------------------------------------------------
(* Requests, transactions and what they see.                               *)

VoteRequests ==
  [op : {"put"}, user : Users, ep : Episodes, slot : Ballots] \cup
  [op : {"delete"}, user : Users, ep : Episodes, slot : {NoVote}]

EraseRequests == [op : {"erase"}, user : Users]

NoRequest == [op |-> "none"]
Recompute == [op |-> "recompute"]

(* The votes on one episode, as a transaction may see them.                *)
Slots == Ballots \cup {NoVote}
Views == [Users -> Slots]

NoVotes == [u \in Users |-> NoVote]
NoScore == [v \in VoteValues |-> 0]

(* The three filtered counts of refresh_episode_score.                     *)
Tally(view) ==
  [v \in VoteValues |->
     Cardinality({u \in Users : view[u] # NoVote /\ view[u].value = v})]

Idle ==
  [pc      |-> "idle",
   req     |-> NoRequest,
   todo    |-> {},      \* score rows still to be refreshed
   claim   |-> {},      \* the one being refreshed: counted, not yet written
   written |-> {},      \* score rows written, locked until the transaction ends
   seen    |-> [e \in Episodes |-> NoVotes],   \* the votes it counted
   missed  |-> {}]      \* history, see Commit

InTx(w) == tx[w].pc = "open"

WritesVote(w) == tx[w].req.op \in {"put", "delete"}

(* The votes on e in a fresh snapshot of w's transaction.                  *)
View(w, e) ==
  IF InTx(w) /\ WritesVote(w) /\ tx[w].req.ep = e
  THEN [vote[e] EXCEPT ![tx[w].req.user] = tx[w].req.slot]
  ELSE vote[e]

(* The episodes whose votes w has counted in its transaction.  The job's   *)
(* one statement counts them all in its one snapshot.                      *)
Counted(w) ==
  tx[w].written \cup (IF w \in Jobs THEN tx[w].todo ELSE tx[w].claim)

(* Another transaction holds the vote row of u on e, or is deleting u.     *)
(* Inserting a vote share-locks its account, so it waits for a deletion in *)
(* progress; the deletion, which rewrites the rows of u, waits likewise.   *)
RowLocked(w, u, e) ==
  \E x \in Workers \ {w} :
    /\ InTx(x)
    /\ \/ WritesVote(x) /\ tx[x].req.user = u /\ tx[x].req.ep = e
       \/ tx[x].req.op = "erase" /\ tx[x].req.user = u

AccountLocked(w, u) == \E e \in Episodes : RowLocked(w, u, e)

ScoreLocked(w, e) == \E x \in Workers \ {w} : e \in tx[x].written

-----------------------------------------------------------------------------

Init ==
  /\ users = Users
  /\ episodes = Episodes
  /\ vote = [e \in Episodes |-> NoVotes]
  /\ score = [e \in Episodes |-> NoScore]
  /\ tx = [w \in Workers |-> Idle]
  /\ raced = [e \in Episodes |-> FALSE]

(* The end of a request: its answer is sent, its transaction is over.      *)
Finish(w) == tx' = [tx EXCEPT ![w] = Idle]

Begin(w, todo) == tx' = [tx EXCEPT ![w].pc = "open", ![w].todo = todo]

(* The CurrentUser extractor accepts the session: the account exists.      *)
Authorize(w, r) ==
  /\ tx[w].pc = "idle"
  /\ r.user \in users
  /\ tx' = [tx EXCEPT ![w].pc = IF r.op = "erase" THEN "checked"
                                                  ELSE "authorized",
                      ![w].req = r]
  /\ UNCHANGED db

(* Mutant of CheckEpisode: a missing episode gets no answer.               *)
CheckEpisodeNoAnswer(w) ==
  /\ tx[w].pc = "authorized"
  /\ tx[w].req.ep \in episodes
  /\ tx' = [tx EXCEPT ![w].pc = "checked"]
  /\ UNCHANGED db

(* episode_exists, a statement of its own: 404 without the episode.        *)
CheckEpisode(w) ==
  /\ tx[w].pc = "authorized"
  /\ IF tx[w].req.ep \in episodes
     THEN tx' = [tx EXCEPT ![w].pc = "checked"]
     ELSE Finish(w)
  /\ UNCHANGED db

(* Mutants of PutVote: the trigger refreshes NEW.user_id; the account is   *)
(* not a foreign key.                                                      *)
PutVoteRefreshesUser(w) ==
  /\ tx[w].pc = "checked"
  /\ tx[w].req.op = "put"
  /\ tx[w].req.user \in users /\ tx[w].req.ep \in episodes
  /\ ~RowLocked(w, tx[w].req.user, tx[w].req.ep)
  /\ Begin(w, {tx[w].req.user})
  /\ UNCHANGED db

PutVoteOfAnyone(w) ==
  /\ tx[w].pc = "checked"
  /\ tx[w].req.op = "put"
  /\ IF tx[w].req.ep \in episodes
     THEN Begin(w, {tx[w].req.ep})
     ELSE Finish(w)
  /\ UNCHANGED db

(* upsert_vote writes its row.  An account or an episode deleted since it  *)
(* was checked is a foreign-key violation, and the request fails.          *)
PutVote(w) ==
  /\ tx[w].pc = "checked"
  /\ tx[w].req.op = "put"
  /\ LET u == tx[w].req.user
         e == tx[w].req.ep
     IN  \/ /\ u \in users /\ e \in episodes
            /\ ~RowLocked(w, u, e)
            /\ Begin(w, {e})
         \/ /\ u \notin users \/ e \notin episodes
            /\ Finish(w)
  /\ UNCHANGED db

(* Mutant of DeleteVote: the trigger does not fire on DELETE.              *)
DeleteVoteSilently(w) ==
  /\ tx[w].pc = "checked"
  /\ tx[w].req.op = "delete"
  /\ ~RowLocked(w, tx[w].req.user, tx[w].req.ep)
  /\ IF tx[w].req.user \in users /\ vote[tx[w].req.ep][tx[w].req.user] # NoVote
     THEN Begin(w, {})
     ELSE Finish(w)
  /\ UNCHANGED db

(* delete_vote deletes the row the account owns; without one, no trigger   *)
(* fires and the request is answered.                                      *)
DeleteVote(w) ==
  /\ tx[w].pc = "checked"
  /\ tx[w].req.op = "delete"
  /\ LET u == tx[w].req.user
         e == tx[w].req.ep
     IN  \/ /\ u \in users /\ vote[e][u] # NoVote
            /\ ~RowLocked(w, u, e)
            /\ Begin(w, {e})
         \/ /\ u \notin users \/ vote[e][u] = NoVote
            /\ Finish(w)
  /\ UNCHANGED db

(* delete_user deletes the account and disowns its votes; each disowned    *)
(* row fires the trigger, so each episode it voted on is recounted.        *)
DeleteUser(w) ==
  /\ tx[w].pc = "checked"
  /\ tx[w].req.op = "erase"
  /\ LET u == tx[w].req.user
     IN  \/ /\ u \in users
            /\ ~AccountLocked(w, u)
            /\ Begin(w, {e \in Episodes : vote[e][u] # NoVote})
         \/ /\ u \notin users
            /\ Finish(w)
  /\ UNCHANGED db

(* Mutant of StartRecompute: it joins the votes, as the backfill of 0003   *)
(* does, and so passes over the episodes that have none left.              *)
StartRecomputeOfVoted(w) ==
  /\ tx[w].pc = "idle"
  /\ tx' = [tx EXCEPT ![w] = [Idle EXCEPT
                !.pc = "open", !.req = Recompute, !.seen = vote,
                !.todo = {e \in episodes : vote[e] # NoVotes}]]
  /\ UNCHANGED db

(* recompute_all_scores: one statement, so one snapshot of every vote.     *)
StartRecompute(w) ==
  /\ tx[w].pc = "idle"
  /\ tx' = [tx EXCEPT ![w] = [Idle EXCEPT !.pc = "open", !.req = Recompute,
                                          !.todo = episodes, !.seen = vote]]
  /\ UNCHANGED db

(* The next score row to refresh.  A trigger counts it now; the job counts *)
(* nothing again.                                                          *)
Recount(w, e) ==
  /\ InTx(w)
  /\ tx[w].claim = {}
  /\ e \in tx[w].todo
  /\ tx' = [tx EXCEPT ![w].claim = {e},
                      ![w].seen[e] = IF w \in Jobs THEN @ ELSE View(w, e)]
  /\ UNCHANGED db

(* INSERT ... ON CONFLICT DO UPDATE of the score row, once its lock is     *)
(* free: the values written are those counted before the wait.             *)
WriteScore(w) ==
  /\ InTx(w)
  /\ \E e \in tx[w].claim :
       /\ ~ScoreLocked(w, e)
       /\ tx' = [tx EXCEPT ![w].claim = {},
                           ![w].todo = @ \ {e},
                           ![w].written = @ \cup {e}]
  /\ UNCHANGED db

(* Mutant of ReferencesHold: episode_score references nothing.             *)
NoReferences(w) == TRUE

(* The foreign key of the score rows w has written.                        *)
ReferencesHold(w) == tx[w].written \subseteq episodes

(* The transaction takes effect.  A job that counted an episode deleted    *)
(* since then violates the score row's foreign key and is rolled back.     *)
(*                                                                         *)
(* History: a vote transaction that commits is missed by every transaction *)
(* that has already counted its episode; raced[e] says that the last       *)
(* writer of score[e] had missed one.                                      *)
Commit(w) ==
  /\ InTx(w)
  /\ tx[w].todo = {}
  /\ \/ /\ ReferencesHold(w)
        /\ vote' = [e \in Episodes |-> View(w, e)]
        /\ users' = IF tx[w].req.op = "erase" THEN users \ {tx[w].req.user}
                                              ELSE users
        /\ score' = [e \in Episodes |->
                       IF e \in tx[w].written THEN Tally(tx[w].seen[e])
                                              ELSE score[e]]
        /\ raced' = [e \in Episodes |->
                       IF e \in tx[w].written THEN e \in tx[w].missed
                                              ELSE raced[e]]
        /\ tx' = [x \in Workers |->
                    IF x = w THEN Idle
                    ELSE IF WritesVote(w) /\ tx[w].req.ep \in Counted(x)
                    THEN [tx[x] EXCEPT !.missed = @ \cup {tx[w].req.ep}]
                    ELSE tx[x]]
        /\ UNCHANGED episodes
     \/ /\ ~ReferencesHold(w)
        /\ Finish(w)
        /\ UNCHANGED db

(* x waits for a score row y holds.                                        *)
WaitsFor(x, y) == x # y /\ tx[x].claim \cap tx[y].written # {}

(* Postgres aborts one transaction of a cycle of waiters.                  *)
DeadlockAbort(w) ==
  /\ \E S \in SUBSET Workers :
       /\ w \in S
       /\ \A x \in S : \E y \in S : WaitsFor(x, y)
       /\ \A y \in S : \E x \in S : WaitsFor(x, y)
  /\ Finish(w)
  /\ UNCHANGED db

(* A statement fails, or its connection or instance is lost, and what it   *)
(* did is rolled back.                                                     *)
Fail(w) ==
  /\ MayFail
  /\ tx[w].pc # "idle"
  /\ Finish(w)
  /\ UNCHANGED db

(* An import removes an episode nobody voted on (upsert_episodes; deleting *)
(* one with votes fails).  Its locks wait for vote transactions on the     *)
(* episode and for writers of its score row, which goes with it.           *)
DropEpisode(e) ==
  /\ e \in episodes
  /\ vote[e] = NoVotes
  /\ \A x \in Workers : /\ ~(InTx(x) /\ WritesVote(x) /\ tx[x].req.ep = e)
                        /\ e \notin tx[x].written
  /\ episodes' = episodes \ {e}
  /\ score' = [score EXCEPT ![e] = NoScore]
  /\ UNCHANGED <<users, vote, raced, tx>>

-----------------------------------------------------------------------------

(* What connection w does next for the request it serves.                  *)
Progress(w) ==
  \/ CheckEpisode(w) \/ PutVote(w) \/ DeleteVote(w) \/ DeleteUser(w)
  \/ \E e \in Episodes : Recount(w, e)
  \/ WriteScore(w)
  \/ Commit(w)
  \/ DeadlockAbort(w)

Next ==
  \/ \E w \in Handlers, r \in VoteRequests \cup EraseRequests : Authorize(w, r)
  \/ \E w \in Jobs : StartRecompute(w)
  \/ \E w \in Workers : Progress(w) \/ Fail(w)
  \/ \E e \in Episodes : DropEpisode(e)

Spec == Init /\ [][Next]_vars

(* A request once accepted is carried on: Tokio polls it, and Postgres     *)
(* grants a row lock to its waiters in turn, so no waiter is overtaken     *)
(* for ever (strong fairness).                                             *)
LiveSpec == Spec /\ \A w \in Workers : SF_vars(Progress(w))

(* The job is run again and again ("safe to run on a schedule",            *)
(* main.rs:321); the schedule itself is outside the repository.            *)
ScheduledSpec == LiveSpec /\ \A w \in Jobs : WF_vars(StartRecompute(w))

-----------------------------------------------------------------------------

Transactions ==
  [pc      : {"idle", "authorized", "checked", "open"},
   req     : VoteRequests \cup EraseRequests \cup {NoRequest, Recompute},
   todo    : SUBSET Episodes,
   claim   : SUBSET Episodes,
   written : SUBSET Episodes,
   seen    : [Episodes -> Views],
   missed  : SUBSET Episodes]

TypeOK ==
  /\ users \subseteq Users
  /\ episodes \subseteq Episodes
  /\ vote \in [Episodes -> Views]
  /\ score \in [Episodes -> Tallies]
  /\ tx \in [Workers -> Transactions]
  /\ raced \in [Episodes -> BOOLEAN]

(* The trigger and the job do their work but for one race: a tally that is *)
(* not the recount of the votes was written by a transaction that counted  *)
(* before, and wrote after, a vote transaction on that episode committed.  *)
(* So a vote, retraction, account deletion or recompute that overlaps no   *)
(* such commit always leaves its tallies exact, whatever drift it found.   *)
DriftNeedsRace ==
  \A e \in episodes : ~raced[e] => score[e] = Tally(vote[e])

(* Under every interleaving the votes behave as if requests were atomic:   *)
(* an account's votes outlive it unchanged (0005: they stay "so the        *)
(* community totals ... stay intact"), and only an account that exists     *)
(* votes, on an episode that exists - a vote request that races the        *)
(* deletion of its account or episode lands before it or not at all.       *)
Book == INSTANCE VoteBook WITH users <- users, episodes <- episodes, vote <- vote

ImplementsVoteBook == Book!Spec

(* A deleted episode leaves no vote and no tally behind, whichever request *)
(* or recompute was under way when the import deleted it.                  *)
DroppedLeavesNothing ==
  \A e \in Episodes \ episodes : vote[e] = NoVotes /\ score[e] = NoScore

(* 0003:43-45 and db.rs:988-991: the trigger keeps the tally current on    *)
(* every vote write, so a read right after a vote sees the fresh counts.   *)
TallyCurrent ==
  \A e \in episodes : score[e] = Tally(vote[e])

(* Every request and every recompute ends: no wait for a row lock is for   *)
(* ever, and Postgres breaks the cycles that account deletions and         *)
(* recomputes, which hold many score rows at once, can form.               *)
EveryRequestEnds ==
  \A w \in Workers : tx[w].pc # "idle" ~> tx[w].pc = "idle"

(* Once voting pauses for good, the scheduled recompute leaves every tally *)
(* exact, whatever drift had built up ("drift correction", db.rs:1012).    *)
HealedWhenQuiet ==
  <>[](\A w \in Handlers : tx[w].pc = "idle") => <>[]TallyCurrent

=============================================================================

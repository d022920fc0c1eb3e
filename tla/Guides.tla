-------------------------------- MODULE Guides --------------------------------
(***************************************************************************)
(* The skip guides people write for one show (api/src/guides.rs and its    *)
(* handlers): drafts and published guides, their entries, their likes, the *)
(* like_count kept by the guide_like_refresh trigger, and what the removal *)
(* of an account or of an episode takes with it.                           *)
(*                                                                         *)
(* As in VoteTally every statement is a READ COMMITTED transaction of its  *)
(* own - only create_guide and update_guide group theirs - and a like is   *)
(* inside Postgres a row write, a recount in a fresh snapshot, a wait for  *)
(* the lock on the guide's row, the write of the count made before the     *)
(* wait, and a commit.                                                     *)
(*                                                                         *)
(* Left out: the wording of titles and descriptions and the dispositions   *)
(* of the entries.  GuideInput::clean refuses some bodies before anything  *)
(* is changed; Inputs are bodies it accepts, with entries that name no     *)
(* episode twice.  A guide id is a UUID and never used again.              *)
(***************************************************************************)
EXTENDS Integers, FiniteSets

CONSTANTS
  Users,         \* accounts
  Episodes,      \* episodes of the show
  GuideIds,      \* ids of guides
  Unborn, Gone,  \* the state of a guide not yet created, or deleted
  Inputs,        \* the guides people submit
  Requests,      \* the requests they send, a subset of AllRequests
  Handlers,      \* connections that serve requests
  MAX_PUBLISHED_PER_SHOW

AllInputs == [title : STRING, published : BOOLEAN, entries : SUBSET Episodes]

AllRequests ==
  [op : {"create", "update"}, user : Users, guide : GuideIds, input : Inputs]
  \cup [op : {"delete", "like", "unlike"}, user : Users, guide : GuideIds]
  \cup [op : {"erase"}, user : Users]

Rows == [author : Users, title : {i.title : i \in Inputs}, published : BOOLEAN]

ASSUME InputsValid   == \A i \in Inputs : i \in AllInputs /\ i.entries # {}
ASSUME RequestsValid == Requests \subseteq AllRequests
ASSUME FiniteSizes   == /\ IsFiniteSet(Users) /\ IsFiniteSet(GuideIds)
                        /\ IsFiniteSet(Handlers)
ASSUME NoRowSentinels == Unborn \notin Rows /\ Gone \notin Rows /\ Unborn # Gone
ASSUME SomeHandler   == Handlers # {}
ASSUME CapIsNatural  == MAX_PUBLISHED_PER_SHOW \in Nat

VARIABLES
  users,      \* app_user
  episodes,   \* episode
  guide,      \* skip_guide: its author, title and is_published
  entries,    \* skip_guide_entry: the episodes each guide lists
  likes,      \* skip_guide_like: who likes each guide
  count,      \* skip_guide.like_count
  tx,         \* per connection, the request and its transaction
  raced       \* history, see Commit

db   == <<users, episodes, guide, entries, likes, count, raced>>
vars == <<users, episodes, guide, entries, likes, count, raced, tx>>

-----------------------------------------------------------------------------

NoRequest == [op |-> "none"]

Live == {g \in GuideIds : guide[g] \notin {Unborn, Gone}}

(* The guides that go with the account of u, drafts and published.         *)
Authored(u) == {g \in Live : guide[g].author = u}

Published(u) == {g \in Authored(u) : guide[g].published}

Idle ==
  [pc      |-> "idle",
   req     |-> NoRequest,
   dropped |-> {},     \* the guides it deletes
   todo    |-> {},     \* the guides whose like_count is still to be refreshed
   claim   |-> {},     \* the one being refreshed: counted, not yet written
   written |-> {},     \* counts written; their rows are locked
   seen    |-> [g \in GuideIds |-> {}],   \* the likes it counted
   missed  |-> {}]     \* history, see Commit

InTx(w) == tx[w].pc = "open"

Doing(w, op, g) == tx[w].req.op = op /\ tx[w].req.guide = g

(* The likes of g in a fresh snapshot of w's transaction.                  *)
View(w, g) ==
  IF ~InTx(w) THEN likes[g]
  ELSE IF Doing(w, "like", g) THEN likes[g] \cup {tx[w].req.user}
  ELSE IF Doing(w, "unlike", g) \/ tx[w].req.op = "erase"
  THEN likes[g] \ {tx[w].req.user}
  ELSE likes[g]

(* Another transaction deletes the account u.                              *)
Erasing(w, u) ==
  \E x \in Handlers \ {w} :
    tx[x].pc \in {"sweep", "open"} /\ tx[x].req = [op |-> "erase", user |-> u]

(* Another transaction has updated or deleted the row of g.                *)
RowLocked(w, g) ==
  \E x \in Handlers \ {w} :
    InTx(x) /\ (g \in tx[x].written \cup tx[x].dropped \/ Doing(x, "update", g))

(* Another transaction adds a like to g, which keeps g from being deleted. *)
BeingLiked(w, g) == \E x \in Handlers \ {w} : InTx(x) /\ Doing(x, "like", g)

(* Another transaction does op to the like of u on g.                      *)
LikeHeld(w, op, u, g) ==
  \E x \in Handlers \ {w} : InTx(x) /\ Doing(x, op, g) /\ tx[x].req.user = u

-----------------------------------------------------------------------------

Init ==
  /\ users = Users
  /\ episodes = Episodes
  /\ guide = [g \in GuideIds |-> Unborn]
  /\ entries = [g \in GuideIds |-> {}]
  /\ likes = [g \in GuideIds |-> {}]
  /\ count = [g \in GuideIds |-> 0]
  /\ tx = [w \in Handlers |-> Idle]
  /\ raced = [g \in GuideIds |-> FALSE]

Finish(w) == tx' = [tx EXCEPT ![w] = Idle]

Goto(w, pc) == tx' = [tx EXCEPT ![w].pc = pc]

(* The id a create request is to use is fresh; nobody else's requests name *)
(* a guide before it exists.                                               *)
Nameable(r) ==
  CASE r.op = "erase"  -> TRUE
    [] r.op = "create" -> /\ guide[r.guide] = Unborn
                          /\ \A x \in Handlers : ~Doing(x, "create", r.guide)
    [] OTHER           -> guide[r.guide] # Unborn

(* CurrentUser: the account exists.                                        *)
Authorize(w, r) ==
  /\ tx[w].pc = "idle"
  /\ r.user \in users
  /\ Nameable(r)
  /\ tx' = [tx EXCEPT ![w].req = r,
                      ![w].pc = IF r.op \in {"update", "delete", "like"}
                                THEN "authorized" ELSE "known"]
  /\ UNCHANGED db

(* guide_meta: update_guide and delete_guide are for the author;           *)
(* guide_must_be_visible hides other people's drafts from likes.           *)
ReadMeta(w) ==
  /\ tx[w].pc = "authorized"
  /\ LET r == tx[w].req
     IN  IF /\ r.guide \in Live
            /\ \/ guide[r.guide].author = r.user
               \/ r.op = "like" /\ guide[r.guide].published
         THEN Goto(w, "known")
         ELSE Finish(w)
  /\ UNCHANGED db

(* validate_entries: each listed episode exists.                           *)
ValidateEntries(w) ==
  /\ tx[w].pc = "known"
  /\ tx[w].req.op \in {"create", "update"}
  /\ IF tx[w].req.input.entries \subseteq episodes
     THEN Goto(w, "valid")
     ELSE Finish(w)
  /\ UNCHANGED db

(* Mutant of CheckCap: one more than the cap passes.                       *)
CheckCapOffByOne(w) ==
  /\ tx[w].pc = "valid"
  /\ LET r == tx[w].req
     IN  IF r.input.published /\
              Cardinality(Published(r.user) \ {r.guide}) > MAX_PUBLISHED_PER_SHOW
         THEN Finish(w)
         ELSE Goto(w, "capped")
  /\ UNCHANGED db

(* count_published: the author's other published guides.  (A guide that is *)
(* being created is not among them yet.)                                   *)
CheckCap(w) ==
  /\ tx[w].pc = "valid"
  /\ LET r == tx[w].req
     IN  IF r.input.published /\
              Cardinality(Published(r.user) \ {r.guide}) >= MAX_PUBLISHED_PER_SHOW
         THEN Finish(w)
         ELSE Goto(w, "capped")
  /\ UNCHANGED db

(* Mutant of InsertGuide: the author is no foreign key.                    *)
InsertGuideOfAnyone(w) ==
  /\ tx[w].pc = "capped"
  /\ tx[w].req.op = "create"
  /\ LET r == tx[w].req
     IN  IF r.input.entries \subseteq episodes
         THEN /\ guide' = [guide EXCEPT ![r.guide] =
                             [author |-> r.user, title |-> r.input.title,
                              published |-> r.input.published]]
              /\ entries' = [entries EXCEPT ![r.guide] = r.input.entries]
         ELSE UNCHANGED <<guide, entries>>
  /\ Finish(w)
  /\ UNCHANGED <<users, episodes, likes, count, raced>>

(* create_guide's transaction.  Its foreign keys refuse an account or an   *)
(* episode deleted since they were checked.                                *)
InsertGuide(w) ==
  /\ tx[w].pc = "capped"
  /\ tx[w].req.op = "create"
  /\ LET r == tx[w].req
     IN  /\ ~Erasing(w, r.user)
         /\ IF r.user \in users /\ r.input.entries \subseteq episodes
            THEN /\ guide' = [guide EXCEPT ![r.guide] =
                                [author |-> r.user, title |-> r.input.title,
                                 published |-> r.input.published]]
                 /\ entries' = [entries EXCEPT ![r.guide] = r.input.entries]
            ELSE UNCHANGED <<guide, entries>>
  /\ Finish(w)
  /\ UNCHANGED <<users, episodes, likes, count, raced>>

(* update_guide's UPDATE.  If the guide is gone it updates nothing, and    *)
(* the foreign key of the entries that follow ends the request.            *)
UpdateGuide(w) ==
  /\ tx[w].pc = "capped"
  /\ tx[w].req.op = "update"
  /\ ~RowLocked(w, tx[w].req.guide)
  /\ IF tx[w].req.guide \in Live THEN Goto(w, "open") ELSE Finish(w)
  /\ UNCHANGED db

(* delete_guide's DELETE; a guide that is gone by now is no error.         *)
DeleteGuide(w) ==
  /\ tx[w].pc = "known"
  /\ tx[w].req.op = "delete"
  /\ LET g == tx[w].req.guide
     IN  /\ ~RowLocked(w, g) /\ ~BeingLiked(w, g)
         /\ IF g \in Live
            THEN tx' = [tx EXCEPT ![w].pc = "open", ![w].dropped = {g}]
            ELSE Finish(w)
  /\ UNCHANGED db

(* like_guide's INSERT ... ON CONFLICT DO NOTHING.                         *)
InsertLike(w) ==
  /\ tx[w].pc = "known"
  /\ tx[w].req.op = "like"
  /\ LET u == tx[w].req.user
         g == tx[w].req.guide
     IN  /\ ~LikeHeld(w, "like", u, g) /\ ~LikeHeld(w, "unlike", u, g)
         /\ ~Erasing(w, u)
         /\ \A x \in Handlers \ {w} : g \notin tx[x].dropped
         /\ IF u \in users /\ g \in Live /\ u \notin likes[g]
            THEN tx' = [tx EXCEPT ![w].pc = "open", ![w].todo = {g}]
            ELSE Finish(w)
  /\ UNCHANGED db

(* Mutant of DeleteLike: the trigger is AFTER INSERT only.                 *)
DeleteLikeSilently(w) ==
  /\ tx[w].pc = "known"
  /\ tx[w].req.op = "unlike"
  /\ LET u == tx[w].req.user
         g == tx[w].req.guide
     IN  IF u \in likes[g]
         THEN /\ ~LikeHeld(w, "unlike", u, g) /\ ~Erasing(w, u)
              /\ Goto(w, "open")
         ELSE Finish(w)
  /\ UNCHANGED db

(* unlike_guide's DELETE, which anyone may try on any guide.               *)
DeleteLike(w) ==
  /\ tx[w].pc = "known"
  /\ tx[w].req.op = "unlike"
  /\ LET u == tx[w].req.user
         g == tx[w].req.guide
     IN  IF u \in likes[g]
         THEN /\ ~LikeHeld(w, "unlike", u, g) /\ ~Erasing(w, u)
              /\ tx' = [tx EXCEPT ![w].pc = "open", ![w].todo = {g}]
         ELSE Finish(w)
  /\ UNCHANGED db

(* delete_user locks the account, which a like being added still shares.   *)
EraseAccount(w) ==
  /\ tx[w].pc = "known"
  /\ tx[w].req.op = "erase"
  /\ LET u == tx[w].req.user
     IN  /\ ~Erasing(w, u)
         /\ \A g \in GuideIds : ~LikeHeld(w, "like", u, g)
         /\ IF u \in users THEN Goto(w, "sweep") ELSE Finish(w)
  /\ UNCHANGED db

(* Its cascades delete the likes the account gave and the guides it wrote, *)
(* waiting for the locks on them; the likes it gave to the guides of       *)
(* others are then recounted.                                              *)
Sweep(w) ==
  /\ tx[w].pc = "sweep"
  /\ LET u == tx[w].req.user
     IN  /\ \A g \in GuideIds : ~LikeHeld(w, "unlike", u, g)
         /\ \A g \in Authored(u) : ~RowLocked(w, g) /\ ~BeingLiked(w, g)
         /\ tx' = [tx EXCEPT
              ![w].pc = "open",
              ![w].dropped = Authored(u),
              ![w].todo = {g \in Live \ Authored(u) : u \in likes[g]}]
  /\ UNCHANGED db

(* refresh_guide_like_count counts ...                                     *)
Recount(w, g) ==
  /\ InTx(w)
  /\ tx[w].claim = {}
  /\ g \in tx[w].todo
  /\ tx' = [tx EXCEPT ![w].claim = {g}, ![w].seen[g] = View(w, g)]
  /\ UNCHANGED db

(* ... and then updates the row, once its lock is free: re-checking a row  *)
(* that changed meanwhile does not run the subquery again.                 *)
WriteCount(w) ==
  /\ InTx(w)
  /\ \E g \in tx[w].claim :
       /\ ~RowLocked(w, g)
       /\ tx' = [tx EXCEPT ![w].claim = {},
                           ![w].todo = @ \ {g},
                           ![w].written = @ \cup {g}]
  /\ UNCHANGED db

(* Mutant of NewEntries: write_entries does not delete the old ones.       *)
NewEntriesAdded(w, g) ==
  IF g \in tx[w].dropped THEN {}
  ELSE IF Doing(w, "update", g) THEN entries[g] \cup tx[w].req.input.entries
  ELSE entries[g]

(* The episodes guide g lists once w commits.                              *)
NewEntries(w, g) ==
  IF g \in tx[w].dropped THEN {}
  ELSE IF Doing(w, "update", g) THEN tx[w].req.input.entries
  ELSE entries[g]

NewRow(w, g) ==
  IF g \in tx[w].dropped THEN Gone
  ELSE IF Doing(w, "update", g)
  THEN [guide[g] EXCEPT !.title = tx[w].req.input.title,
                        !.published = tx[w].req.input.published]
  ELSE guide[g]

(* The foreign key of the entries an update inserts, which it does last.   *)
ReferencesHold(w) ==
  tx[w].req.op = "update" => tx[w].req.input.entries \subseteq episodes

(* The transaction takes effect.  The cascade of a deleted guide waits for *)
(* transactions that have deleted one of its likes.                        *)
(*                                                                         *)
(* History: a like, unlike or erase that commits is missed by those that   *)
(* have already counted a guide it changed; raced[g] says that the last    *)
(* writer of count[g] had missed one.                                      *)
Commit(w) ==
  /\ InTx(w)
  /\ tx[w].todo = {}
  /\ \A x \in Handlers \ {w} :
       tx[w].dropped \cap (tx[x].todo \cup tx[x].written) = {}
  /\ IF ReferencesHold(w)
     THEN /\ guide' = [g \in GuideIds |-> NewRow(w, g)]
          /\ entries' = [g \in GuideIds |-> NewEntries(w, g)]
          /\ likes' = [g \in GuideIds |-> IF g \in tx[w].dropped THEN {}
                                          ELSE View(w, g)]
          /\ count' = [g \in GuideIds |->
                         IF g \in tx[w].dropped THEN 0
                         ELSE IF g \in tx[w].written
                         THEN Cardinality(tx[w].seen[g]) ELSE count[g]]
          /\ raced' = [g \in GuideIds |->
                         IF g \in tx[w].written THEN g \in tx[w].missed
                         ELSE raced[g] /\ g \notin tx[w].dropped]
          /\ users' = IF tx[w].req.op = "erase" THEN users \ {tx[w].req.user}
                                                ELSE users
          /\ tx' = [x \in Handlers |->
                      IF x = w THEN Idle
                      ELSE [tx[x] EXCEPT !.missed = @ \cup
                              (tx[w].written \cap (tx[x].claim \cup tx[x].written))]]
     ELSE Finish(w) /\ UNCHANGED <<guide, entries, likes, count, raced, users>>
  /\ UNCHANGED episodes

(* A statement fails - Postgres also aborts one of a cycle of waiting      *)
(* transactions - or the connection or the instance is lost.               *)
Fail(w) ==
  /\ tx[w].pc # "idle"
  /\ Finish(w)
  /\ UNCHANGED db

(* An import deletes an episode, and with it the entries that list it.     *)
DropEpisode(e) ==
  /\ e \in episodes
  /\ episodes' = episodes \ {e}
  /\ entries' = [g \in GuideIds |-> entries[g] \ {e}]
  /\ UNCHANGED <<users, guide, likes, count, raced, tx>>

Progress(w) ==
  \/ ReadMeta(w) \/ ValidateEntries(w) \/ CheckCap(w)
  \/ InsertGuide(w) \/ UpdateGuide(w) \/ DeleteGuide(w)
  \/ InsertLike(w) \/ DeleteLike(w)
  \/ EraseAccount(w) \/ Sweep(w)
  \/ \E g \in GuideIds : Recount(w, g)
  \/ WriteCount(w)
  \/ Commit(w)

Next ==
  \/ \E w \in Handlers, r \in Requests : Authorize(w, r)
  \/ \E w \in Handlers : Progress(w) \/ Fail(w)
  \/ \E e \in Episodes : DropEpisode(e)

Spec == Init /\ [][Next]_vars

-----------------------------------------------------------------------------

Transactions ==
  [pc      : {"idle", "authorized", "known", "valid", "capped", "sweep", "open"},
   req     : AllRequests \cup {NoRequest},
   dropped : SUBSET GuideIds,
   todo    : SUBSET GuideIds,
   claim   : SUBSET GuideIds,
   written : SUBSET GuideIds,
   seen    : [GuideIds -> SUBSET Users],
   missed  : SUBSET GuideIds]

TypeOK ==
  /\ users \subseteq Users
  /\ episodes \subseteq Episodes
  /\ guide \in [GuideIds -> Rows \cup {Unborn, Gone}]
  /\ entries \in [GuideIds -> SUBSET Episodes]
  /\ likes \in [GuideIds -> SUBSET Users]
  /\ count \in [GuideIds -> Nat]
  /\ tx \in [Handlers -> Transactions]
  /\ raced \in [GuideIds -> BOOLEAN]

(* like_count is "kept current by a trigger" (0007:16) but for one race:   *)
(* where it is not the number of likes, its last writer had counted before *)
(* and wrote after another like, unlike or account deletion committed.     *)
LikesNeedRace ==
  \A g \in Live : ~raced[g] => count[g] = Cardinality(likes[g])

(* However edits, imports and deletions interleave, a guide is one of the  *)
(* submitted guides as a whole - title, visibility and entries of the same *)
(* request - less only the episodes deleted since.                         *)
GuideIsWhole ==
  \A g \in Live : \E i \in Inputs :
    /\ guide[g].title = i.title
    /\ guide[g].published = i.published
    /\ entries[g] = i.entries \cap episodes

(* "Guides are titled, personal content, so they're removed with the       *)
(* account" (0008): an account that is gone leaves no guide and no like,   *)
(* and a guide that is gone no entry and no like - not even those of       *)
(* requests that were under way.                                           *)
NothingDangles ==
  \A g \in GuideIds :
    IF g \in Live THEN guide[g].author \in users /\ likes[g] \subseteq users
    ELSE entries[g] = {} /\ likes[g] = {}

(* The cap on published guides is "enforced best-effort rather than under  *)
(* a lock" (guides.rs:186): an author who races himself exceeds it, but by *)
(* less than the number of requests served at a time.                      *)
CapOvershoot ==
  \A u \in Users :
    Cardinality(Published(u)) < MAX_PUBLISHED_PER_SHOW + Cardinality(Handlers)

=============================================================================

---------------------------- MODULE CatalogImport ----------------------------
(***************************************************************************)
(* One show's catalog: TMDB's, which changes under us, and the cached copy *)
(* in the episode table, which first imports, background refreshes and     *)
(* refresh-catalog rewrite while people vote on its rows.                  *)
(*                                                                         *)
(* An episode is known by its tmdb_id.  It sits in a slot <<season,        *)
(* number>>, or is Absent from the catalog.  An import fetches TMDB page   *)
(* by page, without a lock, and only then writes, in one transaction: the  *)
(* upsert of the show row comes first and locks it, so at most one import  *)
(* of the show writes at a time; the episodes follow season by season.     *)
(*                                                                         *)
(* A row that is deleted takes its votes with it by cascade.  But then the *)
(* vote trigger, which Postgres fires after every cascade of the           *)
(* statement, upserts a score row for an episode that is gone: a foreign-  *)
(* key violation, which rolls the whole import back.                       *)
(***************************************************************************)
EXTENDS Integers, FiniteSets

CONSTANTS
  Ids,        \* tmdb_ids of the show's episodes
  Slots,      \* <<season, number>> pairs
  Absent,     \* no slot
  Votable,    \* the episodes people may vote on
  Viewers,    \* server tasks that import or refresh the show when it is viewed
  Operators,  \* refresh-catalog tasks
  Ratings,    \* whether TMDB gives the show a rating: a subset of BOOLEAN
  MayRemove,  \* whether TMDB may drop an episode from its list
  MayFail     \* whether a TMDB call or a statement may fail

ASSUME SlotsArePairs  == Slots \subseteq Nat \X Nat /\ Absent \notin Slots
ASSUME FiniteCatalog  == IsFiniteSet(Ids)
ASSUME VotableIds     == Votable \subseteq Ids
ASSUME RatingsBoolean == Ratings \subseteq BOOLEAN
ASSUME FlagsBoolean   == MayRemove \in BOOLEAN /\ MayFail \in BOOLEAN

Workers == Viewers \cup Operators

VARIABLES
  tmdb,    \* TMDB's list: the slot of each episode, or Absent
  shown,   \* the show row exists
  rated,   \* ... and has a TMDB rating; without one the show is "cold"
  fresh,   \* last_synced_at is within the TTL
  rows,    \* the episode table: the slot of each row, or Absent
  voted,   \* the episodes whose row has votes
  task     \* per worker, the import it runs

vars == <<tmdb, shown, rated, fresh, rows, voted, task>>

-----------------------------------------------------------------------------

Seasons == {slot[1] : slot \in Slots}

Catalogs == [Ids -> Slots \cup {Absent}]

Held(c) == {i \in Ids : c[i] # Absent}

(* No two episodes share a slot: UNIQUE (show_id, season, number).         *)
SlotsUnique(c) == \A i, j \in Held(c) : c[i] = c[j] => i = j

InSeason(c, s) == {i \in Held(c) : c[i][1] = s}

(* A season page as TMDB serves it: its episodes with their slots.         *)
Page(c, s) == {<<i, c[i]>> : i \in InSeason(c, s)}

Counts == [Seasons -> Nat]
NoCounts == [s \in Seasons |-> 0]

CountsOf(c) == [s \in Seasons |-> Cardinality(InSeason(c, s))]

Empty == [i \in Ids |-> Absent]

Idle ==
  [pc     |-> "idle",
   full   |-> FALSE,     \* every season, not only those that have grown
   rating |-> FALSE,     \* the show has a rating in the fetched detail
   counts |-> NoCounts,  \* the season list of that detail
   todo   |-> {},        \* seasons still to be fetched, then to be written
   got    |-> {},        \* the episodes of the fetched pages
   work   |-> Empty,     \* the episode table as its transaction sees it
   gone   |-> {}]        \* the rows its transaction has deleted

(* The seasons and the episodes an import has fetched.                     *)
GotSeasons(w) == {p[2][1] : p \in task[w].got}
GotIds(w)     == {p[1] : p \in task[w].got}

Writing(w) == task[w].pc = "write"

(* The slots an import has fetched for episode i: two if TMDB moved it     *)
(* from one season to another between the two fetches.                     *)
GotSlots(w, i) == {p[2] : p \in {q \in task[w].got : q[1] = i}}

-----------------------------------------------------------------------------
(* TMDB and the voters.                                                    *)

(* A catalog of our own may predate the rating fields: shown, but cold.    *)
Init ==
  /\ tmdb \in Catalogs /\ SlotsUnique(tmdb)
  /\ shown \in BOOLEAN
  /\ rated = FALSE
  /\ fresh = shown
  /\ rows = IF shown THEN tmdb ELSE Empty
  /\ voted = {}
  /\ task = [w \in Workers |-> Idle]

(* TMDB edits its list: it adds, renumbers, moves, replaces or - only if   *)
(* MayRemove - drops episodes, one or several at once.                     *)
Edit ==
  /\ \E c \in Catalogs :
       /\ c # tmdb
       /\ SlotsUnique(c)
       /\ Held(tmdb) \subseteq Held(c) \/ MayRemove
       /\ tmdb' = c
  /\ UNCHANGED <<shown, rated, fresh, rows, voted, task>>

(* A vote needs its row, and waits for a transaction that has deleted it.  *)
Vote(i) ==
  /\ i \in Votable
  /\ rows[i] # Absent
  /\ \A w \in Workers : i \notin task[w].gone
  /\ voted' = voted \cup {i}
  /\ UNCHANGED <<tmdb, shown, rated, fresh, rows, task>>

(* The last vote on i is retracted.                                        *)
Unvote(i) ==
  /\ voted' = voted \ {i}
  /\ UNCHANGED <<tmdb, shown, rated, fresh, rows, task>>

(* The TTL runs out.                                                       *)
Expire ==
  /\ shown
  /\ fresh' = FALSE
  /\ UNCHANGED <<tmdb, shown, rated, rows, voted, task>>

-----------------------------------------------------------------------------
(* What starts an import.                                                  *)

Start(w, full) ==
  task' = [task EXCEPT ![w] = [Idle EXCEPT !.pc = "detail", !.full = full]]

(* ensure_show_imported: the first view of a show imports it.              *)
FirstView(w) ==
  /\ task[w].pc = "idle"
  /\ ~shown
  /\ Start(w, TRUE)
  /\ UNCHANGED <<tmdb, shown, rated, fresh, rows, voted>>

(* claim_show_refresh: a view of a show that is cold, or older than its    *)
(* TTL, marks it synced and refreshes it - in full if it is cold.          *)
Claim(w) ==
  /\ task[w].pc = "idle"
  /\ shown
  /\ ~rated \/ ~fresh
  /\ fresh' = TRUE
  /\ Start(w, ~rated)
  /\ UNCHANGED <<tmdb, shown, rated, rows, voted>>

(* refresh-catalog imports every known show in full, without a claim.      *)
RefreshCatalog(w) ==
  /\ task[w].pc = "idle"
  /\ shown
  /\ Start(w, TRUE)
  /\ UNCHANGED <<tmdb, shown, rated, fresh, rows, voted>>

-----------------------------------------------------------------------------
(* The import itself.                                                      *)

(* The series detail: its rating and its season list.                      *)
FetchDetail(w) ==
  /\ task[w].pc = "detail"
  /\ \E r \in Ratings :
       task' = [task EXCEPT
         ![w].pc = IF task[w].full THEN "fetch" ELSE "plan",
         ![w].rating = r,
         ![w].counts = IF task[w].full THEN NoCounts ELSE CountsOf(tmdb),
         ![w].todo = IF task[w].full
                     THEN {s \in Seasons : InSeason(tmdb, s) # {}} ELSE {}]
  /\ UNCHANGED <<tmdb, shown, rated, fresh, rows, voted>>

(* Mutant of Plan: it compares the counts the wrong way round.             *)
PlanShrunk(w) ==
  /\ task[w].pc = "plan"
  /\ task' = [task EXCEPT
       ![w].pc = "fetch",
       ![w].counts = NoCounts,
       ![w].todo = {s \in Seasons : task[w].counts[s] < CountsOf(rows)[s]}]
  /\ UNCHANGED <<tmdb, shown, rated, fresh, rows, voted>>

(* refresh_show fetches only the seasons with more episodes than we hold.  *)
Plan(w) ==
  /\ task[w].pc = "plan"
  /\ task' = [task EXCEPT
       ![w].pc = "fetch",
       ![w].counts = NoCounts,
       ![w].todo = {s \in Seasons : CountsOf(rows)[s] < task[w].counts[s]}]
  /\ UNCHANGED <<tmdb, shown, rated, fresh, rows, voted>>

FetchSeason(w, s) ==
  /\ task[w].pc = "fetch"
  /\ s \in task[w].todo
  /\ task' = [task EXCEPT ![w].todo = @ \ {s},
                          ![w].got = @ \cup Page(tmdb, s)]
  /\ UNCHANGED <<tmdb, shown, rated, fresh, rows, voted>>

(* BEGIN, and upsert_show takes the lock on the show row.                  *)
Begin(w) ==
  /\ task[w].pc = "fetch"
  /\ task[w].todo = {}
  /\ \A x \in Workers : ~Writing(x)
  /\ task' = [task EXCEPT ![w].pc = "write",
                          ![w].todo = GotSeasons(w),
                          ![w].work = rows]
  /\ UNCHANGED <<tmdb, shown, rated, fresh, rows, voted>>

(* Mutants of Displaced: the stale rows are left to the upsert; a row is   *)
(* deleted although its own episode is incoming, in another slot.          *)
DisplacedNone(w, incoming) == {}

DisplacedIncoming(w, incoming) ==
  {i \in Held(task[w].work) : \E p \in incoming : p[2] = task[w].work[i] /\ p[1] # i}

(* The rows that hold a slot another incoming episode claims, and are not  *)
(* incoming themselves: upsert_episodes deletes them first.                *)
Displaced(w, incoming) ==
  { i \in Held(task[w].work) :
      /\ \E p \in incoming : p[2] = task[w].work[i] /\ p[1] # i
      /\ \A p \in incoming : p[1] # i }

(* Mutant of Upserted: ON CONFLICT DO NOTHING.                             *)
UpsertedNewOnly(w, incoming, displaced) ==
  [i \in Ids |->
     IF task[w].work[i] = Absent /\ \E p \in incoming : p[1] = i
     THEN (CHOOSE p \in incoming : p[1] = i)[2]
     ELSE IF i \in displaced THEN Absent ELSE task[w].work[i]]

(* Then it inserts the incoming episodes, or moves the rows they have.     *)
Upserted(w, incoming, displaced) ==
  [i \in Ids |->
     IF \E p \in incoming : p[1] = i
     THEN (CHOOSE p \in incoming : p[1] = i)[2]
     ELSE IF i \in displaced THEN Absent ELSE task[w].work[i]]

(* The end of an import, successful or not.                                *)
Finish(w) == task' = [task EXCEPT ![w] = Idle]

(* Mutant of VotesForbid: the votes just go with the row.                  *)
VotesNeverForbid(displaced) == FALSE

(* The trigger on the deleted votes of a displaced row upserts its score   *)
(* row, whose foreign key no longer holds.                                 *)
VotesForbid(displaced) == displaced \cap voted # {}

(* upsert_episodes for one fetched season; if it cannot delete the rows it *)
(* displaces, the transaction is rolled back.                              *)
WriteSeason(w, s) ==
  /\ Writing(w)
  /\ s \in task[w].todo
  /\ LET incoming  == {p \in task[w].got : p[2][1] = s}
         displaced == Displaced(w, incoming)
     IN  IF ~VotesForbid(displaced)
         THEN task' = [task EXCEPT
                ![w].todo = @ \ {s},
                ![w].work = Upserted(w, incoming, displaced),
                ![w].gone = @ \cup displaced]
         ELSE Finish(w)
  /\ UNCHANGED <<tmdb, shown, rated, fresh, rows, voted>>

(* Mutant of Publish: ON CONFLICT DO UPDATE leaves the rating out.         *)
PublishKeepsRating(w) ==
  /\ rows' = task[w].work
  /\ shown' = TRUE
  /\ rated' = (rated \/ ~shown)
  /\ fresh' = TRUE

(* The show row upsert_show wrote, and the episodes.                       *)
Publish(w) ==
  /\ rows' = task[w].work
  /\ shown' = TRUE
  /\ rated' = task[w].rating
  /\ fresh' = TRUE

(* COMMIT, where the deferred slot constraint is checked.                  *)
Commit(w) ==
  /\ Writing(w)
  /\ task[w].todo = {}
  /\ Finish(w)
  /\ IF SlotsUnique(task[w].work)
     THEN Publish(w)
     ELSE UNCHANGED <<rows, shown, rated, fresh>>
  /\ UNCHANGED <<tmdb, voted>>

(* A TMDB call or a statement fails: nothing is written.                   *)
Fail(w) ==
  /\ MayFail
  /\ task[w].pc # "idle"
  /\ Finish(w)
  /\ UNCHANGED <<tmdb, shown, rated, fresh, rows, voted>>

Import(w) ==
  \/ FetchDetail(w) \/ Plan(w) \/ Begin(w) \/ Commit(w)
  \/ \E s \in Seasons : FetchSeason(w, s) \/ WriteSeason(w, s)

Next ==
  \/ Edit \/ Expire
  \/ \E i \in Ids : Vote(i) \/ Unvote(i)
  \/ \E w \in Viewers : FirstView(w) \/ Claim(w)
  \/ \E w \in Operators : RefreshCatalog(w)
  \/ \E w \in Workers : Import(w) \/ Fail(w)

Spec == Init /\ [][Next]_vars

(* Imports that run are carried on (Postgres grants the lock on the show   *)
(* row in turn), the show keeps being viewed, and time passes.             *)
LiveSpec ==
  /\ Spec
  /\ \A w \in Workers : SF_vars(Import(w))
  /\ \A w \in Viewers : WF_vars(FirstView(w)) /\ SF_vars(Claim(w))
  /\ WF_vars(Expire)

-----------------------------------------------------------------------------

Tasks ==
  [pc     : {"idle", "detail", "plan", "fetch", "write"},
   full   : BOOLEAN,
   rating : BOOLEAN,
   counts : Counts,
   todo   : SUBSET Seasons,
   got    : SUBSET (Ids \X Slots),
   work   : Catalogs,
   gone   : SUBSET Ids]

TypeOK ==
  /\ tmdb \in Catalogs
  /\ shown \in BOOLEAN /\ rated \in BOOLEAN /\ fresh \in BOOLEAN
  /\ rows \in Catalogs
  /\ voted \subseteq Ids
  /\ task \in [Workers -> Tasks]

(* The deferred slot constraint never refuses an import (0011: "the        *)
(* refresh succeeds without recreating rows"): whatever TMDB renumbered or *)
(* moved, also between the fetches of one import, and whatever the import  *)
(* before it wrote, no two rows end up in one slot.                        *)
SlotsSettle ==
  \A w \in Workers :
    Writing(w) /\ task[w].todo = {} => SlotsUnique(task[w].work)

(* What an import commits is what it fetched: each fetched episode has a   *)
(* row, in a slot TMDB gave for it, and a season written later takes no    *)
(* row away from one written before.                                       *)
FetchedIsWritten ==
  \A w \in Workers :
    Writing(w) /\ task[w].todo = {} =>
      \A i \in GotIds(w) : task[w].work[i] \in GotSlots(w, i)

(* No import destroys a vote (import.rs:157, "votes/scores are never       *)
(* touched here"), not even one cast while it is writing: an episode with  *)
(* votes keeps its row, in the table and in every transaction under way.   *)
VotedKeepRows ==
  \A i \in voted :
    /\ rows[i] # Absent
    /\ \A w \in Workers : Writing(w) => task[w].work[i] # Absent

(* Once TMDB settles, refreshing catches up: if it never drops an episode  *)
(* and no vote stands in the way, every episode it lists has a row in the  *)
(* end, although a refresh only looks at seasons that seem to have grown   *)
(* and an import may commit pages older than those already written.        *)
CatchesUp ==
  <>[][tmdb' = tmdb]_vars => <>[](Held(tmdb) \subseteq Held(rows))

(* "it self-heals on first view" (db.rs:94): a cold show that is viewed    *)
(* gets its rating.                                                        *)
ColdHeals == (shown /\ ~rated) ~> rated

(* "Rows are never recreated, so votes (which FK to the episode id)        *)
(* survive" (db.rs:419), as far as it goes: however TMDB renumbers the     *)
(* episodes of a season, each keeps its row; only an episode that changed  *)
(* season can lose its row to one season before another inserts it anew.   *)
RecreatedOnlyWhenMoved ==
  \A w \in Workers : Writing(w) =>
    \A i \in task[w].gone \cap GotIds(w) :
      rows[i] # Absent /\ \A slot \in GotSlots(w, i) : slot[1] # rows[i][1]

=============================================================================

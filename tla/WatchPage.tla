------------------------------ MODULE WatchPage ------------------------------
(***************************************************************************)
(* The watch progress of one signed-in viewer on a show page, from the     *)
(* browser to the table: ShowPage.tsx loads a season at a time and counts  *)
(* the episodes watched in the whole show, EpisodeRow.tsx toggles an       *)
(* episode before the server has agreed and takes it back on an error, and *)
(* put_watched and delete_watched write episode_watch.  To the page the    *)
(* viewer is signed in; the service may fail to see it.                    *)
(*                                                                         *)
(* A React component's state is gone once it is unmounted: starting a load *)
(* unmounts the rows, leaving the page unmounts ShowPage.  A request stays *)
(* under way all the same, and when it is answered it acts on what is then *)
(* left of the components it came from.                                    *)
(***************************************************************************)
EXTENDS Integers, FiniteSets

CONSTANTS
  Episodes, Seasons,
  SeasonOf,    \* the season of each episode
  FirstSeason, \* the one a show page opens with
  Toggles,     \* bound: PUTs and DELETEs under way at a time
  Loads,       \* bound: GETs of a season under way at a time
  MaxCount,    \* bound: the counter above which nothing more is marked
  None         \* a count that is not known, a row that is not on the page

ASSUME SeasonsValid   == SeasonOf \in [Episodes -> Seasons] /\ FirstSeason \in Seasons
ASSUME FiniteEpisodes == IsFiniteSet(Episodes)
ASSUME NoneIsNone     ==
  None \notin Nat \cup Episodes \cup Seasons \cup [watched : BOOLEAN, busy : BOOLEAN]

VARIABLES
  watch,     \* episode_watch: the episodes the viewer has watched
  page,      \* "shown", "error" or, having left it, "left"
  season,    \* the selected season
  rows,      \* the EpisodeRow of each episode
  count,     \* watchedCount
  load,      \* the GETs under way
  toggle,    \* the PUTs and DELETEs under way
  raced      \* history: the page may be out of step, see StartLoad

vars == <<watch, page, season, rows, count, load, toggle, raced>>

-----------------------------------------------------------------------------

NoRows == [e \in Episodes |-> None]

NoLoad ==
  [pc     |-> "idle",
   season |-> None,
   active |-> FALSE,     \* the page still waits for it
   seen   |-> {},        \* what it read: the watched episodes ...
   total  |-> None,   \* ... and how many they are in the whole show
   raced  |-> FALSE]     \* history, see StartLoad and ReadAnonymously

NoToggle ==
  [pc      |-> "idle",
   episode |-> None,
   next    |-> FALSE,      \* to be watched, or not
   owner   |-> "nobody"]   \* what it came from and is still mounted

InFlight == {k \in Toggles : toggle[k].pc # "idle"}

Init ==
  /\ watch = {}
  /\ page = "left"
  /\ season = FirstSeason
  /\ rows = NoRows
  /\ count = None
  /\ load = [l \in Loads |-> NoLoad]
  /\ toggle = [k \in Toggles |-> NoToggle]
  /\ raced = TRUE

(* What becomes of a load that the page no longer waits for: its answer    *)
(* will be ignored, whatever it says.                                      *)
Ignored(l) ==
  IF load[l].pc = "idle" THEN NoLoad
  ELSE [NoLoad EXCEPT !.pc = "answer", !.season = load[l].season]

(* The effect that loads season s, and drops what it was still loading.    *)
(*                                                                         *)
(* History: a load that starts while a toggle is under way may read the    *)
(* watched episodes before, or the page may count the toggle twice.  So    *)
(* the page is in step from the first load that is not raced like that,    *)
(* until the next that is, or until something it is not told of happens.   *)
StartLoad(l, s) ==
  /\ load[l].pc = "idle"
  /\ season' = s
  /\ rows' = NoRows
  /\ load' = [x \in Loads |->
                IF x = l THEN [NoLoad EXCEPT !.pc = "sent", !.season = s,
                                             !.active = TRUE,
                                             !.raced = InFlight # {}]
                ELSE Ignored(x)]
  /\ raced' = (raced \/ InFlight # {})

(* Toggles lose the row, or all of the page, they came from.               *)
Orphaned(k, owner) ==
  IF toggle[k].owner = "nobody" THEN toggle[k]
  ELSE [toggle[k] EXCEPT !.owner = owner]

Open(l) ==
  /\ page = "left"
  /\ page' = "shown"
  /\ StartLoad(l, FirstSeason)
  /\ count' = None
  /\ UNCHANGED <<watch, toggle>>

SelectSeason(l, s) ==
  /\ page = "shown"
  /\ s # season
  /\ StartLoad(l, s)
  /\ toggle' = [k \in Toggles |-> Orphaned(k, "page")]
  /\ UNCHANGED <<watch, page, count>>

(* The viewer goes elsewhere; also the only way out of the error message.  *)
Leave ==
  /\ page # "left"
  /\ page' = "left"
  /\ rows' = NoRows
  /\ load' = [l \in Loads |-> Ignored(l)]
  /\ toggle' = [k \in Toggles |-> Orphaned(k, "nobody")]
  /\ count' = None
  /\ raced' = TRUE
  /\ UNCHANGED <<watch, season>>

-----------------------------------------------------------------------------

(* get_show_episodes knows its reader.  It reads the episodes and the      *)
(* count side by side, on two connections; a count that cannot be read is  *)
(* left out of the answer.                                                 *)
ReadEpisodes(l) ==
  /\ load[l].pc \in {"sent", "counted"}
  /\ load' = [load EXCEPT ![l].seen = {e \in watch : SeasonOf[e] = load[l].season},
                          ![l].pc = IF @ = "sent" THEN "listed" ELSE "answer"]
  /\ UNCHANGED <<watch, page, season, rows, count, toggle, raced>>

ReadCount(l) ==
  /\ load[l].pc \in {"sent", "listed"}
  /\ \E n \in {Cardinality(watch), None} :
       load' = [load EXCEPT ![l].total = n,
                            ![l].pc = IF @ = "sent" THEN "counted" ELSE "answer"]
  /\ UNCHANGED <<watch, page, season, rows, count, toggle, raced>>

(* Or it does not: OptionalUser takes a session it cannot look up, or one  *)
(* that has ended, for no session.  Every row is unwatched and there is no *)
(* count, so the page keeps the one it has.  (What a cache on the way has  *)
(* kept for readers without a session looks the same.)                     *)
(*                                                                         *)
(* History: the page is out of step from this answer to the next load.     *)
ReadAnonymously(l) ==
  /\ load[l].pc = "sent"
  /\ load' = [load EXCEPT ![l].pc = "answer", ![l].seen = {}, ![l].total = None,
                          ![l].raced = TRUE]
  /\ UNCHANGED <<watch, page, season, rows, count, toggle, raced>>

RowsOf(s, seen) ==
  [e \in Episodes |-> IF SeasonOf[e] = s
                      THEN [watched |-> e \in seen, busy |-> FALSE]
                      ELSE None]

(* Mutant of Loaded: the answer is not checked for still being wanted.     *)
LoadedAlways(l) ==
  /\ load[l].pc = "answer"
  /\ rows' = RowsOf(load[l].season, load[l].seen)
  /\ count' = IF load[l].total # None THEN load[l].total ELSE count
  /\ raced' = (load[l].raced \/ (raced /\ load[l].total = None))
  /\ load' = [load EXCEPT ![l] = NoLoad]
  /\ UNCHANGED <<watch, page, season, toggle>>

(* The answer of the load the page waits for mounts the rows.              *)
Loaded(l) ==
  /\ load[l].pc = "answer"
  /\ IF load[l].active
     THEN /\ rows' = RowsOf(load[l].season, load[l].seen)
          /\ count' = IF load[l].total # None THEN load[l].total ELSE count
          /\ raced' = (load[l].raced \/ (raced /\ load[l].total = None))
     ELSE UNCHANGED <<rows, count, raced>>
  /\ load' = [load EXCEPT ![l] = NoLoad]
  /\ UNCHANGED <<watch, page, season, toggle>>

(* An error takes the place of the page.                                   *)
LoadFails(l) ==
  /\ load[l].active
  /\ page' = "error"
  /\ load' = [load EXCEPT ![l] = NoLoad]
  /\ UNCHANGED <<watch, season, rows, count, toggle, raced>>

-----------------------------------------------------------------------------

(* Mutant of Bumped: the counter may go below zero.                        *)
BumpedBelowZero(up) ==
  LET c == IF count = None THEN 0 ELSE count
  IN  IF up THEN c + 1 ELSE c - 1

(* The counter after onWatchedChange(1) or (-1).                           *)
Bumped(up) ==
  LET c == IF count = None THEN 0 ELSE count
  IN  IF up THEN c + 1 ELSE IF c = 0 THEN 0 ELSE c - 1

(* toggleWatched shows the change at once and sends it.                    *)
ToggleWatched(k, e) ==
  /\ toggle[k].pc = "idle"
  /\ rows[e] # None /\ ~rows[e].busy
  /\ LET next == ~rows[e].watched
     IN  /\ next /\ count # None => count < MaxCount
         /\ rows' = [rows EXCEPT ![e] = [watched |-> next, busy |-> TRUE]]
         /\ count' = Bumped(next)
         /\ toggle' = [toggle EXCEPT ![k] = [pc |-> "sent", episode |-> e,
                                             next |-> next, owner |-> "row"]]
  /\ UNCHANGED <<watch, page, season, load, raced>>

(* put_watched and delete_watched, both idempotent.                        *)
Write(k) ==
  /\ toggle[k].pc = "sent"
  /\ watch' = IF toggle[k].next THEN watch \cup {toggle[k].episode}
                                ELSE watch \ {toggle[k].episode}
  /\ toggle' = [toggle EXCEPT ![k].pc = "written"]
  /\ UNCHANGED <<page, season, rows, count, load, raced>>

(* The request is lost or refused, and nothing is written ...              *)
Refuse(k) ==
  /\ toggle[k].pc = "sent"
  /\ toggle' = [toggle EXCEPT ![k].pc = "failed"]
  /\ UNCHANGED <<watch, page, season, rows, count, load, raced>>

(* ... or it is only the answer that is lost, which looks the same.        *)
LoseAnswer(k) ==
  /\ toggle[k].pc = "written"
  /\ toggle' = [toggle EXCEPT ![k].pc = "failed"]
  /\ raced' = TRUE
  /\ load' = [l \in Loads |-> [load[l] EXCEPT !.raced = load[l].active]]
  /\ UNCHANGED <<watch, page, season, rows, count>>

(* toggleWatched resumes after an answer.                                  *)
Answered(k) ==
  /\ toggle[k].pc = "written"
  /\ rows' = IF toggle[k].owner = "row"
             THEN [rows EXCEPT ![toggle[k].episode].busy = FALSE] ELSE rows
  /\ toggle' = [toggle EXCEPT ![k] = NoToggle]
  /\ UNCHANGED <<watch, page, season, count, load, raced>>

(* Mutant of Revert: only the row is reverted.                             *)
RevertRowOnly(k) ==
  /\ toggle[k].pc = "failed"
  /\ rows' = IF toggle[k].owner = "row"
             THEN [rows EXCEPT ![toggle[k].episode] =
                     [watched |-> ~toggle[k].next, busy |-> FALSE]]
             ELSE rows
  /\ toggle' = [toggle EXCEPT ![k] = NoToggle]
  /\ UNCHANGED <<watch, page, season, load, raced, count>>

(* It takes the change back after an error: on the row if that is still    *)
(* mounted, and in the counter if the page is.                             *)
Revert(k) ==
  /\ toggle[k].pc = "failed"
  /\ rows' = IF toggle[k].owner = "row"
             THEN [rows EXCEPT ![toggle[k].episode] =
                     [watched |-> ~toggle[k].next, busy |-> FALSE]]
             ELSE rows
  /\ count' = IF toggle[k].owner # "nobody" THEN Bumped(~toggle[k].next)
                                            ELSE count
  /\ toggle' = [toggle EXCEPT ![k] = NoToggle]
  /\ UNCHANGED <<watch, page, season, load, raced>>

(* The viewer toggles the episode on another page or device.               *)
Elsewhere(e) ==
  /\ watch' = IF e \in watch THEN watch \ {e} ELSE watch \cup {e}
  /\ raced' = TRUE
  /\ load' = [l \in Loads |-> [load[l] EXCEPT !.raced = load[l].active]]
  /\ UNCHANGED <<page, season, rows, count, toggle>>

Load(l) ==
  \/ Open(l)
  \/ \E s \in Seasons : SelectSeason(l, s)
  \/ ReadEpisodes(l) \/ ReadCount(l) \/ ReadAnonymously(l)
  \/ Loaded(l) \/ LoadFails(l)

Toggle(k) ==
  \/ \E e \in Episodes : ToggleWatched(k, e)
  \/ Write(k) \/ Refuse(k) \/ LoseAnswer(k) \/ Answered(k) \/ Revert(k)

Next ==
  \/ \E l \in Loads : Load(l)
  \/ \E k \in Toggles : Toggle(k)
  \/ Leave
  \/ \E e \in Episodes : Elsewhere(e)

Spec == Init /\ [][Next]_vars

-----------------------------------------------------------------------------

(* The state has the declared shape; the counter is never negative.        *)
TypeOK ==
  /\ watch \subseteq Episodes
  /\ page \in {"shown", "error", "left"}
  /\ season \in Seasons
  /\ rows \in [Episodes -> [watched : BOOLEAN, busy : BOOLEAN] \cup {None}]
  /\ count \in Nat \cup {None}
  /\ load \in [Loads -> [pc : {"idle", "sent", "listed", "counted", "answer"},
                         season : Seasons \cup {None}, active : BOOLEAN,
                         seen : SUBSET Episodes, total : Nat \cup {None},
                         raced : BOOLEAN]]
  /\ toggle \in [Toggles -> [pc : {"idle", "sent", "written", "failed"},
                             episode : Episodes \cup {None}, next : BOOLEAN,
                             owner : {"row", "page", "nobody"}]]
  /\ raced \in BOOLEAN

(* What the server will have once the toggles under way have succeeded.    *)
Expected ==
  (watch \cup {toggle[k].episode : k \in {x \in InFlight : toggle[x].next}})
    \ {toggle[k].episode : k \in {x \in InFlight : ~toggle[x].next}}

(* The counter is to "stay in sync without refetching" (EpisodeRow.tsx:27): *)
(* it does, and each row does, through any toggles, failures, reverts and  *)
(* changes of season - but for a load that starts while a toggle is under  *)
(* way or that is answered as to somebody not signed in, an answer that is *)
(* lost, and changes made elsewhere, until a load with none of these.      *)
InStep ==
  page = "shown" /\ ~raced =>
    /\ count = Cardinality(Expected)
    /\ \A e \in Episodes :
         rows[e] # None => rows[e].watched = (e \in Expected)

(* The rows on the page are of the selected season, whichever order the    *)
(* answers of quick changes of season arrive in; and while a row is busy a *)
(* request of it is under way, so that it does not stay so.                *)
RowsBelong ==
  \A e \in Episodes :
    rows[e] # None =>
      /\ SeasonOf[e] = season
      /\ rows[e].busy =>
           \E k \in InFlight : toggle[k].episode = e /\ toggle[k].owner = "row"

=============================================================================

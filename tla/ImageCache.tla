------------------------------ MODULE ImageCache ------------------------------
(***************************************************************************)
(* The TMDB image proxy (img_proxy) and its table image_cache, with the    *)
(* housekeeping that rides on the list of popular shows: every read of     *)
(* that list spawns a task that pins the cached posters of the list it     *)
(* served, unpins all others, and prunes the rows that are unpinned and    *)
(* past their TTL - two statements, without a transaction, in step with no *)
(* other task of its kind.                                                 *)
(*                                                                         *)
(* Each of the two is a statement about many rows under READ COMMITTED.    *)
(* It finds its rows in a snapshot, passes over the others without a lock, *)
(* locks each row it found as it then is, looks at it again, and holds its *)
(* locks until it commits.  So it is two actions: the snapshot, and - as   *)
(* nobody else changes a row from its lock to the commit - the writes.     *)
(*                                                                         *)
(* A key is a pair <<size, file>>, and stands for what TMDB sends for it:  *)
(* its paths are content-unique, and that what it sends with status 200 is *)
(* the image is taken from it, as img_proxy does.  Which posters a list    *)
(* holds is up to the votes, the imports and the ?limit= of whoever asks:  *)
(* any set of files.                                                       *)
(***************************************************************************)
EXTENDS Naturals, FiniteSets

CONSTANTS
  IMAGE_SIZES,  \* the whitelist
  Files,        \* file names
  Keys,         \* what pages ask for: pairs of a size, listed or not, and a file
  Absent,       \* no row in the cache
  None,         \* nothing asked, nothing answered
  Error,        \* an error answer
  Proxies,      \* tasks that serve img_proxy
  Syncs         \* tasks that serve the popular list and sync the pins

ASSUME KeysNameFiles  == \A k \in Keys : k = <<k[1], k[2]>> /\ k[2] \in Files
ASSUME NoneIsNoKey    == None \notin Keys /\ Error \notin Keys /\ None # Error
ASSUME AbsentIsNoRow  ==
  Absent \notin [body : Keys, pinned : BOOLEAN, old : BOOLEAN]

VARIABLES
  cache,    \* image_cache: per key its row, or Absent
  proxy,    \* per proxy, its request and its last answer
  sync,     \* per sync task, its list and the rows its statement found
  spared    \* history: the keys that pins hold on to, see Pin

vars == <<cache, proxy, sync, spared>>

Cached == {k \in Keys : cache[k] # Absent}

-----------------------------------------------------------------------------

NoSync ==
  [pc    |-> "idle",
   files |-> {},    \* the posters of its list
   todo  |-> {},    \* the rows its statement is to write
   keep  |-> {}]    \* history: what its pins will hold on to, see Pin

Init ==
  /\ cache = [k \in Keys |-> Absent]
  /\ proxy = [p \in Proxies |-> [pc |-> "idle", key |-> None, reply |-> None]]
  /\ sync = [y \in Syncs |-> NoSync]
  /\ spared = {}

(* valid_image_request, of well-formed file names: a whitelisted size.     *)
ValidImageRequest(k) == k[1] \in IMAGE_SIZES

Answer(p, r) ==
  proxy' = [proxy EXCEPT ![p] = [pc |-> "idle", key |-> None, reply |-> r]]

Goto(p, pc) == proxy' = [proxy EXCEPT ![p].pc = pc]

(* A page asks for an image.                                               *)
Ask(p, k) ==
  /\ proxy[p].pc = "idle"
  /\ proxy' = [proxy EXCEPT ![p] = [pc |-> "asked", key |-> k, reply |-> None]]
  /\ UNCHANGED <<cache, sync, spared>>

(* Mutant of CacheKey: the cache is looked up by the file alone.           *)
CacheKeyOfAnySize(k) ==
  IF \E x \in Cached : x[2] = k[2] THEN CHOOSE x \in Cached : x[2] = k[2] ELSE k

(* The key of the row, "{size}/{file}".                                    *)
CacheKey(k) == k

(* The cache is read: a hit is served from it.  A miss, and just so a read *)
(* that fails, goes on to TMDB; a malformed request goes nowhere.          *)
Lookup(p) ==
  /\ proxy[p].pc = "asked"
  /\ LET k == proxy[p].key
     IN  \/ ~ValidImageRequest(k) /\ Answer(p, Error)
         \/ /\ ValidImageRequest(k) /\ CacheKey(k) \in Cached
            /\ Answer(p, cache[CacheKey(k)].body)
         \/ ValidImageRequest(k) /\ Goto(p, "fetch")
  /\ UNCHANGED <<cache, sync, spared>>

(* TMDB is asked, for ten seconds at most: it sends the image, or does not *)
(* have it, fails, takes too long, or sends more than five megabytes.      *)
Fetch(p) ==
  /\ proxy[p].pc = "fetch"
  /\ Goto(p, "store") \/ Answer(p, Error)
  /\ UNCHANGED <<cache, sync, spared>>

(* INSERT ... ON CONFLICT DO NOTHING: the first of two fetches wins.       *)
Stored(k) ==
  IF k \in Cached THEN UNCHANGED cache
  ELSE cache' = [cache EXCEPT ![k] = [body |-> k, pinned |-> FALSE, old |-> FALSE]]

(* The fetched image is stored, or not if the write fails, and served.     *)
Store(p) ==
  /\ proxy[p].pc = "store"
  /\ Stored(proxy[p].key) \/ UNCHANGED cache
  /\ Answer(p, proxy[p].key)
  /\ UNCHANGED <<sync, spared>>

-----------------------------------------------------------------------------

(* The posters of the most-voted shows, as many as are asked for: any set. *)
PopularFiles == SUBSET Files

(* list_popular_shows answers with some list and spawns its sync.          *)
ListPopularShows(y, files) ==
  /\ sync[y].pc = "idle"
  /\ sync' = [sync EXCEPT ![y].pc = "listed", ![y].files = files]
  /\ UNCHANGED <<cache, proxy, spared>>

(* Mutant of Pinned: what is pinned once stays so.                         *)
PinnedForGood(k, files) == cache[k].pinned \/ k[2] \in files

(* Every size of a listed file is pinned, everything else is not.          *)
Pinned(k, files) == k[2] \in files

(* Mutant of Mispinned: only what is to be unpinned is looked for.         *)
MispinnedAmongPinned(files) ==
  {k \in Cached : cache[k].pinned /\ ~Pinned(k, files)}

(* The rows of the first statement: "pinned IS DISTINCT FROM ...".         *)
Mispinned(files) == {k \in Cached : cache[k].pinned # Pinned(k, files)}

(* The first statement of sync_pinned_images takes its snapshot.  A row    *)
(* that is right by then is passed over, whatever becomes of it.           *)
FindMispinned(y) ==
  /\ sync[y].pc = "listed"
  /\ LET files == sync[y].files
     IN  sync' = [sync EXCEPT ![y].pc = "pin",
                              ![y].todo = Mispinned(files),
                              ![y].keep = {k \in Cached : k[2] \in files}]
  /\ UNCHANGED <<cache, proxy, spared>>

(* It writes the rows it found, those of them that are still there.        *)
(*                                                                         *)
(* History: its pins hold on to the rows of its list that were there when  *)
(* it took its snapshot, less those that pins which left them out have     *)
(* taken effect on since - until such pins do.                             *)
Pin(y) ==
  /\ sync[y].pc = "pin"
  /\ LET files == sync[y].files
     IN  /\ cache' = [k \in Keys |->
                        IF k \in sync[y].todo
                        THEN [cache[k] EXCEPT !.pinned = Pinned(k, files)]
                        ELSE cache[k]]
         /\ sync' = [x \in Syncs |->
                       IF x = y THEN [NoSync EXCEPT !.pc = "pinned"]
                       ELSE [sync[x] EXCEPT !.keep = {k \in @ : k[2] \in files}]]
         /\ spared' = {k \in spared : k[2] \in files} \cup sync[y].keep
  /\ UNCHANGED proxy

(* Unpinned and past its TTL.                                              *)
Expired(k) == ~cache[k].pinned /\ cache[k].old

(* The second statement takes its snapshot: whatever is unpinned by now    *)
(* and past its TTL is to be deleted, whichever task unpinned it ...       *)
FindExpired(y) ==
  /\ sync[y].pc = "pinned"
  /\ sync' = [sync EXCEPT ![y].pc = "prune",
                          ![y].todo = {k \in Cached : Expired(k)}]
  /\ UNCHANGED <<cache, proxy, spared>>

(* ... and is, unless a task has pinned it meanwhile.  A key that is       *)
(* stored anew is another row, which no statement under way has found.     *)
Prune(y) ==
  /\ sync[y].pc = "prune"
  /\ LET gone == {k \in sync[y].todo : Expired(k)}
     IN  /\ cache' = [k \in Keys |-> IF k \in gone THEN Absent ELSE cache[k]]
         /\ sync' = [x \in Syncs |->
                       IF x = y THEN NoSync
                       ELSE [sync[x] EXCEPT !.todo = @ \ gone, !.keep = @ \ gone]]
         /\ spared' = spared \ gone
  /\ UNCHANGED proxy

(* One of the two statements fails, at its start or later - Postgres also  *)
(* aborts one of two that wait for each other's rows: the task ends.       *)
SyncFails(y) ==
  /\ sync[y].pc \in {"pin", "prune"}
  /\ sync' = [sync EXCEPT ![y] = NoSync]
  /\ UNCHANGED <<cache, proxy, spared>>

(* A row passes IMAGE_CACHE_TTL_DAYS.                                      *)
Age(k) ==
  /\ k \in Cached
  /\ cache' = [cache EXCEPT ![k].old = TRUE]
  /\ UNCHANGED <<proxy, sync, spared>>

-----------------------------------------------------------------------------

Serve(p) == Lookup(p) \/ Fetch(p) \/ Store(p)

(* What a sync does that cannot fail by itself.                            *)
TakeUp(y) ==
  \/ \E files \in PopularFiles : ListPopularShows(y, files)
  \/ FindMispinned(y) \/ FindExpired(y)

Next ==
  \/ \E p \in Proxies : Serve(p) \/ \E k \in Keys : Ask(p, k)
  \/ \E y \in Syncs : TakeUp(y) \/ Pin(y) \/ Prune(y) \/ SyncFails(y)
  \/ \E k \in Keys : Age(k)

Spec == Init /\ [][Next]_vars

(* Time passes, the home page keeps being read and syncs are taken up; of  *)
(* the pin statements that are tried again and again one succeeds in the   *)
(* end, and so of the prunes.                                              *)
Fairness ==
  /\ \A k \in Keys : WF_vars(Age(k))
  /\ WF_vars(\E y \in Syncs : TakeUp(y))
  /\ SF_vars(\E y \in Syncs : Pin(y))
  /\ SF_vars(\E y \in Syncs : Prune(y))

LiveSpec == Spec /\ Fairness

-----------------------------------------------------------------------------

Rows == [body : Keys, pinned : BOOLEAN, old : BOOLEAN]

TypeOK ==
  /\ cache \in [Keys -> Rows \cup {Absent}]
  /\ proxy \in [Proxies -> [pc    : {"idle", "asked", "fetch", "store"},
                            key   : Keys \cup {None},
                            reply : Keys \cup {None, Error}]]
  /\ sync \in [Syncs -> [pc : {"idle", "listed", "pin", "pinned", "prune"},
                          files : SUBSET Files, todo : SUBSET Keys, keep : SUBSET Keys]]
  /\ spared \subseteq Keys

(* To a page the cache is invisible: every request is answered with the    *)
(* image of the very size and file it asked for, or with an error, however *)
(* double fetches, pins and prunes interleave ("a cached body can never go *)
(* stale", 0015; "the first write wins - the bodies are identical anyway", *)
(* db.rs:1072).                                                            *)
Source ==
  INSTANCE ImageSource WITH
    Valid <- {k \in Keys : k[1] \in IMAGE_SIZES},
    asked <- [p \in Proxies |-> proxy[p].key],
    reply <- [p \in Proxies |-> proxy[p].reply]

ImplementsImageSource == Source!Spec

(* What pruning may take ("a show that falls off the popular list loses    *)
(* its pin and ages out with the TTL", db.rs:1095): only a row past its    *)
(* TTL that no pins hold on to.  Once a sync has taken effect, a row of    *)
(* its list that was there when it took its snapshot is safe until the     *)
(* sync of a list without it takes effect - or has, since that snapshot.   *)
(* So what all overlapping lists name is never pruned, in whichever order  *)
(* their statements cross, fail and skip each other's rows.                *)
OnlyLeftOutPruned ==
  [][ \A k \in Keys :
        k \in Cached /\ cache'[k] = Absent => cache[k].old /\ k \notin spared ]_vars

(* The cache does not grow for ever ("doubles as the cache's housekeeping  *)
(* tick without needing a scheduler"): an image that no list names any     *)
(* more goes away, again and again if pages keep asking for it, although   *)
(* a sync may fail between its statements and lists cross.                 *)
LeftOutGoesAway ==
  \A k \in Keys :
    <>[](\A y \in Syncs : k[2] \notin sync[y].files) => []<>(k \notin Cached)

=============================================================================

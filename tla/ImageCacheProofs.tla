--------------------------- MODULE ImageCacheProofs ---------------------------
(***************************************************************************)
(* Proofs about ImageCache, for any sizes, files, requests and syncs: its  *)
(* types, what pruning may take, and that it implements ImageSource.       *)
(*                                                                         *)
(* The invariant: a row holds the image its key names; a statement under   *)
(* way has found rows that are there; a row that pins hold on to is there  *)
(* and pinned, and one that the pins under way will hold on to is pinned   *)
(* or about to be; and a request that went on to TMDB was well formed.     *)
(***************************************************************************)
EXTENDS ImageCache, TLAPS

RowsOK == \A k \in Keys : cache[k] # Absent => cache[k].body = k

SyncOK(y) ==
  /\ \A k \in sync[y].todo : cache[k] # Absent
  /\ \A k \in sync[y].keep :
       /\ sync[y].pc = "pin" /\ k[2] \in sync[y].files
       /\ cache[k] # Absent
       /\ cache[k].pinned \/ k \in sync[y].todo

PinsOK ==
  /\ \A k \in spared : cache[k] # Absent /\ cache[k].pinned
  /\ \A y \in Syncs : SyncOK(y)

RequestsOK ==
  \A p \in Proxies :
    /\ proxy[p].pc = "idle" <=> proxy[p].key = None
    /\ proxy[p].pc \in {"fetch", "store"} => ValidImageRequest(proxy[p].key)

IInv == TypeOK /\ RowsOK /\ PinsOK /\ RequestsOK

Requests ==
  [pc    : {"idle", "asked", "fetch", "store"},
   key   : Keys \cup {None},
   reply : Keys \cup {None, Error}]

SyncTasks ==
  [pc : {"idle", "listed", "pin", "pinned", "prune"},
   files : SUBSET Files, todo : SUBSET Keys, keep : SUBSET Keys]

-----------------------------------------------------------------------------

LEMMA NoSyncType == NoSync \in SyncTasks /\ NoSync.todo = {} /\ NoSync.keep = {}
BY DEF NoSync, SyncTasks

LEMMA InitIInv == Init => IInv
<1> SUFFICES ASSUME Init PROVE IInv
  OBVIOUS
<1>1. TypeOK
  BY NoSyncType DEF Init, TypeOK, SyncTasks
<1>2. RowsOK /\ RequestsOK
  BY DEF Init, RowsOK, RequestsOK
<1>3. PinsOK
  BY NoSyncType DEF Init, PinsOK, SyncOK
<1> QED
  BY <1>1, <1>2, <1>3 DEF IInv

(* A step of one request that leaves the table alone.                      *)
LEMMA RequestStep ==
  ASSUME IInv, NEW p \in Proxies, NEW r \in Requests,
         proxy' = [proxy EXCEPT ![p] = r],
         r.pc = "idle" <=> r.key = None,
         r.pc \in {"fetch", "store"} => ValidImageRequest(r.key),
         UNCHANGED <<sync, spared>>
  PROVE  /\ proxy' \in [Proxies -> Requests]
         /\ RequestsOK'
<1>1. proxy' \in [Proxies -> Requests]
  BY DEF IInv, TypeOK, Requests
<1>2. proxy'[p] = r /\ \A x \in Proxies \ {p} : proxy'[x] = proxy[x]
  BY DEF IInv, TypeOK
<1> QED
  BY <1>1, <1>2 DEF IInv, RequestsOK, ValidImageRequest

(* The three ways a request goes on.                                       *)
LEMMA AnswerStep ==
  ASSUME IInv, NEW p \in Proxies, NEW r \in Keys \cup {Error}, Answer(p, r),
         UNCHANGED <<sync, spared>>
  PROVE  proxy' \in [Proxies -> Requests] /\ RequestsOK'
<1> DEFINE q == [pc |-> "idle", key |-> None, reply |-> r]
<1>1. q \in Requests /\ q.pc = "idle" /\ q.key = None
  BY DEF Requests
<1>2. proxy' = [proxy EXCEPT ![p] = q]
  BY DEF Answer
<1> HIDE DEF q
<1> QED
  BY <1>1, <1>2, RequestStep

LEMMA GotoStep ==
  ASSUME IInv, NEW p \in Proxies, NEW pc \in {"fetch", "store"}, Goto(p, pc),
         proxy[p].pc # "idle", ValidImageRequest(proxy[p].key),
         UNCHANGED <<sync, spared>>
  PROVE  proxy' \in [Proxies -> Requests] /\ RequestsOK'
<1> DEFINE q == [proxy[p] EXCEPT !.pc = pc]
<1>1. proxy[p] \in Requests /\ proxy[p].key # None
  BY DEF IInv, TypeOK, Requests, RequestsOK
<1>2. q \in Requests /\ q.pc = pc /\ q.key = proxy[p].key
  BY <1>1 DEF Requests
<1>3. proxy' = [proxy EXCEPT ![p] = q]
  BY DEF Goto
<1> HIDE DEF q
<1> QED
  BY <1>1, <1>2, <1>3, RequestStep

(* What the syncs hold on to is a matter of the table and the syncs alone. *)
LEMMA SamePins ==
  ASSUME PinsOK, UNCHANGED <<cache, sync, spared>>
  PROVE  PinsOK'
BY DEF PinsOK, SyncOK

LEMMA ServeStep ==
  ASSUME IInv, NEW p \in Proxies, Serve(p)
  PROVE  IInv'
<1>1. CASE Lookup(p)
  <2>1. UNCHANGED <<cache, sync, spared>> /\ proxy[p].pc = "asked"
    BY <1>1 DEF Lookup
  <2>2. proxy[p].key \in Keys
    BY <2>1 DEF IInv, TypeOK, RequestsOK
  <2>3. CASE Answer(p, Error)
    BY <2>1, <2>3, AnswerStep, SamePins DEF IInv, TypeOK, RowsOK, Requests
  <2>4. CASE /\ CacheKey(proxy[p].key) \in Cached
             /\ Answer(p, cache[CacheKey(proxy[p].key)].body)
    <3>1. cache[CacheKey(proxy[p].key)].body \in Keys
      BY <2>2, <2>4 DEF CacheKey, Cached, IInv, RowsOK
    <3> QED
      BY <2>1, <2>4, <3>1, AnswerStep, SamePins DEF IInv, TypeOK, RowsOK, Requests
  <2>5. CASE ValidImageRequest(proxy[p].key) /\ Goto(p, "fetch")
    BY <2>1, <2>5, GotoStep, SamePins DEF IInv, TypeOK, RowsOK, Requests
  <2> QED
    BY <1>1, <2>3, <2>4, <2>5 DEF Lookup
<1>2. CASE Fetch(p)
  <2>1. UNCHANGED <<cache, sync, spared>> /\ proxy[p].pc = "fetch"
    BY <1>2 DEF Fetch
  <2>2. ValidImageRequest(proxy[p].key)
    BY <2>1 DEF IInv, RequestsOK
  <2>3. proxy' \in [Proxies -> Requests] /\ RequestsOK'
    BY <1>2, <2>1, <2>2, AnswerStep, GotoStep DEF Fetch
  <2> QED
    BY <2>1, <2>3, SamePins DEF IInv, TypeOK, RowsOK, Requests
<1>3. CASE Store(p)
  <2> DEFINE k == proxy[p].key
             row == [body |-> k, pinned |-> FALSE, old |-> FALSE]
  <2>1. UNCHANGED <<sync, spared>> /\ k \in Keys
    BY <1>3 DEF Store, IInv, TypeOK, RequestsOK
  <2>2. proxy' \in [Proxies -> Requests] /\ RequestsOK'
    BY <1>3, <2>1, AnswerStep DEF Store
  <2>3. CASE UNCHANGED cache
    BY <2>1, <2>2, <2>3, SamePins DEF IInv, TypeOK, RowsOK, Requests
  <2>4. CASE k \notin Cached /\ cache' = [cache EXCEPT ![k] = row]
    <3>1. row \in Rows /\ row.body = k
      BY <2>1 DEF Rows
    <3> HIDE DEF row
    <3>2. cache' \in [Keys -> Rows \cup {Absent}]
      BY <2>1, <2>4, <3>1 DEF IInv, TypeOK
    <3>3. cache'[k] = row /\ \A x \in Keys \ {k} : cache'[x] = cache[x]
      BY <2>1, <2>4 DEF IInv, TypeOK
    <3>4. RowsOK'
      BY <3>1, <3>3 DEF IInv, RowsOK
    <3>5. PinsOK'
      <4>1. cache[k] = Absent
        BY <2>1, <2>4 DEF Cached
      <4>2. \A x \in Keys : cache[x] # Absent => cache'[x] = cache[x]
        BY <3>3, <4>1
      <4>3. /\ spared \subseteq Keys
            /\ \A y \in Syncs : sync[y].todo \subseteq Keys /\ sync[y].keep \subseteq Keys
        BY DEF IInv, TypeOK
      <4> HIDE DEF k
      <4> QED
        BY <2>1, <4>2, <4>3 DEF IInv, PinsOK, SyncOK
    <3> QED
      BY <2>1, <2>2, <3>2, <3>4, <3>5 DEF IInv, TypeOK, Requests
  <2> QED
    BY <1>3, <2>3, <2>4 DEF Store, Stored
<1> QED
  BY <1>1, <1>2, <1>3 DEF Serve

LEMMA AskStep ==
  ASSUME IInv, NEW p \in Proxies, NEW k \in Keys, Ask(p, k)
  PROVE  IInv'
<1> DEFINE q == [pc |-> "asked", key |-> k, reply |-> None]
<1>1. q \in Requests /\ q.pc = "asked" /\ q.key # None
  BY NoneIsNoKey DEF Requests
<1>2. proxy' = [proxy EXCEPT ![p] = q] /\ UNCHANGED <<cache, sync, spared>>
  BY DEF Ask
<1> HIDE DEF q
<1>3. proxy' \in [Proxies -> Requests] /\ RequestsOK'
  BY <1>1, <1>2, RequestStep
<1> QED
  BY <1>2, <1>3, SamePins DEF IInv, TypeOK, RowsOK, Requests

-----------------------------------------------------------------------------

(* A step of one sync that leaves the table alone.                         *)
LEMMA SyncStep ==
  ASSUME IInv, NEW y \in Syncs, NEW t \in SyncTasks,
         sync' = [sync EXCEPT ![y] = t],
         \A k \in t.todo : cache[k] # Absent,
         \A k \in t.keep : /\ t.pc = "pin" /\ k[2] \in t.files
                           /\ cache[k] # Absent
                           /\ cache[k].pinned \/ k \in t.todo,
         UNCHANGED <<cache, proxy, spared>>
  PROVE  IInv'
<1>1. sync' \in [Syncs -> SyncTasks] /\ sync'[y] = t
      /\ \A x \in Syncs \ {y} : sync'[x] = sync[x]
  BY DEF IInv, TypeOK, SyncTasks
<1>2. TypeOK' /\ RowsOK' /\ RequestsOK'
  BY <1>1 DEF IInv, TypeOK, RowsOK, RequestsOK, ValidImageRequest, SyncTasks
<1>3. SyncOK(y)'
  BY <1>1 DEF SyncOK
<1>4. \A x \in Syncs \ {y} : SyncOK(x)'
  BY <1>1 DEF IInv, PinsOK, SyncOK
<1>5. PinsOK'
  BY <1>3, <1>4 DEF IInv, PinsOK
<1> QED
  BY <1>2, <1>5 DEF IInv

LEMMA TakeUpStep ==
  ASSUME IInv, NEW y \in Syncs, TakeUp(y)
  PROVE  IInv'
<1> DEFINE t == sync'[y]
<1>1. /\ sync[y] \in SyncTasks /\ SyncOK(y) /\ Cached \subseteq Keys
      /\ UNCHANGED <<cache, proxy, spared>>
  BY DEF IInv, TypeOK, SyncTasks, PinsOK, Cached, TakeUp, ListPopularShows,
         FindMispinned, FindExpired
<1>2. ASSUME NEW files \in PopularFiles, ListPopularShows(y, files)
      PROVE  IInv'
  <2> DEFINE u == [sync[y] EXCEPT !.pc = "listed", !.files = files]
  <2>1. sync' = [sync EXCEPT ![y] = u] /\ sync[y].pc = "idle"
    BY <1>2 DEF ListPopularShows, IInv, TypeOK
  <2>2. u \in SyncTasks /\ u.todo = sync[y].todo /\ u.keep = sync[y].keep
    BY <1>1 DEF SyncTasks, PopularFiles
  <2>3. u.keep = {} /\ \A k \in u.todo : cache[k] # Absent
    BY <1>1, <2>1, <2>2 DEF SyncOK
  <2> HIDE DEF u
  <2> QED
    BY <1>1, <2>1, <2>2, <2>3, SyncStep
<1>3. CASE FindMispinned(y)
  <2> DEFINE files == sync[y].files
             K == {k \in Cached : k[2] \in files}
             u == [sync[y] EXCEPT !.pc = "pin", !.todo = Mispinned(files), !.keep = K]
  <2>1. sync' = [sync EXCEPT ![y] = u]
    BY <1>3 DEF FindMispinned, IInv, TypeOK
  <2>2. Mispinned(files) \subseteq Cached /\ K \subseteq Cached
    BY DEF Mispinned
  <2>3. u \in SyncTasks /\ u.pc = "pin" /\ u.todo = Mispinned(files) /\ u.keep = K
        /\ u.files = files
    BY <1>1, <2>2 DEF SyncTasks
  <2>4. \A k \in Cached : cache[k] # Absent
    BY DEF Cached
  <2>5. \A k \in K : cache[k].pinned \/ k \in Mispinned(files)
    <3> SUFFICES ASSUME NEW k \in Cached, k[2] \in files, ~cache[k].pinned
                 PROVE  k \in Mispinned(files)
      OBVIOUS
    <3>1. Pinned(k, files) = TRUE
      BY DEF Pinned
    <3> QED
      BY <3>1 DEF Mispinned
  <2>6. \A k \in K : k[2] \in files
    OBVIOUS
  <2> HIDE DEF u, K, files
  <2> QED
    BY <1>1, <2>1, <2>2, <2>3, <2>4, <2>5, <2>6, SyncStep
<1>4. CASE FindExpired(y)
  <2> DEFINE X == {k \in Cached : Expired(k)}
             u == [sync[y] EXCEPT !.pc = "prune", !.todo = X]
  <2>1. sync' = [sync EXCEPT ![y] = u] /\ sync[y].pc = "pinned"
    BY <1>4 DEF FindExpired, IInv, TypeOK
  <2>2. u \in SyncTasks /\ u.todo = X /\ u.keep = sync[y].keep
    BY <1>1 DEF SyncTasks
  <2>3. u.keep = {} /\ \A k \in X : cache[k] # Absent
    BY <1>1, <2>1, <2>2 DEF SyncOK, Cached
  <2> HIDE DEF u, X
  <2> QED
    BY <1>1, <2>1, <2>2, <2>3, SyncStep
<1> QED
  BY <1>2, <1>3, <1>4 DEF TakeUp

LEMMA SyncFailsStep ==
  ASSUME IInv, NEW y \in Syncs, SyncFails(y)
  PROVE  IInv'
BY NoSyncType, SyncStep DEF SyncFails

(* The rows that pins write.                                               *)
LEMMA PinRows ==
  ASSUME IInv, NEW y \in Syncs, Pin(y)
  PROVE  /\ cache' \in [Keys -> Rows \cup {Absent}]
         /\ \A k \in Keys : cache'[k] = Absent <=> cache[k] = Absent
         /\ \A k \in Keys : cache[k] # Absent => cache'[k].body = cache[k].body
         /\ \A k \in sync[y].todo : k[2] \in sync[y].files => cache'[k].pinned
         /\ \A k \in Keys \ sync[y].todo : cache'[k] = cache[k]
<1> DEFINE row(k) == [cache[k] EXCEPT !.pinned = Pinned(k, sync[y].files)]
<1>1. \A k \in sync[y].todo : k \in Keys /\ cache[k] \in Rows
  BY DEF IInv, TypeOK, PinsOK, SyncOK
<1>2. ASSUME NEW k \in sync[y].todo
      PROVE  /\ row(k) \in Rows /\ row(k).body = cache[k].body
             /\ k[2] \in sync[y].files => row(k).pinned
  <2>1. Pinned(k, sync[y].files) \in BOOLEAN
    BY DEF Pinned
  <2>2. row(k) = [body |-> cache[k].body, pinned |-> Pinned(k, sync[y].files),
                  old |-> cache[k].old]
    BY <1>1 DEF Rows
  <2>3. k[2] \in sync[y].files => Pinned(k, sync[y].files) = TRUE
    BY DEF Pinned
  <2> HIDE DEF row
  <2>4. row(k) \in Rows /\ row(k).body = cache[k].body
    BY <1>1, <2>1, <2>2 DEF Rows
  <2>5. k[2] \in sync[y].files => row(k).pinned
    BY <2>2, <2>3
  <2> QED
    BY <2>4, <2>5
<1>3. cache' = [k \in Keys |-> IF k \in sync[y].todo THEN row(k) ELSE cache[k]]
  BY DEF Pin
<1> HIDE DEF row
<1>4. cache' \in [Keys -> Rows \cup {Absent}]
  BY <1>2, <1>3 DEF IInv, TypeOK
<1>5. ASSUME NEW k \in Keys, k \in sync[y].todo
      PROVE  cache[k] # Absent /\ cache'[k] # Absent /\ cache'[k] = row(k)
  <2>1. cache'[k] = row(k) /\ row(k) \in Rows
    BY <1>2, <1>3, <1>5
  <2>2. cache[k] \in Rows
    BY <1>1, <1>5
  <2> QED
    BY <2>1, <2>2, AbsentIsNoRow DEF Rows
<1>6. ASSUME NEW k \in Keys, k \notin sync[y].todo
      PROVE  cache'[k] = cache[k]
  BY <1>3, <1>6
<1>7. \A k \in Keys : cache'[k] = Absent <=> cache[k] = Absent
  BY <1>5, <1>6
<1>8. \A k \in Keys : cache[k] # Absent => cache'[k].body = cache[k].body
  BY <1>2, <1>5, <1>6
<1>9. \A k \in sync[y].todo : k[2] \in sync[y].files => cache'[k].pinned
  BY <1>1, <1>2, <1>5
<1> QED
  BY <1>4, <1>6, <1>7, <1>8, <1>9

LEMMA PinStep ==
  ASSUME IInv, NEW y \in Syncs, Pin(y)
  PROVE  IInv'
<1>0. PICK files : files = sync[y].files
  OBVIOUS
<1>1. /\ cache' \in [Keys -> Rows \cup {Absent}]
      /\ \A k \in Keys : cache'[k] = Absent <=> cache[k] = Absent
      /\ \A k \in Keys : cache[k] # Absent => cache'[k].body = cache[k].body
      /\ \A k \in sync[y].todo : k[2] \in files => cache'[k].pinned
      /\ \A k \in Keys \ sync[y].todo : cache'[k] = cache[k]
  BY <1>0, PinRows
<1>2. /\ UNCHANGED proxy
      /\ spared' = {k \in spared : k[2] \in files} \cup sync[y].keep
      /\ sync' = [x \in Syncs |->
                    IF x = y THEN [NoSync EXCEPT !.pc = "pinned"]
                    ELSE [sync[x] EXCEPT !.keep = {k \in @ : k[2] \in files}]]
  BY <1>0 DEF Pin
<1>3. \A x \in Syncs : sync[x] \in SyncTasks /\ SyncOK(x)
  BY DEF IInv, TypeOK, SyncTasks, PinsOK
<1>4. sync'[y] \in SyncTasks /\ sync'[y].todo = {} /\ sync'[y].keep = {}
  BY <1>2 DEF NoSync, SyncTasks
<1>5. ASSUME NEW x \in Syncs, x # y
      PROVE  /\ sync'[x] \in SyncTasks /\ sync'[x].pc = sync[x].pc
             /\ sync'[x].files = sync[x].files /\ sync'[x].todo = sync[x].todo
             /\ sync'[x].keep = {k \in sync[x].keep : k[2] \in files}
  BY <1>2, <1>3, <1>5 DEF SyncTasks
<1>6. spared \subseteq Keys /\ spared' \subseteq Keys
  BY <1>2, <1>3 DEF IInv, TypeOK, SyncTasks
<1>7. TypeOK'
  <2>1. sync' \in [Syncs -> SyncTasks]
    BY <1>2, <1>4, <1>5
  <2> QED
    BY <1>1, <1>2, <1>6, <2>1 DEF IInv, TypeOK, SyncTasks
<1>8. RowsOK' /\ RequestsOK'
  BY <1>1, <1>2 DEF IInv, RowsOK, RequestsOK, ValidImageRequest
<1>9. ASSUME NEW k \in spared'
      PROVE  cache'[k] # Absent /\ cache'[k].pinned
  <2>1. k \in Keys /\ k[2] \in files /\ cache[k] # Absent
        /\ (cache[k].pinned \/ k \in sync[y].todo)
    <3>1. CASE k \in spared /\ k[2] \in files
      BY <1>6, <3>1 DEF IInv, PinsOK
    <3>2. CASE k \in sync[y].keep
      BY <1>0, <1>3, <1>6, <3>2 DEF SyncOK
    <3> QED
      BY <1>2, <3>1, <3>2
  <2> QED
    BY <1>1, <2>1
<1>10. ASSUME NEW x \in Syncs
       PROVE  SyncOK(x)'
  <2>1. CASE x = y
    BY <1>4, <2>1 DEF SyncOK
  <2>2. CASE x # y
    <3>1. sync[x].todo \subseteq Keys /\ sync[x].keep \subseteq Keys /\ SyncOK(x)
      BY <1>3 DEF SyncTasks
    <3>2. \A k \in sync'[x].todo : cache'[k] # Absent
      BY <1>1, <1>5, <2>2, <3>1 DEF SyncOK
    <3>3. ASSUME NEW k \in sync'[x].keep
          PROVE  /\ sync'[x].pc = "pin" /\ k[2] \in sync'[x].files
                 /\ cache'[k] # Absent
                 /\ cache'[k].pinned \/ k \in sync'[x].todo
      <4>1. k \in Keys /\ k \in sync[x].keep /\ k[2] \in files
        BY <1>5, <2>2, <3>1
      <4>2. /\ sync[x].pc = "pin" /\ k[2] \in sync[x].files /\ cache[k] # Absent
            /\ cache[k].pinned \/ k \in sync[x].todo
        BY <3>1, <4>1 DEF SyncOK
      <4>3. cache'[k] # Absent /\ (cache'[k].pinned \/ k \in sync[x].todo)
        BY <1>1, <4>1, <4>2
      <4> QED
        BY <1>5, <2>2, <4>2, <4>3
    <3> QED
      BY <3>2, <3>3 DEF SyncOK
  <2> QED
    BY <2>1, <2>2
<1> QED
  BY <1>7, <1>8, <1>9, <1>10 DEF IInv, PinsOK

LEMMA PruneStep ==
  ASSUME IInv, NEW y \in Syncs, Prune(y)
  PROVE  IInv'
<1> DEFINE gone == {k \in sync[y].todo : Expired(k)}
<1>1. /\ UNCHANGED proxy /\ spared' = spared \ gone
      /\ cache' = [k \in Keys |-> IF k \in gone THEN Absent ELSE cache[k]]
      /\ sync' = [x \in Syncs |->
                    IF x = y THEN NoSync
                    ELSE [sync[x] EXCEPT !.todo = @ \ gone, !.keep = @ \ gone]]
  BY DEF Prune
<1>2. \A x \in Syncs : /\ sync[x] \in SyncTasks /\ SyncOK(x)
                       /\ sync[x].todo \subseteq Keys /\ sync[x].keep \subseteq Keys
  BY DEF IInv, TypeOK, SyncTasks, PinsOK
<1>3. \A k \in gone : ~cache[k].pinned
  BY DEF Expired
<1> HIDE DEF gone
<1>4. \A k \in Keys : k \notin gone => cache'[k] = cache[k]
  BY <1>1
<1>5. ASSUME NEW x \in Syncs, x # y
      PROVE  /\ sync'[x] \in SyncTasks /\ sync'[x].pc = sync[x].pc
             /\ sync'[x].files = sync[x].files /\ sync'[x].todo = sync[x].todo \ gone
             /\ sync'[x].keep = sync[x].keep \ gone
  BY <1>1, <1>2, <1>5 DEF SyncTasks
<1>6. sync'[y] = NoSync
  BY <1>1
<1>7. TypeOK'
  <2>1. sync' \in [Syncs -> SyncTasks]
    BY <1>1, <1>5, <1>6, NoSyncType
  <2>2. cache' \in [Keys -> Rows \cup {Absent}]
    BY <1>1 DEF IInv, TypeOK
  <2> QED
    BY <1>1, <2>1, <2>2 DEF IInv, TypeOK, SyncTasks
<1>8. RowsOK' /\ RequestsOK'
  BY <1>1 DEF IInv, RowsOK, RequestsOK, ValidImageRequest
<1>9. \A k \in spared' : cache'[k] # Absent /\ cache'[k].pinned
  <2>1. spared \subseteq Keys
    BY DEF IInv, TypeOK
  <2> QED
    BY <1>1, <1>4, <2>1 DEF IInv, PinsOK
<1>10. ASSUME NEW x \in Syncs
       PROVE  SyncOK(x)'
  <2>1. CASE x = y
    BY <1>6, <2>1, NoSyncType DEF SyncOK
  <2>2. CASE x # y
    BY <1>2, <1>4, <1>5, <2>2 DEF SyncOK
  <2> QED
    BY <2>1, <2>2
<1> QED
  BY <1>7, <1>8, <1>9, <1>10 DEF IInv, PinsOK

LEMMA AgeStep ==
  ASSUME IInv, NEW k \in Keys, Age(k)
  PROVE  IInv'
<1> DEFINE row == [cache[k] EXCEPT !.old = TRUE]
<1>1. UNCHANGED <<proxy, sync, spared>> /\ cache[k] \in Rows /\ cache[k] # Absent
  BY DEF Age, Cached, IInv, TypeOK
<1>2. row \in Rows /\ row.body = cache[k].body /\ row.pinned = cache[k].pinned
  BY <1>1 DEF Rows
<1>3. row # Absent
  BY <1>2, AbsentIsNoRow DEF Rows
<1>4. cache' = [cache EXCEPT ![k] = row]
  BY DEF Age
<1> HIDE DEF row
<1>5. cache'[k] = row /\ \A x \in Keys \ {k} : cache'[x] = cache[x]
  BY <1>4 DEF IInv, TypeOK
<1>6. TypeOK'
  BY <1>1, <1>2, <1>4 DEF IInv, TypeOK
<1>7. RowsOK' /\ RequestsOK'
  BY <1>1, <1>2, <1>5 DEF IInv, RowsOK, RequestsOK, ValidImageRequest
<1>8. \A x \in Keys : cache[x] # Absent =>
        cache'[x] # Absent /\ cache'[x].pinned = cache[x].pinned
  BY <1>2, <1>3, <1>5
<1>9. /\ spared \subseteq Keys
      /\ \A y \in Syncs : sync[y].todo \subseteq Keys /\ sync[y].keep \subseteq Keys
  BY DEF IInv, TypeOK
<1>10. PinsOK'
  BY <1>1, <1>8, <1>9 DEF IInv, PinsOK, SyncOK
<1> QED
  BY <1>6, <1>7, <1>10 DEF IInv

LEMMA NextIInv == IInv /\ [Next]_vars => IInv'
<1> SUFFICES ASSUME IInv, [Next]_vars PROVE IInv'
  OBVIOUS
<1>1. CASE UNCHANGED vars
  BY <1>1, SamePins DEF vars, IInv, TypeOK, RowsOK, RequestsOK, ValidImageRequest
<1>2. CASE Next
  BY <1>2, ServeStep, AskStep, TakeUpStep, PinStep, PruneStep,
     SyncFailsStep, AgeStep DEF Next
<1> QED
  BY <1>1, <1>2

(* The inductive invariant holds in every state.                           *)
THEOREM Invariance == Spec => []IInv
BY InitIInv, NextIInv, PTL DEF Spec

(* The table, the requests and the syncs keep their types.                 *)
THEOREM TypeCorrect == Spec => []TypeOK
<1>1. IInv => TypeOK
  BY DEF IInv
<1> QED
  BY <1>1, Invariance, PTL

-----------------------------------------------------------------------------

(* What one step may take out of the table.                                *)
OnlyLeftOutGone ==
  \A k \in Keys :
    k \in Cached /\ cache'[k] = Absent =>
      cache[k].old /\ k \notin spared

LEMMA PrunedStep == IInv /\ [Next]_vars => OnlyLeftOutGone
<1> SUFFICES ASSUME IInv, [Next]_vars, NEW k \in Keys, cache[k] # Absent,
                    cache'[k] = Absent
             PROVE  cache[k].old /\ k \notin spared
  BY DEF OnlyLeftOutGone, Cached
<1>1. cache # cache'
  OBVIOUS
<1>2. cache[k] \in Rows
  BY DEF IInv, TypeOK
<1>3. ASSUME NEW p \in Proxies, Serve(p) \/ \E x \in Keys : Ask(p, x)
      PROVE  FALSE
  <2>1. Store(p)
    BY <1>1, <1>3 DEF Serve, Lookup, Fetch, Ask
  <2>2. PICK row \in Rows : cache' = [cache EXCEPT ![proxy[p].key] = row]
    <3>1. proxy[p].key \in Keys
      BY <2>1 DEF Store, IInv, TypeOK, RequestsOK
    <3>2. [body |-> proxy[p].key, pinned |-> FALSE, old |-> FALSE] \in Rows
      BY <3>1 DEF Rows
    <3> QED
      BY <1>1, <2>1, <3>2 DEF Store, Stored
  <2> QED
    BY <2>2, AbsentIsNoRow DEF IInv, TypeOK, Rows
<1>4. ASSUME NEW y \in Syncs, Pin(y)
      PROVE  FALSE
  <2>1. cache'[k] = Absent <=> cache[k] = Absent
    BY <1>4, PinRows
  <2> QED
    BY <2>1
<1>5. ASSUME NEW x \in Keys, Age(x)
      PROVE  FALSE
  <2> DEFINE row == [cache[x] EXCEPT !.old = TRUE]
  <2>1. cache[x] \in Rows /\ cache' = [cache EXCEPT ![x] = row]
    BY <1>5 DEF Age, Cached, IInv, TypeOK
  <2>2. row \in Rows
    BY <2>1 DEF Rows
  <2> HIDE DEF row
  <2> QED
    BY <2>1, <2>2, AbsentIsNoRow DEF IInv, TypeOK, Rows
<1>6. ASSUME NEW y \in Syncs, Prune(y)
      PROVE  cache[k].old /\ k \notin spared
  BY <1>6 DEF Prune, Expired, IInv, PinsOK
<1> QED
  BY <1>1, <1>3, <1>4, <1>5, <1>6
  DEF Next, vars, TakeUp, ListPopularShows, FindMispinned, FindExpired, SyncFails

(* A prune takes only rows past their TTL that no pins hold on to, however *)
(* many syncs of however many lists find, skip and write each other's rows.*)
THEOREM PruningSparesListed == Spec => OnlyLeftOutPruned
<1>1. IInv /\ [Next]_vars => [OnlyLeftOutGone]_vars
  BY PrunedStep
<1>2. Spec => [][OnlyLeftOutGone]_vars
  BY <1>1, Invariance, PTL DEF Spec
<1>3. OnlyLeftOutPruned <=> [][OnlyLeftOutGone]_vars
  BY PTL DEF OnlyLeftOutPruned, OnlyLeftOutGone
<1> QED
  BY <1>2, <1>3

-----------------------------------------------------------------------------

(* The abstract state, by request.                                         *)
Asked == [p \in Proxies |-> proxy[p].key]
Replies == [p \in Proxies |-> proxy[p].reply]

LEMMA SourceAnswer ==
  ASSUME IInv, NEW p \in Proxies, NEW r \in Keys \cup {Error}, Answer(p, r),
         proxy[p].pc # "idle",
         r # Error => r = proxy[p].key /\ ValidImageRequest(proxy[p].key)
  PROVE  Source!Answer(p)
<1> USE DEF Asked, Replies
<1>1. proxy[p].key \in Keys /\ proxy[p].key # None
  BY DEF IInv, TypeOK, RequestsOK
<1>2. /\ Asked' = [Asked EXCEPT ![p] = None]
      /\ Replies' = [Replies EXCEPT ![p] = r]
  BY DEF Answer, IInv, TypeOK
<1>3. Asked[p] = proxy[p].key
  OBVIOUS
<1>4. r = Error \/ (r = Asked[p] /\ Asked[p] \in {k \in Keys : k[1] \in IMAGE_SIZES})
  BY <1>1, <1>3 DEF ValidImageRequest
<1> QED
  BY <1>1, <1>2, <1>3, <1>4 DEF Source!Answer

LEMMA SourceStep == IInv /\ [Next]_vars => [Source!Next]_<<Asked, Replies>>
<1> USE DEF Asked, Replies
<1> SUFFICES ASSUME IInv, [Next]_vars PROVE [Source!Next]_<<Asked, Replies>>
  OBVIOUS
<1>1. CASE UNCHANGED proxy
  BY <1>1
<1>2. ASSUME NEW p \in Proxies, NEW k \in Keys, Ask(p, k)
      PROVE  Source!Ask(p, k)
  <2>1. proxy[p].key = None
    BY <1>2 DEF Ask, IInv, RequestsOK
  <2> QED
    BY <1>2, <2>1 DEF Ask, Source!Ask, IInv, TypeOK
<1>4. ASSUME NEW p \in Proxies, NEW pc, Goto(p, pc)
      PROVE  UNCHANGED <<Asked, Replies>>
  BY <1>4 DEF Goto, IInv, TypeOK
<1>5. ASSUME NEW p \in Proxies, Serve(p)
      PROVE  Source!Answer(p) \/ UNCHANGED <<Asked, Replies>>
  <2>1. CASE Lookup(p)
    <3>1. proxy[p].pc # "idle"
      BY <2>1 DEF Lookup
    <3>2. CASE Answer(p, Error)
      BY <3>1, <3>2, SourceAnswer
    <3>3. CASE /\ ValidImageRequest(proxy[p].key)
               /\ CacheKey(proxy[p].key) \in Cached
               /\ Answer(p, cache[CacheKey(proxy[p].key)].body)
      <4>1. cache[CacheKey(proxy[p].key)].body = proxy[p].key
        BY <3>3 DEF CacheKey, Cached, IInv, RowsOK
      <4>2. proxy[p].key \in Keys
        BY <3>3 DEF CacheKey, Cached
      <4> QED
        BY <3>1, <3>3, <4>1, <4>2, SourceAnswer
    <3>4. CASE Goto(p, "fetch")
      BY <1>4, <3>4
    <3> QED
      BY <2>1, <3>2, <3>3, <3>4 DEF Lookup
  <2>2. CASE Fetch(p)
    <3>1. proxy[p].pc # "idle"
      BY <2>2 DEF Fetch
    <3>2. CASE Answer(p, Error)
      BY <3>1, <3>2, SourceAnswer
    <3>3. CASE Goto(p, "store")
      BY <1>4, <3>3
    <3> QED
      BY <2>2, <3>2, <3>3 DEF Fetch
  <2>3. CASE Store(p)
    <3>1. /\ proxy[p].pc # "idle" /\ ValidImageRequest(proxy[p].key)
          /\ Answer(p, proxy[p].key)
      BY <2>3 DEF Store, IInv, RequestsOK
    <3>2. proxy[p].key \in Keys
      BY <3>1 DEF IInv, TypeOK, RequestsOK
    <3> QED
      BY <3>1, <3>2, SourceAnswer
  <2> QED
    BY <1>5, <2>1, <2>2, <2>3 DEF Serve
<1> QED
  BY <1>1, <1>2, <1>5 DEF Next, Source!Next, vars, TakeUp, ListPopularShows,
                          FindMispinned, Pin, FindExpired, Prune, SyncFails, Age

(* To a page the proxy with its cache is ImageSource.                      *)
THEOREM Refinement == Spec => ImplementsImageSource
<1>1. Init => Source!Init
  BY DEF Init, Source!Init
<1>2. IInv /\ [Next]_vars => [Source!Next]_<<Asked, Replies>>
  BY SourceStep
<1> QED
  BY <1>1, <1>2, Invariance, PTL
  DEF Spec, ImplementsImageSource, Source!Spec, Asked, Replies

=============================================================================

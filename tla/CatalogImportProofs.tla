------------------------- MODULE CatalogImportProofs -------------------------
(***************************************************************************)
(* Proofs about CatalogImport, for any show, any number of importers and   *)
(* any edits of TMDB's list: its types, SlotsSettle, FetchedIsWritten,     *)
(* VotedKeepRows and RecreatedOnlyWhenMoved.                               *)
(*                                                                         *)
(* The argument: each fetched page is one consistent state of a season, so *)
(* fetched entries of one slot are one entry (GotOK); a season write gives *)
(* the claimed slots to the incoming episodes alone, so the table stays    *)
(* free of clashes after each season, and a row placed by one page is safe *)
(* from the next (WorkOK); a season that is still to be written holds the  *)
(* rows it held at BEGIN (LostOK); and only one import writes at a time.   *)
(***************************************************************************)
EXTENDS CatalogImport, TLAPS, FiniteSetTheorems

(* The entries an import has fetched.                                      *)
GotOK(w) ==
  /\ task[w].pc \in {"idle", "detail", "plan"} => task[w].got = {}
  /\ task[w].pc # "write" => task[w].gone = {}
  /\ \A p, q \in task[w].got :
       /\ p[2] = q[2] => p = q
       /\ p[1] = q[1] /\ p[2][1] = q[2][1] => p = q
  /\ task[w].pc = "fetch" => \A p \in task[w].got : p[2][1] \notin task[w].todo

(* What a writing import has not touched yet, and what it has deleted.     *)
LostOK(w) ==
  /\ \A i \in Ids :
       task[w].work[i] # Absent /\ task[w].work[i][1] \in task[w].todo =>
         task[w].work[i] = rows[i]
  /\ \A i \in task[w].gone :
       /\ rows[i] # Absent
       /\ \A p \in task[w].got : p[1] = i => p[2][1] # rows[i][1]

(* The episode table as a writing import sees it.                          *)
WorkOK(w) ==
  /\ SlotsUnique(task[w].work)
  /\ \A p \in task[w].got :
       p[2][1] \notin task[w].todo => task[w].work[p[1]] \in GotSlots(w, p[1])
  /\ \A i \in Ids :
       rows[i] # Absent /\ i \notin task[w].gone => task[w].work[i] # Absent
  /\ \A i \in voted : task[w].work[i] # Absent
  /\ LostOK(w)

IInv ==
  /\ TypeOK
  /\ SlotsUnique(tmdb)
  /\ SlotsUnique(rows)
  /\ \A i \in voted : rows[i] # Absent
  /\ \A w \in Workers : GotOK(w) /\ (Writing(w) => WorkOK(w))
  /\ \A w, x \in Workers : Writing(w) /\ Writing(x) => w = x

-----------------------------------------------------------------------------

LEMMA CountsType ==
  ASSUME NEW c \in Catalogs
  PROVE  CountsOf(c) \in Counts
<1>1. ASSUME NEW s \in Seasons PROVE Cardinality(InSeason(c, s)) \in Nat
  <2>1. IsFiniteSet(InSeason(c, s))
    BY FiniteCatalog, FS_Subset DEF InSeason, Held
  <2> QED
    BY <2>1, FS_CardinalityType
<1> QED
  BY <1>1 DEF CountsOf, Counts

LEMMA IdleType == Idle \in Tasks
BY DEF Idle, Tasks, NoCounts, Counts, Empty, Catalogs

(* A step of one import that leaves the tables alone.                      *)
LEMMA TaskStep ==
  ASSUME IInv, NEW w \in Workers,
         UNCHANGED <<tmdb, rows, voted>>,
         shown' \in BOOLEAN, rated' \in BOOLEAN, fresh' \in BOOLEAN,
         task' = [task EXCEPT ![w] = task'[w]], task'[w] \in Tasks,
         GotOK(w)', Writing(w)' => WorkOK(w)',
         Writing(w)' => \A x \in Workers \ {w} : ~Writing(x)
  PROVE  IInv'
<1>1. \A x \in Workers \ {w} : task'[x] = task[x]
  BY DEF IInv, TypeOK
<1>2. TypeOK'
  BY DEF IInv, TypeOK
<1>3. SlotsUnique(tmdb)' /\ SlotsUnique(rows)' /\ \A i \in voted' : rows'[i] # Absent
  BY DEF IInv, SlotsUnique, Held
<1>4. ASSUME NEW x \in Workers \ {w}
      PROVE  GotOK(x)' /\ (Writing(x)' => WorkOK(x)')
  <2>1. GotOK(x)'
    BY <1>1 DEF IInv, GotOK
  <2>2. Writing(x)' => WorkOK(x)'
    BY <1>1 DEF IInv, WorkOK, LostOK, Writing, SlotsUnique, Held, GotSlots
  <2> QED
    BY <2>1, <2>2
<1>5. \A y, x \in Workers : Writing(y)' /\ Writing(x)' => y = x
  BY <1>1 DEF IInv, Writing
<1> QED
  BY <1>2, <1>3, <1>4, <1>5 DEF IInv

LEMMA FinishStep ==
  ASSUME IInv, NEW w \in Workers, Finish(w),
         UNCHANGED <<tmdb, rows, voted, shown, rated, fresh>>
  PROVE  IInv'
<1>1. task' = [task EXCEPT ![w] = task'[w]] /\ task'[w] = Idle
  BY DEF Finish, IInv, TypeOK
<1>2. GotOK(w)' /\ ~Writing(w)'
  BY <1>1 DEF GotOK, Writing, Idle
<1>3. shown' \in BOOLEAN /\ rated' \in BOOLEAN /\ fresh' \in BOOLEAN
  BY DEF IInv, TypeOK
<1> QED
  BY <1>1, <1>2, <1>3, IdleType, TaskStep

LEMMA StartStep ==
  ASSUME IInv, NEW w \in Workers, NEW full \in BOOLEAN, Start(w, full),
         UNCHANGED <<tmdb, rows, voted, shown, rated>>, fresh' \in BOOLEAN
  PROVE  IInv'
<1> DEFINE t == [Idle EXCEPT !.pc = "detail", !.full = full]
<1>1. task' = [task EXCEPT ![w] = task'[w]] /\ task'[w] = t
  BY DEF Start, IInv, TypeOK
<1>2. t \in Tasks /\ t.pc = "detail" /\ t.got = {} /\ t.gone = {}
  BY IdleType DEF Tasks, Idle
<1> HIDE DEF t
<1>3. GotOK(w)' /\ ~Writing(w)'
  BY <1>1, <1>2 DEF GotOK, Writing
<1>4. shown' \in BOOLEAN /\ rated' \in BOOLEAN
  BY DEF IInv, TypeOK
<1> QED
  BY <1>1, <1>2, <1>3, <1>4, TaskStep

LEMMA FetchDetailStep ==
  ASSUME IInv, NEW w \in Workers, FetchDetail(w)
  PROVE  IInv'
<1> DEFINE counts == IF task[w].full THEN NoCounts ELSE CountsOf(tmdb)
           todo == IF task[w].full
                   THEN {s \in Seasons : InSeason(tmdb, s) # {}} ELSE {}
           pc == IF task[w].full THEN "fetch" ELSE "plan"
<1>1. PICK r \in Ratings :
        task' = [task EXCEPT ![w].pc = pc, ![w].rating = r,
                             ![w].counts = counts, ![w].todo = todo]
  BY DEF FetchDetail
<1>2. task[w] \in Tasks /\ task[w].got = {} /\ task[w].gone = {} /\ r \in BOOLEAN
  BY RatingsBoolean DEF FetchDetail, IInv, TypeOK, GotOK
<1>3. counts \in Counts
  BY CountsType DEF IInv, TypeOK, NoCounts, Counts
<1>4. todo \subseteq Seasons /\ pc \in {"fetch", "plan"}
  OBVIOUS
<1> HIDE DEF counts, todo, pc
<1>5. /\ task' = [task EXCEPT ![w] = task'[w]]
      /\ task'[w] \in Tasks
      /\ task'[w].got = {} /\ task'[w].gone = {} /\ task'[w].pc = pc
  BY <1>1, <1>2, <1>3, <1>4 DEF IInv, TypeOK, Tasks
<1>6. GotOK(w)' /\ ~Writing(w)'
  BY <1>4, <1>5 DEF GotOK, Writing
<1> QED
  BY <1>5, <1>6, TaskStep DEF FetchDetail, IInv, TypeOK

LEMMA PlanStep ==
  ASSUME IInv, NEW w \in Workers, Plan(w)
  PROVE  IInv'
<1> DEFINE todo == {s \in Seasons : CountsOf(rows)[s] < task[w].counts[s]}
<1>1. task' = [task EXCEPT ![w].pc = "fetch", ![w].counts = NoCounts,
                           ![w].todo = todo]
  BY DEF Plan
<1>2. task[w] \in Tasks /\ task[w].got = {} /\ task[w].gone = {}
  BY DEF Plan, IInv, TypeOK, GotOK
<1>3. NoCounts \in Counts /\ todo \subseteq Seasons
  BY DEF NoCounts, Counts
<1> HIDE DEF todo
<1>4. /\ task' = [task EXCEPT ![w] = task'[w]]
      /\ task'[w] \in Tasks
      /\ task'[w].got = {} /\ task'[w].gone = {} /\ task'[w].pc = "fetch"
  BY <1>1, <1>2, <1>3 DEF IInv, TypeOK, Tasks
<1>5. GotOK(w)' /\ ~Writing(w)'
  BY <1>4 DEF GotOK, Writing
<1> QED
  BY <1>4, <1>5, TaskStep DEF Plan, IInv, TypeOK

(* A page is one state of one season: its entries are in that season, one  *)
(* per slot and one per episode.                                           *)
LEMMA PageIsConsistent ==
  ASSUME NEW c \in Catalogs, SlotsUnique(c), NEW s \in Seasons
  PROVE  /\ Page(c, s) \subseteq Ids \X Slots
         /\ \A p \in Page(c, s) : p[2][1] = s
         /\ \A p, q \in Page(c, s) :
              (p[2] = q[2] => p = q) /\ (p[1] = q[1] => p = q)
<1>1. \A i \in InSeason(c, s) : i \in Ids /\ c[i] \in Slots /\ c[i][1] = s
  BY DEF InSeason, Held, Catalogs
<1>2. \A i, j \in InSeason(c, s) : c[i] = c[j] => i = j
  BY DEF SlotsUnique, InSeason
<1> QED
  BY <1>1, <1>2 DEF Page

LEMMA FetchSeasonStep ==
  ASSUME IInv, NEW w \in Workers, NEW s \in Seasons, FetchSeason(w, s)
  PROVE  IInv'
<1> DEFINE page == Page(tmdb, s)
           got == task[w].got \cup page
           todo == task[w].todo \ {s}
<1>1. task' = [task EXCEPT ![w].todo = todo, ![w].got = got]
  BY DEF FetchSeason, IInv, TypeOK
<1>2. /\ task[w] \in Tasks /\ GotOK(w) /\ task[w].pc = "fetch"
      /\ s \in task[w].todo /\ task[w].gone = {}
  BY DEF FetchSeason, IInv, TypeOK, GotOK
<1>3. /\ page \subseteq Ids \X Slots
      /\ \A p \in page : p[2][1] = s
      /\ \A p, q \in page :
           (p[2] = q[2] => p = q) /\ (p[1] = q[1] => p = q)
  BY PageIsConsistent DEF IInv, TypeOK
<1> HIDE DEF page
<1>4. \A p \in task[w].got : p[2][1] # s
  BY <1>2 DEF GotOK
<1>5. \A p, q \in got :
        /\ p[2] = q[2] => p = q
        /\ p[1] = q[1] /\ p[2][1] = q[2][1] => p = q
  <2> SUFFICES ASSUME NEW p \in got, NEW q \in got
               PROVE  /\ p[2] = q[2] => p = q
                      /\ p[1] = q[1] /\ p[2][1] = q[2][1] => p = q
    OBVIOUS
  <2>1. CASE p \in page /\ q \in page
    BY <1>3, <2>1
  <2>2. CASE p \in task[w].got /\ q \in task[w].got
    BY <1>2, <2>2 DEF GotOK
  <2>3. CASE p \in page /\ q \in task[w].got
    BY <1>3, <1>4, <2>3
  <2>4. CASE p \in task[w].got /\ q \in page
    BY <1>3, <1>4, <2>4
  <2> QED
    BY <2>1, <2>2, <2>3, <2>4
<1>6. \A p \in got : p[2][1] \notin todo
  BY <1>2, <1>3 DEF GotOK
<1>7. got \subseteq Ids \X Slots /\ todo \subseteq Seasons
  BY <1>2, <1>3 DEF Tasks
<1> HIDE DEF got, todo
<1>8. /\ task' = [task EXCEPT ![w] = task'[w]]
      /\ task'[w] \in Tasks
      /\ task'[w].got = got /\ task'[w].todo = todo /\ task'[w].pc = "fetch"
      /\ task'[w].gone = {}
  BY <1>1, <1>2, <1>7 DEF IInv, TypeOK, Tasks
<1>9. GotOK(w)' /\ ~Writing(w)'
  BY <1>5, <1>6, <1>8 DEF GotOK, Writing
<1> QED
  BY <1>8, <1>9, TaskStep DEF FetchSeason, IInv, TypeOK

LEMMA BeginStep ==
  ASSUME IInv, NEW w \in Workers, Begin(w)
  PROVE  IInv'
<1> DEFINE todo == GotSeasons(w)
<1>1. task' = [task EXCEPT ![w].pc = "write", ![w].todo = todo,
                           ![w].work = rows]
  BY DEF Begin
<1>2. task[w] \in Tasks /\ GotOK(w) /\ rows \in Catalogs /\ task[w].gone = {}
  BY DEF Begin, IInv, TypeOK, GotOK
<1>3. todo \subseteq Seasons
  BY <1>2 DEF GotSeasons, Seasons, Tasks
<1>4. \A p \in task[w].got : p[2][1] \in todo
  BY DEF GotSeasons
<1> HIDE DEF todo
<1>5. /\ task' = [task EXCEPT ![w] = task'[w]]
      /\ task'[w] \in Tasks
      /\ task'[w].pc = "write" /\ task'[w].todo = todo
      /\ task'[w].work = rows /\ task'[w].got = task[w].got
      /\ task'[w].gone = {}
  BY <1>1, <1>2, <1>3 DEF IInv, TypeOK, Tasks
<1>6. GotOK(w)'
  BY <1>2, <1>5 DEF GotOK
<1>7. WorkOK(w)'
  <2>1. rows' = rows /\ voted' = voted
    BY DEF Begin
  <2>2. SlotsUnique(rows) /\ \A i \in voted : rows[i] # Absent
    BY DEF IInv
  <2> QED
    BY <1>4, <1>5, <2>1, <2>2 DEF WorkOK, LostOK, SlotsUnique, Held
<1> QED
  BY <1>5, <1>6, <1>7, TaskStep DEF Begin, IInv, TypeOK

-----------------------------------------------------------------------------

(* The incoming entries of season s.                                       *)
Incoming(w, s) == {p \in task[w].got : p[2][1] = s}

(* What one season's upsert does to the episode table.                     *)
LEMMA UpsertedIs ==
  ASSUME IInv, NEW w \in Workers, NEW s \in Seasons,
         NEW work, work = Upserted(w, Incoming(w, s), Displaced(w, Incoming(w, s)))
  PROVE  /\ work \in Catalogs
         /\ \A p \in Incoming(w, s) : work[p[1]] = p[2]
         /\ \A i \in Ids :
              (\A p \in Incoming(w, s) : p[1] # i) =>
                work[i] = IF i \in Displaced(w, Incoming(w, s)) THEN Absent
                          ELSE task[w].work[i]
<1> DEFINE inc == Incoming(w, s)
           displaced == Displaced(w, inc)
           row(i) == IF \E p \in inc : p[1] = i
                     THEN (CHOOSE p \in inc : p[1] = i)[2]
                     ELSE IF i \in displaced THEN Absent ELSE task[w].work[i]
<1>1. inc \subseteq Ids \X Slots /\ task[w].work \in Catalogs
  BY DEF Incoming, IInv, TypeOK, Tasks
<1>2. \A p, q \in inc : p[1] = q[1] => p = q
  BY DEF Incoming, IInv, GotOK
<1>3. work = [i \in Ids |-> row(i)]
  BY DEF Upserted
<1> HIDE DEF inc, displaced
<1>4. ASSUME NEW p \in inc PROVE p[1] \in Ids /\ p[2] \in Slots /\ row(p[1]) = p[2]
  <2>1. (CHOOSE q \in inc : q[1] = p[1]) = p
    BY <1>2
  <2> QED
    BY <1>1, <2>1
<1>5. ASSUME NEW i \in Ids, \A p \in inc : p[1] # i
      PROVE  row(i) = IF i \in displaced THEN Absent ELSE task[w].work[i]
  BY <1>5
<1>6. ASSUME NEW i \in Ids PROVE row(i) \in Slots \cup {Absent}
  <2>1. CASE \E p \in inc : p[1] = i
    BY <1>4, <2>1
  <2>2. CASE ~\E p \in inc : p[1] = i
    BY <1>1, <1>5, <2>2 DEF Catalogs
  <2> QED
    BY <2>1, <2>2
<1> HIDE DEF row
<1>7. work \in Catalogs
  BY <1>3, <1>6 DEF Catalogs
<1>8. \A i \in Ids : work[i] = row(i)
  BY <1>3
<1> QED
  BY <1>4, <1>5, <1>7, <1>8 DEF inc, displaced

LEMMA WriteSeasonStep ==
  ASSUME IInv, NEW w \in Workers, NEW s \in Seasons, WriteSeason(w, s)
  PROVE  IInv'
<1> DEFINE inc == Incoming(w, s)
           displaced == Displaced(w, inc)
           work == Upserted(w, inc, displaced)
           todo == task[w].todo \ {s}
           gone == task[w].gone \cup displaced
<1>1. CASE VotesForbid(displaced)
  <2>1. Finish(w)
    BY <1>1 DEF WriteSeason, Incoming
  <2> QED
    BY <2>1, FinishStep DEF WriteSeason
<1>2. CASE ~VotesForbid(displaced)
  <2>1. task' = [task EXCEPT ![w].todo = todo, ![w].work = work, ![w].gone = gone]
    BY <1>2 DEF WriteSeason, Incoming, IInv, TypeOK
  <2>2. /\ task[w] \in Tasks /\ GotOK(w) /\ Writing(w) /\ WorkOK(w)
        /\ \A x \in Workers \ {w} : ~Writing(x)
    BY DEF WriteSeason, IInv, TypeOK
  <2>3. /\ work \in Catalogs
        /\ \A p \in inc : work[p[1]] = p[2]
        /\ \A i \in Ids : (\A p \in inc : p[1] # i) =>
             work[i] = IF i \in displaced THEN Absent ELSE task[w].work[i]
    BY UpsertedIs
  <2>4. /\ inc \subseteq task[w].got
        /\ \A p \in inc : p[1] \in Ids /\ p[2] \in Slots /\ p[2] # Absent
        /\ \A p \in task[w].got : p[2][1] = s => p \in inc
    BY <2>2, SlotsArePairs DEF Incoming, Tasks
  <2>5. \A i \in displaced :
          /\ i \in Ids /\ task[w].work[i] # Absent
          /\ \E p \in inc : p[2] = task[w].work[i] /\ p[1] # i
          /\ \A p \in inc : p[1] # i
    BY DEF Displaced, Held
  <2>6. \A i \in Ids : /\ task[w].work[i] # Absent
                       /\ \E p \in inc : p[2] = task[w].work[i] /\ p[1] # i
                       /\ \A p \in inc : p[1] # i
                       => i \in displaced
    BY DEF Displaced, Held
  <2>7. todo \subseteq Seasons /\ gone \subseteq Ids
    BY <2>2, <2>5 DEF Tasks
  <2>8. \A p \in task[w].got : p[2][1] \notin todo => p[2][1] \notin task[w].todo \/ p \in inc
    BY <2>4
  <2>9. displaced \subseteq gone /\ task[w].gone \subseteq gone
    OBVIOUS
  <2>10. /\ s \in task[w].todo /\ \A p \in inc : p[2][1] = s /\ s \notin todo
         /\ \A x \in todo : x \in task[w].todo
    BY DEF WriteSeason, Incoming
  <2>11. \A i \in gone : i \in task[w].gone \/ i \in displaced
    OBVIOUS
  <2> HIDE DEF inc, displaced, work, todo, gone
  <2>12. /\ task' = [task EXCEPT ![w] = task'[w]]
         /\ task'[w] \in Tasks
         /\ task'[w].pc = task[w].pc /\ task'[w].got = task[w].got
         /\ task'[w].todo = todo /\ task'[w].work = work
         /\ task'[w].gone = gone
    BY <2>1, <2>2, <2>3, <2>7 DEF IInv, TypeOK, Tasks
  <2>13. GotOK(w)'
    BY <2>2, <2>12 DEF GotOK, Writing
  <2>14. SlotsUnique(work)
    <3> SUFFICES ASSUME NEW i \in Ids, NEW j \in Ids, work[i] # Absent,
                        work[i] = work[j]
                 PROVE  i = j
      BY DEF SlotsUnique, Held
    <3>1. CASE (\E p \in inc : p[1] = i) /\ (\E p \in inc : p[1] = j)
      BY <2>2, <2>3, <2>4, <3>1 DEF GotOK
    <3>2. ASSUME NEW k \in Ids, NEW l \in Ids, \E p \in inc : p[1] = k,
                 \A p \in inc : p[1] # l, work[k] = work[l]
          PROVE  FALSE
      <4>1. PICK p \in inc : p[1] = k
        BY <3>2
      <4>2. work[k] = p[2] /\ p[2] # Absent
        BY <2>3, <2>4, <4>1
      <4>3. task[w].work[l] = p[2] /\ l \notin displaced
        BY <2>3, <3>2, <4>2
      <4> QED
        BY <2>6, <3>2, <4>2, <4>3
    <3>3. CASE (\A p \in inc : p[1] # i) /\ (\A p \in inc : p[1] # j)
      BY <2>2, <2>3, <3>3 DEF WorkOK, SlotsUnique, Held
    <3> QED
      BY <3>1, <3>2, <3>3
  <2>15. ASSUME NEW p \in task[w].got, p[2][1] \notin todo
         PROVE  work[p[1]] \in GotSlots(w, p[1])
    <3>1. p[1] \in Ids
      BY <2>2 DEF Tasks
    <3>2. CASE \E q \in inc : q[1] = p[1]
      BY <2>3, <2>4, <3>2 DEF GotSlots
    <3>3. CASE \A q \in inc : q[1] # p[1]
      <4>1. task[w].work[p[1]] \in GotSlots(w, p[1])
        BY <2>2, <2>8, <2>15, <3>3 DEF WorkOK
      <4>2. PICK q \in task[w].got : q[1] = p[1] /\ q[2] = task[w].work[p[1]]
        BY <4>1 DEF GotSlots
      <4>3. p[1] \notin displaced
        BY <2>2, <2>4, <2>5, <3>3, <4>2 DEF GotOK
      <4> QED
        BY <2>3, <3>1, <3>3, <4>1, <4>3
    <3> QED
      BY <3>2, <3>3
  <2>16. \A i \in Ids :
           task[w].work[i] # Absent /\ i \notin displaced => work[i] # Absent
    BY <2>3, <2>4
  <2>17. ASSUME NEW i \in Ids, work[i] # Absent, work[i][1] \in todo
         PROVE  work[i] = rows[i]
    <3>1. \A p \in inc : p[1] # i
      BY <2>3, <2>17, <2>10
    <3>2. work[i] = task[w].work[i]
      BY <2>3, <2>17, <3>1
    <3> QED
      BY <2>2, <2>17, <2>10, <3>2 DEF WorkOK, LostOK
  <2>18. ASSUME NEW i \in gone
         PROVE  /\ rows[i] # Absent
                /\ \A p \in task[w].got : p[1] = i => p[2][1] # rows[i][1]
    <3>1. CASE i \in task[w].gone
      BY <2>2, <3>1 DEF WorkOK, LostOK
    <3>2. CASE i \in displaced
      <4>1. task[w].work[i] = rows[i] /\ rows[i][1] = s /\ rows[i] # Absent
        BY <2>2, <2>5, <2>10, <3>2 DEF WorkOK, LostOK
      <4> QED
        BY <2>4, <2>5, <3>2, <4>1
    <3> QED
      BY <2>18, <2>11, <3>1, <3>2
  <2>19. WorkOK(w)'
    <3>1. \A i \in Ids : rows[i] # Absent /\ i \notin gone => work[i] # Absent
      BY <2>2, <2>9, <2>16 DEF WorkOK
    <3>2. \A i \in voted : work[i] # Absent
      BY <1>2, <2>2, <2>16 DEF WorkOK, IInv, TypeOK, VotesForbid
    <3>3. rows' = rows /\ voted' = voted
      BY DEF WriteSeason
    <3>4. LostOK(w)'
      BY <2>12, <2>17, <2>18, <3>3 DEF LostOK
    <3> QED
      BY <2>12, <2>14, <2>15, <3>1, <3>2, <3>3, <3>4
      DEF WorkOK, SlotsUnique, Held, GotSlots
  <2> QED
    BY <2>2, <2>12, <2>13, <2>19, TaskStep DEF WriteSeason, IInv, TypeOK
<1> QED
  BY <1>1, <1>2

LEMMA CommitStep ==
  ASSUME IInv, NEW w \in Workers, Commit(w)
  PROVE  IInv'
<1>1. task' = [task EXCEPT ![w] = Idle] /\ task'[w] = Idle
  BY DEF Commit, Finish, IInv, TypeOK
<1>2. /\ task[w] \in Tasks /\ WorkOK(w) /\ Writing(w)
      /\ \A x \in Workers \ {w} : ~Writing(x)
  BY DEF Commit, IInv, TypeOK
<1>3. SlotsUnique(task[w].work)
  BY <1>2 DEF WorkOK
<1>4. /\ rows' = task[w].work /\ voted' = voted /\ tmdb' = tmdb
      /\ shown' \in BOOLEAN /\ rated' \in BOOLEAN /\ fresh' \in BOOLEAN
  BY <1>2, <1>3 DEF Commit, Publish, Tasks
<1>5. TypeOK'
  BY <1>1, <1>2, <1>4, IdleType DEF IInv, TypeOK, Tasks
<1>6. SlotsUnique(tmdb)' /\ SlotsUnique(rows)'
  BY <1>3, <1>4 DEF IInv, SlotsUnique, Held
<1>7. \A i \in voted' : rows'[i] # Absent
  BY <1>2, <1>4 DEF WorkOK
<1>8. \A x \in Workers : ~Writing(x)'
  BY <1>1, <1>2 DEF Writing, Idle, IInv, TypeOK
<1>9. \A x \in Workers : GotOK(x)'
  BY <1>1 DEF GotOK, Idle, IInv, TypeOK
<1> QED
  BY <1>5, <1>6, <1>7, <1>8, <1>9 DEF IInv

(* Edits of TMDB's list, votes and time touch no import.                   *)
LEMMA OutsideStep ==
  ASSUME IInv, Edit \/ Expire \/ \E i \in Ids : Vote(i) \/ Unvote(i)
  PROVE  IInv'
<1>1. task' = task /\ rows' = rows /\ shown' = shown /\ rated' = rated
  BY DEF Edit, Vote, Unvote, Expire
<1>2. tmdb' \in Catalogs /\ SlotsUnique(tmdb)' /\ fresh' \in BOOLEAN
  BY DEF Edit, Vote, Unvote, Expire, IInv, TypeOK, SlotsUnique, Held
<1>3. /\ voted' \subseteq Ids
      /\ \A j \in voted' \ voted :
           rows[j] # Absent /\ \A w \in Workers : j \notin task[w].gone
  BY DEF Edit, Vote, Unvote, Expire, IInv, TypeOK
<1>4. TypeOK'
  BY <1>1, <1>2, <1>3 DEF IInv, TypeOK
<1>5. SlotsUnique(rows)' /\ \A j \in voted' : rows'[j] # Absent
  BY <1>1, <1>3 DEF IInv, SlotsUnique, Held
<1>6. ASSUME NEW w \in Workers
      PROVE  GotOK(w)' /\ (Writing(w)' => WorkOK(w)')
  <2>1. GotOK(w)' /\ Writing(w)' = Writing(w)
    BY <1>1 DEF IInv, GotOK, Writing
  <2>2. ASSUME Writing(w) PROVE WorkOK(w)'
    <3>1. WorkOK(w)
      BY <2>2 DEF IInv
    <3>2. \A j \in voted' : task[w].work[j] # Absent
      BY <1>3, <3>1 DEF WorkOK
    <3> QED
      BY <1>1, <3>1, <3>2 DEF WorkOK, LostOK, SlotsUnique, Held, GotSlots
  <2> QED
    BY <2>1, <2>2
<1>7. \A w, x \in Workers : Writing(w)' /\ Writing(x)' => w = x
  BY <1>1 DEF IInv, Writing
<1> QED
  BY <1>2, <1>4, <1>5, <1>6, <1>7 DEF IInv

LEMMA InitIInv == Init => IInv
<1> SUFFICES ASSUME Init PROVE IInv
  OBVIOUS
<1>1. Empty \in Catalogs /\ SlotsUnique(Empty)
  BY DEF Empty, Catalogs, SlotsUnique, Held
<1>2. rows \in Catalogs /\ SlotsUnique(rows)
  BY <1>1 DEF Init
<1>3. TypeOK
  BY <1>2, IdleType DEF Init, TypeOK
<1>4. \A w \in Workers : GotOK(w) /\ ~Writing(w)
  BY DEF Init, GotOK, Writing, Idle
<1> QED
  BY <1>2, <1>3, <1>4 DEF Init, IInv

LEMMA NextIInv == IInv /\ [Next]_vars => IInv'
<1> SUFFICES ASSUME IInv, [Next]_vars PROVE IInv'
  OBVIOUS
<1>1. CASE Edit \/ Expire \/ \E i \in Ids : Vote(i) \/ Unvote(i)
  BY <1>1, OutsideStep
<1>2. ASSUME NEW w \in Workers, FirstView(w) \/ Claim(w) \/ RefreshCatalog(w)
      PROVE  IInv'
  <2>1. PICK full \in BOOLEAN : Start(w, full)
    BY <1>2 DEF FirstView, Claim, RefreshCatalog, IInv, TypeOK
  <2>2. UNCHANGED <<tmdb, rows, voted, shown, rated>> /\ fresh' \in BOOLEAN
    BY <1>2 DEF FirstView, Claim, RefreshCatalog, IInv, TypeOK
  <2> QED
    BY <2>1, <2>2, StartStep
<1>3. ASSUME NEW w \in Workers, Import(w)
      PROVE  IInv'
  BY <1>3, FetchDetailStep, PlanStep, BeginStep, CommitStep, FetchSeasonStep,
     WriteSeasonStep DEF Import
<1>4. ASSUME NEW w \in Workers, Fail(w)
      PROVE  IInv'
  BY <1>4, FinishStep DEF Fail
<1>5. CASE UNCHANGED vars
  BY <1>5 DEF vars, IInv, TypeOK, SlotsUnique, Held, GotOK, WorkOK, LostOK,
              Writing, GotSlots
<1> QED
  BY <1>1, <1>2, <1>3, <1>4, <1>5 DEF Next, Workers

(* The inductive invariant holds in every state.                           *)
THEOREM Invariance == Spec => []IInv
BY InitIInv, NextIInv, PTL DEF Spec

(* Tables and imports keep their types.                                    *)
THEOREM TypeCorrect == Spec => []TypeOK
<1>1. IInv => TypeOK
  BY DEF IInv
<1> QED
  BY <1>1, Invariance, PTL

(* However TMDB renumbers and moves episodes, and however imports and      *)
(* their fetches interleave, the deferred slot constraint refuses none.    *)
THEOREM SlotsAlwaysSettle == Spec => []SlotsSettle
<1>1. IInv => SlotsSettle
  BY DEF IInv, SlotsSettle, WorkOK
<1> QED
  BY <1>1, Invariance, PTL

(* An import commits a row for each episode it fetched, in a slot TMDB     *)
(* gave for it.                                                            *)
THEOREM FetchedAlwaysWritten == Spec => []FetchedIsWritten
<1>1. IInv => FetchedIsWritten
  <2> SUFFICES ASSUME IInv, NEW w \in Workers, Writing(w), task[w].todo = {},
                      NEW i \in GotIds(w)
               PROVE  task[w].work[i] \in GotSlots(w, i)
    BY DEF FetchedIsWritten
  <2>1. PICK p \in task[w].got : p[1] = i
    BY DEF GotIds
  <2> QED
    BY <2>1 DEF IInv, WorkOK
<1> QED
  BY <1>1, Invariance, PTL

(* No import destroys a vote, whenever it was cast.                        *)
THEOREM VotesSurviveImports == Spec => []VotedKeepRows
<1>1. IInv => VotedKeepRows
  BY DEF IInv, VotedKeepRows, WorkOK
<1> QED
  BY <1>1, Invariance, PTL

(* Only an episode that changed season may lose its row and get a new one. *)
THEOREM RenumberedKeepRows == Spec => []RecreatedOnlyWhenMoved
<1>1. IInv => RecreatedOnlyWhenMoved
  <2> SUFFICES ASSUME IInv, NEW w \in Workers, Writing(w),
                      NEW i \in task[w].gone \cap GotIds(w)
               PROVE  /\ rows[i] # Absent
                      /\ \A slot \in GotSlots(w, i) : slot[1] # rows[i][1]
    BY DEF RecreatedOnlyWhenMoved
  <2> QED
    BY DEF IInv, WorkOK, LostOK, GotSlots
<1> QED
  BY <1>1, Invariance, PTL

=============================================================================

--------------------------- MODULE WatchPageProofs ---------------------------
(***************************************************************************)
(* Proofs about WatchPage, for any number of episodes, seasons, toggles    *)
(* and loads under way: TypeOK, InStep and RowsBelong.                     *)
(*                                                                         *)
(* InStep is not inductive as it stands: the counter is that of the        *)
(* episodes expected to be watched, which are known only if each toggle    *)
(* under way is the one of its episode, still has its row (TogglesOK), and *)
(* is about to change what is stored or has just changed it (Sync).  A     *)
(* load that is not raced - by a toggle, say, or as its reader was not     *)
(* recognised - has read what is stored (LoadsOK).                         *)
(***************************************************************************)
EXTENDS WatchPage, TLAPS, FiniteSetTheorems

Row == [watched : BOOLEAN, busy : BOOLEAN]

LoadType ==
  [pc : {"idle", "sent", "listed", "counted", "answer"},
   season : Seasons \cup {None}, active : BOOLEAN,
   seen : SUBSET Episodes, total : Nat \cup {None}, raced : BOOLEAN]

ToggleType ==
  [pc : {"idle", "sent", "written", "failed"},
   episode : Episodes \cup {None}, next : BOOLEAN,
   owner : {"row", "page", "nobody"}]

(* A toggle under way is of an episode; if its row is still there, that is *)
(* busy, and no other toggle is of this row.                               *)
ToggleOK(k) ==
  /\ toggle[k].pc = "idle" => toggle[k].owner = "nobody"
  /\ toggle[k].pc # "idle" => toggle[k].episode \in Episodes
  /\ toggle[k].owner = "row" =>
       rows[toggle[k].episode] # None /\ rows[toggle[k].episode].busy

OneEach(j, k) ==
  toggle[j].owner = "row" /\ toggle[k].owner = "row" =>
    toggle[j].episode # toggle[k].episode

TogglesOK ==
  /\ \A k \in Toggles : ToggleOK(k)
  /\ \A j, k \in Toggles : j # k => OneEach(j, k)

(* The load the page waits for is the only one, of the selected season; if *)
(* nothing crosses it, it has read what is stored.                         *)
LoadOK(l) ==
  load[l].active =>
    /\ page = "shown" /\ rows = NoRows
    /\ load[l].pc # "idle" /\ load[l].season = season
    /\ ~load[l].raced =>
         /\ InFlight = {}
         /\ load[l].pc \in {"listed", "answer"} =>
              load[l].seen = {e \in watch : SeasonOf[e] = season}
         /\ load[l].pc \in {"counted", "answer"} =>
              load[l].total \in {None, Cardinality(watch)}

LoadsOK ==
  /\ \A l \in Loads : LoadOK(l)
  /\ \A l, m \in Loads : l # m => ~(load[l].active /\ load[m].active)
  /\ page # "shown" => rows = NoRows
  /\ page = "left" => raced

(* While nothing has put the page out of step, each toggle under way has   *)
(* its row, and is still to be written or has been.                        *)
Pending(k) ==
  /\ toggle[k].owner = "row"
  /\ toggle[k].pc = "written" => (toggle[k].next <=> toggle[k].episode \in watch)
  /\ toggle[k].pc # "written" => (toggle[k].next <=> toggle[k].episode \notin watch)

Sync == page = "shown" /\ ~raced => \A k \in InFlight : Pending(k)

IInv == TypeOK /\ TogglesOK /\ LoadsOK /\ RowsBelong /\ Sync /\ InStep

-----------------------------------------------------------------------------

LEMMA NoLoadType == NoLoad \in LoadType /\ ~NoLoad.active
BY DEF NoLoad, LoadType

LEMMA NoToggleType ==
  NoToggle \in ToggleType /\ NoToggle.pc = "idle" /\ NoToggle.owner = "nobody"
BY DEF NoToggle, ToggleType

LEMMA TypeSplit ==
  TypeOK <=> /\ watch \subseteq Episodes
             /\ page \in {"shown", "error", "left"}
             /\ season \in Seasons
             /\ rows \in [Episodes -> Row \cup {None}]
             /\ count \in Nat \cup {None}
             /\ load \in [Loads -> LoadType]
             /\ toggle \in [Toggles -> ToggleType]
             /\ raced \in BOOLEAN
BY DEF TypeOK, Row, LoadType, ToggleType

LEMMA CountsWatched ==
  ASSUME NEW S \in SUBSET Episodes
  PROVE  IsFiniteSet(S) /\ Cardinality(S) \in Nat
BY FiniteEpisodes, FS_Subset, FS_CardinalityType

LEMMA IgnoredType ==
  ASSUME TypeOK, NEW l \in Loads
  PROVE  Ignored(l) \in LoadType /\ ~Ignored(l).active
<1>1. load[l] \in LoadType
  BY TypeSplit
<1>2. load[l].season \in Seasons \cup {None}
  BY <1>1 DEF LoadType
<1> QED
  BY <1>2, NoLoadType DEF Ignored, NoLoad, LoadType

LEMMA OrphanedType ==
  ASSUME TypeOK, NEW k \in Toggles, NEW o \in {"page", "nobody"}
  PROVE  /\ Orphaned(k, o) \in ToggleType
         /\ Orphaned(k, o).pc = toggle[k].pc
         /\ Orphaned(k, o).episode = toggle[k].episode
         /\ Orphaned(k, o).next = toggle[k].next
         /\ Orphaned(k, o).owner # "row"
         /\ toggle[k].owner = "nobody" => Orphaned(k, o).owner = "nobody"
<1>1. toggle[k] \in ToggleType
  BY TypeSplit
<1> QED
  BY <1>1 DEF Orphaned, ToggleType

LEMMA InitIInv == Init => IInv
<1> SUFFICES ASSUME Init PROVE IInv
  OBVIOUS
<1>1. TypeOK
  <2>1. NoRows \in [Episodes -> Row \cup {None}]
    BY DEF NoRows
  <2> QED
    BY <2>1, SeasonsValid, NoLoadType, NoToggleType, TypeSplit DEF Init
<1>2. TogglesOK
  BY NoToggleType DEF Init, TogglesOK, ToggleOK, OneEach
<1>3. LoadsOK
  BY NoLoadType DEF Init, LoadsOK, LoadOK
<1>4. RowsBelong /\ Sync /\ InStep
  BY DEF Init, RowsBelong, Sync, InStep, NoRows
<1> QED
  BY <1>1, <1>2, <1>3, <1>4 DEF IInv

-----------------------------------------------------------------------------

(* The effect that loads a season, on an opened page or a shown one.       *)
LEMMA StartType ==
  ASSUME TypeOK, NEW l \in Loads, NEW s \in Seasons, StartLoad(l, s)
  PROVE  /\ season' = s /\ rows' = NoRows /\ rows' \in [Episodes -> Row \cup {None}]
         /\ load' \in [Loads -> LoadType]
         /\ load'[l].active /\ load'[l].pc = "sent" /\ load'[l].season = s
         /\ load'[l].raced = (InFlight # {})
         /\ \A m \in Loads \ {l} : ~load'[m].active
         /\ raced' \in BOOLEAN
<1> DEFINE started == [NoLoad EXCEPT !.pc = "sent", !.season = s, !.active = TRUE,
                                     !.raced = InFlight # {}]
<1>1. started \in LoadType /\ started.active /\ started.pc = "sent"
      /\ started.season = s /\ started.raced = (InFlight # {})
  BY DEF NoLoad, LoadType
<1> HIDE DEF started
<1>2. load' = [x \in Loads |-> IF x = l THEN started ELSE Ignored(x)]
  BY DEF StartLoad, started
<1>3. rows' = NoRows /\ NoRows \in [Episodes -> Row \cup {None}]
  BY DEF StartLoad, NoRows
<1>4. raced' \in BOOLEAN
  BY DEF StartLoad
<1>5. load' \in [Loads -> LoadType]
  BY <1>1, <1>2, IgnoredType
<1>6. load'[l] = started /\ \A m \in Loads \ {l} : ~load'[m].active
  BY <1>2, IgnoredType
<1> QED
  BY <1>1, <1>3, <1>4, <1>5, <1>6 DEF StartLoad

LEMMA OpenStep ==
  ASSUME IInv, NEW l \in Loads, Open(l)
  PROVE  IInv'
<1>1. TypeOK /\ page = "left" /\ page' = "shown" /\ raced
  BY DEF IInv, LoadsOK, Open
<1>2. /\ season' = FirstSeason /\ rows' = NoRows /\ load' \in [Loads -> LoadType]
      /\ rows' \in [Episodes -> Row \cup {None}]
      /\ load'[l].active /\ load'[l].pc = "sent" /\ load'[l].season = FirstSeason
      /\ load'[l].raced = (InFlight # {})
      /\ \A m \in Loads \ {l} : ~load'[m].active
  BY <1>1, SeasonsValid, StartType DEF Open
<1>3. raced' = TRUE /\ watch' = watch /\ toggle' = toggle /\ count' = None
  BY <1>1, TypeSplit DEF Open, StartLoad
<1>4. TypeOK'
  BY <1>1, <1>2, <1>3, SeasonsValid, TypeSplit DEF TypeOK, Row, LoadType, ToggleType
<1>5. \A k \in Toggles : toggle[k].owner # "row"
  BY <1>1 DEF IInv, TogglesOK, ToggleOK, LoadsOK, NoRows, TypeOK
<1>6. TogglesOK'
  BY <1>3, <1>5 DEF IInv, TogglesOK, ToggleOK, OneEach
<1>7. InFlight' = InFlight
  BY <1>3 DEF InFlight
<1>8. LoadsOK'
  BY <1>1, <1>2, <1>3, <1>7 DEF LoadsOK, LoadOK
<1>9. RowsBelong' /\ Sync' /\ InStep'
  BY <1>2, <1>3 DEF RowsBelong, Sync, InStep, NoRows
<1> QED
  BY <1>4, <1>6, <1>8, <1>9 DEF IInv


LEMMA SelectStep ==
  ASSUME IInv, NEW l \in Loads, NEW s \in Seasons, SelectSeason(l, s)
  PROVE  IInv'
<1>1. TypeOK /\ page = "shown" /\ page' = "shown" /\ watch' = watch /\ count' = count
  BY DEF IInv, SelectSeason
<1>2. /\ season' = s /\ rows' = NoRows /\ load' \in [Loads -> LoadType]
      /\ rows' \in [Episodes -> Row \cup {None}]
      /\ load'[l].active /\ load'[l].pc = "sent" /\ load'[l].season = s
      /\ load'[l].raced = (InFlight # {})
      /\ \A m \in Loads \ {l} : ~load'[m].active
      /\ raced' \in BOOLEAN
  BY <1>1, StartType DEF SelectSeason
<1>3. raced' = (raced \/ InFlight # {})
  BY DEF SelectSeason, StartLoad
<1>4. toggle' = [k \in Toggles |-> Orphaned(k, "page")]
  BY DEF SelectSeason
<1>5. \A k \in Toggles : /\ toggle'[k] \in ToggleType
                         /\ toggle'[k].pc = toggle[k].pc
                         /\ toggle'[k].episode = toggle[k].episode
                         /\ toggle'[k].owner # "row"
                         /\ toggle[k].owner = "nobody" => toggle'[k].owner = "nobody"
  BY <1>1, <1>4, OrphanedType
<1>6. TypeOK'
  <2>1. toggle' \in [Toggles -> ToggleType]
    BY <1>4, <1>5
  <2> QED
    BY <1>1, <1>2, <2>1 DEF TypeOK, Row, LoadType, ToggleType
<1>7. TogglesOK'
  BY <1>5 DEF IInv, TogglesOK, ToggleOK, OneEach
<1>8. InFlight' = InFlight
  BY <1>5 DEF InFlight
<1>9. LoadsOK'
  BY <1>1, <1>2, <1>8 DEF LoadsOK, LoadOK
<1>10. RowsBelong'
  BY <1>2 DEF RowsBelong, NoRows
<1>11. ASSUME ~raced'
       PROVE  Sync' /\ InStep'
  <2>1. ~raced /\ InFlight = {} /\ InFlight' = {}
    BY <1>3, <1>8, <1>11
  <2>2. Expected = watch /\ Expected' = watch
    BY <1>1, <2>1 DEF Expected
  <2>3. count' = Cardinality(Expected')
    BY <1>1, <2>1, <2>2 DEF IInv, InStep
  <2> QED
    BY <1>2, <2>1, <2>3 DEF Sync, InStep, NoRows
<1> QED
  BY <1>6, <1>7, <1>9, <1>10, <1>11 DEF IInv, Sync, InStep

LEMMA LeaveStep ==
  ASSUME IInv, Leave
  PROVE  IInv'
<1>1. TypeOK /\ page' = "left" /\ rows' = NoRows /\ raced' = TRUE /\ count' = None
      /\ watch' = watch /\ season' = season
      /\ load' = [l \in Loads |-> Ignored(l)]
      /\ toggle' = [k \in Toggles |-> Orphaned(k, "nobody")]
  BY DEF IInv, Leave
<1>2. \A l \in Loads : load'[l] \in LoadType /\ ~load'[l].active
  BY <1>1, IgnoredType
<1>3. \A k \in Toggles : /\ toggle'[k] \in ToggleType
                         /\ toggle'[k].pc = toggle[k].pc
                         /\ toggle'[k].episode = toggle[k].episode
                         /\ toggle'[k].owner # "row"
                         /\ toggle[k].owner = "nobody" => toggle'[k].owner = "nobody"
  BY <1>1, OrphanedType
<1>4. TypeOK'
  <2>1. load' \in [Loads -> LoadType] /\ toggle' \in [Toggles -> ToggleType]
    BY <1>1, <1>2, <1>3
  <2>2. NoRows \in [Episodes -> Row \cup {None}]
    BY DEF NoRows
  <2> QED
    BY <1>1, <2>1, <2>2 DEF TypeOK, Row, LoadType, ToggleType
<1>5. TogglesOK'
  BY <1>3 DEF IInv, TogglesOK, ToggleOK, OneEach
<1>6. LoadsOK'
  BY <1>1, <1>2 DEF LoadsOK, LoadOK
<1>7. RowsBelong' /\ Sync' /\ InStep'
  BY <1>1 DEF RowsBelong, Sync, InStep, NoRows
<1> QED
  BY <1>4, <1>5, <1>6, <1>7 DEF IInv

-----------------------------------------------------------------------------

(* A step of one load that leaves the page and the table alone.            *)
LEMMA ReadStep ==
  ASSUME IInv, NEW l \in Loads, load' = [load EXCEPT ![l] = load'[l]],
         load'[l] \in LoadType, LoadOK(l)', load'[l].active = load[l].active,
         UNCHANGED <<watch, page, season, rows, count, toggle, raced>>
  PROVE  IInv'
<1>1. TypeOK'
  <2>1. load' \in [Loads -> LoadType]
    BY TypeSplit DEF IInv
  <2> QED
    BY <2>1 DEF IInv, TypeOK, LoadType
<1>2. InFlight' = InFlight /\ Expected' = Expected
  BY DEF InFlight, Expected
<1>3. TogglesOK' /\ RowsBelong' /\ Sync' /\ InStep'
  BY <1>2 DEF IInv, TogglesOK, ToggleOK, OneEach, RowsBelong, Sync, Pending, InStep
<1>4. LoadsOK'
  <2>1. \A m \in Loads \ {l} : load'[m] = load[m]
    BY DEF IInv, TypeOK
  <2>2. \A m \in Loads : LoadOK(m)'
    BY <1>2, <2>1 DEF IInv, LoadsOK, LoadOK
  <2>3. \A m \in Loads : load'[m].active = load[m].active
    BY <2>1
  <2> QED
    BY <2>2, <2>3 DEF IInv, LoadsOK
<1> QED
  BY <1>1, <1>3, <1>4 DEF IInv

LEMMA ReadEpisodesStep ==
  ASSUME IInv, NEW l \in Loads, ReadEpisodes(l)
  PROVE  IInv'
<1> DEFINE S == {e \in watch : SeasonOf[e] = load[l].season}
           p == IF load[l].pc = "sent" THEN "listed" ELSE "answer"
<1>1. load[l] \in LoadType /\ TypeOK
  BY TypeSplit DEF IInv
<1>2. S \in SUBSET Episodes /\ p \in {"listed", "answer"}
      /\ (load[l].active /\ load[l].season = season => S = {e \in watch : SeasonOf[e] = season})
      /\ (p = "answer" => load[l].pc = "counted")
  BY <1>1 DEF ReadEpisodes, TypeOK
<1>3. load' = [load EXCEPT ![l].seen = S, ![l].pc = p]
  BY <1>1 DEF ReadEpisodes, TypeOK
<1> HIDE DEF S, p
<1>4. load'[l] = [load[l] EXCEPT !.seen = S, !.pc = p]
      /\ load' = [load EXCEPT ![l] = load'[l]]
  BY <1>1, <1>3 DEF TypeOK
<1>5. /\ load'[l] \in LoadType /\ load'[l].pc = p /\ load'[l].seen = S
      /\ load'[l].season = load[l].season /\ load'[l].active = load[l].active
      /\ load'[l].raced = load[l].raced /\ load'[l].total = load[l].total
  BY <1>1, <1>2, <1>4 DEF LoadType
<1>6. UNCHANGED <<watch, page, season, rows, count, toggle, raced>>
  BY DEF ReadEpisodes
<1>7. InFlight' = InFlight
  BY <1>6 DEF InFlight
<1>8. LoadOK(l)'
  BY <1>2, <1>5, <1>6, <1>7 DEF IInv, LoadsOK, LoadOK
<1> QED
  BY <1>4, <1>5, <1>6, <1>8, ReadStep

LEMMA ReadCountStep ==
  ASSUME IInv, NEW l \in Loads, ReadCount(l)
  PROVE  IInv'
<1> DEFINE p == IF load[l].pc = "sent" THEN "counted" ELSE "answer"
<1>1. load[l] \in LoadType /\ TypeOK
  BY TypeSplit DEF IInv
<1>2. p \in {"counted", "answer"} /\ (p = "answer" => load[l].pc = "listed")
  BY DEF ReadCount
<1>3. PICK n \in {Cardinality(watch), None} :
        load' = [load EXCEPT ![l].total = n, ![l].pc = p]
  BY <1>1 DEF ReadCount, TypeOK
<1>4. n \in Nat \cup {None}
  BY <1>1, CountsWatched DEF TypeOK
<1> HIDE DEF p
<1>5. load'[l] = [load[l] EXCEPT !.total = n, !.pc = p]
      /\ load' = [load EXCEPT ![l] = load'[l]]
  BY <1>1, <1>3 DEF TypeOK
<1>6. /\ load'[l] \in LoadType /\ load'[l].pc = p /\ load'[l].total = n
      /\ load'[l].season = load[l].season /\ load'[l].active = load[l].active
      /\ load'[l].raced = load[l].raced /\ load'[l].seen = load[l].seen
  BY <1>1, <1>2, <1>4, <1>5 DEF LoadType
<1>7. UNCHANGED <<watch, page, season, rows, count, toggle, raced>>
  BY DEF ReadCount
<1>8. InFlight' = InFlight
  BY <1>7 DEF InFlight
<1>9. LoadOK(l)'
  BY <1>2, <1>6, <1>7, <1>8 DEF IInv, LoadsOK, LoadOK
<1> QED
  BY <1>5, <1>6, <1>7, <1>9, ReadStep

LEMMA ReadAnonymouslyStep ==
  ASSUME IInv, NEW l \in Loads, ReadAnonymously(l)
  PROVE  IInv'
<1> DEFINE a == [load[l] EXCEPT !.pc = "answer", !.seen = {}, !.total = None,
                                !.raced = TRUE]
<1>1. load[l] \in LoadType /\ TypeOK
  BY TypeSplit DEF IInv
<1>2. load' = [load EXCEPT ![l] = a]
  BY <1>1 DEF ReadAnonymously, TypeOK
<1>3. /\ a \in LoadType /\ a.pc = "answer" /\ a.raced = TRUE
      /\ a.season = load[l].season /\ a.active = load[l].active
  BY <1>1 DEF LoadType
<1> HIDE DEF a
<1>4. load'[l] = a /\ load' = [load EXCEPT ![l] = load'[l]]
  BY <1>1, <1>2 DEF TypeOK
<1>5. UNCHANGED <<watch, page, season, rows, count, toggle, raced>>
  BY DEF ReadAnonymously
<1>6. LoadOK(l)'
  BY <1>3, <1>4, <1>5 DEF IInv, LoadsOK, LoadOK
<1> QED
  BY <1>3, <1>4, <1>5, <1>6, ReadStep

LEMMA LoadedStep ==
  ASSUME IInv, NEW l \in Loads, Loaded(l)
  PROVE  IInv'
<1>1. TypeOK /\ load[l] \in LoadType /\ load' = [load EXCEPT ![l] = NoLoad]
      /\ UNCHANGED <<watch, page, season, toggle>> /\ load[l].pc = "answer"
  BY TypeSplit DEF IInv, Loaded
<1>2. InFlight' = InFlight /\ Expected' = Expected
  BY <1>1 DEF InFlight, Expected
<1>3. load'[l] = NoLoad /\ \A m \in Loads \ {l} : load'[m] = load[m]
  BY <1>1 DEF TypeOK
<1>4. CASE ~load[l].active
  <2>1. load'[l].active = load[l].active /\ load'[l] \in LoadType
        /\ load' = [load EXCEPT ![l] = load'[l]]
    BY <1>1, <1>3, <1>4, NoLoadType DEF LoadType
  <2>2. LoadOK(l)'
    BY <1>3, NoLoadType DEF LoadOK
  <2>3. UNCHANGED <<watch, page, season, rows, count, toggle, raced>>
    BY <1>4 DEF Loaded
  <2> QED
    BY <2>1, <2>2, <2>3, ReadStep
<1>5. CASE load[l].active
  <2>1. /\ page = "shown" /\ rows = NoRows /\ load[l].season = season
        /\ ~load[l].raced =>
             /\ InFlight = {}
             /\ load[l].seen = {e \in watch : SeasonOf[e] = season}
             /\ load[l].total \in {None, Cardinality(watch)}
        /\ \A m \in Loads \ {l} : ~load[m].active
    BY <1>1, <1>5 DEF IInv, LoadsOK, LoadOK
  <2>2. /\ rows' = RowsOf(season, load[l].seen)
        /\ count' = IF load[l].total # None THEN load[l].total ELSE count
        /\ raced' = (load[l].raced \/ (raced /\ load[l].total = None))
    BY <1>5, <2>1 DEF Loaded
  <2>3. ASSUME NEW e \in Episodes, rows'[e] # None
        PROVE  /\ SeasonOf[e] = season /\ ~rows'[e].busy
               /\ rows'[e].watched = (e \in load[l].seen)
    <3> DEFINE b == e \in load[l].seen
    <3>1. b \in BOOLEAN
      OBVIOUS
    <3>2. SeasonOf[e] = season /\ rows'[e] = [watched |-> b, busy |-> FALSE]
      BY <2>2, <2>3 DEF RowsOf
    <3> HIDE DEF b
    <3>3. ~rows'[e].busy /\ rows'[e].watched = b
      BY <3>2
    <3> QED
      BY <3>2, <3>3 DEF b
  <2>4. rows' \in [Episodes -> Row \cup {None}]
    BY <2>2 DEF RowsOf, Row
  <2>5. TypeOK'
    <3>1. load' \in [Loads -> LoadType]
      BY <1>1, NoLoadType, TypeSplit
    <3>2. count' \in Nat \cup {None} /\ raced' \in BOOLEAN
      BY <1>1, <2>2 DEF LoadType, TypeOK
    <3> QED
      BY <1>1, <2>4, <3>1, <3>2 DEF TypeOK, Row, LoadType
  <2>6. \A k \in Toggles : toggle[k].owner # "row"
    BY <2>1 DEF IInv, TogglesOK, ToggleOK, NoRows, TypeOK
  <2>7. TogglesOK'
    BY <1>1, <2>6 DEF IInv, TogglesOK, ToggleOK, OneEach
  <2>8. LoadsOK'
    BY <1>1, <1>3, <2>1, NoLoadType DEF LoadsOK, LoadOK
  <2>9. RowsBelong'
    BY <1>1, <2>3 DEF RowsBelong
  <2>10. ASSUME ~raced'
         PROVE  Sync' /\ InStep'
    <3>1. /\ ~load[l].raced /\ InFlight = {} /\ (~raced \/ load[l].total # None)
      BY <2>1, <2>2, <2>10
    <3>2. Expected = watch
      BY <3>1 DEF Expected
    <3>3. count' = Cardinality(Expected')
      BY <1>2, <2>1, <2>2, <3>1, <3>2 DEF IInv, InStep
    <3>4. ASSUME NEW e \in Episodes, rows'[e] # None
          PROVE  rows'[e].watched = (e \in Expected')
      <4>1. SeasonOf[e] = season /\ rows'[e].watched = (e \in load[l].seen)
        BY <2>3, <3>4
      <4>2. e \in load[l].seen <=> e \in watch
        BY <2>1, <3>1, <4>1
      <4> QED
        BY <1>2, <3>2, <4>1, <4>2
    <3> QED
      BY <1>2, <3>1, <3>3, <3>4 DEF Sync, InStep
  <2> QED
    BY <2>5, <2>7, <2>8, <2>9, <2>10 DEF IInv, Sync, InStep
<1> QED
  BY <1>4, <1>5

LEMMA LoadFailsStep ==
  ASSUME IInv, NEW l \in Loads, LoadFails(l)
  PROVE  IInv'
<1>1. TypeOK /\ load' = [load EXCEPT ![l] = NoLoad] /\ page' = "error" /\ page = "shown"
      /\ rows = NoRows /\ UNCHANGED <<watch, season, rows, count, toggle, raced>>
      /\ \A m \in Loads \ {l} : ~load[m].active
  BY DEF IInv, LoadsOK, LoadOK, LoadFails
<1>2. load'[l] = NoLoad /\ \A m \in Loads \ {l} : load'[m] = load[m]
  BY <1>1 DEF TypeOK
<1>3. TypeOK'
  <2>1. load' \in [Loads -> LoadType]
    BY <1>1, NoLoadType, TypeSplit
  <2> QED
    BY <1>1, <2>1 DEF TypeOK, LoadType
<1>4. InFlight' = InFlight
  BY <1>1 DEF InFlight
<1>5. TogglesOK' /\ RowsBelong'
  BY <1>1, <1>4 DEF IInv, TogglesOK, ToggleOK, OneEach, RowsBelong
<1>6. LoadsOK'
  BY <1>1, <1>2, NoLoadType DEF LoadsOK, LoadOK
<1>7. Sync' /\ InStep'
  BY <1>1 DEF Sync, InStep
<1> QED
  BY <1>3, <1>5, <1>6, <1>7 DEF IInv

-----------------------------------------------------------------------------

(* Membership in Expected: the toggle under way decides, else the table.   *)
LEMMA ExpectedMember ==
  ASSUME NEW e
  PROVE  e \in Expected <=>
           /\ e \in watch \/ \E k \in InFlight : toggle[k].next /\ toggle[k].episode = e
           /\ ~\E k \in InFlight : ~toggle[k].next /\ toggle[k].episode = e
BY DEF Expected

LEMMA ExpectedEpisodes == IInv => Expected \in SUBSET Episodes
BY DEF IInv, TypeOK, TogglesOK, ToggleOK, Expected, InFlight

(* While the page is in step a load under way that nothing crosses means   *)
(* that no toggle is.                                                      *)
LEMMA RowsMeanNoLoad ==
  ASSUME IInv, NEW e \in Episodes, rows[e] # None
  PROVE  page = "shown" /\ \A l \in Loads : ~load[l].active
BY DEF IInv, LoadsOK, LoadOK, NoRows

(* Writing, refusing or losing an answer: the toggle goes from one stage   *)
(* to the next.                                                            *)
LEMMA StageType ==
  ASSUME IInv, NEW k \in Toggles, NEW pc \in {"written", "failed"},
         toggle' = [toggle EXCEPT ![k].pc = pc], toggle[k].pc # "idle"
  PROVE  /\ toggle' \in [Toggles -> ToggleType] /\ toggle'[k].pc = pc
         /\ \A j \in Toggles : /\ toggle'[j].episode = toggle[j].episode
                               /\ toggle'[j].next = toggle[j].next
                               /\ toggle'[j].owner = toggle[j].owner
         /\ \A j \in Toggles \ {k} : toggle'[j] = toggle[j]
         /\ InFlight' = InFlight
<1>1. toggle \in [Toggles -> ToggleType]
  BY TypeSplit DEF IInv
<1>2. toggle'[k] = [toggle[k] EXCEPT !.pc = pc] /\ toggle' \in [Toggles -> ToggleType]
      /\ \A j \in Toggles \ {k} : toggle'[j] = toggle[j]
  BY <1>1 DEF ToggleType
<1>3. toggle'[k].pc = pc /\ toggle'[k].episode = toggle[k].episode
      /\ toggle'[k].next = toggle[k].next /\ toggle'[k].owner = toggle[k].owner
  BY <1>1, <1>2 DEF ToggleType
<1>4. InFlight' = InFlight
  BY <1>2, <1>3 DEF InFlight
<1> QED
  BY <1>2, <1>3, <1>4

LEMMA WriteStep ==
  ASSUME IInv, NEW k \in Toggles, Write(k)
  PROVE  IInv'
<1> DEFINE e == toggle[k].episode
<1>1. /\ toggle' = [toggle EXCEPT ![k].pc = "written"] /\ toggle[k].pc = "sent"
      /\ watch' = IF toggle[k].next THEN watch \cup {e} ELSE watch \ {e}
      /\ UNCHANGED <<page, season, rows, count, load, raced>>
  BY DEF Write
<1>2. /\ toggle' \in [Toggles -> ToggleType] /\ toggle'[k].pc = "written"
      /\ \A j \in Toggles : /\ toggle'[j].episode = toggle[j].episode
                            /\ toggle'[j].next = toggle[j].next
                            /\ toggle'[j].owner = toggle[j].owner
      /\ \A j \in Toggles \ {k} : toggle'[j] = toggle[j]
      /\ InFlight' = InFlight
  BY <1>1, StageType
<1>3. k \in InFlight /\ e \in Episodes
  BY <1>1 DEF InFlight, IInv, TogglesOK, ToggleOK
<1>4. TypeOK'
  BY <1>1, <1>2, <1>3 DEF IInv, TypeOK, ToggleType
<1>5. TogglesOK'
  BY <1>1, <1>2, <1>3 DEF IInv, TogglesOK, ToggleOK, OneEach
<1>6. LoadsOK'
  BY <1>1, <1>2, <1>3 DEF IInv, LoadsOK, LoadOK
<1>7. RowsBelong'
  BY <1>1, <1>2 DEF IInv, RowsBelong
<1>8. ASSUME page' = "shown", ~raced'
      PROVE  (\A j \in InFlight' : Pending(j)') /\ InStep'
  <2>1. page = "shown" /\ ~raced /\ \A j \in InFlight : Pending(j)
    BY <1>1, <1>8 DEF IInv, Sync
  <2>2. \A j \in InFlight \ {k} : toggle[j].episode # e
    BY <1>3, <2>1 DEF IInv, TogglesOK, OneEach, Pending, InFlight
  <2>3. Pending(k)'
    BY <1>1, <1>2, <1>3, <2>1 DEF Pending
  <2>4. \A j \in InFlight \ {k} : Pending(j)'
    BY <1>1, <1>2, <2>1, <2>2 DEF Pending, InFlight
  <2>5. Expected' = Expected
    <3>1. \A j \in InFlight : toggle'[j].episode = toggle[j].episode
                              /\ toggle'[j].next = toggle[j].next
      BY <1>2 DEF InFlight
    <3>2. {toggle'[j].episode : j \in {x \in InFlight' : toggle'[x].next}}
            = {toggle[j].episode : j \in {x \in InFlight : toggle[x].next}}
      BY <1>2, <3>1
    <3>3. {toggle'[j].episode : j \in {x \in InFlight' : ~toggle'[x].next}}
            = {toggle[j].episode : j \in {x \in InFlight : ~toggle[x].next}}
      BY <1>2, <3>1
    <3>4. CASE toggle[k].next
      BY <1>1, <1>3, <3>2, <3>3, <3>4 DEF Expected
    <3>5. CASE ~toggle[k].next
      BY <1>1, <1>3, <3>2, <3>3, <3>5 DEF Expected
    <3> QED
      BY <3>4, <3>5
  <2>6. InStep'
    BY <1>1, <2>5 DEF IInv, InStep
  <2> QED
    BY <1>2, <2>3, <2>4, <2>6
<1> QED
  BY <1>4, <1>5, <1>6, <1>7, <1>8 DEF IInv, Sync, InStep

LEMMA RefuseStep ==
  ASSUME IInv, NEW k \in Toggles, Refuse(k)
  PROVE  IInv'
<1>1. /\ toggle' = [toggle EXCEPT ![k].pc = "failed"] /\ toggle[k].pc = "sent"
      /\ UNCHANGED <<watch, page, season, rows, count, load, raced>>
  BY DEF Refuse
<1>2. /\ toggle' \in [Toggles -> ToggleType] /\ toggle'[k].pc = "failed"
      /\ \A j \in Toggles : /\ toggle'[j].episode = toggle[j].episode
                            /\ toggle'[j].next = toggle[j].next
                            /\ toggle'[j].owner = toggle[j].owner
      /\ \A j \in Toggles \ {k} : toggle'[j] = toggle[j]
      /\ InFlight' = InFlight
  BY <1>1, StageType
<1>3. TypeOK'
  BY <1>1, <1>2 DEF IInv, TypeOK, ToggleType
<1>4. TogglesOK' /\ LoadsOK' /\ RowsBelong'
  BY <1>1, <1>2 DEF IInv, TogglesOK, ToggleOK, OneEach, LoadsOK, LoadOK, RowsBelong
<1>5. Sync'
  BY <1>1, <1>2 DEF IInv, Sync, Pending, InFlight
<1>6. Expected' = Expected
  <2>1. {toggle'[j].episode : j \in {x \in InFlight' : toggle'[x].next}}
          = {toggle[j].episode : j \in {x \in InFlight : toggle[x].next}}
    BY <1>2 DEF InFlight
  <2>2. {toggle'[j].episode : j \in {x \in InFlight' : ~toggle'[x].next}}
          = {toggle[j].episode : j \in {x \in InFlight : ~toggle[x].next}}
    BY <1>2 DEF InFlight
  <2> QED
    BY <1>1, <2>1, <2>2 DEF Expected
<1>7. InStep'
  BY <1>1, <1>6 DEF IInv, InStep
<1> QED
  BY <1>3, <1>4, <1>5, <1>7 DEF IInv

(* The page is not told: what it loads from now on is not to be trusted.   *)
LEMMA MarkedLoads ==
  ASSUME IInv, load' = [l \in Loads |-> [load[l] EXCEPT !.raced = load[l].active]],
         page' = page, season' = season, rows' = rows, raced' = TRUE
  PROVE  load' \in [Loads -> LoadType] /\ LoadsOK'
<1>1. \A l \in Loads : load[l] \in LoadType /\ load[l].active \in BOOLEAN
  BY TypeSplit DEF IInv, LoadType
<1>2. \A l \in Loads :
        /\ load'[l] \in LoadType
        /\ load'[l].active = load[l].active /\ (load[l].active => load'[l].raced)
        /\ load'[l].pc = load[l].pc /\ load'[l].season = load[l].season
  <2> SUFFICES ASSUME NEW l \in Loads
               PROVE  /\ load'[l] \in LoadType
                      /\ load'[l].active = load[l].active
                      /\ (load[l].active => load'[l].raced)
                      /\ load'[l].pc = load[l].pc /\ load'[l].season = load[l].season
    OBVIOUS
  <2>1. load'[l] = [load[l] EXCEPT !.raced = load[l].active]
    OBVIOUS
  <2> QED
    BY <1>1, <2>1 DEF LoadType
<1>3. load' \in [Loads -> LoadType]
  BY <1>2
<1>4. \A l \in Loads : LoadOK(l)'
  BY <1>2 DEF IInv, LoadsOK, LoadOK
<1>5. LoadsOK'
  BY <1>2, <1>4 DEF IInv, LoadsOK
<1> QED
  BY <1>3, <1>5

LEMMA LoseAnswerStep ==
  ASSUME IInv, NEW k \in Toggles, LoseAnswer(k)
  PROVE  IInv'
<1>1. /\ toggle' = [toggle EXCEPT ![k].pc = "failed"] /\ toggle[k].pc = "written"
      /\ UNCHANGED <<watch, page, season, rows, count>> /\ raced' = TRUE
  BY DEF LoseAnswer
<1>2. /\ toggle' \in [Toggles -> ToggleType] /\ toggle'[k].pc = "failed"
      /\ \A j \in Toggles : /\ toggle'[j].episode = toggle[j].episode
                            /\ toggle'[j].owner = toggle[j].owner
      /\ \A j \in Toggles \ {k} : toggle'[j] = toggle[j]
      /\ InFlight' = InFlight
  BY <1>1, StageType
<1>3. load' \in [Loads -> LoadType] /\ LoadsOK'
  BY <1>1, MarkedLoads DEF LoseAnswer
<1>4. TypeOK'
  BY <1>1, <1>2, <1>3 DEF IInv, TypeOK, ToggleType, LoadType
<1>5. TogglesOK' /\ RowsBelong'
  BY <1>1, <1>2 DEF IInv, TogglesOK, ToggleOK, OneEach, RowsBelong
<1>6. Sync' /\ InStep'
  BY <1>1 DEF Sync, InStep
<1> QED
  BY <1>3, <1>4, <1>5, <1>6 DEF IInv

LEMMA ElsewhereStep ==
  ASSUME IInv, NEW e \in Episodes, Elsewhere(e)
  PROVE  IInv'
<1>1. UNCHANGED <<page, season, rows, count, toggle>> /\ raced' = TRUE
      /\ watch' \subseteq Episodes
  BY DEF Elsewhere, IInv, TypeOK
<1>2. load' \in [Loads -> LoadType] /\ LoadsOK'
  BY <1>1, MarkedLoads DEF Elsewhere
<1>3. TypeOK'
  BY <1>1, <1>2 DEF IInv, TypeOK, LoadType
<1>4. InFlight' = InFlight
  BY <1>1 DEF InFlight
<1>5. TogglesOK' /\ RowsBelong'
  BY <1>1, <1>4 DEF IInv, TogglesOK, ToggleOK, OneEach, RowsBelong
<1>6. Sync' /\ InStep'
  BY <1>1 DEF Sync, InStep
<1> QED
  BY <1>2, <1>3, <1>5, <1>6 DEF IInv

-----------------------------------------------------------------------------

(* The counter follows a set that gains or loses one episode.              *)
LEMMA BumpedCounts ==
  ASSUME NEW S \in SUBSET Episodes, NEW T, NEW e \in Episodes, NEW up \in BOOLEAN,
         count = Cardinality(S), up <=> e \notin S,
         T = IF up THEN S \cup {e} ELSE S \ {e}
  PROVE  Bumped(up) = Cardinality(T)
<1>1. IsFiniteSet(S) /\ count \in Nat /\ count # None
  BY CountsWatched, NoneIsNone
<1>2. CASE up
  <2>1. Cardinality(T) = Cardinality(S) + 1
    BY <1>1, <1>2, FS_AddElement
  <2> QED
    BY <1>1, <1>2, <2>1 DEF Bumped
<1>3. CASE ~up
  <2>1. Cardinality(T) = Cardinality(S) - 1
    BY <1>1, <1>3, FS_RemoveElement
  <2>2. count # 0
    BY <1>1, <1>3, FS_EmptySet
  <2> QED
    BY <1>1, <1>3, <2>1, <2>2 DEF Bumped
<1> QED
  BY <1>2, <1>3

LEMMA BumpedType ==
  ASSUME count \in Nat \cup {None}, NEW up
  PROVE  Bumped(up) \in Nat
BY NoneIsNone DEF Bumped

LEMMA ToggleStep ==
  ASSUME IInv, NEW k \in Toggles, NEW e \in Episodes, ToggleWatched(k, e)
  PROVE  IInv'
<1> DEFINE next == ~rows[e].watched
           sent == [pc |-> "sent", episode |-> e, next |-> next, owner |-> "row"]
           row  == [watched |-> next, busy |-> TRUE]
<1>1. /\ toggle[k].pc = "idle" /\ rows[e] # None /\ ~rows[e].busy
      /\ rows' = [rows EXCEPT ![e] = row] /\ count' = Bumped(next)
      /\ toggle' = [toggle EXCEPT ![k] = sent]
      /\ UNCHANGED <<watch, page, season, load, raced>>
  BY DEF ToggleWatched
<1>2. rows[e] \in Row /\ rows[e].watched \in BOOLEAN /\ next \in BOOLEAN
  BY <1>1, TypeSplit DEF IInv, Row
<1>3. sent \in ToggleType /\ sent.pc = "sent" /\ sent.episode = e /\ sent.owner = "row"
      /\ sent.next = next
  BY <1>2 DEF ToggleType
<1> HIDE DEF next
<1>4. row \in Row /\ row.watched = next /\ row.busy
  BY <1>2 DEF Row
<1> HIDE DEF sent, row
<1>4a. row # None
  BY <1>4, NoneIsNone DEF Row
<1>5. /\ toggle'[k] = sent /\ \A j \in Toggles \ {k} : toggle'[j] = toggle[j]
      /\ rows'[e] = row /\ \A x \in Episodes \ {e} : rows'[x] = rows[x]
  BY <1>1 DEF IInv, TypeOK
<1>6. InFlight' = InFlight \cup {k} /\ k \notin InFlight
  BY <1>1, <1>3, <1>5 DEF InFlight
<1>7. page = "shown" /\ \A l \in Loads : ~load[l].active
  BY <1>1, RowsMeanNoLoad
<1>8. TypeOK'
  <2>1. toggle' \in [Toggles -> ToggleType] /\ rows' \in [Episodes -> Row \cup {None}]
    BY <1>1, <1>3, <1>4, TypeSplit DEF IInv
  <2>2. count' \in Nat
    BY <1>1, BumpedType DEF IInv, TypeOK
  <2> QED
    BY <1>1, <2>1, <2>2 DEF IInv, TypeOK, Row, ToggleType
<1>9. \A j \in Toggles : toggle[j].owner = "row" => toggle[j].episode \in Episodes \ {e}
  BY <1>1 DEF IInv, TogglesOK, ToggleOK
<1>10. TogglesOK'
  <2>1. \A j \in Toggles : ToggleOK(j)'
    BY <1>3, <1>4, <1>4a, <1>5, <1>9 DEF IInv, TogglesOK, ToggleOK
  <2>2. \A i, j \in Toggles : i # j => OneEach(i, j)'
    BY <1>3, <1>5, <1>9 DEF IInv, TogglesOK, OneEach
  <2> QED
    BY <2>1, <2>2 DEF TogglesOK
<1>11. LoadsOK'
  BY <1>1, <1>7 DEF IInv, LoadsOK, LoadOK
<1>12. RowsBelong'
  <2>1. SeasonOf[e] = season
    BY <1>1 DEF IInv, RowsBelong
  <2>2. ASSUME NEW x \in Episodes, rows'[x] # None
        PROVE  /\ SeasonOf[x] = season'
               /\ rows'[x].busy =>
                    \E j \in InFlight' : toggle'[j].episode = x /\ toggle'[j].owner = "row"
    <3>1. CASE x = e
      BY <1>1, <1>3, <1>5, <1>6, <2>1, <3>1
    <3>2. CASE x # e
      BY <1>1, <1>5, <1>6, <2>2, <3>2 DEF IInv, RowsBelong, InFlight
    <3> QED
      BY <3>1, <3>2
  <2> QED
    BY <2>2 DEF RowsBelong
<1>13. ASSUME ~raced'
       PROVE  (\A j \in InFlight' : Pending(j)') /\ InStep'
  <2>1. /\ \A j \in InFlight : Pending(j)
        /\ count = Cardinality(Expected)
        /\ \A x \in Episodes : rows[x] # None => rows[x].watched = (x \in Expected)
    BY <1>1, <1>7, <1>13 DEF IInv, Sync, InStep
  <2>2. \A j \in InFlight : toggle[j].episode # e
    BY <1>9, <2>1 DEF Pending, InFlight
  <2>3. next <=> e \notin Expected
    BY <1>1, <1>2, <2>1 DEF next
  <2>4. e \in Expected <=> e \in watch
    BY <2>2, ExpectedMember
  <2>5. Pending(k)'
    BY <1>1, <1>3, <1>5, <2>3, <2>4 DEF Pending
  <2>6. \A j \in InFlight : Pending(j)'
    BY <1>1, <1>5, <1>6, <2>1 DEF Pending, InFlight
  <2>7. Expected' = IF next THEN Expected \cup {e} ELSE Expected \ {e}
    <3>1. {toggle'[j].episode : j \in {x \in InFlight' : toggle'[x].next}}
            = {toggle[j].episode : j \in {x \in InFlight : toggle[x].next}}
                \cup (IF next THEN {e} ELSE {})
      BY <1>3, <1>5, <1>6 DEF InFlight
    <3>2. {toggle'[j].episode : j \in {x \in InFlight' : ~toggle'[x].next}}
            = {toggle[j].episode : j \in {x \in InFlight : ~toggle[x].next}}
                \cup (IF next THEN {} ELSE {e})
      BY <1>3, <1>5, <1>6 DEF InFlight
    <3>3. e \notin {toggle[j].episode : j \in {x \in InFlight : ~toggle[x].next}}
      BY <2>2
    <3> QED
      BY <1>1, <3>1, <3>2, <3>3 DEF Expected
  <2>8. count' = Cardinality(Expected')
    BY <1>1, <1>2, <2>1, <2>3, <2>7, ExpectedEpisodes, BumpedCounts
  <2>9. ASSUME NEW x \in Episodes, rows'[x] # None
        PROVE  rows'[x].watched = (x \in Expected')
    <3>1. CASE x = e
      <4>1. rows'[x].watched = next
        BY <1>4, <1>5, <3>1
      <4>2. next <=> x \in Expected'
        BY <2>7, <3>1
      <4> QED
        BY <1>2, <4>1, <4>2
    <3>2. CASE x # e
      <4>1. x \in Expected' <=> x \in Expected
        BY <2>7, <3>2
      <4>2. rows[x].watched = (x \in Expected)
        BY <1>5, <2>1, <2>9, <3>2
      <4> QED
        BY <1>5, <3>2, <4>1, <4>2
    <3> QED
      BY <3>1, <3>2
  <2> QED
    BY <1>6, <2>5, <2>6, <2>8, <2>9 DEF InStep
<1> QED
  BY <1>8, <1>10, <1>11, <1>12, <1>13 DEF IInv, Sync, InStep

(* What the end of a toggle does to the row it came from.                  *)
LEMMA EndStep ==
  ASSUME IInv, NEW k \in Toggles, toggle[k].pc \in {"written", "failed"},
         toggle' = [toggle EXCEPT ![k] = NoToggle],
         NEW row \in Row, ~row.busy,
         rows' = IF toggle[k].owner = "row"
                 THEN [rows EXCEPT ![toggle[k].episode] = row] ELSE rows,
         count' \in Nat \cup {None},
         UNCHANGED <<watch, page, season, load, raced>>
  PROVE  /\ TypeOK' /\ TogglesOK' /\ LoadsOK' /\ RowsBelong'
         /\ k \in InFlight /\ InFlight' = InFlight \ {k}
         /\ \A j \in Toggles \ {k} : toggle'[j] = toggle[j]
         /\ toggle[k].episode \in Episodes
<1>1. /\ toggle'[k] = NoToggle /\ \A j \in Toggles \ {k} : toggle'[j] = toggle[j]
      /\ toggle' \in [Toggles -> ToggleType]
  BY NoToggleType, TypeSplit DEF IInv
<1>2. k \in InFlight /\ InFlight' = InFlight \ {k}
  BY <1>1, NoToggleType DEF InFlight
<1>3. toggle[k].episode \in Episodes
  BY DEF IInv, TogglesOK, ToggleOK
<1>4. rows' \in [Episodes -> Row \cup {None}]
  BY <1>3, TypeSplit DEF IInv
<1>5. TypeOK'
  BY <1>1, <1>4 DEF IInv, TypeOK, Row, ToggleType
<1>6. row # None
  BY NoneIsNone DEF Row
<1>7. \A x \in Episodes :
        rows'[x] # rows[x] =>
          toggle[k].owner = "row" /\ x = toggle[k].episode /\ rows'[x] = row
  BY <1>3 DEF IInv, TypeOK
<1>8. \A x \in Episodes : rows'[x] # None <=> rows[x] # None
  BY <1>6, <1>7 DEF IInv, TogglesOK, ToggleOK
<1>9. TogglesOK'
  <2>1. ASSUME NEW j \in Toggles \ {k}
        PROVE  ToggleOK(j)'
    <3>1. toggle'[j] = toggle[j] /\ ToggleOK(j) /\ OneEach(j, k)
      BY <1>1 DEF IInv, TogglesOK
    <3>2. toggle[j].owner = "row" =>
            toggle[j].episode \in Episodes /\ rows'[toggle[j].episode] = rows[toggle[j].episode]
      BY <1>7, <3>1 DEF ToggleOK, OneEach
    <3> QED
      BY <3>1, <3>2 DEF ToggleOK
  <2>2. ToggleOK(k)'
    BY <1>1, NoToggleType DEF ToggleOK
  <2>3. \A i, j \in Toggles : i # j => OneEach(i, j)'
    BY <1>1, NoToggleType DEF IInv, TogglesOK, OneEach
  <2> QED
    BY <2>1, <2>2, <2>3 DEF TogglesOK
<1>10. LoadsOK'
  <2>1. ASSUME rows' # rows
        PROVE  page = "shown" /\ \A l \in Loads : ~load[l].active
    <3>1. toggle[k].owner = "row"
      BY <2>1
    <3>2. rows[toggle[k].episode] # None
      BY <3>1 DEF IInv, TogglesOK, ToggleOK
    <3> QED
      BY <1>3, <3>2, RowsMeanNoLoad
  <2>2. CASE rows' # rows
    BY <2>1, <2>2 DEF IInv, LoadsOK, LoadOK
  <2>3. CASE rows' = rows
    BY <1>2, <2>3 DEF IInv, LoadsOK, LoadOK
  <2> QED
    BY <2>2, <2>3
<1>11. RowsBelong'
  <2>1. ASSUME NEW x \in Episodes, rows'[x] # None
        PROVE  /\ SeasonOf[x] = season'
               /\ rows'[x].busy =>
                    \E j \in InFlight' : toggle'[j].episode = x /\ toggle'[j].owner = "row"
    <3>1. SeasonOf[x] = season
      BY <1>8, <2>1 DEF IInv, RowsBelong
    <3>2. ASSUME rows'[x].busy
          PROVE  \E j \in InFlight' : toggle'[j].episode = x /\ toggle'[j].owner = "row"
      <4>1. rows'[x] = rows[x] /\ ~(toggle[k].owner = "row" /\ x = toggle[k].episode)
        BY <1>7, <3>2, <1>3 DEF IInv, TypeOK
      <4>2. PICK j \in InFlight : toggle[j].episode = x /\ toggle[j].owner = "row"
        BY <2>1, <3>2, <4>1 DEF IInv, RowsBelong
      <4>3. j # k
        BY <4>1, <4>2
      <4> QED
        BY <1>1, <1>2, <4>2, <4>3 DEF InFlight
    <3> QED
      BY <3>1, <3>2
  <2> QED
    BY <2>1 DEF RowsBelong
<1> QED
  BY <1>1, <1>2, <1>3, <1>5, <1>9, <1>10, <1>11

(* A page in step knows what the end of a toggle does to what it expects.  *)
LEMMA EndExpected ==
  ASSUME IInv, NEW k \in InFlight, \A j \in InFlight : Pending(j),
         InFlight' = InFlight \ {k}, watch' = watch,
         \A j \in Toggles \ {k} : toggle'[j] = toggle[j]
  PROVE  /\ \A j \in InFlight' : Pending(j)'
         /\ toggle[k].episode \in Expected <=> toggle[k].next
         /\ \A x : x # toggle[k].episode => (x \in Expected' <=> x \in Expected)
         /\ toggle[k].episode \in Expected' <=> toggle[k].episode \in watch
<1> DEFINE e == toggle[k].episode
<1>1. \A j \in InFlight \ {k} : toggle[j].episode # e /\ toggle'[j] = toggle[j]
  BY DEF IInv, TogglesOK, OneEach, Pending, InFlight
<1>2. \A j \in InFlight' : Pending(j)'
  BY <1>1 DEF Pending
<1>3. e \in Expected <=> toggle[k].next
  BY <1>1, ExpectedMember
<1>4. \A x : x \in Expected' <=>
        /\ x \in watch \/ \E j \in InFlight \ {k} : toggle[j].next /\ toggle[j].episode = x
        /\ ~\E j \in InFlight \ {k} : ~toggle[j].next /\ toggle[j].episode = x
  BY <1>1 DEF Expected
<1>5. \A x : x # e => (x \in Expected' <=> x \in Expected)
  BY <1>4, ExpectedMember
<1>6. e \in Expected' <=> e \in watch
  BY <1>1, <1>4
<1> QED
  BY <1>2, <1>3, <1>5, <1>6

LEMMA AnsweredStep ==
  ASSUME IInv, NEW k \in Toggles, Answered(k)
  PROVE  IInv'
<1> DEFINE e   == toggle[k].episode
           row == IF toggle[k].owner = "row" THEN [rows[e] EXCEPT !.busy = FALSE]
                                             ELSE [watched |-> FALSE, busy |-> FALSE]
<1>1. /\ toggle[k].pc = "written" /\ toggle' = [toggle EXCEPT ![k] = NoToggle]
      /\ UNCHANGED <<watch, page, season, count, load, raced>>
      /\ rows' = IF toggle[k].owner = "row" THEN [rows EXCEPT ![e].busy = FALSE] ELSE rows
  BY DEF Answered
<1>2. toggle[k].owner = "row" => rows[e] \in Row /\ e \in Episodes
  BY <1>1, TypeSplit DEF IInv, TogglesOK, ToggleOK
<1>3. row \in Row /\ ~row.busy /\ (toggle[k].owner = "row" => row.watched = rows[e].watched)
  BY <1>2 DEF Row
<1>4. rows' = IF toggle[k].owner = "row" THEN [rows EXCEPT ![e] = row] ELSE rows
  BY <1>1, <1>2 DEF IInv, TypeOK
<1> HIDE DEF row
<1>5. /\ TypeOK' /\ TogglesOK' /\ LoadsOK' /\ RowsBelong'
      /\ k \in InFlight /\ InFlight' = InFlight \ {k}
      /\ \A j \in Toggles \ {k} : toggle'[j] = toggle[j]
      /\ e \in Episodes
  <2>1. count' \in Nat \cup {None}
    BY <1>1 DEF IInv, TypeOK
  <2> QED
    BY <1>1, <1>3, <1>4, <2>1, EndStep
<1>6. ASSUME page' = "shown", ~raced'
      PROVE  (\A j \in InFlight' : Pending(j)') /\ InStep'
  <2>1. page = "shown" /\ ~raced /\ \A j \in InFlight : Pending(j)
    BY <1>1, <1>6 DEF IInv, Sync
  <2>2. /\ \A j \in InFlight' : Pending(j)'
        /\ e \in Expected <=> toggle[k].next
        /\ \A x : x # e => (x \in Expected' <=> x \in Expected)
        /\ e \in Expected' <=> e \in watch
    BY <1>1, <1>5, <2>1, EndExpected
  <2>3. toggle[k].next <=> e \in watch
    BY <1>1, <1>5, <2>1 DEF Pending
  <2>4. Expected' = Expected
    BY <2>2, <2>3
  <2>5. \A x \in Episodes : /\ rows'[x] # None => rows[x] # None
                            /\ rows'[x] # None => rows'[x].watched = rows[x].watched
    BY <1>3, <1>4, <1>5 DEF IInv, TogglesOK, ToggleOK, TypeOK
  <2>6. InStep'
    BY <1>1, <2>1, <2>4, <2>5 DEF IInv, InStep
  <2> QED
    BY <2>2, <2>6
<1> QED
  BY <1>5, <1>6 DEF IInv, Sync, InStep

LEMMA RevertStep ==
  ASSUME IInv, NEW k \in Toggles, Revert(k)
  PROVE  IInv'
<1> DEFINE e    == toggle[k].episode
           back == ~toggle[k].next
           row  == [watched |-> back, busy |-> FALSE]
<1>1. /\ toggle[k].pc = "failed" /\ toggle' = [toggle EXCEPT ![k] = NoToggle]
      /\ UNCHANGED <<watch, page, season, load, raced>>
      /\ rows' = IF toggle[k].owner = "row" THEN [rows EXCEPT ![e] = row] ELSE rows
      /\ count' = IF toggle[k].owner # "nobody" THEN Bumped(back) ELSE count
  BY DEF Revert
<1>2. toggle[k].next \in BOOLEAN /\ back \in BOOLEAN
  BY TypeSplit DEF IInv, ToggleType
<1>3. row \in Row /\ ~row.busy /\ row.watched = back
  BY <1>2 DEF Row
<1> HIDE DEF row
<1>4. /\ TypeOK' /\ TogglesOK' /\ LoadsOK' /\ RowsBelong'
      /\ k \in InFlight /\ InFlight' = InFlight \ {k}
      /\ \A j \in Toggles \ {k} : toggle'[j] = toggle[j]
      /\ e \in Episodes
  <2>1. count' \in Nat \cup {None}
    BY <1>1, BumpedType DEF IInv, TypeOK
  <2> QED
    BY <1>1, <1>3, <2>1, EndStep
<1>5. ASSUME page' = "shown", ~raced'
      PROVE  (\A j \in InFlight' : Pending(j)') /\ InStep'
  <2>1. /\ page = "shown" /\ ~raced /\ \A j \in InFlight : Pending(j)
        /\ count = Cardinality(Expected)
        /\ \A x \in Episodes : rows[x] # None => rows[x].watched = (x \in Expected)
    BY <1>1, <1>5 DEF IInv, Sync, InStep
  <2>2. /\ \A j \in InFlight' : Pending(j)'
        /\ e \in Expected <=> toggle[k].next
        /\ \A x : x # e => (x \in Expected' <=> x \in Expected)
        /\ e \in Expected' <=> e \in watch
    BY <1>1, <1>4, <2>1, EndExpected
  <2>3. toggle[k].owner = "row" /\ (toggle[k].next <=> e \notin watch)
    BY <1>1, <1>4, <2>1 DEF Pending
  <2>4. back <=> e \notin Expected
    BY <2>2
  <2>5. Expected' = IF back THEN Expected \cup {e} ELSE Expected \ {e}
    BY <2>2, <2>3
  <2>6. count' = Cardinality(Expected')
    <3>1. count' = Bumped(back)
      BY <1>1, <2>3
    <3> HIDE DEF back
    <3> QED
      BY <1>2, <1>4, <2>1, <2>4, <2>5, <3>1, ExpectedEpisodes, BumpedCounts
  <2>7. ASSUME NEW x \in Episodes, rows'[x] # None
        PROVE  rows'[x].watched = (x \in Expected')
    <3>1. CASE x = e
      <4>1. rows'[x].watched = back
        BY <1>1, <1>3, <2>3, <3>1 DEF IInv, TypeOK
      <4>2. back <=> x \in Expected'
        BY <2>5, <3>1
      <4> QED
        BY <1>2, <4>1, <4>2
    <3>2. CASE x # e
      <4>1. (x \in Expected' <=> x \in Expected) /\ rows'[x] = rows[x]
        BY <1>1, <2>2, <2>3, <3>2 DEF IInv, TypeOK
      <4>2. rows[x].watched = (x \in Expected)
        BY <2>1, <2>7, <4>1
      <4> QED
        BY <4>1, <4>2
    <3> QED
      BY <3>1, <3>2
  <2> QED
    BY <2>2, <2>6, <2>7 DEF InStep
<1> QED
  BY <1>4, <1>5 DEF IInv, Sync, InStep

-----------------------------------------------------------------------------

LEMMA NextIInv == IInv /\ [Next]_vars => IInv'
<1> SUFFICES ASSUME IInv, [Next]_vars PROVE IInv'
  OBVIOUS
<1>1. ASSUME NEW l \in Loads, Load(l)
      PROVE  IInv'
  BY <1>1, OpenStep, SelectStep, ReadEpisodesStep, ReadCountStep,
     ReadAnonymouslyStep, LoadedStep, LoadFailsStep DEF Load
<1>2. ASSUME NEW k \in Toggles, Toggle(k)
      PROVE  IInv'
  BY <1>2, ToggleStep, WriteStep, RefuseStep, LoseAnswerStep, AnsweredStep,
     RevertStep DEF Toggle
<1>3. CASE UNCHANGED vars
  <2>1. InFlight' = InFlight /\ Expected' = Expected
    BY <1>3 DEF vars, InFlight, Expected
  <2> QED
    BY <1>3, <2>1 DEF vars, IInv, TypeOK, TogglesOK, ToggleOK, OneEach, LoadsOK, LoadOK,
                      RowsBelong, Sync, Pending, InStep
<1> QED
  BY <1>1, <1>2, <1>3, LeaveStep, ElsewhereStep DEF Next

LEMMA Invariance == Spec => []IInv
BY InitIInv, NextIInv, PTL DEF Spec

(* The page, its requests and the table have their shapes, and the counter *)
(* never goes below zero.                                                  *)
THEOREM TypeCorrect == Spec => []TypeOK
<1>1. IInv => TypeOK
  BY DEF IInv
<1> QED
  BY <1>1, Invariance, PTL

(* Through any toggles, failures, reverts and changes of season the        *)
(* counter and the rows are those the server will have, but for the named  *)
(* races and until the load after one that was answered as to a stranger.  *)
THEOREM StaysInStep == Spec => []InStep
<1>1. IInv => InStep
  BY DEF IInv
<1> QED
  BY <1>1, Invariance, PTL

(* In whichever order answers arrive, the rows are of the selected season, *)
(* and a busy row has a request under way that will free it.               *)
THEOREM RowsStayBelonging == Spec => []RowsBelong
<1>1. IInv => RowsBelong
  BY DEF IInv
<1> QED
  BY <1>1, Invariance, PTL

=============================================================================

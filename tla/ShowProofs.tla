------------------------------ MODULE ShowProofs ------------------------------
(***************************************************************************)
(* Proofs about a show: the label of an episode for any number of voters,  *)
(* the guide and the preview card for any list of rows, and the show's     *)
(* link for any shows, names and imports under way.                        *)
(*                                                                         *)
(* The labels rest on one fact of arithmetic about the contested margin:   *)
(* two values cannot both lead clearly, not even before and after one more *)
(* vote.  The guide rests on two facts about its operators: a sum over     *)
(* more rows is no smaller, and the rows of a list can be put in broadcast *)
(* order, any such order holding each of them once.  The sum is recursive; *)
(* it is shown to be a cardinality, by the well-foundedness of the subsets *)
(* of a finite set.  The link rests on what the unique index guards: no    *)
(* two transactions are about to insert the same slug.                     *)
(***************************************************************************)
EXTENDS ShowGuide, ShowSlugs, FiniteSetTheorems, TLAPS

-----------------------------------------------------------------------------
(* The label of an episode (EpisodeLabel).                                 *)

(* A count, and their sum, are natural numbers.                            *)
LEMMA Counts ==
  ASSUME NEW t \in Tallies
  PROVE  /\ t["FILLER"] \in Nat /\ t["WORTH_WATCHING"] \in Nat
         /\ t["CANON"] \in Nat
         /\ \A v \in VoteValues : t[v] \in Nat
         /\ Total(t) = t["FILLER"] + t["WORTH_WATCHING"] + t["CANON"]
         /\ Total(t) \in Nat
BY DEF Tallies, VoteValues, Total

(* A verdict is a value that leads clearly among enough votes.             *)
LEMMA VerdictLeads ==
  ASSUME NEW t \in Tallies, NEW v \in VoteValues, Status(t) = v
  PROVE  Total(t) >= MIN_VOTES /\ LeadsClearly(t, v)
BY Counts DEF Status, VoteValues, MIN_VOTES

(* Only one value leads clearly.                                           *)
LEMMA OneLeader ==
  ASSUME NEW t \in Tallies, NEW v \in VoteValues, NEW x \in VoteValues,
         LeadsClearly(t, v), LeadsClearly(t, x)
  PROVE  v = x
<1> SUFFICES ASSUME v # x PROVE FALSE
  OBVIOUS
<1>1. /\ 10 * (t[v] - t[x]) > 1 * Total(t)
      /\ 10 * (t[x] - t[v]) > 1 * Total(t)
  BY DEF LeadsClearly, MarginDen, MarginNum
<1> QED
  BY <1>1, Counts

(* A value that leads clearly among enough votes is the verdict.           *)
LEMMA LeaderWins ==
  ASSUME NEW t \in Tallies, NEW v \in VoteValues,
         Total(t) >= MIN_VOTES, LeadsClearly(t, v)
  PROVE  Status(t) = v
<1>1. ~(Total(t) < MIN_VOTES)
  BY Counts DEF MIN_VOTES
<1>2. \A x \in VoteValues : LeadsClearly(t, x) => x = v
  BY OneLeader
<1> QED
  BY <1>1, <1>2 DEF Status, VoteValues

-----------------------------------------------------------------------------

(* Votes that come, change and go leave three natural numbers.             *)
LEMMA LabelStep == LabelTypeOK /\ [LabelNext]_tally => LabelTypeOK'
<1> SUFFICES ASSUME LabelTypeOK, [LabelNext]_tally PROVE LabelTypeOK'
  OBVIOUS
<1>1. ASSUME NEW v \in VoteValues, Cast(v) PROVE LabelTypeOK'
  BY <1>1 DEF Cast, LabelTypeOK, Tallies
<1>2. ASSUME NEW v \in VoteValues, Retract(v) PROVE LabelTypeOK'
  BY <1>2 DEF Retract, LabelTypeOK, Tallies
<1>3. ASSUME NEW v \in VoteValues, NEW x \in VoteValues, Change(v, x)
      PROVE  LabelTypeOK'
  BY <1>3 DEF Change, LabelTypeOK, Tallies
<1>4. CASE UNCHANGED tally
  BY <1>4 DEF LabelTypeOK
<1> QED
  BY <1>1, <1>2, <1>3, <1>4 DEF LabelNext

(* No count ever goes negative.                                            *)
THEOREM CountsStayNatural == LabelSpec => []LabelTypeOK
<1>1. LabelInit => LabelTypeOK
  BY DEF LabelInit, LabelTypeOK, Tallies
<1> QED
  BY <1>1, LabelStep, PTL DEF LabelSpec

(* Whatever the tally, the mode and the rating, a skipped episode has      *)
(* enough votes, and CANON trails some other value by more than the        *)
(* margin.                                                                 *)
THEOREM NeverSkipsCanon == LabelSpec => []SkippedIsNotCanon
<1>1. LabelTypeOK => SkippedIsNotCanon
  <2> SUFFICES ASSUME LabelTypeOK, NEW mode \in GuideModes,
                      NEW rating \in {Unknown, 0, BingeRescueRating},
                      Placement(mode, Status(tally), rating) = "skipped"
               PROVE  /\ Total(tally) >= MIN_VOTES
                      /\ \E v \in VoteValues \ {"CANON"} :
                           MarginDen * (tally[v] - tally["CANON"])
                             > MarginNum * Total(tally)
    BY DEF SkippedIsNotCanon
  <2>1. Status(tally) \in {"FILLER", "WORTH_WATCHING"}
    BY DEF Placement
  <2>2. PICK v \in VoteValues \ {"CANON"} : Status(tally) = v
    BY <2>1 DEF VoteValues
  <2>3. Total(tally) >= MIN_VOTES /\ LeadsClearly(tally, v)
    BY <2>2, VerdictLeads DEF LabelTypeOK
  <2> QED
    BY <2>2, <2>3 DEF LeadsClearly, VoteValues
<1> QED
  BY <1>1, CountsStayNatural, PTL

(* The translation of status() agrees with its sort-and-compare form.      *)
THEOREM RankingIsEnough == LabelSpec => []RankingAgrees
<1>1. LabelTypeOK => RankingAgrees
  <2> SUFFICES ASSUME LabelTypeOK, NEW p \in [1..3 -> VoteValues],
                      \A v \in VoteValues : \E i \in 1..3 : p[i] = v,
                      tally[p[1]] >= tally[p[2]], tally[p[2]] >= tally[p[3]]
               PROVE  Status(tally) =
                        IF Total(tally) < MIN_VOTES THEN "NOT_ENOUGH_VOTES"
                        ELSE IF MarginDen * (tally[p[1]] - tally[p[2]])
                                  <= MarginNum * Total(tally)
                             THEN "CONTESTED" ELSE p[1]
    BY DEF RankingAgrees
  <2> DEFINE a == p[1]
             b == p[2]
             c == p[3]
  <2>1. a \in VoteValues /\ b \in VoteValues /\ c \in VoteValues
    OBVIOUS
  <2>2. VoteValues = {a, b, c} /\ a # b /\ a # c /\ b # c
    <3>1. \A i \in 1..3 : i = 1 \/ i = 2 \/ i = 3
      OBVIOUS
    <3>2. VoteValues \subseteq {a, b, c}
      BY <3>1
    <3> QED
      BY <2>1, <3>2 DEF VoteValues
  <2>3. tally[a] >= tally[b] /\ tally[b] >= tally[c]
    OBVIOUS
  <2>4. tally \in Tallies /\ tally[a] \in Nat /\ tally[b] \in Nat /\ tally[c] \in Nat
        /\ Total(tally) \in Nat
    BY <2>1, Counts DEF LabelTypeOK
  <2> HIDE DEF a, b, c
  <2>5. ASSUME NEW v \in VoteValues, LeadsClearly(tally, v)
        PROVE  v = a /\ 10 * (tally[a] - tally[b]) > Total(tally)
    <3>1. \A x \in VoteValues \ {v} : 10 * (tally[v] - tally[x]) > 1 * Total(tally)
      BY <2>5 DEF LeadsClearly, MarginDen, MarginNum
    <3>2. tally[v] \in Nat
      BY <2>4, Counts
    <3>3. v = a
      BY <2>1, <2>2, <2>3, <2>4, <3>1, <3>2
    <3> QED
      BY <2>1, <2>2, <2>4, <3>1, <3>3
  <2>6. CASE Total(tally) < MIN_VOTES
    BY <2>6 DEF Status
  <2>7. CASE ~(Total(tally) < MIN_VOTES) /\ 10 * (tally[a] - tally[b]) > Total(tally)
    <3>1. \A x \in VoteValues \ {a} : 10 * (tally[a] - tally[x]) > 1 * Total(tally)
      BY <2>2, <2>3, <2>4, <2>7
    <3>2. LeadsClearly(tally, a)
      BY <3>1 DEF LeadsClearly, MarginDen, MarginNum
    <3>3. Total(tally) >= MIN_VOTES
      BY <2>4, <2>7 DEF MIN_VOTES
    <3>4. Status(tally) = a
      BY <2>1, <2>4, <3>2, <3>3, LeaderWins
    <3>5. ~(MarginDen * (tally[a] - tally[b]) <= MarginNum * Total(tally))
      BY <2>4, <2>7 DEF MarginDen, MarginNum
    <3> QED
      BY <2>7, <3>4, <3>5 DEF a, b
  <2>8. CASE ~(Total(tally) < MIN_VOTES) /\ ~(10 * (tally[a] - tally[b]) > Total(tally))
    <3>1. \A v \in VoteValues : ~LeadsClearly(tally, v)
      BY <2>5, <2>8
    <3>2. Status(tally) = "CONTESTED"
      BY <2>8, <3>1 DEF Status, VoteValues
    <3>3. MarginDen * (tally[a] - tally[b]) <= MarginNum * Total(tally)
      BY <2>4, <2>8 DEF MarginDen, MarginNum
    <3> QED
      BY <2>8, <3>2, <3>3 DEF a, b
  <2> QED
    BY <2>6, <2>7, <2>8
<1> QED
  BY <1>1, CountsStayNatural, PTL

-----------------------------------------------------------------------------

(* Between two verdicts, one vote more or less passes through CONTESTED or *)
(* NOT_ENOUGH_VOTES.                                                       *)
THEOREM VerdictsNeverSwap == LabelSpec => NoVerdictSwap
<1>1. ASSUME LabelTypeOK, LabelTypeOK', [LabelNext]_tally, Total(tally') # Total(tally),
             Status(tally) \in VoteValues, Status(tally') \in VoteValues
      PROVE  Status(tally') = Status(tally)
  <2> DEFINE v == Status(tally)
             x == Status(tally')
  <2> SUFFICES ASSUME v # x PROVE FALSE
    OBVIOUS
  <2>1. tally \in Tallies /\ tally' \in Tallies
    BY <1>1 DEF LabelTypeOK
  <2>2. /\ Total(tally) >= 5 /\ LeadsClearly(tally, v)
        /\ Total(tally') >= 5 /\ LeadsClearly(tally', x)
    BY <1>1, <2>1, VerdictLeads DEF MIN_VOTES
  <2>3. /\ 10 * (tally[v] - tally[x]) > Total(tally)
        /\ 10 * (tally'[x] - tally'[v]) > Total(tally')
    <3>1. /\ MarginDen * (tally[v] - tally[x]) > MarginNum * Total(tally)
          /\ MarginDen * (tally'[x] - tally'[v]) > MarginNum * Total(tally')
      BY <1>1, <2>2 DEF LeadsClearly
    <3> QED
      BY <1>1, <2>1, <3>1, Counts DEF MarginDen, MarginNum
  <2>4. PICK y \in VoteValues : Cast(y) \/ Retract(y)
    <3>1. ASSUME NEW a \in VoteValues, NEW b \in VoteValues, Change(a, b)
          PROVE  Total(tally') = Total(tally)
      BY <2>1, <3>1 DEF Change, Total, Tallies, VoteValues
    <3> QED
      BY <1>1, <3>1 DEF LabelNext
  <2>5. \A z \in VoteValues :
          /\ tally[z] \in Nat /\ tally'[z] \in Nat
          /\ z # y => tally'[z] = tally[z]
          /\ tally'[z] <= tally[z] + 1
          /\ tally[z] <= tally'[z] + 1
    BY <2>1, <2>4 DEF Cast, Retract, Tallies
  <2> HIDE DEF v, x
  <2>6. v \in VoteValues /\ x \in VoteValues
    BY <1>1 DEF v, x
  <2>7. Total(tally) \in Nat /\ Total(tally') \in Nat
    BY <2>1, Counts
  <2> QED
    BY <2>2, <2>3, <2>5, <2>6, <2>7
<1> QED
  BY <1>1, CountsStayNatural, LabelStep, PTL DEF LabelSpec, NoVerdictSwap

(* A vote cast for the verdict an episode has, or moved to it, leaves that *)
(* verdict standing.                                                       *)
THEOREM AgreeingNeverHurts == LabelSpec => AgreeingKeepsVerdict
<1>1. ASSUME LabelTypeOK, LabelTypeOK', [LabelNext]_tally
      PROVE  VerdictKept
  <2> SUFFICES ASSUME NEW v \in VoteValues,
                      Status(tally) = v, tally'[v] = tally[v] + 1
               PROVE  Status(tally') = v
    BY DEF VerdictKept
  <2>1. tally \in Tallies /\ tally' \in Tallies
    BY <1>1 DEF LabelTypeOK
  <2>2. Total(tally) >= MIN_VOTES /\ LeadsClearly(tally, v)
    BY <1>1, <2>1, VerdictLeads
  <2>3. /\ Total(tally') \in {Total(tally), Total(tally) + 1}
        /\ \A x \in VoteValues \ {v} : tally'[x] <= tally[x]
    <3>1. CASE \E y \in VoteValues : Cast(y)
      BY <1>1, <2>1, <3>1 DEF Cast, Total, Tallies, VoteValues
    <3>2. CASE \E y \in VoteValues : Retract(y)
      BY <1>1, <2>1, <3>2 DEF Retract, Total, Tallies, VoteValues
    <3>3. CASE \E y, z \in VoteValues : Change(y, z)
      BY <1>1, <2>1, <3>3 DEF Change, Total, Tallies, VoteValues
    <3>4. CASE UNCHANGED tally
      BY <1>1, <2>1, <3>4, Counts
    <3> QED
      BY <1>1, <3>1, <3>2, <3>3, <3>4 DEF LabelNext
  <2>4. ASSUME NEW x \in VoteValues \ {v}
        PROVE  10 * (tally'[v] - tally'[x]) > 1 * Total(tally')
    <3>1. 10 * (tally[v] - tally[x]) > 1 * Total(tally)
      BY <2>2 DEF LeadsClearly, MarginDen, MarginNum
    <3> QED
      BY <1>1, <2>1, <2>3, <3>1, Counts
  <2>5. LeadsClearly(tally', v)
    BY <2>4 DEF LeadsClearly, MarginDen, MarginNum
  <2>6. Total(tally') >= MIN_VOTES
    BY <2>1, <2>2, <2>3, Counts DEF MIN_VOTES
  <2> QED
    BY <2>1, <2>5, <2>6, LeaderWins
<1> QED
  BY <1>1, CountsStayNatural, LabelStep, PTL DEF LabelSpec, AgreeingKeepsVerdict

-----------------------------------------------------------------------------
(* Sums over sets of rows.                                                 *)

(* Induction over the subsets of a finite set S: a set G that holds every  *)
(* subset of S whose proper subsets it holds, holds them all.              *)
LEMMA SetInduction ==
  ASSUME NEW S, IsFiniteSet(S), NEW G,
         \A T \in SUBSET S : (\A U \in (SUBSET T) \ {T} : U \in G) => T \in G
  PROVE  \A T \in SUBSET S : T \in G
<1> DEFINE B == {T \in SUBSET S : T \notin G}
<1> SUFFICES ASSUME B # {} PROVE FALSE
  OBVIOUS
<1>1. IsWellFoundedOn(StrictSubsetOrdering(S), SUBSET S)
  <2>1. IsWellFoundedOn(StrictSubsetOrdering(S), FiniteSubsetsOf(S))
    BY FS_StrictSubsetOrderingWellFounded
  <2>2. FiniteSubsetsOf(S) = SUBSET S
    BY FS_FiniteSubsetsOfFinite
  <2> QED
    BY <2>1, <2>2
<1>2. PICK T \in B : \A U \in B : <<U, T>> \notin StrictSubsetOrdering(S)
  <2>1. B \subseteq SUBSET S
    OBVIOUS
  <2> HIDE DEF B
  <2> QED
    BY <1>1, <2>1, WFMin
<1>3. \A U \in (SUBSET T) \ {T} : U \in G
  BY <1>2 DEF StrictSubsetOrdering
<1> QED
  BY <1>2, <1>3

(* A sum as a set: m[x] units for each x of S.                             *)
Units(m, S) == {p \in S \X Nat : p[2] < m[p[1]]}

(* Finitely many elements, each with a natural number.                     *)
Measured(m, S) == IsFiniteSet(S) /\ \A x \in S : m[x] \in Nat

(* The units of one element are as many as it counts for.                  *)
LEMMA UnitsOfOne ==
  ASSUME NEW m, NEW x, m[x] \in Nat
  PROVE  IsFiniteSet(Units(m, {x})) /\ Cardinality(Units(m, {x})) = m[x]
<1> DEFINE f == [k \in 0..(m[x] - 1) |-> <<x, k>>]
<1>1. f \in Bijection(0..(m[x] - 1), Units(m, {x}))
  <2>1. f \in [0..(m[x] - 1) -> Units(m, {x})]
    BY DEF Units
  <2>2. \A a, b \in 0..(m[x] - 1) : f[a] = f[b] => a = b
    OBVIOUS
  <2>3. \A p \in Units(m, {x}) : \E k \in 0..(m[x] - 1) : f[k] = p
    <3> SUFFICES ASSUME NEW p \in Units(m, {x}) PROVE \E k \in 0..(m[x] - 1) : f[k] = p
      OBVIOUS
    <3>1. p = <<x, p[2]>> /\ p[2] \in 0..(m[x] - 1)
      BY DEF Units
    <3> QED
      BY <3>1
  <2> HIDE DEF f
  <2> QED
    BY <2>1, <2>2, <2>3 DEF Bijection, Injection, Surjection, IsInjective
<1>2. IsFiniteSet(0..(m[x] - 1)) /\ Cardinality(0..(m[x] - 1)) = m[x]
  BY FS_Interval
<1> QED
  BY <1>1, <1>2, FS_Bijection DEF ExistsBijection

(* The units of a set are those of one element and those of the others.    *)
LEMMA UnitsSplit ==
  ASSUME NEW m, NEW S, NEW x \in S, m[x] \in Nat, IsFiniteSet(Units(m, S \ {x}))
  PROVE  /\ IsFiniteSet(Units(m, S))
         /\ Cardinality(Units(m, S)) = m[x] + Cardinality(Units(m, S \ {x}))
<1> DEFINE A == Units(m, {x})
           B == Units(m, S \ {x})
<1>1. Units(m, S) = A \cup B /\ A \cap B = {}
  BY DEF Units
<1>2. IsFiniteSet(A) /\ Cardinality(A) = m[x] /\ IsFiniteSet(B)
  BY UnitsOfOne
<1> HIDE DEF A, B
<1>3. IsFiniteSet(A \cup B)
  BY <1>2, FS_Union
<1>4. Cardinality(A \cup B) = Cardinality(A) + Cardinality(B) - Cardinality(A \cap B)
  BY <1>2, FS_Union
<1>5. Cardinality(B) \in Nat /\ Cardinality({}) = 0
  BY <1>2, FS_CardinalityType, FS_EmptySet
<1>6. Cardinality(A \cup B) = m[x] + Cardinality(B)
  <2>1. Cardinality(A \cap B) = 0
    BY <1>1, <1>5
  <2> QED
    BY <1>2, <1>4, <1>5, <2>1
<1> QED
  BY <1>1, <1>3, <1>6 DEF B

(* Finitely many elements have finitely many units.                        *)
LEMMA UnitsFinite ==
  ASSUME NEW m, NEW S, Measured(m, S)
  PROVE  IsFiniteSet(Units(m, S))
<1> DEFINE G == {T \in SUBSET S : IsFiniteSet(Units(m, T))}
<1>1. ASSUME NEW T \in SUBSET S, \A U \in (SUBSET T) \ {T} : U \in G
      PROVE  T \in G
  <2>1. CASE T = {}
    <3>1. Units(m, T) = {}
      BY <2>1 DEF Units
    <3> QED
      BY <3>1, FS_EmptySet
  <2>2. CASE T # {}
    <3>1. PICK x \in T : TRUE
      BY <2>2
    <3>2. T \ {x} \in G
      BY <1>1, <3>1
    <3> QED
      BY <3>1, <3>2, UnitsSplit DEF Measured
  <2> QED
    BY <2>1, <2>2
<1> HIDE DEF G
<1>2. S \in G
  BY <1>1, SetInduction DEF Measured
<1> QED
  BY <1>2 DEF G

(* The sum over a set is the number of its units.                          *)
LEMMA SumIsCount ==
  ASSUME NEW m, NEW S, Measured(m, S)
  PROVE  SumFunctionOnSet(m, S) = Cardinality(Units(m, S))
<1> DEFINE Step(h) == [T \in SUBSET S |->
                         IF T = {} THEN 0
                         ELSE m[CHOOSE x \in T : TRUE] + h[T \ {CHOOSE x \in T : TRUE}]]
           iter == CHOOSE h : h = Step(h)
           count == [T \in SUBSET S |-> Cardinality(Units(m, T))]
<1>1. SumFunctionOnSet(m, S) = iter[S]
  BY DEF SumFunctionOnSet, FoldFunctionOnSet, MapThenFoldSet
<1>2. ASSUME NEW T \in SUBSET S, T # {}
      PROVE  /\ (CHOOSE x \in T : TRUE) \in T
             /\ count[T] = m[CHOOSE x \in T : TRUE] + count[T \ {CHOOSE x \in T : TRUE}]
  <2> DEFINE x == CHOOSE x \in T : TRUE
  <2>1. x \in T
    BY <1>2
  <2> HIDE DEF x
  <2>2. Measured(m, T \ {x}) /\ m[x] \in Nat
    BY <2>1, FS_Subset DEF Measured
  <2>3. Cardinality(Units(m, T)) = m[x] + Cardinality(Units(m, T \ {x}))
    BY <2>1, <2>2, UnitsFinite, UnitsSplit
  <2>4. count[T] = m[x] + count[T \ {x}]
    BY <2>3
  <2> QED
    BY <2>1, <2>4 DEF x
<1>3. count[{}] = 0
  <2>1. Units(m, {}) = {}
    BY DEF Units
  <2> QED
    BY <2>1, FS_EmptySet
<1>4. count = Step(count)
  <2>1. \A T \in SUBSET S : count[T] = Step(count)[T]
    BY <1>2, <1>3
  <2> QED
    BY <2>1
<1>5. iter = Step(iter)
  <2> HIDE DEF Step, count
  <2> QED
    BY <1>4
<1> DEFINE G == {T \in SUBSET S : iter[T] = count[T]}
<1>6. ASSUME NEW T \in SUBSET S, \A U \in (SUBSET T) \ {T} : U \in G
      PROVE  T \in G
  <2> HIDE DEF iter, count
  <2>1. CASE T = {}
    BY <1>3, <1>5, <2>1
  <2>2. CASE T # {}
    <3> DEFINE x == CHOOSE x \in T : TRUE
    <3>1. x \in T /\ count[T] = m[x] + count[T \ {x}]
      BY <1>2, <2>2
    <3>2. iter[T] = m[x] + iter[T \ {x}]
      BY <1>5, <2>2
    <3> HIDE DEF x
    <3>3. T \ {x} \in G
      BY <1>6, <3>1
    <3> QED
      BY <3>1, <3>2, <3>3
  <2> QED
    BY <2>1, <2>2
<1>7. S \in G
  <2> HIDE DEF G
  <2> QED
    BY <1>6, SetInduction DEF Measured
<1> QED
  BY <1>1, <1>7

(* A sum over more elements is no smaller.                                 *)
LEMMA SumGrows ==
  ASSUME NEW m, NEW S, Measured(m, S), NEW T \in SUBSET S
  PROVE  /\ SumFunctionOnSet(m, T) \in Nat
         /\ SumFunctionOnSet(m, S) \in Nat
         /\ SumFunctionOnSet(m, T) <= SumFunctionOnSet(m, S)
<1>1. Measured(m, T)
  BY FS_Subset DEF Measured
<1>2. Units(m, T) \subseteq Units(m, S)
  BY DEF Units
<1> QED
  BY <1>1, <1>2, SumIsCount, UnitsFinite, FS_Subset, FS_CardinalityType

-----------------------------------------------------------------------------
(* Broadcast order.                                                        *)

(* The rows of a show: well-formed, one for each slot.                      *)
IsShow(e) == e \in Seq(EpisodeRows) /\ SlotsDiffer(e)

(* q lists rows of e in broadcast order.                                   *)
Sorted(e, q) ==
  \A a, b \in DOMAIN q : a < b => Precedes(e[q[a]], e[q[b]])

(* The rows of a show are finitely many.                                   *)
LEMMA RowsFinite ==
  ASSUME NEW e, IsShow(e), NEW S \in SUBSET DOMAIN e
  PROVE  IsFiniteSet(S) /\ Cardinality(S) \in Nat
<1>1. IsFiniteSet(DOMAIN e)
  <2>1. DOMAIN e = 1..Len(e) /\ Len(e) \in Nat
    BY DEF IsShow
  <2> QED
    BY <2>1, FS_Interval
<1> QED
  BY <1>1, FS_Subset, FS_CardinalityType

(* Broadcast order is a strict total order of the rows of a show.          *)
LEMMA BroadcastOrder ==
  ASSUME NEW e, IsShow(e), NEW i \in DOMAIN e, NEW j \in DOMAIN e
  PROVE  /\ ~Precedes(e[i], e[i])
         /\ ~(Precedes(e[i], e[j]) /\ Precedes(e[j], e[i]))
         /\ i # j => Precedes(e[i], e[j]) \/ Precedes(e[j], e[i])
         /\ \A k \in DOMAIN e : Precedes(e[i], e[j]) /\ Precedes(e[j], e[k])
                                  => Precedes(e[i], e[k])
<1>1. \A k \in DOMAIN e : e[k].season \in Nat /\ e[k].number \in Nat
  <2>1. \A k \in DOMAIN e : e[k] \in EpisodeRows
    BY DEF IsShow
  <2> QED
    BY <2>1 DEF EpisodeRows
<1>2. i # j => e[i].season # e[j].season \/ e[i].number # e[j].number
  BY DEF IsShow, SlotsDiffer
<1> QED
  BY <1>1, <1>2 DEF Precedes

(* An injection into a set of no more elements takes every one of them.    *)
LEMMA InjectionFills ==
  ASSUME NEW S, NEW T, IsFiniteSet(S), IsFiniteSet(T),
         Cardinality(S) = Cardinality(T), NEW f \in [S -> T],
         \A x, y \in S : f[x] = f[y] => x = y
  PROVE  \A z \in T : \E x \in S : f[x] = z
<1> DEFINE R == {f[x] : x \in S}
<1>1. R \subseteq T
  OBVIOUS
<1>2. f \in Bijection(S, R)
  <2>1. f \in [S -> R] /\ \A z \in R : \E x \in S : f[x] = z
    OBVIOUS
  <2> HIDE DEF R
  <2> QED
    BY <2>1 DEF Bijection, Injection, Surjection, IsInjective
<1> HIDE DEF R
<1>3. IsFiniteSet(R) /\ Cardinality(R) = Cardinality(T)
  BY <1>2, FS_Bijection DEF ExistsBijection
<1>4. R = T
  BY <1>1, <1>3, FS_Subset
<1> QED
  BY <1>4 DEF R

(* sort_by can: the rows S of a show can be put in broadcast order.        *)
LEMMA OrderExists ==
  ASSUME NEW e, IsShow(e), NEW S \in SUBSET DOMAIN e
  PROVE  \E q \in [1..Cardinality(S) -> S] : Sorted(e, q)
<1> DEFINE n == Cardinality(S)
           Before(i) == {j \in S : Precedes(e[j], e[i])}
           rank == [i \in S |-> Cardinality(Before(i)) + 1]
<1>1. IsFiniteSet(S) /\ n \in Nat
  BY RowsFinite
<1>2. \A i \in S : IsFiniteSet(Before(i)) /\ Cardinality(Before(i)) \in Nat
  BY <1>1, FS_Subset, FS_CardinalityType
<1>3. ASSUME NEW i \in S PROVE rank[i] \in 1..n
  <2>1. Before(i) \subseteq S /\ i \notin Before(i)
    BY BroadcastOrder
  <2>2. Cardinality(Before(i)) <= n /\ Cardinality(Before(i)) # n
    <3> HIDE DEF Before
    <3> QED
      BY <1>1, <2>1, FS_Subset
  <2> QED
    BY <1>1, <1>2, <2>2
<1>4. ASSUME NEW i \in S, NEW j \in S, Precedes(e[i], e[j])
      PROVE  rank[i] < rank[j]
  <2>1. Before(i) \subseteq Before(j) /\ i \in Before(j) /\ i \notin Before(i)
    BY <1>4, BroadcastOrder
  <2>2. /\ Cardinality(Before(i)) <= Cardinality(Before(j))
        /\ Cardinality(Before(i)) # Cardinality(Before(j))
    <3>1. IsFiniteSet(Before(j))
      BY <1>2
    <3> HIDE DEF Before
    <3> QED
      BY <2>1, <3>1, FS_Subset
  <2> QED
    BY <1>2, <2>2
<1>5. \A i, j \in S : i # j => Precedes(e[i], e[j]) \/ Precedes(e[j], e[i])
  BY BroadcastOrder
<1>6. \A k \in 1..n : \E i \in S : rank[i] = k
  <2>1. rank \in [S -> 1..n]
    BY <1>3
  <2>2. \A i, j \in S : rank[i] = rank[j] => i = j
    <3>1. \A i \in S : rank[i] \in Int
      BY <1>3
    <3> HIDE DEF rank
    <3> QED
      BY <1>4, <1>5, <3>1
  <2>3. IsFiniteSet(1..n) /\ Cardinality(1..n) = Cardinality(S)
    BY <1>1, FS_Interval
  <2> DEFINE T == 1..n
  <2>4. IsFiniteSet(S) /\ IsFiniteSet(T) /\ Cardinality(S) = Cardinality(T)
        /\ rank \in [S -> T]
    BY <1>1, <2>1, <2>3
  <2> HIDE DEF rank, T
  <2>5. \A z \in T : \E x \in S : rank[x] = z
    BY <2>2, <2>4, InjectionFills
  <2> QED
    BY <2>5 DEF T
<1> DEFINE q == [k \in 1..n |-> CHOOSE i \in S : rank[i] = k]
<1>7. q \in [1..n -> S] /\ \A k \in 1..n : rank[q[k]] = k
  <2> HIDE DEF rank, n
  <2> QED
    BY <1>6
<1>8. \A a, b \in 1..n : a < b => Precedes(e[q[a]], e[q[b]])
  <2> HIDE DEF rank, n, q
  <2> SUFFICES ASSUME NEW a \in 1..n, NEW b \in 1..n, a < b
               PROVE  Precedes(e[q[a]], e[q[b]])
    OBVIOUS
  <2>1. q[a] \in S /\ q[b] \in S /\ rank[q[a]] = a /\ rank[q[b]] = b
    BY <1>7
  <2>2. ~Precedes(e[q[b]], e[q[a]])
    BY <1>4, <2>1
  <2> QED
    BY <1>5, <2>1, <2>2
<1>9. Sorted(e, q)
  BY <1>8 DEF Sorted
<1> HIDE DEF q
<1> QED
  BY <1>7, <1>9

(* What a list of the guide holds: each of its rows once, in broadcast     *)
(* order.                                                                  *)
LEMMA InOrderHolds ==
  ASSUME NEW e, IsShow(e), NEW S \in SUBSET DOMAIN e
  PROVE  /\ InOrder(e, S) \in Seq(EpisodeRows)
         /\ Len(InOrder(e, S)) = Cardinality(S)
         /\ Range(InOrder(e, S)) = {e[i] : i \in S}
         /\ \A a, b \in 1..Cardinality(S) :
              a < b => Precedes(InOrder(e, S)[a], InOrder(e, S)[b])
<1> DEFINE n == Cardinality(S)
           q == CHOOSE q \in [1..n -> S] : Sorted(e, q)
           L == [k \in 1..n |-> e[q[k]]]
<1>1. InOrder(e, S) = L
  BY DEF InOrder, Sorted
<1>2. IsFiniteSet(S) /\ n \in Nat
  BY RowsFinite
<1>3. q \in [1..n -> S] /\ Sorted(e, q)
  BY OrderExists
<1> HIDE DEF q
<1>4. \A a, b \in 1..n : a < b => Precedes(e[q[a]], e[q[b]])
  BY <1>3 DEF Sorted
<1>5. \A i \in S : \E k \in 1..n : q[k] = i
  <2>1. \A a, b \in 1..n : q[a] = q[b] => a = b
    <3> SUFFICES ASSUME NEW a \in 1..n, NEW b \in 1..n, q[a] = q[b], a < b
                 PROVE  FALSE
      BY <1>2
    <3>1. q[a] \in DOMAIN e /\ Precedes(e[q[a]], e[q[b]])
      BY <1>3, <1>4
    <3> QED
      BY <3>1, BroadcastOrder
  <2>2. IsFiniteSet(1..n) /\ Cardinality(1..n) = Cardinality(S)
    BY <1>2, FS_Interval
  <2> HIDE DEF n
  <2> QED
    BY <1>2, <1>3, <2>1, <2>2, InjectionFills
<1> HIDE DEF n
<1>6. L \in Seq(EpisodeRows) /\ Len(L) = n
  <2>1. L \in [1..n -> EpisodeRows]
    BY <1>3 DEF IsShow
  <2> QED
    BY <1>2, <2>1
<1>7. Range(L) = {e[i] : i \in S}
  BY <1>3, <1>5 DEF Range
<1> QED
  BY <1>1, <1>4, <1>6, <1>7 DEF n

-----------------------------------------------------------------------------
(* Rounding.                                                               *)

(* Division rounds down.                                                   *)
LEMMA Quotient ==
  ASSUME NEW x \in Nat, NEW d \in Nat, d > 0
  PROVE  /\ x \div d \in Nat
         /\ d * (x \div d) <= x
         /\ x < d * (x \div d) + d
  OBVIOUS

(* A quotient rounded to the nearest is a natural number.                  *)
LEMMA RoundedIsNat ==
  ASSUME NEW a \in Nat, NEW b \in Nat, b > 0
  PROVE  Rounded(a, b) \in Nat
BY Quotient DEF Rounded

(* A rounded percentage f of t: 100 of all, and of nothing less if t < 200.*)
LEMMA PercentBounds ==
  ASSUME NEW f \in Nat, NEW t \in Nat, f <= t, t > 0
  PROVE  /\ Rounded(100 * f, t) \in 0..100
         /\ f = t => Rounded(100 * f, t) = 100
         /\ f < t /\ t < 200 => Rounded(100 * f, t) < 100
<1> DEFINE x == 200 * f + t
           d == 2 * t
           q == x \div d
<1>1. x \in Nat /\ d \in Nat /\ d > 0
  OBVIOUS
<1>2. Rounded(100 * f, t) = q
  BY DEF Rounded
<1>3. q \in Nat /\ d * q <= x /\ x < d * q + d
  <2> HIDE DEF x, d
  <2> QED
    BY <1>1, Quotient
<1> HIDE DEF q
<1>4. q <= 100
  <2> SUFFICES ASSUME q >= 101 PROVE FALSE
    BY <1>3
  <2>1. d * q >= d * 101
    BY <1>3, <1>1
  <2> QED
    BY <1>3, <2>1
<1>5. f = t => q >= 100
  <2> SUFFICES ASSUME f = t, q <= 99 PROVE FALSE
    BY <1>3
  <2>1. d * q <= d * 99
    BY <1>3, <1>1
  <2> QED
    BY <1>3, <2>1
<1>6. f < t /\ t < 200 => q < 100
  <2> SUFFICES ASSUME f < t, t < 200, q >= 100 PROVE FALSE
    BY <1>3
  <2>1. d * q >= d * 100
    BY <1>3, <1>1
  <2> QED
    BY <1>3, <2>1
<1> QED
  BY <1>2, <1>3, <1>4, <1>5, <1>6

-----------------------------------------------------------------------------
(* The guide of a show and its preview card (ShowGuide).                   *)

(* What the guide's input is at any time.                                  *)
ShowOK == LabelTypeOK /\ rows \in RowLists

(* The other rows stay, and the last one's votes stay a tally.             *)
LEMMA ShowAlwaysOK == ShowSpec => []ShowOK
<1>1. ShowInit => ShowOK
  BY DEF ShowInit, ShowOK, LabelInit, LabelTypeOK, Tallies
<1>2. ShowOK /\ [ShowNext]_<<tally, rows>> => ShowOK'
  <2> SUFFICES ASSUME ShowOK, [ShowNext]_<<tally, rows>> PROVE ShowOK'
    OBVIOUS
  <2>1. [LabelNext]_tally /\ rows' = rows
    BY DEF ShowNext
  <2> QED
    BY <2>1, LabelStep DEF ShowOK
<1> QED
  BY <1>1, <1>2, PTL DEF ShowSpec

(* The rows with their votes as they stand are rows the show may have.     *)
LEMMA EpsIsShow ==
  ASSUME ShowOK
  PROVE  IsShow(eps) /\ DOMAIN eps = DOMAIN rows
<1>1. rows \in Seq(EpisodeRows) /\ Len(rows) > 0 /\ SlotsDiffer(rows)
  BY RowListsAssumption DEF ShowOK
<1>2. tally \in Tallies
  BY DEF ShowOK, LabelTypeOK
<1> DEFINE n == Len(rows)
<1>3. n \in DOMAIN rows /\ \A i \in DOMAIN rows : rows[i] \in EpisodeRows
  BY <1>1
<1>4. [rows[n] EXCEPT !.votes = tally] \in EpisodeRows
  <2>1. rows[n] \in EpisodeRows
    BY <1>3
  <2> QED
    BY <1>2, <2>1 DEF EpisodeRows
<1>5. eps = [rows EXCEPT ![n] = [rows[n] EXCEPT !.votes = tally]]
  BY DEF eps
<1>6. eps \in Seq(EpisodeRows) /\ DOMAIN eps = DOMAIN rows
  <2> HIDE DEF n
  <2> QED
    BY <1>1, <1>3, <1>4, <1>5
<1>7. \A i \in DOMAIN rows : eps[i].season = rows[i].season /\ eps[i].number = rows[i].number
  <2> SUFFICES ASSUME NEW i \in DOMAIN rows
               PROVE  eps[i].season = rows[i].season /\ eps[i].number = rows[i].number
    OBVIOUS
  <2>1. CASE i # n
    BY <1>5, <2>1
  <2>2. CASE i = n
    <3>1. rows[n] \in EpisodeRows
      BY <1>3
    <3> QED
      BY <1>3, <1>5, <2>2, <3>1 DEF EpisodeRows
  <2> QED
    BY <2>1, <2>2
<1>8. SlotsDiffer(eps)
  BY <1>1, <1>6, <1>7 DEF SlotsDiffer
<1> QED
  BY <1>6, <1>8 DEF IsShow

(* What a stricter mode skips, and what it moves to get there.             *)
LEMMA PushedNest ==
  ASSUME NEW e, NEW sp
  PROVE  /\ Pushed(e, "completionist", sp, "skipped") = Pushed(e, "standard", sp, "skipped")
         /\ Pushed(e, "standard", sp, "skipped") \subseteq Pushed(e, "binge", sp, "skipped")
         /\ Pushed(e, "binge", sp, "skipped") \subseteq Pushed(e, "canon-only", sp, "skipped")
         /\ Pushed(e, "canon-only", sp, "skipped") =
              Pushed(e, "standard", sp, "skipped") \cup Pushed(e, "standard", sp, "optional")
BY DEF Pushed, Placement, WorthWatchingList

(* A list's episodes are those of its rows, so lists nest as their rows do.*)
LEMMA ModesNestOK == ShowOK => ModesNest
<1> SUFFICES ASSUME ShowOK, NEW sp \in BOOLEAN
             PROVE  /\ Skipped("completionist", sp) = Skipped("standard", sp)
                    /\ Skipped("standard", sp) \subseteq Skipped("binge", sp)
                    /\ Skipped("binge", sp) \subseteq Skipped("canon-only", sp)
                    /\ Skipped("canon-only", sp) =
                         Skipped("standard", sp) \cup Range(Guide("standard", sp).optional)
  BY DEF ModesNest
<1>1. \A mode, list : Range(List(eps, mode, sp, list)) =
                        {eps[i] : i \in Pushed(eps, mode, sp, list)}
  <2> SUFFICES ASSUME NEW mode, NEW list
               PROVE  Range(List(eps, mode, sp, list)) =
                        {eps[i] : i \in Pushed(eps, mode, sp, list)}
    OBVIOUS
  <2>1. IsShow(eps) /\ Pushed(eps, mode, sp, list) \in SUBSET DOMAIN eps
    BY EpsIsShow DEF Pushed
  <2> QED
    BY <2>1, InOrderHolds DEF List
<1>2. /\ \A mode : Skipped(mode, sp) = {eps[i] : i \in Pushed(eps, mode, sp, "skipped")}
      /\ Range(Guide("standard", sp).optional) =
           {eps[i] : i \in Pushed(eps, "standard", sp, "optional")}
  BY <1>1 DEF Skipped, Guide, BuildSkipGuide
<1> QED
  BY <1>2, PushedNest

(* Whatever the rows of a show and the votes: each mode skips what the     *)
(* gentler one does, and standard's optional list is what canon-only adds. *)
THEOREM StricterSkipsMore == ShowSpec => []ModesNest
BY ModesNestOK, ShowAlwaysOK, PTL

(* The average of the known runtimes is a number of minutes.               *)
LEMMA AverageIsNat ==
  ASSUME NEW e, IsShow(e), Known(e) # {}
  PROVE  Average(e, DOMAIN e) \in Nat
<1> DEFINE K == Known(e) \cap DOMAIN e
           m == Runtimes(e)
<1>1. K # {} /\ K \in SUBSET DOMAIN e /\ K \in SUBSET K
  BY DEF Known
<1>2. IsFiniteSet(K) /\ Cardinality(K) \in Nat /\ Cardinality(K) > 0
  <2>1. IsFiniteSet(K) /\ Cardinality(K) \in Nat
    BY <1>1, RowsFinite
  <2> HIDE DEF K
  <2> QED
    BY <1>1, <2>1, FS_EmptySet
<1>3. Measured(m, K)
  <2>1. \A i \in DOMAIN e : e[i] \in EpisodeRows
    BY DEF IsShow
  <2>2. \A i \in DOMAIN e : e[i].runtime \in Nat \cup {Unknown}
    BY <2>1 DEF EpisodeRows
  <2>3. \A i \in K : m[i] \in Nat
    BY <2>2 DEF Known, Runtimes
  <2> HIDE DEF m, K
  <2> QED
    BY <1>2, <2>3 DEF Measured
<1>4. SumFunctionOnSet(m, K) \in Nat
  <2> HIDE DEF m, K
  <2> QED
    BY <1>1, <1>3, SumGrows
<1>5. Rounded(SumFunctionOnSet(m, K), Cardinality(K)) \in Nat
  <2> HIDE DEF m, K
  <2> QED
    BY <1>2, <1>4, RoundedIsNat
<1> QED
  BY <1>5 DEF Average

(* Who skips more claims to save no less.                                  *)
LEMMA MinutesGrow ==
  ASSUME NEW e, IsShow(e), NEW S \in SUBSET DOMAIN e, NEW T \in SUBSET S
  PROVE  \/ MinutesSkipped(S, e) = Unknown
         \/ /\ MinutesSkipped(T, e) # Unknown
            /\ MinutesSkipped(T, e) <= MinutesSkipped(S, e)
<1> DEFINE m == Minutes(e, Average(e, DOMAIN e))
<1>1. CASE Known(e) = {} \/ S = {}
  BY <1>1 DEF MinutesSkipped, Unknown
<1>2. CASE Known(e) # {} /\ S # {}
  <2>1. Measured(m, S)
    <3>1. \A i \in DOMAIN e : e[i] \in EpisodeRows
      BY DEF IsShow
    <3>2. \A i \in DOMAIN e : e[i].runtime \in Nat \cup {Unknown}
      BY <3>1 DEF EpisodeRows
    <3>3. Average(e, DOMAIN e) \in Nat
      BY <1>2, AverageIsNat
    <3>4. \A i \in S : m[i] \in Nat
      BY <3>2, <3>3 DEF Known, Minutes
    <3>5. IsFiniteSet(S)
      BY RowsFinite
    <3> HIDE DEF m
    <3> QED
      BY <3>4, <3>5 DEF Measured
  <2>2. /\ SumFunctionOnSet(m, T) \in Nat
        /\ SumFunctionOnSet(m, S) \in Nat
        /\ SumFunctionOnSet(m, T) <= SumFunctionOnSet(m, S)
    <3> HIDE DEF m
    <3> QED
      BY <2>1, SumGrows
  <2>3. /\ MinutesSkipped(S, e) = SumFunctionOnSet(m, S)
        /\ MinutesSkipped(T, e) = IF T = {} THEN 0 ELSE SumFunctionOnSet(m, T)
    BY <1>2 DEF MinutesSkipped
  <2> HIDE DEF m
  <2> QED
    BY <2>2, <2>3 DEF Unknown
<1> QED
  BY <1>1, <1>2

(* The skips of the two modes nest, so their minutes do.                   *)
LEMMA MinutesNestOK == ShowOK => MinutesNest
<1> SUFFICES ASSUME ShowOK, NEW sp \in BOOLEAN,
                    NEW p \in { <<"standard", "binge">>, <<"binge", "canon-only">> }
             PROVE  \/ Guide(p[2], sp).minutes = Unknown
                    \/ /\ Guide(p[1], sp).minutes # Unknown
                       /\ Guide(p[1], sp).minutes <= Guide(p[2], sp).minutes
  BY DEF MinutesNest
<1> DEFINE S == Pushed(eps, p[2], sp, "skipped")
           T == Pushed(eps, p[1], sp, "skipped")
<1>1. /\ Guide(p[1], sp).minutes = MinutesSkipped(T, eps)
      /\ Guide(p[2], sp).minutes = MinutesSkipped(S, eps)
  BY DEF Guide, BuildSkipGuide
<1>2. T \in SUBSET S /\ S \in SUBSET DOMAIN eps
  <2>1. S \subseteq DOMAIN eps
    BY DEF Pushed
  <2>2. T \subseteq S
    BY PushedNest
  <2> QED
    BY <2>1, <2>2
<1> HIDE DEF S, T
<1> QED
  BY <1>1, <1>2, EpsIsShow, MinutesGrow

(* A stricter mode never claims to save less time.                         *)
THEOREM StricterSavesMore == ShowSpec => []MinutesNest
BY MinutesNestOK, ShowAlwaysOK, PTL

(* The three lists share the included rows out among them.                 *)
LEMMA ListsShareOut ==
  ASSUME NEW e, IsShow(e), NEW mode \in GuideModes, NEW sp
  PROVE  LET W == Pushed(e, mode, sp, "watch")
             O == Pushed(e, mode, sp, "optional")
             K == Pushed(e, mode, sp, "skipped")
             I == {i \in DOMAIN e : Included(e[i], sp)}
         IN  /\ W \cup O \cup K = I
             /\ Cardinality(W) + Cardinality(O) + Cardinality(K) = Cardinality(I)
<1> DEFINE W == Pushed(e, mode, sp, "watch")
           O == Pushed(e, mode, sp, "optional")
           K == Pushed(e, mode, sp, "skipped")
           I == {i \in DOMAIN e : Included(e[i], sp)}
<1>1. \A i \in DOMAIN e : Placement(mode, Status(e[i].votes), e[i].rating)
                            \in {"watch", "optional", "skipped"}
  BY DEF Placement, WorthWatchingList, GuideModes
<1>2. W \cup O \cup K = I
  BY <1>1 DEF Pushed
<1>3. W \cap O = {} /\ (W \cup O) \cap K = {}
  BY DEF Pushed
<1>4. /\ W \in SUBSET DOMAIN e /\ O \in SUBSET DOMAIN e /\ K \in SUBSET DOMAIN e
      /\ W \cup O \in SUBSET DOMAIN e
  BY DEF Pushed
<1> HIDE DEF W, O, K, I
<1>5. /\ IsFiniteSet(W) /\ IsFiniteSet(O) /\ IsFiniteSet(K) /\ IsFiniteSet(W \cup O)
      /\ Cardinality(W) \in Nat /\ Cardinality(O) \in Nat /\ Cardinality(K) \in Nat
  BY <1>4, RowsFinite
<1>6. /\ Cardinality(W \cup O) = Cardinality(W) + Cardinality(O) - Cardinality(W \cap O)
      /\ Cardinality((W \cup O) \cup K) =
           Cardinality(W \cup O) + Cardinality(K) - Cardinality((W \cup O) \cap K)
  BY <1>5, FS_Union
<1>7. Cardinality(W \cap O) = 0 /\ Cardinality((W \cup O) \cap K) = 0
  BY <1>3, FS_EmptySet
<1>8. Cardinality(W) + Cardinality(O) + Cardinality(K) = Cardinality(I)
  <2>1. Cardinality((W \cup O) \cup K) = Cardinality(I)
    BY <1>2
  <2>2. Cardinality((W \cup O) \cup K) =
          (Cardinality(W) + Cardinality(O) - 0) + Cardinality(K) - 0
    BY <1>6, <1>7
  <2> QED
    BY <1>5, <2>1, <2>2
<1> QED
  BY <1>2, <1>8 DEF W, O, K, I

(* The lists hold the rows shared out, each list in broadcast order.       *)
LEMMA ListsPartitionOK == ShowOK => ListsPartition
<1> SUFFICES ASSUME ShowOK, NEW mode \in GuideModes, NEW sp \in BOOLEAN
             PROVE  LET g == Guide(mode, sp)
                        Ordered(s) == \A i \in 1..(Len(s) - 1) : Precedes(s[i], s[i + 1])
                    IN  /\ Ordered(g.watch) /\ Ordered(g.optional) /\ Ordered(g.skipped)
                        /\ Len(g.watch) + Len(g.optional) + Len(g.skipped) =
                             Cardinality({i \in DOMAIN eps : Included(eps[i], sp)})
                        /\ Range(g.watch) \cup Range(g.optional) \cup Range(g.skipped) =
                             {eps[i] : i \in {j \in DOMAIN eps : Included(eps[j], sp)}}
  BY DEF ListsPartition
<1> DEFINE g == Guide(mode, sp)
           W == Pushed(eps, mode, sp, "watch")
           O == Pushed(eps, mode, sp, "optional")
           K == Pushed(eps, mode, sp, "skipped")
           I == {i \in DOMAIN eps : Included(eps[i], sp)}
<1>1. g.watch = InOrder(eps, W) /\ g.optional = InOrder(eps, O) /\ g.skipped = InOrder(eps, K)
  BY DEF Guide, BuildSkipGuide, List
<1>2. IsShow(eps)
  BY EpsIsShow
<1>3. W \in SUBSET DOMAIN eps /\ O \in SUBSET DOMAIN eps /\ K \in SUBSET DOMAIN eps
  BY DEF Pushed
<1>4. ASSUME NEW S \in SUBSET DOMAIN eps
      PROVE  /\ \A i \in 1..(Len(InOrder(eps, S)) - 1) :
                  Precedes(InOrder(eps, S)[i], InOrder(eps, S)[i + 1])
             /\ Len(InOrder(eps, S)) = Cardinality(S)
             /\ Range(InOrder(eps, S)) = {eps[i] : i \in S}
  <2>1. Cardinality(S) \in Nat
    BY <1>2, RowsFinite
  <2> DEFINE L == InOrder(eps, S)
  <2>2. /\ Len(L) = Cardinality(S)
        /\ Range(L) = {eps[i] : i \in S}
        /\ \A a, b \in 1..Cardinality(S) : a < b => Precedes(L[a], L[b])
    BY <1>2, InOrderHolds
  <2> HIDE DEF L
  <2>3. \A i \in 1..(Len(L) - 1) : Precedes(L[i], L[i + 1])
    BY <2>1, <2>2
  <2> QED
    BY <2>2, <2>3 DEF L
<1>5. /\ W \cup O \cup K = I
      /\ Cardinality(W) + Cardinality(O) + Cardinality(K) = Cardinality(I)
  BY <1>2, ListsShareOut
<1> HIDE DEF g, W, O, K
<1>6. Range(g.watch) \cup Range(g.optional) \cup Range(g.skipped) = {eps[i] : i \in I}
  <2>1. /\ Range(g.watch) = {eps[i] : i \in W}
        /\ Range(g.optional) = {eps[i] : i \in O}
        /\ Range(g.skipped) = {eps[i] : i \in K}
    BY <1>1, <1>3, <1>4
  <2> HIDE DEF I
  <2> QED
    BY <1>5, <2>1
<1>7. Len(g.watch) + Len(g.optional) + Len(g.skipped) = Cardinality(I)
  <2>1. /\ Len(g.watch) = Cardinality(W)
        /\ Len(g.optional) = Cardinality(O)
        /\ Len(g.skipped) = Cardinality(K)
    BY <1>1, <1>3, <1>4
  <2> QED
    BY <1>5, <2>1
<1>8. /\ \A i \in 1..(Len(g.watch) - 1) : Precedes(g.watch[i], g.watch[i + 1])
      /\ \A i \in 1..(Len(g.optional) - 1) : Precedes(g.optional[i], g.optional[i + 1])
      /\ \A i \in 1..(Len(g.skipped) - 1) : Precedes(g.skipped[i], g.skipped[i + 1])
  BY <1>1, <1>3, <1>4
<1> QED
  BY <1>6, <1>7, <1>8 DEF g

(* Every included episode is on one list, once, and every list is in       *)
(* broadcast order, whatever order the rows come in.                       *)
THEOREM ListsShareEpisodes == ShowSpec => []ListsPartition
BY ListsPartitionOK, ShowAlwaysOK, PTL

(* The rows counted for two groups of statuses at once.                    *)
LEMMA CountsAdd ==
  ASSUME NEW e, IsShow(e), NEW A, NEW B, A \cap B = {}
  PROVE  Counted(e, A \cup B) = Counted(e, A) + Counted(e, B)
<1> DEFINE X(S) == {i \in DOMAIN e : e[i].season # 0 /\ Status(e[i].votes) \in S}
           P == X(A)
           Q == X(B)
<1>1. X(A \cup B) = P \cup Q /\ P \cap Q = {}
  OBVIOUS
<1>2. P \in SUBSET DOMAIN e /\ Q \in SUBSET DOMAIN e
  OBVIOUS
<1>3. /\ Counted(e, A \cup B) = Cardinality(X(A \cup B))
      /\ Counted(e, A) = Cardinality(P) /\ Counted(e, B) = Cardinality(Q)
  BY DEF Counted
<1> HIDE DEF X, P, Q
<1>4. IsFiniteSet(P) /\ IsFiniteSet(Q) /\ Cardinality(P) \in Nat /\ Cardinality(Q) \in Nat
  BY <1>2, RowsFinite
<1>5. Cardinality(P \cup Q) = Cardinality(P) + Cardinality(Q) - Cardinality(P \cap Q)
  BY <1>4, FS_Union
<1>6. Cardinality(P \cap Q) = 0
  BY <1>1, FS_EmptySet
<1>7. Cardinality(P \cup Q) = Cardinality(P) + Cardinality(Q)
  BY <1>4, <1>5, <1>6
<1> QED
  BY <1>1, <1>3, <1>7

(* The lists of the default guide are the statuses the card counts.        *)
LEMMA CardCountsLists ==
  ASSUME NEW e, IsShow(e)
  PROVE  /\ Counted(e, {"FILLER"}) = Cardinality(Pushed(e, "standard", FALSE, "skipped"))
         /\ Counted(e, {"WORTH_WATCHING"}) =
              Cardinality(Pushed(e, "standard", FALSE, "optional"))
         /\ Counted(e, {"CANON"} \cup Unsure) =
              Cardinality(Pushed(e, "standard", FALSE, "watch"))
<1> DEFINE X(S) == {i \in DOMAIN e : e[i].season # 0 /\ Status(e[i].votes) \in S}
<1>1. \A i \in DOMAIN e : Status(e[i].votes) \in Statuses
  BY DEF Status, Statuses, VoteValues
<1>2. /\ X({"FILLER"}) = Pushed(e, "standard", FALSE, "skipped")
      /\ X({"WORTH_WATCHING"}) = Pushed(e, "standard", FALSE, "optional")
      /\ X({"CANON"} \cup Unsure) = Pushed(e, "standard", FALSE, "watch")
  BY <1>1 DEF Pushed, Included, Placement, WorthWatchingList, Statuses, VoteValues, Unsure
<1> QED
  BY <1>2 DEF Counted

(* The card's counts are the lengths of the lists, and the percentage is of*)
(* their sum.                                                              *)
LEMMA CardAgreesOK == ShowOK => CardAgreesWithGuide
<1> SUFFICES ASSUME ShowOK PROVE CardAgreesWithGuide
  OBVIOUS
<1> DEFINE g == Guide("standard", FALSE)
           s == OgStats(eps)
           W == Pushed(eps, "standard", FALSE, "watch")
           O == Pushed(eps, "standard", FALSE, "optional")
           K == Pushed(eps, "standard", FALSE, "skipped")
<1>1. IsShow(eps)
  BY EpsIsShow
<1>2. /\ g.watch \in Seq(EpisodeRows) /\ Len(g.watch) = Cardinality(W)
      /\ g.optional \in Seq(EpisodeRows) /\ Len(g.optional) = Cardinality(O)
      /\ g.skipped \in Seq(EpisodeRows) /\ Len(g.skipped) = Cardinality(K)
  <2>1. W \in SUBSET DOMAIN eps /\ O \in SUBSET DOMAIN eps /\ K \in SUBSET DOMAIN eps
    BY DEF Pushed
  <2>2. g.watch = InOrder(eps, W) /\ g.optional = InOrder(eps, O) /\ g.skipped = InOrder(eps, K)
    BY DEF Guide, BuildSkipGuide, List
  <2> HIDE DEF g, W, O, K
  <2> QED
    BY <1>1, <2>1, <2>2, InOrderHolds
<1>3. /\ s.filler = Cardinality(K)
      /\ s.worth_watching = Cardinality(O)
      /\ s.canon + s.undecided = Cardinality(W)
  <2>1. {"CANON"} \cap Unsure = {}
    BY DEF Unsure
  <2>2. Counted(eps, {"CANON"} \cup Unsure) = Counted(eps, {"CANON"}) + Counted(eps, Unsure)
    BY <1>1, <2>1, CountsAdd
  <2> QED
    BY <1>1, <2>2, CardCountsLists DEF OgStats
<1>4. /\ s.canon \in Nat /\ s.undecided \in Nat
      /\ s.worth_watching \in Nat /\ s.filler \in Nat
  <2>1. ASSUME NEW S PROVE Counted(eps, S) \in Nat
    BY <1>1, RowsFinite DEF Counted
  <2> QED
    BY <2>1 DEF OgStats
<1> HIDE DEF g, s, W, O, K
<1> DEFINE t == OgTotal(s)
<1>5. /\ t \in Nat
      /\ t = s.filler + (s.worth_watching + (s.canon + s.undecided))
      /\ s.filler <= t
  BY <1>4 DEF OgTotal
<1>6. /\ FillerPct(s) \in 0..100
      /\ t < 200 => (FillerPct(s) = 100 <=> s.filler # 0 /\ s.filler = t)
  <2>1. CASE t = 0
    BY <1>4, <1>5, <2>1 DEF FillerPct
  <2>2. CASE t # 0
    <3>1. FillerPct(s) = Rounded(100 * s.filler, t)
      BY <2>2 DEF FillerPct
    <3>2. t > 0
      BY <1>5, <2>2
    <3>3. /\ Rounded(100 * s.filler, t) \in 0..100
          /\ s.filler = t => Rounded(100 * s.filler, t) = 100
          /\ s.filler < t /\ t < 200 => Rounded(100 * s.filler, t) < 100
      <4> HIDE DEF t
      <4> QED
        BY <1>4, <1>5, <3>2, PercentBounds
    <3> HIDE DEF t
    <3> QED
      BY <1>4, <1>5, <2>2, <3>1, <3>3
  <2> QED
    BY <2>1, <2>2
<1>7. /\ s.filler # 0 <=> g.skipped # << >>
      /\ s.filler = t <=> g.watch \o g.optional = << >>
  <2>1. s.filler = Len(g.skipped) /\ s.worth_watching = Len(g.optional)
        /\ s.canon + s.undecided = Len(g.watch)
    BY <1>2, <1>3
  <2>2. s.filler = t <=> Len(g.watch) = 0 /\ Len(g.optional) = 0
    <3>1. \A f, w, k \in Nat : f = f + (w + k) <=> k = 0 /\ w = 0
      OBVIOUS
    <3>2. s.canon + s.undecided \in Nat
      BY <1>4
    <3> HIDE DEF t
    <3>3. s.filler = t <=> s.canon + s.undecided = 0 /\ s.worth_watching = 0
      BY <1>4, <1>5, <3>1, <3>2
    <3> QED
      BY <2>1, <3>3
  <2>3. g.watch \o g.optional = << >> <=> Len(g.watch) = 0 /\ Len(g.optional) = 0
    <3> DEFINE a == g.watch
               b == g.optional
    <3>1. a \in Seq(EpisodeRows) /\ b \in Seq(EpisodeRows)
      BY <1>2
    <3> HIDE DEF a, b
    <3>2. Len(a \o b) = Len(a) + Len(b) /\ a \o b \in Seq(EpisodeRows)
          /\ Len(a) \in Nat /\ Len(b) \in Nat
      BY <3>1
    <3>3. a \o b = << >> <=> Len(a \o b) = 0
      BY <3>2
    <3>4. a \o b = << >> <=> Len(a) = 0 /\ Len(b) = 0
      BY <3>2, <3>3
    <3> QED
      BY <3>4 DEF a, b
  <2>4. g.skipped # << >> <=> Len(g.skipped) # 0
    BY <1>2
  <2> QED
    BY <2>1, <2>2, <2>3, <2>4
<1> QED
  <2>1. s.filler = Len(g.skipped) /\ s.worth_watching = Len(g.optional)
        /\ s.canon + s.undecided = Len(g.watch)
    BY <1>2, <1>3
  <2> QED
    BY <1>6, <1>7, <2>1 DEF CardAgreesWithGuide, g, s, t

(* The preview card counts what the default guide lists, and says 100%     *)
(* only of a show that is all filler, if it has fewer than 200 episodes.   *)
THEOREM CardMatchesGuide == ShowSpec => []CardAgreesWithGuide
BY CardAgreesOK, ShowAlwaysOK, PTL

-----------------------------------------------------------------------------
(* The link of a show (ShowSlugs).                                         *)

(* The candidates of any show: its name or id, alone or with a suffix.     *)
Suffixes == {<<>>} \cup {<<x>> : x \in Shows} \cup {<<x, n>> : x \in Shows, n \in Nat}

(* The slugs a show can have.                                              *)
Slugs == {Base(x, words) \o s : x \in Shows, words \in Names, s \in Suffixes}

(* The imports under way.                                                  *)
Imports ==
  {Idle} \cup [pc : {"fetch"}, show : Shows, probing : BOOLEAN]
         \cup [pc   : {"probe", "upsert", "open"}, show : Shows,
               base : {Base(x, words) : x \in Shows, words \in Names}, n : Nat]

(* The types of ShowSlugs.                                                 *)
SlugsTypeOK ==
  /\ name \in [Shows -> Names]
  /\ slug \in [Shows -> Slugs \cup {NoSlug}]
  /\ task \in [Tasks -> Imports]

(* No two shows share a link.                                              *)
OneShowPerSlug == \A x, y \in Imported : slug[x] = slug[y] => x = y

(* What an upsert under way is about to insert is free ...                 *)
OpenIsFree ==
  \A w \in Tasks :
    task[w].pc = "open" => task[w].show \in Imported \/ Holders(w) = {}

(* ... and nobody else is about to insert it.                              *)
OpenIsAlone ==
  \A w, v \in Tasks :
    task[w].pc = "open" /\ task[v].pc = "open" /\ v # w =>
      /\ task[v].show # task[w].show
      /\ {task[v].show, task[w].show} \cap Imported = {} => Candidate(v) # Candidate(w)

(* The inductive invariant.                                                *)
SlugsInv == SlugsTypeOK /\ OneShowPerSlug /\ OpenIsFree /\ OpenIsAlone

(* What an import past its fetch carries.                                  *)
LEMMA TaskFields ==
  ASSUME SlugsTypeOK, NEW w \in Tasks, task[w].pc \in {"probe", "upsert", "open"}
  PROVE  /\ task[w] \in [pc   : {"probe", "upsert", "open"}, show : Shows,
                         base : {Base(x, words) : x \in Shows, words \in Names}, n : Nat]
         /\ Candidate(w) \in Slugs
<1>1. task[w] \in [pc   : {"probe", "upsert", "open"}, show : Shows,
                   base : {Base(x, words) : x \in Shows, words \in Names}, n : Nat]
  BY DEF SlugsTypeOK, Imports, Idle
<1> DEFINE s == CASE task[w].n = 0 -> <<>>
                  [] task[w].n = 1 -> <<task[w].show>>
                  [] OTHER         -> <<task[w].show, task[w].n>>
<1>2. s \in Suffixes
  BY <1>1 DEF Suffixes
<1>3. Candidate(w) = task[w].base \o s
  BY DEF Candidate
<1> HIDE DEF s
<1>4. PICK x \in Shows, words \in Names : task[w].base = Base(x, words)
  BY <1>1
<1>5. Candidate(w) = Base(x, words) \o s
  BY <1>3, <1>4
<1>6. Base(x, words) \o s \in Slugs
  BY <1>2 DEF Slugs
<1> QED
  BY <1>1, <1>5, <1>6

(* No step breaks the types.                                               *)
LEMMA SlugsTypeStep == SlugsTypeOK /\ [Next]_vars => SlugsTypeOK'
<1> SUFFICES ASSUME SlugsTypeOK, [Next]_vars PROVE SlugsTypeOK'
  OBVIOUS
<1> USE DEF SlugsTypeOK
<1>1. ASSUME NEW x \in Shows, Rename(x) PROVE SlugsTypeOK'
  BY <1>1 DEF Rename
<1>2. ASSUME NEW w \in Tasks, NEW x \in Shows, FirstView(w, x) \/ Reimport(w, x) \/ Refresh(w, x)
      PROVE  SlugsTypeOK'
  <2>1. PICK p \in BOOLEAN : Start(w, x, p)
    BY <1>2 DEF FirstView, Reimport, Refresh
  <2>2. [pc |-> "fetch", show |-> x, probing |-> p] \in Imports
    BY DEF Imports
  <2> QED
    BY <2>1, <2>2 DEF Start
<1>3. ASSUME NEW w \in Tasks, Fetch(w) PROVE SlugsTypeOK'
  <2>1. task[w].show \in Shows
    BY <1>3 DEF Fetch, Imports, Idle
  <2> DEFINE x == task[w].show
             r == [pc   |-> IF task[w].probing THEN "probe" ELSE "upsert",
                   show |-> x, base |-> Base(x, name[x]), n |-> 0]
  <2>2. r \in Imports
    <3>1. name[x] \in Names
      BY <2>1
    <3> HIDE DEF x
    <3> QED
      BY <2>1, <3>1 DEF Imports, x
  <2>3. UNCHANGED <<name, slug>> /\ task' = [task EXCEPT ![w] = r]
    BY <1>3 DEF Fetch
  <2> HIDE DEF r
  <2> QED
    BY <2>2, <2>3
<1>4. ASSUME NEW w \in Tasks, Probe(w) PROVE SlugsTypeOK'
  <2>1. task[w] \in [pc   : {"probe", "upsert", "open"}, show : Shows,
                     base : {Base(x, words) : x \in Shows, words \in Names}, n : Nat]
    BY <1>4, TaskFields DEF Probe
  <2>2. [task[w] EXCEPT !.n = @ + 1] \in Imports /\ [task[w] EXCEPT !.pc = "upsert"] \in Imports
    BY <2>1 DEF Imports
  <2> QED
    BY <1>4, <2>2 DEF Probe
<1>5. ASSUME NEW w \in Tasks, Upsert(w) PROVE SlugsTypeOK'
  <2>1. task[w] \in [pc   : {"probe", "upsert", "open"}, show : Shows,
                     base : {Base(x, words) : x \in Shows, words \in Names}, n : Nat]
    BY <1>5, TaskFields DEF Upsert
  <2>2. [task[w] EXCEPT !.pc = "open"] \in Imports /\ Idle \in Imports
    BY <2>1 DEF Imports
  <2> QED
    BY <1>5, <2>2 DEF Upsert
<1>6. ASSUME NEW w \in Tasks, Commit(w) PROVE SlugsTypeOK'
  <2>1. Candidate(w) \in Slugs /\ Idle \in Imports
    BY <1>6, TaskFields DEF Commit, Imports
  <2> QED
    BY <1>6, <2>1 DEF Commit
<1>7. ASSUME NEW w \in Tasks, Fail(w) PROVE SlugsTypeOK'
  BY <1>7 DEF Fail, Imports
<1>8. CASE UNCHANGED vars
  BY <1>8 DEF vars
<1> QED
  BY <1>1, <1>2, <1>3, <1>4, <1>5, <1>6, <1>7, <1>8 DEF Next, Import

(* A step that opens no transaction and writes no slug.                    *)
LEMMA QuietStep ==
  ASSUME SlugsTypeOK, SlugsInv, slug' = slug,
         \A w \in Tasks : task'[w].pc = "open" => task'[w] = task[w]
  PROVE  (OneShowPerSlug /\ OpenIsFree /\ OpenIsAlone)'
<1>1. Imported' = Imported
  BY DEF Imported
<1>2. ASSUME NEW w \in Tasks, task'[w].pc = "open"
      PROVE  task[w].pc = "open" /\ Holders(w)' = Holders(w) /\ Candidate(w)' = Candidate(w)
  BY <1>2 DEF Holders, Candidate
<1>3. OneShowPerSlug'
  BY <1>1 DEF SlugsInv, OneShowPerSlug
<1>4. OpenIsFree'
  BY <1>1, <1>2 DEF SlugsInv, OpenIsFree
<1>5. OpenIsAlone'
  <2> SUFFICES ASSUME NEW w \in Tasks, NEW v \in Tasks,
                      task'[w].pc = "open", task'[v].pc = "open", v # w
               PROVE  /\ task'[v].show # task'[w].show
                      /\ {task'[v].show, task'[w].show} \cap Imported' = {} =>
                           Candidate(v)' # Candidate(w)'
    BY DEF OpenIsAlone
  <2>1. task'[w] = task[w] /\ task'[v] = task[v]
    OBVIOUS
  <2> QED
    BY <1>1, <1>2, <2>1 DEF SlugsInv, OpenIsAlone
<1> QED
  BY <1>3, <1>4, <1>5

(* The upsert waits for whoever would insert the same slug or show, and    *)
(* then fails if another show has the slug.                                *)
LEMMA UpsertStep ==
  ASSUME SlugsInv, NEW w \in Tasks, Upsert(w)
  PROVE  (OneShowPerSlug /\ OpenIsFree /\ OpenIsAlone)'
<1>1. task \in [Tasks -> Imports] /\ slug' = slug /\ Imported' = Imported
  BY DEF SlugsInv, SlugsTypeOK, Upsert, Imported
<1>2. CASE ~(task[w].show \in Imported \/ Holders(w) = {})
  <2>1. task' = [task EXCEPT ![w] = Idle]
    BY <1>2 DEF Upsert
  <2>2. \A v \in Tasks : task'[v].pc = "open" => task'[v] = task[v]
    BY <1>1, <2>1 DEF Idle
  <2> QED
    BY <1>1, <2>2, QuietStep DEF SlugsInv
<1>3. CASE task[w].show \in Imported \/ Holders(w) = {}
  <2>1. task' = [task EXCEPT ![w].pc = "open"] /\ task[w].pc = "upsert"
    BY <1>3 DEF Upsert
  <2>2. /\ \A v \in Tasks \ {w} : task'[v] = task[v]
        /\ \A v \in Tasks : task'[v].show = task[v].show
    BY <1>1, <2>1
  <2>3. \A v \in Tasks : Candidate(v)' = Candidate(v)
    <3>1. ASSUME NEW v \in Tasks \ {w} PROVE Candidate(v)' = Candidate(v)
      BY <2>2, <3>1 DEF Candidate
    <3>2. Candidate(w)' = Candidate(w)
      <4>1. /\ task'[w].show = task[w].show /\ task'[w].n = task[w].n
            /\ task'[w].base = task[w].base
        BY <1>1, <2>1
      <4> QED
        BY <4>1 DEF Candidate
    <3> QED
      BY <3>1, <3>2
  <2>4. \A v \in Tasks : Holders(v)' = Holders(v)
    BY <1>1, <2>2, <2>3 DEF Holders
  <2>5. OneShowPerSlug'
    BY <1>1 DEF SlugsInv, OneShowPerSlug
  <2>6. OpenIsFree'
    BY <1>1, <1>3, <2>2, <2>4 DEF SlugsInv, OpenIsFree
  <2>7. OpenIsAlone'
    <3>1. \A v \in Tasks \ {w} : task[v].pc = "open" =>
            /\ task[v].show # task[w].show
            /\ {task[v].show, task[w].show} \cap Imported = {} => Candidate(v) # Candidate(w)
      BY DEF Upsert, Blocked
    <3> QED
      BY <1>1, <2>2, <2>3, <3>1 DEF SlugsInv, OpenIsAlone
  <2> QED
    BY <2>5, <2>6, <2>7
<1> QED
  BY <1>2, <1>3

(* What a commit does to the links.                                        *)
LEMMA CommitWrites ==
  ASSUME SlugsInv, NEW w \in Tasks, Commit(w)
  PROVE  /\ task[w].show \in Shows
         /\ task[w].show \in Imported => slug' = slug
         /\ task[w].show \notin Imported =>
              /\ slug' = [slug EXCEPT ![task[w].show] = Candidate(w)]
              /\ \A y \in Imported : slug[y] # Candidate(w)
<1>1. task[w].show \in Shows
  BY TaskFields DEF SlugsInv, Commit
<1>2. task[w].show \notin Imported => \A y \in Imported : slug[y] # Candidate(w)
  BY DEF SlugsInv, OpenIsFree, Commit, Holders, Imported
<1> QED
  BY <1>1, <1>2 DEF Commit

(* A commit makes its slug a link: no other open transaction is about to   *)
(* insert that slug, and no show has it.                                   *)
LEMMA CommitStep ==
  ASSUME SlugsInv, NEW w \in Tasks, Commit(w)
  PROVE  (OneShowPerSlug /\ OpenIsFree /\ OpenIsAlone)'
<1>1. task \in [Tasks -> Imports] /\ slug \in [Shows -> Slugs \cup {NoSlug}]
      /\ task[w].pc = "open" /\ task' = [task EXCEPT ![w] = Idle]
  BY DEF SlugsInv, SlugsTypeOK, Commit
<1>2. \A v \in Tasks : task'[v].pc = "open" => v # w /\ task'[v] = task[v]
  BY <1>1 DEF Idle
<1>3. CASE task[w].show \in Imported
  <2>1. slug' = slug
    BY <1>3 DEF Commit
  <2> QED
    BY <1>2, <2>1, QuietStep DEF SlugsInv
<1>4. CASE task[w].show \notin Imported
  <2> DEFINE z == task[w].show
  <2>1. /\ z \in Shows /\ slug' = [slug EXCEPT ![z] = Candidate(w)]
        /\ \A y \in Imported : slug[y] # Candidate(w)
    BY <1>4, CommitWrites
  <2>2. /\ Imported' \subseteq Imported \cup {z} /\ Imported \subseteq Imported'
        /\ slug'[z] = Candidate(w)
        /\ \A y \in Shows \ {z} : slug'[y] = slug[y]
    BY <1>1, <1>4, <2>1 DEF Imported
  <2>3. \A v \in Tasks : task'[v].pc = "open" => Candidate(v)' = Candidate(v)
    BY <1>2 DEF Candidate
  <2> HIDE DEF z
  <2>4. OneShowPerSlug'
    <3> SUFFICES ASSUME NEW x \in Imported', NEW y \in Imported', slug'[x] = slug'[y], x # y
                 PROVE  FALSE
      BY DEF OneShowPerSlug
    <3>1. x \in Shows /\ y \in Shows
      BY DEF Imported
    <3>2. CASE x # z /\ y # z
      BY <2>2, <3>1, <3>2 DEF SlugsInv, OneShowPerSlug
    <3>3. CASE x = z \/ y = z
      BY <2>1, <2>2, <3>1, <3>3
    <3> QED
      BY <3>2, <3>3
  <2>5. ASSUME NEW v \in Tasks, task'[v].pc = "open", task'[v].show \notin Imported'
        PROVE  Holders(v)' = {}
    <3>1. v # w /\ task'[v] = task[v] /\ task[v].show \notin Imported
      BY <1>2, <2>2, <2>5
    <3>2. Holders(v) = {} /\ task[v].show # z /\ Candidate(v) # Candidate(w)
      BY <1>1, <1>4, <2>5, <3>1 DEF SlugsInv, OpenIsFree, OpenIsAlone, z
    <3>3. \A y \in Shows \ {task[v].show} : slug'[y] # Candidate(v)
      BY <2>2, <3>2 DEF Holders
    <3>4. Candidate(v)' = Candidate(v) /\ task'[v].show = task[v].show
      BY <2>3, <2>5, <3>1
    <3> QED
      BY <3>3, <3>4 DEF Holders
  <2>6. OpenIsFree'
    BY <2>5 DEF OpenIsFree
  <2>7. OpenIsAlone'
    <3> SUFFICES ASSUME NEW u \in Tasks, NEW v \in Tasks,
                        task'[u].pc = "open", task'[v].pc = "open", v # u
                 PROVE  /\ task'[v].show # task'[u].show
                        /\ {task'[v].show, task'[u].show} \cap Imported' = {} =>
                             Candidate(v)' # Candidate(u)'
      BY DEF OpenIsAlone
    <3>1. task'[u] = task[u] /\ task'[v] = task[v]
      BY <1>2
    <3>2. Candidate(u)' = Candidate(u) /\ Candidate(v)' = Candidate(v)
      BY <2>3
    <3> QED
      BY <2>2, <3>1, <3>2 DEF SlugsInv, OpenIsAlone
  <2> QED
    BY <2>4, <2>6, <2>7
<1> QED
  BY <1>3, <1>4

(* No step breaks the invariant.                                           *)
LEMMA SlugsStep == SlugsInv /\ [Next]_vars => SlugsInv'
<1> SUFFICES ASSUME SlugsInv, [Next]_vars PROVE SlugsInv'
  OBVIOUS
<1>1. SlugsTypeOK /\ SlugsTypeOK'
  BY SlugsTypeStep DEF SlugsInv
<1>2. (OneShowPerSlug /\ OpenIsFree /\ OpenIsAlone)'
  <2>1. CASE \E w \in Tasks : Upsert(w)
    BY <2>1, UpsertStep
  <2>2. CASE \E w \in Tasks : Commit(w)
    BY <2>2, CommitStep
  <2>3. CASE \/ \E w \in Tasks, x \in Shows : FirstView(w, x) \/ Reimport(w, x) \/ Refresh(w, x)
             \/ \E w \in Tasks : Fetch(w) \/ Probe(w) \/ Fail(w)
    <3>1. slug' = slug
      BY <2>3 DEF FirstView, Reimport, Refresh, Start, Fetch, Probe, Fail
    <3>2. PICK w \in Tasks :
             \/ \E x \in Shows : FirstView(w, x) \/ Reimport(w, x) \/ Refresh(w, x)
             \/ Fetch(w) \/ Probe(w) \/ Fail(w)
      BY <2>3
    <3>3. /\ task \in [Tasks -> Imports]
          /\ \E r : task' = [task EXCEPT ![w] = r] /\ r.pc # "open"
      <4>1. CASE \E x \in Shows : FirstView(w, x) \/ Reimport(w, x) \/ Refresh(w, x)
        BY <1>1, <4>1 DEF FirstView, Reimport, Refresh, Start, SlugsTypeOK
      <4>2. CASE Fetch(w)
        <5> DEFINE r == [pc   |-> IF task[w].probing THEN "probe" ELSE "upsert",
                         show |-> task[w].show,
                         base |-> Base(task[w].show, name[task[w].show]), n |-> 0]
        <5>1. task' = [task EXCEPT ![w] = r] /\ r.pc # "open"
          BY <4>2 DEF Fetch
        <5> HIDE DEF r
        <5> QED
          BY <1>1, <5>1 DEF SlugsTypeOK
      <4>3. CASE Probe(w)
        <5> DEFINE more == [task[w] EXCEPT !.n = @ + 1]
                   done == [task[w] EXCEPT !.pc = "upsert"]
        <5>1. task[w] \in [pc   : {"probe", "upsert", "open"}, show : Shows,
                           base : {Base(x, words) : x \in Shows, words \in Names}, n : Nat]
          BY <1>1, <4>3, TaskFields DEF Probe
        <5>2. more.pc # "open" /\ done.pc # "open"
          BY <4>3, <5>1 DEF Probe
        <5>3. task' = [task EXCEPT ![w] = more] \/ task' = [task EXCEPT ![w] = done]
          BY <4>3 DEF Probe
        <5> HIDE DEF more, done
        <5> QED
          BY <1>1, <5>2, <5>3 DEF SlugsTypeOK
      <4>4. CASE Fail(w)
        <5>1. task' = [task EXCEPT ![w] = Idle] /\ Idle.pc # "open"
          BY <4>4 DEF Fail, Idle
        <5> HIDE DEF Idle
        <5> QED
          BY <1>1, <5>1 DEF SlugsTypeOK
      <4> QED
        BY <3>2, <4>1, <4>2, <4>3, <4>4
    <3>4. \A v \in Tasks : task'[v].pc = "open" => task'[v] = task[v]
      BY <3>3
    <3> QED
      BY <1>1, <3>1, <3>4, QuietStep
  <2>4. CASE (\E x \in Shows : Rename(x)) \/ UNCHANGED vars
    <3>1. slug' = slug /\ task' = task
      BY <2>4 DEF Rename, vars
    <3> QED
      BY <1>1, <3>1, QuietStep
  <2> QED
    BY <2>1, <2>2, <2>3, <2>4 DEF Next, Import
<1> QED
  BY <1>1, <1>2 DEF SlugsInv

(* The invariant holds at any time.                                        *)
LEMMA SlugsInvariant == Spec => []SlugsInv
<1>1. Init => SlugsInv
  BY DEF Init, SlugsInv, SlugsTypeOK, Imports, Idle, OneShowPerSlug, Imported,
         OpenIsFree, OpenIsAlone
<1> QED
  BY <1>1, SlugsStep, PTL DEF Spec

(* At any time the slug of a show is its name or id, suffixed or not, and  *)
(* leads to that show alone.                                               *)
THEOREM SlugsUnique == Spec => [](SlugsTypeOK /\ OneShowPerSlug)
<1>1. SlugsInv => SlugsTypeOK /\ OneShowPerSlug
  BY DEF SlugsInv
<1> QED
  BY <1>1, SlugsInvariant, PTL

(* A link keeps leading to its show, and to no other.                      *)
THEOREM LinksKeepLeading == Spec => LinksStay
<1>1. ASSUME SlugsInv, [Next]_vars, slug' # slug,
             NEW x \in Imported, NEW y \in Shows
      PROVE  slug'[y] = slug[x] <=> y = x
  <2>1. PICK w \in Tasks : Commit(w)
    BY <1>1 DEF Next, vars, Import, Rename, FirstView, Reimport, Refresh, Start, Fetch,
                Probe, Upsert, Fail
  <2>2. /\ task[w].show \in Shows \ Imported
        /\ slug' = [slug EXCEPT ![task[w].show] = Candidate(w)]
        /\ \A z \in Imported : slug[z] # Candidate(w)
    BY <1>1, <2>1, CommitWrites
  <2>3. slug \in [Shows -> Slugs \cup {NoSlug}]
    BY <1>1 DEF SlugsInv, SlugsTypeOK
  <2>4. slug[y] = slug[x] <=> y = x
    BY <1>1 DEF SlugsInv, OneShowPerSlug, Imported
  <2> QED
    BY <2>2, <2>3, <2>4
<1>2. SlugsInv /\ [Next]_vars =>
        [\A x \in Imported, y \in Shows : slug'[y] = slug[x] <=> y = x]_slug
  BY <1>1
<1> QED
  BY <1>2, SlugsInvariant, PTL DEF Spec, LinksStay

=============================================================================

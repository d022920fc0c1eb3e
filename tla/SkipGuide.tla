------------------------------ MODULE SkipGuide ------------------------------
(***************************************************************************)
(* The derived skip guide (build_skip_guide of api/src/scoring.rs), the    *)
(* minutes it claims to save, and the counts on a show's preview card      *)
(* (OgStats of api/src/og.rs).                                             *)
(*                                                                         *)
(* An episode is a record [season, number, votes, rating, runtime]: votes  *)
(* is its tally, rating is TMDB's rating in tenths, and rating and runtime *)
(* may be Unknown.  Ids and names are left out: <<season, number>> tells   *)
(* the episodes of one show apart.  The rows of a show are a sequence of   *)
(* such records, in the order they come in; a list of the guide is first   *)
(* the set of its rows' positions and then the rows in order.              *)
(***************************************************************************)
EXTENDS Scoring, Sequences, FiniteSets, Functions

EpisodeRows ==
  [season  : Nat,
   number  : Nat,
   votes   : Tallies,
   rating  : Nat \cup {Unknown},
   runtime : Nat \cup {Unknown}]

(* No two rows of a show share a slot: UNIQUE (show_id, season, number).   *)
SlotsDiffer(eps) ==
  \A i, j \in DOMAIN eps :
    eps[i].season = eps[j].season /\ eps[i].number = eps[j].number => i = j

Precedes(a, b) ==
  \/ a.season < b.season
  \/ a.season = b.season /\ a.number < b.number

(* The specials (season 0) are left out unless the caller asks for them.   *)
Included(ep, specials) == ep.season # 0 \/ specials

(* The rows the loop pushes to one of the three lists.                     *)
Pushed(eps, mode, specials, list) ==
  {i \in DOMAIN eps : /\ Included(eps[i], specials)
                      /\ Placement(mode, Status(eps[i].votes), eps[i].rating) = list}

(* Mutant of InOrder: the rows are taken in the order they come in.        *)
InOrderOfRows(eps, S) ==
  LET q == CHOOSE q \in [1..Cardinality(S) -> S] :
             \A a, b \in DOMAIN q : a < b => q[a] < q[b]
  IN  [n \in 1..Cardinality(S) |-> eps[q[n]]]

(* The rows S as sort_by leaves them: in broadcast order.                  *)
InOrder(eps, S) ==
  LET q == CHOOSE q \in [1..Cardinality(S) -> S] :
             \A a, b \in DOMAIN q : a < b => Precedes(eps[q[a]], eps[q[b]])
  IN  [n \in 1..Cardinality(S) |-> eps[q[n]]]

List(eps, mode, specials, list) == InOrder(eps, Pushed(eps, mode, specials, list))

(* f64::round of a/b for naturals a and b > 0: halves go up.               *)
Rounded(a, b) == (2 * a + b) \div (2 * b)

Known(eps) == {i \in DOMAIN eps : eps[i].runtime # Unknown}

Runtimes(eps) == [i \in DOMAIN eps |-> eps[i].runtime]

(* avg_runtime, over the rows of S whose runtime is known.                 *)
Average(eps, S) ==
  Rounded(SumFunctionOnSet(Runtimes(eps), Known(eps) \cap S),
          Cardinality(Known(eps) \cap S))

(* The minutes a row counts for, given the average.                        *)
Minutes(eps, average) ==
  [i \in DOMAIN eps |-> IF i \in Known(eps) THEN eps[i].runtime ELSE average]

(* Mutant of MinutesSkipped: the average is taken over the skips alone.    *)
MinutesByOwnAverage(skipped, eps) ==
  IF skipped = {} THEN 0
  ELSE IF Known(eps) \cap skipped = {} THEN Unknown
  ELSE SumFunctionOnSet(Minutes(eps, Average(eps, skipped)), skipped)

(* minutes_skipped: an unknown runtime counts as the show's average, taken *)
(* over all its episodes (the skipped, the kept and the specials).         *)
MinutesSkipped(skipped, eps) ==
  IF skipped = {} THEN 0
  ELSE IF Known(eps) = {} THEN Unknown
  ELSE SumFunctionOnSet(Minutes(eps, Average(eps, DOMAIN eps)), skipped)

BuildSkipGuide(eps, mode, specials) ==
  [watch    |-> List(eps, mode, specials, "watch"),
   optional |-> List(eps, mode, specials, "optional"),
   skipped  |-> List(eps, mode, specials, "skipped"),
   minutes  |-> MinutesSkipped(Pushed(eps, mode, specials, "skipped"), eps)]

-----------------------------------------------------------------------------

(* Mutant of Counted: the specials are counted too.                        *)
CountedWithSpecials(eps, S) ==
  Cardinality({i \in DOMAIN eps : Status(eps[i].votes) \in S})

(* The episodes of a status in S on the card, specials excluded.           *)
Counted(eps, S) ==
  Cardinality({i \in DOMAIN eps : eps[i].season # 0 /\ Status(eps[i].votes) \in S})

(* stats_from_episodes.                                                    *)
OgStats(eps) ==
  [canon          |-> Counted(eps, {"CANON"}),
   worth_watching |-> Counted(eps, {"WORTH_WATCHING"}),
   filler         |-> Counted(eps, {"FILLER"}),
   undecided      |-> Counted(eps, Unsure)]

OgTotal(s) == s.canon + s.worth_watching + s.filler + s.undecided

(* The code rounds an f64 product, which may fall just short of an exact   *)
(* half (23 of 40 gives 57 there, 58 here): at such a half this may be one *)
(* too high.                                                               *)
FillerPct(s) == IF OgTotal(s) = 0 THEN 0
                ELSE Rounded(100 * s.filler, OgTotal(s))

=============================================================================

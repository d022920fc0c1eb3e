------------------------------- MODULE Scoring -------------------------------
(***************************************************************************)
(* The filler-scoring rules of api/src/scoring.rs: which reason tag may    *)
(* accompany which vote, which label a tally of votes earns, and which     *)
(* list of a skip guide that label leads to.  A tally is a function from   *)
(* vote values to counts: a row of episode_score.                          *)
(*                                                                         *)
(* Everything here is pure, as the source says of itself ("no I/O, no      *)
(* DB"), and no operator is RECURSIVE, so the module can be used by the    *)
(* modules that carry proofs.                                              *)
(***************************************************************************)
EXTENDS Integers

(* The labels of the Postgres enum vote_value.                             *)
VoteValues == {"FILLER", "WORTH_WATCHING", "CANON"}

(* A vote without a tag.                                                   *)
NoReason == "no-reason"

(* VoteReason::valid_for: the tags a vote of each value may carry.         *)
ValidReasons ==
  [FILLER         |-> {"recap", "side-story", "fun-but-skippable"},
   WORTH_WATCHING |-> {"self-contained-gem", "character-moment",
                       "worldbuilding"},
   CANON          |-> {"major-plot", "character-development", "arc-setup"}]

(* The bodies put_vote accepts: a value, with no tag or one valid for it.  *)
ValidBallots ==
  { b \in [value  : VoteValues,
           reason : UNION {ValidReasons[v] : v \in VoteValues} \cup {NoReason}] :
      b.reason = NoReason \/ b.reason \in ValidReasons[b.value] }

-----------------------------------------------------------------------------

Tallies == [VoteValues -> Nat]

(* MIN_VOTES, and CONTESTED_MARGIN = 0.10 as MarginNum/MarginDen.  The     *)
(* f64 comparison lead <= 0.10 agrees with the exact one: division is      *)
(* correctly rounded and totals are far below 2^50.                        *)
MIN_VOTES == 5
MarginNum == 1
MarginDen == 10

Total(t) == t["FILLER"] + t["WORTH_WATCHING"] + t["CANON"]

(* Mutants of LeadsClearly: a lead of exactly the margin is enough; two    *)
(* of the three positional counts are swapped.                             *)
LeadsOrTies(t, v) ==
  \A x \in VoteValues \ {v} : MarginDen * (t[v] - t[x]) >= MarginNum * Total(t)

LeadsWithSwappedCounts(t, v) ==
  LET c == [t EXCEPT !["WORTH_WATCHING"] = t["CANON"],
                     !["CANON"] = t["WORTH_WATCHING"]]
  IN  \A x \in VoteValues \ {v} :
        MarginDen * (c[v] - c[x]) > MarginNum * Total(t)

(* v leads every other value by more than the contested margin.  The code  *)
(* sorts the three counts and compares the first two: to lead the          *)
(* runner-up by more than the margin is to lead both by more than it.      *)
LeadsClearly(t, v) ==
  \A x \in VoteValues \ {v} : MarginDen * (t[v] - t[x]) > MarginNum * Total(t)

Statuses == VoteValues \cup {"CONTESTED", "NOT_ENOUGH_VOTES"}

Unsure == {"CONTESTED", "NOT_ENOUGH_VOTES"}

(* Mutant of Status: the plurality wins, however narrowly.                 *)
StatusByPlurality(t) ==
  IF Total(t) < MIN_VOTES THEN "NOT_ENOUGH_VOTES"
  ELSE IF \A v \in VoteValues : t["FILLER"] >= t[v] THEN "FILLER"
  ELSE IF \A v \in VoteValues : t["WORTH_WATCHING"] >= t[v]
  THEN "WORTH_WATCHING" ELSE "CANON"

Status(t) ==
  IF Total(t) < MIN_VOTES THEN "NOT_ENOUGH_VOTES"
  ELSE IF LeadsClearly(t, "FILLER") THEN "FILLER"
  ELSE IF LeadsClearly(t, "WORTH_WATCHING") THEN "WORTH_WATCHING"
  ELSE IF LeadsClearly(t, "CANON") THEN "CANON"
  ELSE "CONTESTED"

-----------------------------------------------------------------------------

GuideModes == {"completionist", "standard", "canon-only", "binge"}

(* A rating or a runtime TMDB does not give; BINGE_RESCUE_RATING = 7.0 in  *)
(* tenths.                                                                 *)
Unknown == -1
BingeRescueRating == 70

(* Mutant of WorthWatchingList: canon-only only makes them optional.       *)
WorthWatchingListLenient(mode, rating) ==
  CASE mode = "completionist" -> "watch"
    [] mode = "standard"      -> "optional"
    [] mode = "canon-only"    -> "optional"
    [] mode = "binge"         -> IF rating >= BingeRescueRating
                                 THEN "watch" ELSE "skipped"

(* The list that WORTH_WATCHING episodes join: all the modes differ in.    *)
WorthWatchingList(mode, rating) ==
  CASE mode = "completionist" -> "watch"
    [] mode = "standard"      -> "optional"
    [] mode = "canon-only"    -> "skipped"
    [] mode = "binge"         ->
         IF rating # Unknown /\ rating >= BingeRescueRating
         THEN "watch" ELSE "skipped"

(* The list of the guide an episode joins: the match on mode and status.   *)
Placement(mode, st, rating) ==
  CASE st = "FILLER"         -> "skipped"
    [] st = "WORTH_WATCHING" -> WorthWatchingList(mode, rating)
    [] OTHER                 -> "watch"

=============================================================================

----------------------------- MODULE SkipGuideMC -----------------------------
(***************************************************************************)
(* A small show: a special and two episodes, stored out of order.  The     *)
(* votes of the others, the ratings and the runtimes are any of some       *)
(* representative values.                                                  *)
(***************************************************************************)
EXTENDS ShowGuide

CONSTANTS KnownRatings, KnownRuntimes   \* in tenths, in minutes

(* One tally for each status; the contested one is a lead of exactly 10%.  *)
SampleVotes ==
  { [FILLER |-> 4, WORTH_WATCHING |-> 1, CANON |-> 0],
    [FILLER |-> 0, WORTH_WATCHING |-> 5, CANON |-> 1],
    [FILLER |-> 1, WORTH_WATCHING |-> 1, CANON |-> 3],
    [FILLER |-> 5, WORTH_WATCHING |-> 1, CANON |-> 4],
    [FILLER |-> 4, WORTH_WATCHING |-> 0, CANON |-> 0] }

(* The special is one that a guide with specials skips.                    *)
SpecialVotes == [FILLER |-> 4, WORTH_WATCHING |-> 1, CANON |-> 0]

Slots == << <<1, 2>>, <<0, 1>>, <<1, 1>> >>

SmallShows ==
  { [i \in 1..3 |->
       [season |-> Slots[i][1], number |-> Slots[i][2],
        votes   |-> IF i = 2 THEN SpecialVotes ELSE v,
        rating  |-> IF i = 3 THEN q ELSE 69,
        runtime |-> r[i]]] :
    v \in SampleVotes, q \in KnownRatings \cup {Unknown},
    r \in [1..3 -> KnownRuntimes \cup {Unknown}] }

=============================================================================

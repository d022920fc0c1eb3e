---------------------------- MODULE EpisodeLabel ----------------------------
(***************************************************************************)
(* The life of one episode's label while votes on it arrive one at a time: *)
(* a new vote, a retracted vote, a vote changed to another value (the      *)
(* insert, delete and update of a vote row), each followed by the recount  *)
(* status() reads.  Concurrent votes are VoteTally's subject; here the     *)
(* question is what a correct tally's label may do.                        *)
(***************************************************************************)
EXTENDS Scoring

CONSTANT MaxVotes   \* voters of the episode

ASSUME MaxVotesAssumption == MaxVotes \in Nat

VARIABLE tally

LabelInit == tally = [v \in VoteValues |-> 0]

Cast(v) ==
  /\ Total(tally) < MaxVotes
  /\ tally' = [tally EXCEPT ![v] = @ + 1]

Retract(v) ==
  /\ tally[v] > 0
  /\ tally' = [tally EXCEPT ![v] = @ - 1]

Change(v, x) ==
  /\ v # x
  /\ tally[v] > 0
  /\ tally' = [tally EXCEPT ![v] = @ - 1, ![x] = @ + 1]

LabelNext ==
  \/ \E v \in VoteValues : Cast(v) \/ Retract(v)
  \/ \E v, x \in VoteValues : Change(v, x)

LabelSpec == LabelInit /\ [][LabelNext]_tally

-----------------------------------------------------------------------------

LabelTypeOK == tally \in Tallies

(* "Never skip what might be canon" (scoring.rs:176): whatever the mode    *)
(* and the rating, an episode is skipped only when enough people voted and *)
(* CANON trails some other value by more than the margin.                  *)
SkippedIsNotCanon ==
  \A mode \in GuideModes, rating \in {Unknown, 0, BingeRescueRating} :
    Placement(mode, Status(tally), rating) = "skipped" =>
      /\ Total(tally) >= MIN_VOTES
      /\ \E v \in VoteValues \ {"CANON"} :
           MarginDen * (tally[v] - tally["CANON"]) > MarginNum * Total(tally)

(* Status as the code computes it: sort the three counts, compare the      *)
(* first two (scoring.rs:197-210).  Status agrees with it on every tally.  *)
RankingAgrees ==
  \A p \in [1..3 -> VoteValues] :
    /\ \A v \in VoteValues : \E i \in 1..3 : p[i] = v
    /\ tally[p[1]] >= tally[p[2]]
    /\ tally[p[2]] >= tally[p[3]]
    => Status(tally) =
         IF Total(tally) < MIN_VOTES THEN "NOT_ENOUGH_VOTES"
         ELSE IF MarginDen * (tally[p[1]] - tally[p[2]])
                   <= MarginNum * Total(tally)
              THEN "CONTESTED" ELSE p[1]

(* One new or retracted vote never swaps one verdict for another: between  *)
(* two verdicts the label passes through CONTESTED or NOT_ENOUGH_VOTES.    *)
(* (A changed vote counts twice, and can: 3-2 becomes 2-3.)                *)
NoVerdictSwap ==
  [][ /\ Total(tally') # Total(tally)
      /\ Status(tally) \in VoteValues
      /\ Status(tally') \in VoteValues
      => Status(tally') = Status(tally) ]_tally

(* A step that adds a vote for the verdict leaves it standing.             *)
VerdictKept ==
  \A v \in VoteValues :
    Status(tally) = v /\ tally'[v] = tally[v] + 1 => Status(tally') = v

(* Agreeing never hurts: a vote cast for the verdict an episode already    *)
(* has, or moved to it, never costs the episode that verdict.              *)
AgreeingKeepsVerdict == [][VerdictKept]_tally

=============================================================================

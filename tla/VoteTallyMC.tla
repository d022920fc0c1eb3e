----------------------------- MODULE VoteTallyMC -----------------------------
(* Small instances of VoteTally.                                           *)
EXTENDS VoteTally, TLC

(* Two bodies that differ in value, one of them tagged.                    *)
TwoBallots ==
  { [value |-> "FILLER", reason |-> "recap"],
    [value |-> "CANON",  reason |-> NoReason] }

OneBallot == { [value |-> "FILLER", reason |-> "recap"] }

Symmetry ==
  Permutations(Users) \cup Permutations(Episodes) \cup
  Permutations(Handlers) \cup Permutations(Jobs)

=============================================================================

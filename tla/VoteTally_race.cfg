SPECIFICATION Spec
CONSTANTS
  Users = {u1, u2}
  Episodes = {e1}
  Ballots <- TwoBallots
  NoVote = NoVote
  Handlers = {h1, h2}
  Jobs = {j1}
  MayFail = TRUE
SYMMETRY Symmetry
INVARIANTS TypeOK DriftNeedsRace DroppedLeavesNothing
PROPERTIES ImplementsVoteBook

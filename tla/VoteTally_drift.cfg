SPECIFICATION Spec
CONSTANTS
  Users = {u1, u2}
  Episodes = {e1}
  Ballots <- OneBallot
  NoVote = NoVote
  Handlers = {h1, h2}
  Jobs = {}
  MayFail = FALSE
INVARIANTS TallyCurrent
CHECK_DEADLOCK FALSE

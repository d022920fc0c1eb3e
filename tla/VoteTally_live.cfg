SPECIFICATION ScheduledSpec
CONSTANTS
  Users = {u1}
  Episodes = {e1, e2}
  Ballots <- OneBallot
  NoVote = NoVote
  Handlers = {h1}
  Jobs = {j1}
  MayFail = FALSE
PROPERTIES EveryRequestEnds HealedWhenQuiet

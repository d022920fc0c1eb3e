\* Eleven voters: a lead of exactly the margin, and of one vote on either side.
SPECIFICATION ShowSpec
CONSTANTS
  MaxVotes = 11
  RowLists <- SmallShows
  KnownRatings = {69, 70}
  KnownRuntimes = {24, 45}
INVARIANTS SkippedIsNotCanon RankingAgrees ModesNest MinutesNest ListsPartition CardAgreesWithGuide
PROPERTIES NoVerdictSwap AgreeingKeepsVerdict

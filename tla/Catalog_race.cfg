SPECIFICATION Spec
CONSTANTS
  Ids = {a, b, c}
  Slots <- ThreeSlots
  Absent = Absent
  Votable = {a}
  Viewers = {v1}
  Operators = {}
  Ratings = {TRUE}
  MayRemove = TRUE
  MayFail = TRUE
INVARIANTS SlotsSettle FetchedIsWritten VotedKeepRows RecreatedOnlyWhenMoved
SYMMETRY Symmetry

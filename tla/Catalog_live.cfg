SPECIFICATION LiveSpec
CONSTANTS
  Ids = {a, b}
  Slots <- TwoSlots
  Absent = Absent
  Votable = {}
  Viewers = {v1}
  Operators = {o1}
  Ratings = {TRUE}
  MayRemove = FALSE
  MayFail = FALSE
PROPERTIES CatchesUp ColdHeals

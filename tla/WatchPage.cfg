SPECIFICATION Spec
CONSTANTS
  e1 = e1
  e2 = e2
  e3 = e3
  s1 = s1
  s2 = s2
  Episodes = {e1, e2, e3}
  Seasons = {s1, s2}
  SeasonOf <- TwoSeasons
  FirstSeason = s1
  Toggles = {k1, k2}
  Loads = {l1, l2}
  MaxCount = 3
  None = None
SYMMETRY Symmetry
INVARIANTS TypeOK InStep RowsBelong

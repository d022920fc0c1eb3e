SPECIFICATION Spec
CONSTANTS
  author = author
  reader = reader
  e1 = e1
  e2 = e2
  g1 = g1
  g2 = g2
  g3 = g3
  h1 = h1
  h2 = h2
  Users = {author, reader}
  Episodes = {e1, e2}
  GuideIds = {g1, g2, g3}
  Unborn = Unborn
  Gone = Gone
  Inputs <- BothInputs
  Requests <- FewRequests
  Handlers = {h1, h2}
  MAX_PUBLISHED_PER_SHOW = 1
SYMMETRY Symmetry
INVARIANTS LikesNeedRace GuideIsWhole NothingDangles CapOvershoot
CHECK_DEADLOCK FALSE

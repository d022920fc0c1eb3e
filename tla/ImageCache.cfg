\* Two scenes, see the module: two requests and a sync over a poster in two
\* sizes, or two syncs and a request over two posters, a list holding any of them.
CONSTANTS
  f1 = f1
  f2 = f2
  p1 = p1
  p2 = p2
  y1 = y1
  y2 = y2
  IMAGE_SIZES <- TwoSizes
  Files = {f1, f2}
  Keys <- AllKeys
  Absent = Absent
  None = None
  Error = Error
  Proxies = {p1, p2}
  Syncs = {y1, y2}
SPECIFICATION SceneSpec
PROPERTIES ImplementsImageSource OnlyLeftOutPruned LeftOutGoesAway

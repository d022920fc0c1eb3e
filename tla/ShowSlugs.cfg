SPECIFICATION LiveSpec
CONSTANTS
  foo = foo
  Shows = {100, 200, 300}
  Names <- TwoNames
  NoSlug = NoSlug
  Tasks = {t1, t2}
  MayFail = TRUE
PROPERTIES LinksStay EveryShowGetsIn

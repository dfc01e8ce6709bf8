SPECIFICATION Spec
CONSTANTS
  Items <- FeedItems
  g1 = g1
  Cursed = {3}
  Batch = 2
  MaxFeed = 2
  MaxClean = 2
  None = None
INVARIANTS SameStory
PROPERTIES EventuallySettled
CHECK_DEADLOCK FALSE

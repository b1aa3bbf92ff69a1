SPECIFICATION FairSpec
CONSTANTS
  Sounds = {s1, s2, s3}
  Artboards = {a1, a2}
  None = None
INVARIANTS PlayingList HeldElsewhere NothingLost
PROPERTIES SoundsLive AllOutlive CallsReturn
CHECK_DEADLOCK FALSE

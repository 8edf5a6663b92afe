SPECIFICATION PartSpec
CONSTANTS
  max_rotation_speed = 46
  Speed = 43
  Bound = 800
  greedy = greedy
  munkres = munkres
  Tracker = {greedy, munkres}
  Munkres = {munkres}
  Views <- BlobScenes
  MaxBlobs = 2
  min_age = 2
  max_age = 3
  max_distance = 2
  MaxId = 5
  Touch = {"t1", "t2"}
  Sizes = {0, 1, 2, 3}
  Durations = {0, 1, 2}
  MaxPoints = 4
  NoTouch = NoTouch
  Unmeasured = Unmeasured
  NULL = NULL
INVARIANTS
  TracksRotation
  BlobsAreFollowed
  CalibrationHolds
  MatchesAreFound
PROPERTIES
  KeepsPromise
  KeepsObject

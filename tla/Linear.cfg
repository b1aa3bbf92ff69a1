CONSTANTS
  Start = 0
  End = 5
  Fps = 2
  Speed = 2
  Frames <- Keyed
  Loops = {"oneShot", "loop", "pingPong"}
  Elapsed = {0, 1, 2, 7}
  Controls = {"seek", "direction", "loop", "reset", "clear"}
  MaxTotal = 12
SPECIFICATION FairSpec
INVARIANTS InRange TimeFollowsTotal ReportsExactly SpillWithinElapsed
PROPERTY AdvanceReturns

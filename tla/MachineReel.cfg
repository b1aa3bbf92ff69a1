CONSTANTS
  Layers = 1
  States <- ReelStates
  Entry <- OneEntry
  AnyState <- OneAny
  Length <- ReelLength
  OneShots = {"short", "middle", "long"}
  Blends = {}
  Randoms = {"short"}
  Transitions <- ReelTransitions
  Out <- ReelOut
  Arc <- ReelArc
  Fires <- ReelFires
  Listeners <- NoListeners
  Bools = {"stuck"}
  Triggers = {}
  Steps = {0, 1, 3, 6}
  MaxIterations = 5
  Horizon = 12
SPECIFICATION FairSpec
PROPERTIES NoTimeLost MixCompletes

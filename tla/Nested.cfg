SPECIFICATION FrameSpec
CONSTANTS
  None = None
  Root = "root"
  Path <- Paths
  Nested <- Tree
  Animations <- Animated
  Soloed = {"panel", "toast"}
  Joysticks <- Sticks
  Handled = {"follow"}
  Kind <- Kinds
  Entry <- First
  Arcs <- Graph
  Looping = {"seen"}
  Ids <- Names
  Fires <- Fired
  Listeners <- Listens
  Length <- Lengths
  Loops = {"glow"}
  Keyed <- OnFrames
  Pose <- Poses
  Begin <- Start
  HostInputs <- Pressed
INVARIANTS HeardOnce FrameIsWhole StopsAtRest

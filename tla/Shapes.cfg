SPECIFICATION Spec
CONSTANTS
  None = None
  Scenes <- AllScenes
INVARIANT ShownIsCurrent

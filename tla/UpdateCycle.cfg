CONSTANTS
  N = 6
  Parent <- SceneParent
  Targets <- TargetsNode
  Solos = {1, 3}
  Pinned = {}
  Feeds <- Feedback
  MaxSteps = 3
SPECIFICATION Spec
INVARIANTS CollapseMatchesSolos PendingIsFlagged Fresh
PROPERTY ParentsFirst

SPECIFICATION Spec
CONSTANTS
  Nested = "n"
  Order <- Stacked
  NestedOrder <- Window
  Opaque = {"b", "e"}
  Groups <- StackedGroups
  Listener <- StackedListeners
  Calls = {"move", "down", "up", "exit"}
  Positions <- Anywhere
PROPERTIES EntersAndExits ClicksComplete EachCallHeard

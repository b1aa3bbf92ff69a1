SPECIFICATION FairSpec
CONSTANTS
  None = None
  OwnBinds <- Own
  NestedBinds <- Nested
  MachineBinds <- Machine
  Lists = {"rows"}
  ToSource = {"field", "sets"}
  TwoWay = {"slider"}
  Converter <- Converters
  Target <- Targets
  Model <- Models
  Path <- Reads
  Instances <- Two
  ModelOf <- IsOf
  NestedOf <- Holds
  Modulus = 3
  Items = {"r1", "r2"}
  Given <- Rows
  Roots = {"first", "second"}
  Animated = {"x", "input", "bindable"}
  MaxItems = 3
  MinItems = 1
  MaxChanges = 3
INVARIANTS Delivered ListShown
PROPERTIES InstancesKept Settles

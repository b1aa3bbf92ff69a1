SPECIFICATION Spec
CONSTANTS
  Sounds = {s1, s2, s3}
  Artboards = {a1, a2}
  None = None
INVARIANT DisposedOutOfCallback
CHECK_DEADLOCK FALSE

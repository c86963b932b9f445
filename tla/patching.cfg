SPECIFICATION Spec
CONSTANTS
  Pages <- MCPages
  Options <- MCOptions
INVARIANTS
  PageIsKept
  ScriptComesFirst
CHECK_DEADLOCK FALSE

SPECIFICATION UnitSpec
CONSTANTS
  l1 = l1 l2 = l2 n1 = n1 n2 = n2 n3 = n3
  Node = {l1, l2, n1, n2, n3}
  None = None Dead = Dead
  CONSOLE_WIDTH = 2 CONSOLE_HEIGHT = 2 Char = {"a"} MaxRows = 5
  Dtor = {"d", "e"} nullptr = "null" atexit_max_funcs = 3
CHECK_DEADLOCK FALSE
INVARIANT LinksAgree
PROPERTY RingsSpec
PROPERTY ClearEnds
INVARIANT SequencesExact
INVARIANT MapExact
INVARIANT LibcExact
INVARIANT ScreenIsTail
PROPERTY FinalizeExact

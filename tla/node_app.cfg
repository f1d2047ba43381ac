SPECIFICATION Spec
CONSTANTS
  Proc = {p1, p2}
  Caller = {c1, c2}
  None = none
  Part = part
INVARIANTS TypeOK OneNode HandlersHaveNode
PROPERTIES ParentIsTold StopEnds

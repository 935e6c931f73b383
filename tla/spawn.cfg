CONSTANTS
  Criterion = {s1}
  MaxVersion = 3
  MaxTime = 3
  TicksPerSecond = 2
  Harness = {h1, h2}
  MaxEdits = 1
SYMMETRY Interchangeable
SPECIFICATION Spec
INVARIANTS NoneIsLetOff ActsAreOfAdmitted
PROPERTIES AgentRevisionNotGraded
CHECK_DEADLOCK FALSE

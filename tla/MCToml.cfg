SPECIFICATION Spec
CONSTANTS
  v1 = v1
  v2 = v2
  Lines <- MCLines
  MaxLines = 5
  MaxPath = 3
INVARIANTS
  WellFormed
  NoKeyTwice
  AssignmentsLand
  IndependentLinesAreAccepted
PROPERTIES
  ClosedToKeys

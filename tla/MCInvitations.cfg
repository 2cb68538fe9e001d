CONSTANTS
  ann = ann
  ben = ben
  Visitor = {ann, ben}
  MaxUsers = 5
  MaxLost = 2
  MaxMatches = 2
SPECIFICATION Spec
SYMMETRY Alike
CHECK_DEADLOCK FALSE
INVARIANTS
  ToldOkIsMember
  OneRematch

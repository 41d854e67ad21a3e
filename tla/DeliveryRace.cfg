SPECIFICATION Spec
CONSTANTS
  Orders = {o1, o2}
  Cards = {1}
  Stock <- MCStock
  Refill <- MCRefill
  Workers = {w1, w2}
  Hands = {h1}
  Redo = redo
  NoCode = NoCode
  Nobody = Nobody
  MaxFaults = 0
  MaxChanges = 0
INVARIANTS CodeReachesOneBuyer
CHECK_DEADLOCK FALSE
SYMMETRY Alike

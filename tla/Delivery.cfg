SPECIFICATION Spec
CONSTANTS
  Orders = {o1, o2}
  Cards = {1}
  Stock <- MCStock
  Refill <- MCRefill
  Workers = {w1, w2}
  Hands = {h1}
  Redo = redo
  NoCode = NoCode
  Nobody = Nobody
  MaxFaults = 2
  MaxChanges = 1
INVARIANTS OnlyRacedCodesReachTwo RowsTellOfSales ContentWasSent 
CHECK_DEADLOCK FALSE
SYMMETRY Alike

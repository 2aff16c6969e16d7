SPECIFICATION Spec
CONSTANTS
  i1 = i1
  i2 = i2
  i3 = i3
  w1 = w1
  w2 = w2
  q1 = q1
  n1 = n1
  n2 = n2
  Comptes = {1, 2}
  Ids = {i1}
  Depot = 0
  Montants = {1}
  Plafond = 1
  Cles = {k1}
  SansCle = SansCle
  Genres = {"recharge"}
  MaxPannes = 0
  Rappels = {w1}
  Publics = {}
  Crons = {n1}
  Lot = 3
  Agents = {w1, n1}
SYMMETRY Symetrie
INVARIANTS UnCreditParPaiement
CHECK_DEADLOCK FALSE

SPECIFICATION SpecEquitable
CONSTANTS
  i1 = i1
  i2 = i2
  i3 = i3
  w1 = w1
  w2 = w2
  q1 = q1
  n1 = n1
  n2 = n2
  Comptes = {1}
  Ids = {i1, i2}
  Depot = 0
  Montants = {1, 2}
  Plafond = 1
  Cles = {k1}
  SansCle = SansCle
  Genres = {"marchand", "recharge"}
  MaxPannes = 1
  Rappels = {w1}
  Publics = {q1}
  Crons = {n1}
  Lot = 1
  Agents = {w1, q1, n1}
INVARIANTS PaiementJustifie
PROPERTIES RechargeCreditee
CHECK_DEADLOCK FALSE

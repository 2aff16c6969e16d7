SPECIFICATION Spec
CONSTANTS
  i1 = i1
  i2 = i2
  i3 = i3
  w1 = w1
  w2 = w2
  q1 = q1
  n1 = n1
  n2 = n2
  Comptes = {1, 2}
  Ids = {i1, i2, i3}
  Depot = 2
  Montants = {2}
  Plafond = 2
  Cles = {k1}
  SansCle = SansCle
  Genres = {"transfert", "retrait", "admin_credit", "admin_debit", "admin_zero", "suspension"}
  MaxPannes = 1
  Rappels = {}
  Publics = {}
  Crons = {}
  Lot = 3
  Agents = {}
SYMMETRY Symetrie
INVARIANTS SoldeJournal SoldePositif UnTransfertParCle RetraitRegle SansInterblocage
PROPERTIES LivreTenu
CHECK_DEADLOCK FALSE

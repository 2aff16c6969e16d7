SPECIFICATION Spec
CONSTANTS
  i1 = i1
  i2 = i2
  i3 = i3
  i4 = i4
  i5 = i5
  Comptes = {1, 2}
  Ids = {i1, i2, i3, i4, i5}
  Depot = 2
  Montants = {1}
  Plafond = 2
  Cles = {}
  SansCle = SansCle
  Genres = {"transfert", "cotisation", "suspension"}
  MaxPannes = 1
  Agents = {}
  Cotisation = 1
SYMMETRY Symetrie
INVARIANTS CagnotteExacte ArgentConserve
CHECK_DEADLOCK FALSE

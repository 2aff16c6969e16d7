SPECIFICATION SpecEquitable
CONSTANTS
  p1 = p1
  p2 = p2
  r1 = r1
  r2 = r2
  r3 = r3
  g1 = g1
  g2 = g2
  Ids = {r1, r2}
  Guichets = {g1, g2}
  Gestes = {"ouvrir", "fermer"}
  Fonds = {1}
  NbJours = 2
  Produits <- DeuxProduits
  Cles = {}
  SansCle = SansCle
  Montants = {1}
  Paniers <- UnPanier
  Quantites = {2}
  DatesOperation = {0}
  StatutsAdmin = {}
  Operations = {"vente", "annuler"}
  MaxEnVol = 2
PROPERTIES ReouvertureExplicite ToutSeTermine
CHECK_DEADLOCK FALSE

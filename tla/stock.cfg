SPECIFICATION Spec
CONSTANTS
  p1 = p1
  p2 = p2
  r1 = r1
  r2 = r2
  r3 = r3
  g1 = g1
  g2 = g2
  Ids = {r1, r2, r3}
  Guichets = {}
  Gestes = {}
  Fonds = {0}
  NbJours = 1
  Produits <- DeuxProduits
  Cles = {k1}
  SansCle = SansCle
  Montants = {1}
  Paniers <- PaniersCroises
  Quantites = {0, 2}
  DatesOperation = {0}
  StatutsAdmin = {"validee", "annulee", "gelee"}
  Operations = {"vente", "annuler", "admin", "stock", "creer", "retirer", "supprimer", "depense", "directe"}
  MaxEnVol = 3
SYMMETRY Symetrie
INVARIANTS TypeOK StockConserve RestitutionJuste UneLigneParCle CleUneEcriture
PROPERTIES RestitutionAvecAnnulation
CHECK_DEADLOCK FALSE

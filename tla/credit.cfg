SPECIFICATION Spec
CONSTANTS
  r1 = r1
  r2 = r2
  r3 = r3
  r4 = r4
  g1 = g1
  g2 = g2
  Ids = {r1, r2, r3}
  Guichets = {g1}
  Gestes = {"ouvrir", "corriger", "fermer"}
  Fonds = {0}
  NbJours = 2
  Clients = {Awa, Binta}
  Cles = {k1}
  SansCle = SansCle
  Totaux = {2}
  Versements = {1}
  Operations = {"creer", "payer", "acompte"}
  MaxEnVol = 2
SYMMETRY Symetrie
INVARIANTS EncaissementTrace DetteBornee MontantDuExact NatureJuste
PROPERTIES ImplementeDette
CHECK_DEADLOCK FALSE

SPECIFICATION Spec
CONSTANTS
  r1 = r1
  r2 = r2
  r3 = r3
  r4 = r4
  g1 = g1
  g2 = g2
  Ids = {r1, r2}
  Guichets = {g1, g2}
  Gestes = {"ouvrir", "fermer"}
  Fonds = {0}
  NbJours = 1
  Clients = {Awa}
  Cles = {k1}
  SansCle = SansCle
  Totaux = {2}
  Versements = {}
  Operations = {"creer", "payer"}
  MaxEnVol = 2
PROPERTY JourneeFermeeIntacte
CHECK_DEADLOCK FALSE

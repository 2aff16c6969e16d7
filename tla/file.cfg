SPECIFICATION SpecEquitable
CONSTANTS
  v1 = v1
  v2 = v2
  s1 = s1
  awa = awa
  binta = binta
  b1 = b1
  b2 = b2
  Personne = Personne
  Ops = {v1, s1}
  Argent = {v1}
  Comptes = {awa}
  Boucles = {b1, b2}
  REPLAY_CAP = 2
  MaxIncidents = 2
  MaxConnexions = 1
INVARIANTS TypeOK ArgentJamaisAbandonne OrdreDeFile
PROPERTIES PromesseTenue FileSeVide
CHECK_DEADLOCK FALSE

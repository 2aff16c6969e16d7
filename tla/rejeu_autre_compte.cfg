SPECIFICATION Spec
CONSTANTS
  v1 = v1
  v2 = v2
  s1 = s1
  awa = awa
  binta = binta
  b1 = b1
  b2 = b2
  Personne = Personne
  Ops = {v1, s1}
  Argent = {v1}
  Comptes = {awa, binta}
  Boucles = {b1}
  REPLAY_CAP = 2
  MaxIncidents = 0
  MaxConnexions = 2
INVARIANT SousSonCompte
CHECK_DEADLOCK FALSE

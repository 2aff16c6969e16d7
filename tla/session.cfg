SPECIFICATION SpecEquitable
CONSTANTS
  t1 = t1
  t2 = t2
  q1 = q1
  q2 = q2
  Telephones = {t1, t2}
  Requetes = {q1, q2}
  MAX_SESSIONS_PER_USER = 1
  Traitements = {1, 2, 3}
  MaxEcheances = 3
  MaxPertes = 1
INVARIANTS RevocationSurPerteSeulement EchecJustifie
PROPERTIES RequeteTermine
CHECK_DEADLOCK FALSE

SPECIFICATION Spec
CONSTANTS
  c1 = c1
  c2 = c2
  n1 = n1
  r1 = r1
  r2 = r2
  a1 = a1
  Achats = {c1}
  Accords = {c2}
  Negos = {n1}
  Requetes = {r1, r2}
  Reponses = {a1}
  Quantites = {2}
  Publiees = {1, 3}
  Modes = {"keiwa"}
  Liens = {"publication", "recolte"}
  Statuts = {"en_attente", "confirmee", "annulee"}
  Stock = 3
  Solde = 2
  Total = 1
  LIMITE = 1
  MaxApport = 3
SYMMETRY Symetrie
INVARIANTS StockPublieConserve AnnuleeRestituee VenduExact UnSeulDebit AcceptationServie
PROPERTIES ReservationDefinitive
CHECK_DEADLOCK FALSE

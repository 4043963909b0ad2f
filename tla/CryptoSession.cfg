CONSTANTS
  Paths = {p1, p2}
  Threads = {t1, t2}
  NoCell = NoCell
  MaxCtr = 3
  Window = 2
SYMMETRY Symmetry
SPECIFICATION Spec
INVARIANTS
  TypeOK
  NonceUnique
  AcceptedAtMostOnce
  NoFalseRefusal

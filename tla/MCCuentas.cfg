SPECIFICATION Spec
CONSTANTS
  PorCobrar = {c1, c2}
  PorPagar = {r1}
  Importes = {2}
  Claves = {k1, k2, k3}
  Montos <- MCMontos
  Procesos = {p1, p2}
SYMMETRY MCSimetria
INVARIANTS
  TypeOK
  DeudaNoPerdonada
  SaldoEsProyeccion
CHECK_DEADLOCK FALSE

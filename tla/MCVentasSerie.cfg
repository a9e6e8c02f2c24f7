SPECIFICATION Spec
CONSTANTS
  l1 = l1
  l2 = l2
  Cajas = {c1}
  Sesiones = {s1}
  Fondos = {1}
  Montos = {1}
  MaxManual = 1
  Lineas = {l1, l2}
  Carritos <- MCDosLineas
  Pagos <- MCDosPagos
  Promos = {m1}
  UsoMaximo <- MCUsoMaximo
  Existencias <- MCExistencias
  Claves = {k1, k2}
  Devs = {d1, d2}
  Cantidades = {1}
  MaxItems = 2
  Procesos = {p1}
SYMMETRY MCSimetria
INVARIANTS
  ArqueoCuadra
  EstadoDevuelta
  CupoCuadra
  DevueltoAcotado
CHECK_DEADLOCK FALSE

SPECIFICATION Spec
CONSTANTS
  l1 = l1
  l2 = l2
  Cajas = {c1}
  Sesiones = {s1, s2}
  Fondos = {1}
  Montos = {}
  MaxManual = 1
  Lineas = {l1, l2}
  Carritos <- MCCarritos
  Pagos <- MCUnPago
  Promos = {}
  UsoMaximo <- MCUsoMaximo
  Existencias <- MCPocasExistencias
  Claves = {k1, k2}
  Devs = {d1, d2}
  Cantidades = {1}
  MaxItems = 1
  Procesos = {p1, p2}
SYMMETRY MCSimetria
INVARIANTS
  TypeOK
  UnaSesionPorCaja
  CadaVentaUnaVez
PROPERTIES
  SesionFirme
CHECK_DEADLOCK FALSE

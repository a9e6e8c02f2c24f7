SPECIFICATION Spec
CONSTANTS
  Mesas = {m1}
  Comandas = {c1, c2}
  Items = {i1, i2}
  Ventas = {v1, v2}
  EstadosDeMano = {"LIBRE"}
  Avances = {"LISTO"}
  Procesos = {p1, p2}
CONSTRAINT MCPocasCarreras
SYMMETRY MCSimetria
INVARIANTS
  TodoCobrado
  MesaTomada
PROPERTIES
  CobraUnaVez
CHECK_DEADLOCK FALSE

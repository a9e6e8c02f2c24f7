SPECIFICATION Spec
CONSTANTS
  Almacenes = {a1, a2}
  Variantes = {v1}
  ConNegativo = {}
  Cantidades = {1}
  Claves = {k1,k2,k3}
  Reservas = {r1}
  Transferencias = {t1}
  Conteos = {c1}
  Procesos = {p1,p2}
SYMMETRY MCSimetria
INVARIANTS
  KardexCuadra
  DisponibleCuadra
  SinNegativos
CHECK_DEADLOCK FALSE

SPECIFICATION Spec
CONSTANTS
  Almacenes = {a1, a2}
  Variantes = {v1}
  ConNegativo = {v1}
  Cantidades = {1,2}
  Claves = {k1,k2,k3}
  Reservas = {r1,r2}
  Transferencias = {t1}
  Conteos = {}
  Procesos = {p1}
SYMMETRY MCSimetria
INVARIANTS
  EnTransitoCuadra
  ReservadoCuadra
PROPERTIES
  EstadosFinales
CHECK_DEADLOCK FALSE

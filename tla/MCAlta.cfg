SPECIFICATION SpecAlta
CONSTANTS
  Inquilinos = {t1, t2}
  Registros = {p1, p2}
  Relays = {w1, w2}
  MaxIntentos = 3
  Lote = 2
  MaxEnvios = 1
  MaxFallos = 1
PROPERTIES
  EntregaSegura
  EntregaFiable
CHECK_DEADLOCK FALSE

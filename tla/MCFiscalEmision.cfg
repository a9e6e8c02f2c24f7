SPECIFICATION Spec
CONSTANTS
  B1 = B1
  F1 = F1
  C1 = C1
  Ventas = {v1}
  VentasConRuc = {v1}
  Documentos = {d1, d2}
  Series = {F1, C1}
  TipoDeSerie <- MCTipoDeSerie
  Solicitudes = {p1, p2}
  Trabajadores = {w1}
  Lote = 2
  MaxIntentos = 2
  MaxCaidas = 0
  ArriendoCubreLote = TRUE
SYMMETRY MCSimetria
INVARIANTS
  NotaSobreAceptado
  CorrelativosSinHuecos
PROPERTIES
  TransicionLegal
CHECK_DEADLOCK FALSE

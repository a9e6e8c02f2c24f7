SPECIFICATION Spec
CONSTANTS
  B1 = B1
  F1 = F1
  C1 = C1
  Ventas = {v1}
  VentasConRuc = {v1}
  Documentos = {d1, d2}
  Series = {B1}
  TipoDeSerie <- MCTipoDeSerie
  Solicitudes = {p1, p2}
  Trabajadores = {w1}
  Lote = 1
  MaxIntentos = 1
  MaxCaidas = 0
  ArriendoCubreLote = TRUE
INVARIANTS
  SinComprobanteDuplicado
CHECK_DEADLOCK FALSE

SPECIFICATION FairSpec
CONSTANTS
  B1 = B1
  F1 = F1
  C1 = C1
  Ventas = {v1}
  VentasConRuc = {v1}
  Documentos = {d1}
  Series = {B1}
  TipoDeSerie <- MCTipoDeSerie
  Solicitudes = {p1}
  Trabajadores = {w1, w2}
  Lote = 1
  MaxIntentos = 2
  MaxCaidas = 1
  ArriendoCubreLote = FALSE
INVARIANTS
  EnColaTieneEntrega
  EstadoRespaldado
PROPERTIES
  EntregaEventual
CHECK_DEADLOCK FALSE

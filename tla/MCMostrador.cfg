SPECIFICATION MCSpec
CONSTANTS
  Claves = {k1, k2}
  Ventas = {v1}
  Cargos = {c1, c2}
  Procesos = {p1, p2}
  Promos = {o1, o2, o3}
  Formas <- MCFormas
  Articulos = {arroz, bolsa, muestra, queso}
  Tributo <- MCTributo
  Volumen <- MCVolumen
  Tarifas <- MCTarifas
  Carritos <- MCCarritos
  o1 = o1
  o2 = o2
  o3 = o3
  arroz = arroz
  bolsa = bolsa
  muestra = muestra
  queso = queso
  PartesGuardadas = 2
  PartesPedidas = 2
  PartesCentavo = 4
  PartesPunto = 1
CONSTRAINT MCAlcance
SYMMETRY MCSimetria
INVARIANTS
  PagoRespaldado
  CargoConocido
  PagoConciliado
  PreviaEsCobro
  ComprobanteCuadra
CHECK_DEADLOCK FALSE

---------------------------- MODULE MCMostrador -----------------------------
(***************************************************************************)
(* The till: the card payments of a sale, and what its carts cost, one of  *)
(* the two at a time.                                                      *)
(*                                                                         *)
(* The shop has four products: two priced with their tax included, a bag   *)
(* with a duty of its own and the tax on top, and a free sample; one of    *)
(* the first two has a row for less than a unit.                           *)
(***************************************************************************)
EXTENDS Pagos, Precios, TLC

CONSTANTS o1, o2, o3, arroz, bolsa, muestra, queso

MCForma(beneficio, valor, prioridad, acumulable, productos) ==
  [beneficio |-> beneficio, valor |-> valor, compra |-> 2, paga |-> 1, cantidadMinima |-> 0,
   montoMinimo |-> 0, acumulable |-> acumulable, prioridad |-> prioridad,
   productos |-> productos, usoMaximo |-> 0]

\* Prices and terms in cents, quantities in quarters of a unit.
MCCentavos(n) == PartesCentavo * n
MCTipica == MCForma("PORCENTAJE", 15, 0, TRUE, {arroz, bolsa})
MCOferta == [MCForma("PRECIO_FIJO", MCCentavos(89), 0, FALSE, {arroz}) EXCEPT !.usoMaximo = 1]
MCMonto == [MCForma("MONTO_FIJO", MCCentavos(30), 0, FALSE, {arroz, bolsa})
              EXCEPT !.cantidadMinima = 2 * Unidad, !.montoMinimo = 300]
MCDosPorUno == MCForma("LLEVA_N_PAGA_M", 0, 1, FALSE, {arroz})
MCFormas == {MCTipica, MCOferta, MCMonto, MCDosPorUno}
\* Goods given away, one article at a time.
MCRegalos == {MCForma("PORCENTAJE", Cien, 0, FALSE, {arroz})}
MCTributo ==
  [a \in Articulos |-> [afectacion |-> IF a = muestra THEN "GRATUITO" ELSE "GRAVADO", tasa |-> 18,
                       incluido |-> a # bolsa, icbper |-> IF a = bolsa THEN MCCentavos(25) ELSE 0]]
MCVolumen ==
  [a \in Articulos |-> [minimo |-> IF a = queso THEN 1 ELSE 3 * Unidad, monto |-> MCCentavos(95)]]
MCTarifas == {MCCentavos(109), MCCentavos(130)}
MCItem(a, n) == [articulo |-> a, cantidad |-> n]
MCCarritos ==
  {<<MCItem(arroz, Unidad), MCItem(arroz, 2 * Unidad)>>,
   <<MCItem(arroz, 2 * Unidad), MCItem(bolsa, 2 * Unidad)>>,
   <<MCItem(arroz, 3 * Unidad), MCItem(muestra, Unidad)>>,
   \* Weighed: two lines of a kilo and a half, a duty with a fraction of a cent, a quantity the
   \* column rounds, and one no row reaches.
   <<MCItem(arroz, 6), MCItem(arroz, 6)>>, <<MCItem(queso, 2), MCItem(bolsa, 6)>>,
   <<MCItem(queso, 3)>>, <<MCItem(arroz, 2)>>}

\* Each promotion takes terms of its own; one price changes, and only under a preview.
MCEs(p, formas) == promo[p] # NoPromo => promo[p].forma \in formas
MCTerminos ==
  /\ MCEs(o1, {MCTipica, MCOferta}) /\ MCEs(o2, {MCMonto}) /\ MCEs(o3, {MCDosPorUno})
  /\ \A a \in Articulos : tarifa[a] = MCCentavos(109) \/ (a = arroz /\ previa # Nada)
  /\ \A p \in {o2, o3} : promo[p] # NoPromo => promo[p].vigente

\* What changes after a preview changes while the other promotions are in use.
MCEnUso(p) == promo[p] # NoPromo /\ promo[p].estado = "ACTIVA" /\ promo[p].vigente
MCUnCambio ==
  previa # Nada => previa.fresca \/ (venta = Nada /\ MCEnUso(o2) /\ MCEnUso(o3))

\* What may follow a document may follow its sale.
MCSinSeguir == comprobante = Nada

\* Three webhooks, of the six that two charges may bring.
MCPocosAvisos == Cardinality(procesados) <= 3

MCAlcance == MCTerminos /\ MCUnCambio /\ MCSinSeguir /\ MCPocosAvisos

MCInit == Init /\ InitPre
MCNext == \/ Init /\ NextPre /\ UNCHANGED vars
          \/ InitPre /\ Next /\ UNCHANGED varsPre
MCSpec == MCInit /\ [][MCNext]_<<vars, varsPre>>

MCSimetria == Permutations(Claves) \cup Permutations(Ventas) \cup Permutations(Cargos)
                \cup Permutations(Procesos)
=============================================================================

------------------------------ MODULE Precios ------------------------------
(***************************************************************************)
(* What a cart costs: price list, promotions, preview at the till, charge, *)
(* and the totals of the electronic document (promociones.service,         *)
(* motor-promociones, calcularLineas of ventas.service and                 *)
(* constructor-comprobante).                                               *)
(*                                                                         *)
(* The till asks for a preview and confirms the promotions it names; the   *)
(* charge loads them again and decides by itself.                          *)
(*                                                                         *)
(* Numbers are integers, in the parts the code can tell apart: a request   *)
(* may weigh its goods, a price or a term has six decimals, and what a     *)
(* column rounds to the cent keeps its decimals until it is stored.        *)
(***************************************************************************)
EXTENDS Integers, Sequences, FiniteSets, FiniteSetsExt, SequencesExt

CONSTANTS Promos,     \* pool of Promotion
          Formas,     \* the terms a promotion may have
          Articulos,  \* products, of one variant each
          Tributo,    \* per product: affectation, rate, whether the price includes it, ICBPER
          Volumen,    \* per product: a second row of the default list, for another minQuantity
          Tarifas,    \* prices fijarPrecioVariante may set
          Carritos,   \* items of a request
          PartesGuardadas,  \* parts of a unit that the column of a quantity keeps
          PartesPedidas,    \* parts of each of those that a request may name
          PartesCentavo,    \* parts of a cent of a price, a term or a unit value
          PartesPunto       \* parts of a percentage point of a rate

VARIABLES promo,       \* Promotion: terms, state, whether today is in its window, uses
          tarifa,      \* PriceListItem of minQuantity 1 in the default list
          previa,      \* what the till saw
          venta,       \* the last Sale: its lines
          comprobante  \* its ElectronicDocument

\* A quantity is in parts 1 / Unidad of a unit, a price in parts 1 / PartesCentavo of a cent, the
\* product of both in parts 1 / Centavo of a cent, a percentage in parts 1 / PartesPunto.
Unidad == PartesGuardadas * PartesPedidas
Centavo == PartesCentavo * Unidad
Cien == 100 * PartesPunto

\* Terms are numbers and lines have units; CrearPromocion refuses terms that make no sense.
ASSUME PreciosAssumption ==
  /\ IsFiniteSet(Promos)
  /\ \A f \in Formas :
       /\ f.beneficio \in {"PORCENTAJE", "MONTO_FIJO", "PRECIO_FIJO", "LLEVA_N_PAGA_M"}
       /\ {f.valor, f.compra, f.paga, f.prioridad} \subseteq Int
  /\ Tarifas \subseteq Nat
  /\ {PartesGuardadas, PartesPedidas, PartesCentavo, PartesPunto} \subseteq Nat \ {0}
  /\ \A a \in Articulos : /\ Volumen[a].minimo \in Nat \ {0, Unidad} /\ Volumen[a].monto \in Nat
                          /\ Tributo[a].tasa \in Nat /\ Tributo[a].icbper \in Nat
                          /\ Tributo[a].incluido \in BOOLEAN
  /\ Carritos \subseteq Seq([articulo : Articulos, cantidad : Nat \ {0}])

varsPre == <<promo, tarifa, previa, venta, comprobante>>

-----------------------------------------------------------------------------
NoPromo == [estado |-> "AUSENTE"]
Nada == [carrito |-> <<>>]

Promocion == [estado : {"ACTIVA", "PAUSADA"}, forma : Formas, vigente : BOOLEAN, usos : Nat]

TypeOKPre ==
  /\ \A p \in Promos : promo[p] \in Promocion \cup {NoPromo}
  /\ tarifa \in [Articulos -> Tarifas]
  /\ previa # Nada => previa.carrito \in Carritos /\ previa.ids \subseteq Promos
  /\ venta # Nada => /\ venta.carrito \in Carritos
                     /\ \A l \in ToSet(venta.lineas) :
                          0 <= l.descuento /\ 2 * (Centavo * l.descuento - l.bruto) <= Centavo
  /\ comprobante # Nada => comprobante.carrito = venta.carrito

InitPre ==
  /\ promo = [p \in Promos |-> NoPromo]
  /\ tarifa \in [Articulos -> Tarifas]
  /\ previa = Nada /\ venta = Nada /\ comprobante = Nada

\* n / d to the nearest integer, a half away from zero.
Redondea(n, d) ==
  IF n >= 0 THEN (2 * n + d) \div (2 * d) ELSE -((d - 2 * n) \div (2 * d))
Suma(f) == SumFunctionOnSet(f, DOMAIN f)

-----------------------------------------------------------------------------
(* promociones.service: the terms *)

\* validarBeneficio
Valida(f) ==
  /\ f.beneficio # "LLEVA_N_PAGA_M" => f.valor >= 0
  /\ f.beneficio = "PORCENTAJE" => f.valor <= Cien
  /\ f.beneficio = "LLEVA_N_PAGA_M" => f.compra >= 1 /\ 0 <= f.paga /\ f.paga < f.compra

\* A preview is of the promotions and prices there were: `fresca' is a history field.
Envejece == previa' = IF previa = Nada THEN Nada ELSE [previa EXCEPT !.fresca = FALSE]
Cambia(p, valor) ==
  /\ promo' = [promo EXCEPT ![p] = valor]
  /\ Envejece
  /\ UNCHANGED <<tarifa, venta, comprobante>>

\* PAUSADA stands for the three states that are not loaded; a promotion is born PROGRAMADA.
CrearPromocion(p, f) ==
  /\ promo[p] = NoPromo
  /\ Valida(f)
  /\ Cambia(p, [estado |-> "PAUSADA", forma |-> f, vigente |-> TRUE, usos |-> 0])

ActualizarPromocion(p, f) ==
  /\ promo[p] # NoPromo
  /\ Valida(f)
  /\ Cambia(p, [promo[p] EXCEPT !.forma = f])

CambiarEstadoPromocion(p, estado) ==
  /\ promo[p] # NoPromo
  /\ Cambia(p, [promo[p] EXCEPT !.estado = estado])

\* The window begins or ends, or a change of its dates moves it.
PasarFecha(p) ==
  /\ promo[p] # NoPromo
  /\ Cambia(p, [promo[p] EXCEPT !.vigente = ~@])

\* fijarPrecioVariante of catalogo.service
FijarPrecio(a, monto) ==
  /\ tarifa' = [tarifa EXCEPT ![a] = monto]
  /\ Envejece
  /\ UNCHANGED <<promo, venta, comprobante>>

-----------------------------------------------------------------------------
(* motor-promociones *)

\* What a promotion takes off a line before it is rounded, in parts 1 / (Cien * Centavo) of a cent.
\* Only whole units are free.
Beneficio(f, l) ==
  CASE f.beneficio = "PORCENTAJE"  -> l.bruto * f.valor
    [] f.beneficio = "MONTO_FIJO"  -> Cien * (f.valor * l.cantidad)
    [] f.beneficio = "PRECIO_FIJO" -> Cien * (l.bruto - f.valor * l.cantidad)
    [] f.beneficio = "LLEVA_N_PAGA_M" ->
         LET gratis == ((l.cantidad \div Unidad) \div f.compra) * (f.compra - f.paga)
         IN  Cien * (l.precio * (Unidad * gratis))

\* descuentoDeLinea, in cents; zero where the code returns null.  The cap comes before the rounding.
Descuento(p, l) ==
  LET f == promo[p].forma IN
    IF l.articulo \in f.productos /\ l.cantidad >= f.cantidadMinima
    THEN Redondea(Max({0, Min({Cien * l.bruto, Beneficio(f, l)})}), Cien * Centavo)
    ELSE 0

\* descuentosDeLinea: the stackable ones and the best of the others, of which equals may be two.
Aplican(ps, l, totalVenta) ==
  {p \in ps : totalVenta >= Centavo * promo[p].forma.montoMinimo /\ Descuento(p, l) > 0}
Mejores(ps, l) ==
  LET Supera(p, q) == \/ Descuento(p, l) > Descuento(q, l)
                      \/ /\ Descuento(p, l) = Descuento(q, l)
                         /\ promo[p].forma.prioridad > promo[q].forma.prioridad
      unicas == {p \in ps : ~promo[p].forma.acumulable}
  IN {p \in unicas : ~\E q \in unicas : Supera(q, p)}
Detalles(ps, l, totalVenta) ==
  LET aplican == Aplican(ps, l, totalVenta)
      acumulan == {p \in aplican : promo[p].forma.acumulable}
      mejores == Mejores(aplican, l)
  IN IF mejores = {} THEN {acumulan} ELSE {acumulan \cup {p} : p \in mejores}
DescuentoTotal(detalle, l) ==
  LET suma == SumFunctionOnSet([p \in detalle |-> Descuento(p, l)], detalle)
  IN  Redondea(Min({l.bruto, Centavo * suma}), Centavo)

\* cargarVigentes
Cargadas ==
  {p \in Promos : /\ promo[p].estado = "ACTIVA" /\ promo[p].vigente
                  /\ promo[p].forma.usoMaximo > 0 => promo[p].usos < promo[p].forma.usoMaximo}

-----------------------------------------------------------------------------
(* The preview and the charge *)

Renglon(item, precio) ==
  [articulo |-> item.articulo, cantidad |-> item.cantidad, precio |-> precio,
   bruto |-> precio * item.cantidad]

\* The rows of a product in the default list, and those a quantity reaches.
Filas(a) == {[minimo |-> Unidad, monto |-> tarifa[a]], Volumen[a]}
Alcanzadas(item) == {f \in Filas(item.articulo) : f.minimo <= item.cantidad}

\* contextoVariantes takes the first row of the list, calcularLineas the last the quantity reaches.
PrecioPrevia(item) ==
  LET filas == Filas(item.articulo)
  IN (CHOOSE f \in filas : \A g \in filas : f.minimo <= g.minimo).monto
PrecioCobro(item) ==
  (CHOOSE f \in Alcanzadas(item) : \A g \in Alcanzadas(item) : g.minimo <= f.minimo).monto

RenglonesPrevia(carrito) == [i \in DOMAIN carrito |-> Renglon(carrito[i], PrecioPrevia(carrito[i]))]
RenglonesCobro(carrito) == [i \in DOMAIN carrito |-> Renglon(carrito[i], PrecioCobro(carrito[i]))]
Bruto(lineas) == Suma([i \in DOMAIN lineas |-> lineas[i].bruto])

\* One set of promotions per line; where two are equally good, either.
Elecciones(ps, lineas) ==
  LET total == Bruto(lineas)
      todos == UNION {Detalles(ps, lineas[i], total) : i \in DOMAIN lineas}
  IN {d \in [DOMAIN lineas -> todos] :
        \A i \in DOMAIN lineas : d[i] \in Detalles(ps, lineas[i], total)}

\* Slip: the till is told only the first promotion of each line.
Usadas_Primera(d) == {CHOOSE p \in d[i] : TRUE : i \in {j \in DOMAIN d : d[j] # {}}}
\* idsUsadas of aplicables
Usadas(d) == UNION {d[i] : i \in DOMAIN d}

Previsualizar(carrito) ==
  LET lineas == RenglonesPrevia(carrito) IN
    \E d \in Elecciones(Cargadas, lineas) :
      /\ previa' = [carrito |-> carrito, fresca |-> TRUE, ids |-> Usadas(d),
                    descuentos |-> [i \in DOMAIN d |-> DescuentoTotal(d[i], lineas[i])]]
      /\ venta' = Nada /\ comprobante' = Nada
      /\ UNCHANGED <<promo, tarifa>>

\* Slip: the value of a unit is of the price before the discount.
ValorUnitario_SinDescuento(l, descuento, t) ==
  IF t.incluido THEN Redondea(Cien * l.bruto, (Cien + t.tasa) * l.cantidad)
  ELSE Redondea(l.bruto, l.cantidad)
\* Without tax, with the decimals its column keeps.
ValorUnitario(l, descuento, t) ==
  LET neta == l.bruto - Centavo * descuento IN
    IF t.incluido THEN Redondea(Cien * neta, (Cien + t.tasa) * l.cantidad)
    ELSE Redondea(neta, l.cantidad)

\* ICBPER of a line, before it is rounded.
Otros(l) == Tributo[l.articulo].icbper * l.cantidad

\* A line of the sale, its amounts in cents as they are stored.  `exacto' is its total before it is
\* rounded, in parts 1 / (Cien * Centavo) of a cent.
Calculada(l, descuento) ==
  LET t == Tributo[l.articulo]
      neta == l.bruto - Centavo * descuento
      exacto == Cien * Otros(l) + (IF t.incluido THEN Cien * neta ELSE (Cien + t.tasa) * neta)
  IN [articulo |-> l.articulo, cantidad |-> l.cantidad, bruto |-> l.bruto, descuento |-> descuento,
      impuesto |-> Redondea(neta * t.tasa, (IF t.incluido THEN Cien + t.tasa ELSE Cien) * Centavo),
      otros |-> Redondea(Otros(l), Centavo), valorUnitario |-> ValorUnitario(l, descuento, t),
      exacto |-> exacto, total |-> Redondea(exacto, Cien * Centavo)]

\* The total of a sale is rounded once, of the sum of its lines before they were.
TotalVenta(lineas) ==
  Redondea(Suma([i \in DOMAIN lineas |-> lineas[i].exacto]), Cien * Centavo)

\* crear of ventas.service loads the promotions the till confirms, prices the lines and counts
\* one use of each.  A quantity that no row reaches has no price and is refused.  Overlapping
\* sales of one promotion are in Ventas.
CobrarCarrito(carrito, confirmadas) ==
  LET lineas == RenglonesCobro(carrito) IN
    /\ \A i \in DOMAIN carrito : Alcanzadas(carrito[i]) # {}
    /\ \E d \in Elecciones(Cargadas \cap confirmadas, lineas) :
         LET calculadas == [i \in DOMAIN d |-> Calculada(lineas[i], DescuentoTotal(d[i], lineas[i]))]
             contadas == {p \in Usadas(d) : promo[p].forma.usoMaximo > 0}
         IN /\ venta' = [carrito |-> carrito, lineas |-> calculadas, total |-> TotalVenta(calculadas),
                         segunPrevia |-> /\ previa # Nada /\ previa.carrito = carrito
                                         /\ previa.fresca /\ previa.ids = confirmadas
                                         /\ lineas = RenglonesPrevia(carrito)]
            /\ promo' = [p \in Promos |-> IF p \in contadas THEN [promo[p] EXCEPT !.usos = @ + 1]
                                          ELSE promo[p]]
            /\ previa' = IF previa = Nada THEN Nada
                         ELSE [previa EXCEPT !.fresca = @ /\ contadas = {}]
            /\ comprobante' = Nada
            /\ UNCHANGED tarifa

\* construir of constructor-comprobante: the base of a line, of the quantity the column kept.
Guardada(cantidad) == Redondea(cantidad, PartesPedidas)
BaseImponible(l) == Redondea(l.valorUnitario * Guardada(l.cantidad), PartesCentavo * PartesGuardadas)
Construido(v) ==
  LET l == v.lineas
      declaradas == {i \in DOMAIN l : Tributo[l[i].articulo].afectacion # "GRATUITO"}
  IN [carrito |-> v.carrito,
      subtotal |-> Suma([i \in declaradas |-> BaseImponible(l[i])]),
      impuesto |-> Suma([i \in DOMAIN l |-> l[i].impuesto]),
      otros |-> Suma([i \in DOMAIN l |-> l[i].otros]),
      total |-> Suma([i \in declaradas |-> l[i].total])]

\* The document takes the lines of the sale as they were stored (entradaDesdeVenta).
Emitir ==
  /\ venta # Nada /\ comprobante = Nada
  /\ comprobante' = Construido(venta)
  /\ UNCHANGED <<promo, tarifa, previa, venta>>

NextPre ==
  \/ \E p \in Promos, f \in Formas : CrearPromocion(p, f) \/ ActualizarPromocion(p, f)
  \/ \E p \in Promos, e \in {"ACTIVA", "PAUSADA"} : CambiarEstadoPromocion(p, e)
  \/ \E p \in Promos : PasarFecha(p)
  \/ \E a \in Articulos, m \in Tarifas : FijarPrecio(a, m)
  \/ \E c \in Carritos : Previsualizar(c)
  \/ \E c \in Carritos, ps \in SUBSET Promos : CobrarCarrito(c, ps)
  \/ Emitir

SpecPre == InitPre /\ [][NextPre]_varsPre

-----------------------------------------------------------------------------
(* Correctness *)

\* "Lo usan tanto la vista previa de caja como el cobro definitivo, garantizando el mismo
\* resultado": a charge of the promotions the preview named gives each line the discount the
\* preview showed, although it weighs only those and not all there are; unless a promotion or a
\* price changed between the two, or a quantity has a price of its own (which the preview does
\* not look at).
PreviaEsCobro ==
  venta # Nada /\ venta.segunPrevia =>
    [i \in DOMAIN venta.lineas |-> venta.lineas[i].descuento] = previa.descuentos

\* The document says what was charged.  Its total, the sum of lines each rounded, is that of the
\* sale, rounded once, to half a cent per line and another half: two lines of half a kilo may say
\* a cent more than the sale.  It is the same when there is one line, or when lines come out in
\* whole cents.  Its base, tax and other duties add up to its total to a cent per line, two when
\* a duty has a fraction of a cent: for quantities the column keeps as they were sold and of
\* fewer units than a unit value has parts of a cent.  Of a sale without free lines, which the
\* document leaves out.
ComprobanteCuadra ==
  LET lineas == ToSet(venta.lineas)
      n == Len(venta.lineas)
      c == comprobante
      holgura == IF \A l \in lineas : Otros(l) % Centavo = 0 THEN n ELSE 2 * n
  IN c # Nada /\ (\A l \in lineas : Tributo[l.articulo].afectacion # "GRATUITO") =>
       /\ 2 * (c.total - venta.total) \in -(n + 1)..(n + 1)
       /\ n = 1 \/ (\A l \in lineas : l.exacto % (Cien * Centavo) = 0) => c.total = venta.total
       /\ (\A l \in lineas : l.cantidad % PartesPedidas = 0 /\ l.cantidad < Centavo) =>
            c.subtotal + c.impuesto + c.otros - c.total \in -holgura..holgura

\* "El total de descuentos no puede superar la base de la linea" (motor-promociones): no line is
\* discounted more than it costs.  It is not so: the cap comes before the rounding, so a line of
\* weighed goods that is given away may be discounted a fraction of a cent too much, and its
\* total is negative.
DescuentoDentro ==
  venta # Nada => \A l \in ToSet(venta.lineas) : Centavo * l.descuento <= l.bruto
=============================================================================

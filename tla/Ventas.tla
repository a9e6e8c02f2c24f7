------------------------------- MODULE Ventas -------------------------------
(***************************************************************************)
(* The point of sale of one branch: cash sessions (modulos/nucleo/caja),   *)
(* sales and refunds (modulos/nucleo/ventas) and the quota of promotions   *)
(* (modulos/nucleo/promociones).                                           *)
(*                                                                         *)
(* CajaService locks the session row in cerrar and registrarMovimiento;    *)
(* VentasService reads it without a lock.  Inserting a sale or a movement  *)
(* takes a key-share lock on the session until commit, so the open window  *)
(* is between that read and the insert: ...Leer and ...Aplicar.            *)
(*                                                                         *)
(* Every unit has price 1, without tax or discount.  The number a sale     *)
(* takes is in Fiscal, the balances and the kardex in Inventario.          *)
(***************************************************************************)
EXTENDS Integers, FiniteSets, Functions

CONSTANTS Cajas,       \* active cash registers of the branch
          Sesiones,    \* pool of CashSession ids
          Fondos,      \* opening amounts
          Montos,      \* amounts of a manual movement
          MaxManual,   \* bound: sum of the manual movements of one type and session
          Lineas,      \* lines a sale may have, each of a variant of its own
          Carritos,    \* what a sale may carry: quantities per line
          Pagos,       \* what is tendered: [efectivo, otros]
          Promos, UsoMaximo,   \* promotions and [Promos -> usoMaximo]
          Existencias, \* initial stock per line
          Claves,      \* idempotency keys of sales (the client's, offline or not)
          Devs,        \* idempotency keys of refunds
          Cantidades,  \* quantities of a refunded item
          MaxItems,    \* bound: items of one refund request
          Procesos     \* requests that may be in flight together

ASSUME VentasAssumption ==
  /\ Fondos \subseteq Nat /\ Montos \subseteq Nat \ {0}
  /\ IsFiniteSet(Lineas) /\ IsFiniteSet(Claves) /\ IsFiniteSet(Devs)
  /\ "AUSENTE" \notin Claves
  /\ Carritos \subseteq [Lineas -> Nat]
  /\ \A c \in Carritos : \E l \in Lineas : c[l] > 0
  /\ Pagos \subseteq [efectivo : Nat, otros : Nat]
  /\ UsoMaximo \in [Promos -> Nat]
  /\ Existencias \in [Lineas -> Nat]
  /\ Cantidades \subseteq Nat \ {0}
  /\ MaxItems \in Nat \ {0} /\ MaxManual \in Nat

VARIABLES sesiones, \* CashSession
          movs,     \* CashMovement: total per session and type
          ventas,   \* Sale with its items, payments and receivable, by key
          devs,     \* SaleRefund with its items, by key
          uso,      \* Promotion.usoActual
          stock,    \* on hand of the variant of each line, in the branch's warehouse
          tx        \* per process: what it read before its writes

vars == <<sesiones, movs, ventas, devs, uso, stock, tx>>

-----------------------------------------------------------------------------
\* AJUSTE_CIERRE has no writer, and RETIRO counts as EGRESO_EFECTIVO.
SIGNO_MOVIMIENTO == [FONDO_APERTURA |-> 1, VENTA_EFECTIVO |-> 1, INGRESO_EFECTIVO |-> 1,
                     DEVOLUCION_EFECTIVO |-> -1, EGRESO_EFECTIVO |-> -1]
TiposMovimiento == DOMAIN SIGNO_MOVIMIENTO
Manuales == {"INGRESO_EFECTIVO", "EGRESO_EFECTIVO"}

NoSesion == [estado |-> "AUSENTE"]
NoVenta == [estado |-> "AUSENTE"]
NoDev == [venta |-> "AUSENTE"]
Libre == [op |-> "libre"]

Item == [linea : Lineas, cantidad : Cantidades, reingresa : BOOLEAN]
Items == UNION {[1 .. n -> Item] : n \in 1 .. MaxItems}
Abierta == [estado : {"ABIERTA"}, caja : Cajas]
Conciliada == [estado : {"CONCILIADA"}, caja : Cajas, esperado : Int]
EstadosPago == {"PENDIENTE_PAGO", "PAGADA_PARCIALMENTE", "PAGADA"}
Venta == [estado : EstadosPago \cup {"DEVUELTA_PARCIALMENTE", "DEVUELTA"}, sesion : Sesiones,
          lineas : Carritos, pago : Pagos, promos : SUBSET Promos, deuda : Nat]
Dev == [venta : Claves, items : Items, caja : SUBSET Sesiones]
Tx == {Libre}
  \cup [op : {"abrir"}, caja : Cajas]
  \cup [op : {"vender"}, clave : Claves, sesion : Sesiones, lineas : Carritos, pago : Pagos,
        cliente : BOOLEAN, promos : SUBSET Promos]
  \cup [op : {"devolver"}, dev : Devs, venta : Claves, items : Items, caja : SUBSET Sesiones]
  \cup [op : {"decidido"}, dev : Devs, venta : Claves, items : Items, caja : SUBSET Sesiones,
        todo : BOOLEAN]

TypeOK ==
  /\ sesiones \in [Sesiones -> Abierta \cup Conciliada \cup {NoSesion}]
  /\ movs \in [Sesiones -> [TiposMovimiento -> Nat]]
  /\ ventas \in [Claves -> Venta \cup {NoVenta}]
  /\ devs \in [Devs -> Dev \cup {NoDev}]
  /\ uso \in [Promos -> Nat]
  /\ stock \in [Lineas -> Nat]
  /\ tx \in [Procesos -> Tx]

Init ==
  /\ sesiones = [s \in Sesiones |-> NoSesion]
  /\ movs = [s \in Sesiones |-> [t \in TiposMovimiento |-> 0]]
  /\ ventas = [k \in Claves |-> NoVenta]
  /\ devs = [d \in Devs |-> NoDev]
  /\ uso = [m \in Promos |-> 0]
  /\ stock = Existencias
  /\ tx = [p \in Procesos |-> Libre]

-----------------------------------------------------------------------------
(* Cash sessions *)

EstaAbierta(s) == sesiones[s].estado = "ABIERTA"
Ocupada(c) == \E s \in Sesiones : EstaAbierta(s) /\ sesiones[s].caja = c
Registrar(s, tipo, monto) == [movs EXCEPT ![s][tipo] = @ + monto]

\* What the movements m of a session add up to.
calcularEsperado(m) ==
  SumFunctionOnSet([t \in TiposMovimiento |-> SIGNO_MOVIMIENTO[t] * m[t]], TiposMovimiento)

AbrirLeer(p, c) ==
  /\ tx[p] = Libre
  /\ ~Ocupada(c)
  /\ tx' = [tx EXCEPT ![p] = [op |-> "abrir", caja |-> c]]
  /\ UNCHANGED <<sesiones, movs, ventas, devs, uso, stock>>

\* Slip: the check of abrir alone ("El schema no tiene un unique parcial").
AbrirAplicar_SinIndice(p, s, fondo) ==
  /\ tx[p].op = "abrir"
  /\ sesiones[s] = NoSesion
  /\ sesiones' = [sesiones EXCEPT ![s] = [estado |-> "ABIERTA", caja |-> tx[p].caja]]
  /\ movs' = Registrar(s, "FONDO_APERTURA", fondo)
  /\ tx' = [tx EXCEPT ![p] = Libre]
  /\ UNCHANGED <<ventas, devs, uso, stock>>

\* The partial unique index CashSession_una_abierta_por_caja refuses a second one.
AbrirAplicar(p, s, fondo) ==
  /\ tx[p].op = "abrir"
  /\ sesiones[s] = NoSesion
  /\ ~Ocupada(tx[p].caja)
  /\ sesiones' = [sesiones EXCEPT ![s] = [estado |-> "ABIERTA", caja |-> tx[p].caja]]
  /\ movs' = Registrar(s, "FONDO_APERTURA", fondo)
  /\ tx' = [tx EXCEPT ![p] = Libre]
  /\ UNCHANGED <<ventas, devs, uso, stock>>

\* Slip: a session may be closed again.
Cerrar_SinEstado(p, s) ==
  /\ tx[p] = Libre
  /\ sesiones[s] # NoSesion
  /\ sesiones' = [sesiones EXCEPT ![s] = [estado |-> "CONCILIADA", caja |-> @.caja,
                                          esperado |-> calcularEsperado(movs[s])]]
  /\ UNCHANGED <<movs, ventas, devs, uso, stock, tx>>

\* Under the lock of the session: expected cash, count and reconciliation.
Cerrar(p, s) ==
  /\ tx[p] = Libre
  /\ EstaAbierta(s)
  /\ sesiones' = [sesiones EXCEPT ![s] = [estado |-> "CONCILIADA", caja |-> @.caja,
                                          esperado |-> calcularEsperado(movs[s])]]
  /\ UNCHANGED <<movs, ventas, devs, uso, stock, tx>>

\* Slip: the state of the locked session is not looked at.
Mover_SinEstado(p, s, tipo, monto) ==
  /\ tx[p] = Libre
  /\ sesiones[s] # NoSesion
  /\ movs[s][tipo] + monto <= MaxManual
  /\ movs' = Registrar(s, tipo, monto)
  /\ UNCHANGED <<sesiones, ventas, devs, uso, stock, tx>>

\* registrarMovimiento, under the same lock.
Mover(p, s, tipo, monto) ==
  /\ tx[p] = Libre
  /\ EstaAbierta(s)
  /\ movs[s][tipo] + monto <= MaxManual
  /\ movs' = Registrar(s, tipo, monto)
  /\ UNCHANGED <<sesiones, ventas, devs, uso, stock, tx>>

-----------------------------------------------------------------------------
(* Sales *)

total(lineas) == SumFunctionOnSet(lineas, Lineas)

resolverEstado(monto, pagado) ==
  IF pagado >= monto /\ monto > 0 THEN "PAGADA"
  ELSE IF pagado > 0 THEN "PAGADA_PARCIALMENTE" ELSE "PENDIENTE_PAGO"

\* crear, for itself or from sincronizar, up to its checks: the key, the open session,
\* and the quota of the promotions that end up giving a discount.
CrearLeer(p, k, s, lineas, pago, cliente, promos) ==
  /\ tx[p] = Libre
  /\ ventas[k] = NoVenta
  /\ EstaAbierta(s)
  /\ \A m \in promos : uso[m] < UsoMaximo[m]
  /\ tx' = [tx EXCEPT ![p] = [op |-> "vender", clave |-> k, sesion |-> s, lineas |-> lineas,
                              pago |-> pago, cliente |-> cliente, promos |-> promos]]
  /\ UNCHANGED <<sesiones, movs, ventas, devs, uso, stock>>

\* Slip: nothing but the first read tells a retry from a new sale.
CrearAplicar_SinClaveUnica(p) ==
  /\ tx[p].op = "vender"
  /\ LET v == tx[p]
         pagado == v.pago.efectivo + v.pago.otros
         saldo == total(v.lineas) - pagado IN
       /\ \A l \in Lineas : v.lineas[l] <= stock[l]
       /\ ventas' = [ventas EXCEPT ![v.clave] =
            [estado |-> resolverEstado(total(v.lineas), pagado), sesion |-> v.sesion,
             lineas |-> v.lineas, pago |-> v.pago, promos |-> v.promos,
             deuda |-> IF v.cliente /\ saldo > 0 THEN saldo ELSE 0]]
       /\ stock' = [l \in Lineas |-> stock[l] - v.lineas[l]]
       /\ uso' = [m \in Promos |-> IF m \in v.promos THEN uso[m] + 1 ELSE uso[m]]
       /\ movs' = Registrar(v.sesion, "VENTA_EFECTIVO", v.pago.efectivo)
  /\ tx' = [tx EXCEPT ![p] = Libre]
  /\ UNCHANGED <<sesiones, devs>>

\* Slip: the stock is taken without looking at what there is.
CrearAplicar_SinExistencia(p) ==
  /\ tx[p].op = "vender"
  /\ LET v == tx[p]
         pagado == v.pago.efectivo + v.pago.otros
         saldo == total(v.lineas) - pagado IN
       /\ ventas[v.clave] = NoVenta
       /\ ventas' = [ventas EXCEPT ![v.clave] =
            [estado |-> resolverEstado(total(v.lineas), pagado), sesion |-> v.sesion,
             lineas |-> v.lineas, pago |-> v.pago, promos |-> v.promos,
             deuda |-> IF v.cliente /\ saldo > 0 THEN saldo ELSE 0]]
       /\ stock' = [l \in Lineas |-> stock[l] - v.lineas[l]]
       /\ uso' = [m \in Promos |-> IF m \in v.promos THEN uso[m] + 1 ELSE uso[m]]
       /\ movs' = Registrar(v.sesion, "VENTA_EFECTIVO", v.pago.efectivo)
  /\ tx' = [tx EXCEPT ![p] = Libre]
  /\ UNCHANGED <<sesiones, devs>>

\* The sale, its lines and their stock, the use of its promotions, its payments with
\* the cash movement of what was tendered, and the account receivable of a customer.
CrearAplicar(p) ==
  /\ tx[p].op = "vender"
  /\ LET v == tx[p]
         pagado == v.pago.efectivo + v.pago.otros
         saldo == total(v.lineas) - pagado IN
       /\ ventas[v.clave] = NoVenta
       /\ \A l \in Lineas : v.lineas[l] <= stock[l]
       /\ ventas' = [ventas EXCEPT ![v.clave] =
            [estado |-> resolverEstado(total(v.lineas), pagado), sesion |-> v.sesion,
             lineas |-> v.lineas, pago |-> v.pago, promos |-> v.promos,
             deuda |-> IF v.cliente /\ saldo > 0 THEN saldo ELSE 0]]
       /\ stock' = [l \in Lineas |-> stock[l] - v.lineas[l]]
       /\ uso' = [m \in Promos |-> IF m \in v.promos THEN uso[m] + 1 ELSE uso[m]]
       /\ movs' = Registrar(v.sesion, "VENTA_EFECTIVO", v.pago.efectivo)
  /\ tx' = [tx EXCEPT ![p] = Libre]
  /\ UNCHANGED <<sesiones, devs>>

-----------------------------------------------------------------------------
(* Refunds *)

\* Units of line l in a request, and in the committed refunds of sale k.
Cuenta(items, l) ==
  SumFunction([i \in DOMAIN items |-> IF items[i].linea = l THEN items[i].cantidad ELSE 0])
Reingresado(items, l) ==
  SumFunction([i \in DOMAIN items |->
                 IF items[i].linea = l /\ items[i].reingresa THEN items[i].cantidad ELSE 0])
Devuelto(k, l) ==
  SumFunctionOnSet([d \in Devs |-> IF devs[d].venta = k THEN Cuenta(devs[d].items, l) ELSE 0], Devs)
Bloquea(items) == {items[i].linea : i \in {j \in DOMAIN items : items[j].reingresa}}

\* Slip: each item is compared with what was sold, not with what is left of it.
DevolverLeer_SinPrevio(p, d, k, items, caja) ==
  /\ tx[p] = Libre
  /\ devs[d] = NoDev /\ ventas[k] # NoVenta
  /\ \A i \in DOMAIN items :
       /\ ventas[k].lineas[items[i].linea] > 0
       /\ items[i].cantidad <= ventas[k].lineas[items[i].linea]
  /\ tx' = [tx EXCEPT ![p] = [op |-> "devolver", dev |-> d, venta |-> k, items |-> items,
                              caja |-> caja]]
  /\ UNCHANGED <<sesiones, movs, ventas, devs, uso, stock>>

\* devolver up to its checks: each item fits in what the committed refunds leave.
DevolverLeer(p, d, k, items, caja) ==
  /\ tx[p] = Libre
  /\ devs[d] = NoDev /\ ventas[k] # NoVenta
  /\ \A i \in DOMAIN items :
       /\ ventas[k].lineas[items[i].linea] > 0
       /\ items[i].cantidad + Devuelto(k, items[i].linea) <= ventas[k].lineas[items[i].linea]
  /\ tx' = [tx EXCEPT ![p] = [op |-> "devolver", dev |-> d, venta |-> k, items |-> items,
                              caja |-> caja]]
  /\ UNCHANGED <<sesiones, movs, ventas, devs, uso, stock>>

\* Slip: without the items of this refund.
TodoDevuelto_SinActual(k, items) == \A l \in Lineas : Devuelto(k, l) >= ventas[k].lineas[l]

TodoDevuelto(k, items) ==
  \A l \in Lineas : Devuelto(k, l) + Cuenta(items, l) >= ventas[k].lineas[l]

\* The refund is inserted, still invisible to others, and its stock put back under the
\* row lock (one ledger key per refund and variant); the session is checked; then the
\* state of the sale is decided on the committed refunds and this one.
DevolverDecidir(p) ==
  /\ tx[p].op = "devolver"
  /\ LET v == tx[p] IN
       /\ devs[v.dev] = NoDev
       /\ \A i, j \in DOMAIN v.items :
            v.items[i].reingresa /\ v.items[j].reingresa /\ v.items[i].linea = v.items[j].linea
              => i = j
       /\ \A q \in Procesos : tx[q].op = "decidido" =>
            tx[q].dev # v.dev /\ Bloquea(v.items) \cap Bloquea(tx[q].items) = {}
       /\ \A s \in v.caja : EstaAbierta(s)
       /\ tx' = [tx EXCEPT ![p] = [op |-> "decidido", dev |-> v.dev, venta |-> v.venta,
                   items |-> v.items, caja |-> v.caja, todo |-> TodoDevuelto(v.venta, v.items)]]
  /\ UNCHANGED <<sesiones, movs, ventas, devs, uso, stock>>

\* Slip: the quota of the promotions is not given back.
DevolverAplicar_SinLiberarCupo(p) ==
  /\ tx[p].op = "decidido"
  /\ LET v == tx[p]
         monto == SumFunctionOnSet([l \in Lineas |-> Cuenta(v.items, l)], Lineas) IN
       /\ devs' = [devs EXCEPT ![v.dev] = [venta |-> v.venta, items |-> v.items, caja |-> v.caja]]
       /\ stock' = [l \in Lineas |-> stock[l] + Reingresado(v.items, l)]
       /\ movs' = [s \in Sesiones |-> IF s \in v.caja
                     THEN [movs[s] EXCEPT !["DEVOLUCION_EFECTIVO"] = @ + monto] ELSE movs[s]]
       /\ ventas' = [ventas EXCEPT ![v.venta].estado =
                       IF v.todo THEN "DEVUELTA" ELSE "DEVUELTA_PARCIALMENTE"]
  /\ tx' = [tx EXCEPT ![p] = Libre]
  /\ UNCHANGED <<sesiones, uso>>

\* Commit: the state of the sale and the quota of its promotions go with it.
DevolverAplicar(p) ==
  /\ tx[p].op = "decidido"
  /\ LET v == tx[p]
         monto == SumFunctionOnSet([l \in Lineas |-> Cuenta(v.items, l)], Lineas) IN
       /\ devs' = [devs EXCEPT ![v.dev] = [venta |-> v.venta, items |-> v.items, caja |-> v.caja]]
       /\ stock' = [l \in Lineas |-> stock[l] + Reingresado(v.items, l)]
       /\ movs' = [s \in Sesiones |-> IF s \in v.caja
                     THEN [movs[s] EXCEPT !["DEVOLUCION_EFECTIVO"] = @ + monto] ELSE movs[s]]
       /\ ventas' = [ventas EXCEPT ![v.venta].estado =
                       IF v.todo THEN "DEVUELTA" ELSE "DEVUELTA_PARCIALMENTE"]
       /\ uso' = [m \in Promos |-> IF v.todo /\ m \in ventas[v.venta].promos /\ uso[m] > 0
                                     THEN uso[m] - 1 ELSE uso[m]]
  /\ tx' = [tx EXCEPT ![p] = Libre]
  /\ UNCHANGED sesiones

\* Rollback: unique key, not enough stock, a session closed meanwhile, lost connection.
Abortar(p) ==
  /\ tx[p] # Libre
  /\ tx' = [tx EXCEPT ![p] = Libre]
  /\ UNCHANGED <<sesiones, movs, ventas, devs, uso, stock>>

-----------------------------------------------------------------------------
Caja(p) ==
  \/ \E c \in Cajas : AbrirLeer(p, c)
  \/ \E s \in Sesiones, fondo \in Fondos : AbrirAplicar(p, s, fondo)
  \/ \E s \in Sesiones : Cerrar(p, s)
  \/ \E s \in Sesiones, tipo \in Manuales, monto \in Montos : Mover(p, s, tipo, monto)

Mostrador(p) ==
  \/ \E k \in Claves, s \in Sesiones, lineas \in Carritos, pago \in Pagos,
       cliente \in BOOLEAN, promos \in SUBSET Promos :
       CrearLeer(p, k, s, lineas, pago, cliente, promos)
  \/ CrearAplicar(p)
  \/ \E d \in Devs, k \in Claves, items \in Items, caja \in {{}} \cup {{s} : s \in Sesiones} :
       DevolverLeer(p, d, k, items, caja)
  \/ DevolverDecidir(p)
  \/ DevolverAplicar(p)

Next == \E p \in Procesos : Caja(p) \/ Mostrador(p) \/ Abortar(p)

Spec == Init /\ [][Next]_vars

-----------------------------------------------------------------------------
(* Properties that hold whatever requests overlap *)

\* A register has one open session at most, although abrir looks for one without a
\* lock: two cashiers who press the button together do not both get a drawer.
UnaSesionPorCaja ==
  \A r, s \in Sesiones :
    EstaAbierta(r) /\ EstaAbierta(s) /\ sesiones[r].caja = sesiones[s].caja => r = s

\* A reconciled session is final: its expected amount is never computed again.
SesionFirme ==
  [][\A s \in Sesiones : sesiones[s].estado = "CONCILIADA" => sesiones'[s] = sesiones[s]]_vars

\* What sale k put in the drawer of session s and took of line l, and what refund d put
\* back of it.
EfectivoEn(k, s) ==
  IF ventas[k] # NoVenta /\ ventas[k].sesion = s THEN ventas[k].pago.efectivo ELSE 0
Vendido(k, l) == IF ventas[k] # NoVenta THEN ventas[k].lineas[l] ELSE 0
Repuesto(d, l) == IF devs[d] # NoDev THEN Reingresado(devs[d].items, l) ELSE 0

\* "A retry with the same key returns the original sale instead of duplicating (safe for
\* offline sync and network timeouts)": every sale is in its drawer once, and its units
\* left the stock once, refunds included.
CadaVentaUnaVez ==
  /\ \A s \in Sesiones :
       movs[s]["VENTA_EFECTIVO"] = SumFunctionOnSet([k \in Claves |-> EfectivoEn(k, s)], Claves)
  /\ \A l \in Lineas :
       stock[l] = Existencias[l] - SumFunctionOnSet([k \in Claves |-> Vendido(k, l)], Claves)
                                 + SumFunctionOnSet([d \in Devs |-> Repuesto(d, l)], Devs)

(* Properties of requests that do not overlap (one process) *)

\* The expected amount of a reconciled session is what its movements add up to: no cash
\* enters or leaves a drawer after its reconciliation.  With overlapping requests a sale
\* that saw the session open breaks it.
ArqueoCuadra ==
  \A s \in Sesiones :
    sesiones[s].estado = "CONCILIADA" => sesiones[s].esperado = calcularEsperado(movs[s])

\* The state of a sale tells what came back of it.
EstadoDevuelta ==
  \A k \in Claves : ventas[k] # NoVenta =>
    /\ (\A l \in Lineas : Devuelto(k, l) >= ventas[k].lineas[l]) <=> ventas[k].estado = "DEVUELTA"
    /\ (\E d \in Devs : devs[d].venta = k)
         <=> ventas[k].estado \in {"DEVUELTA", "DEVUELTA_PARCIALMENTE"}

\* The use of a promotion is the number of sales that have it and were not returned
\* whole, and never exceeds its quota.
CupoCuadra ==
  \A m \in Promos :
    /\ uso[m] = Cardinality({k \in Claves : /\ ventas[k] # NoVenta
                                            /\ m \in ventas[k].promos
                                            /\ ventas[k].estado # "DEVUELTA"})
    /\ uso[m] <= UsoMaximo[m]

\* A request that names a line twice escapes devolver's check, which compares each item by
\* itself (below).  Of a line that no refund named twice, never more comes back than was
\* sold, in however many refunds.
SinRepetir(k, l) ==
  \A d \in Devs : devs[d].venta = k =>
    \A i, j \in DOMAIN devs[d].items :
      devs[d].items[i].linea = l /\ devs[d].items[j].linea = l => i = j

DevueltoAcotado ==
  \A k \in Claves, l \in Lineas :
    ventas[k] # NoVenta /\ SinRepetir(k, l) => Devuelto(k, l) <= ventas[k].lineas[l]

(* What devolver says of every refund, and does not keep: its items are checked one by *)
(* one, so a refund that names a line twice exceeds the sale.                          *)

\* "El tope es lo vendido MENOS lo ya devuelto, si no, varias devoluciones parciales
\* devolverían más de lo vendido."
DevolucionDentroDeLoVendido ==
  \A k \in Claves, l \in Lineas : ventas[k] # NoVenta => Devuelto(k, l) <= ventas[k].lineas[l]
=============================================================================

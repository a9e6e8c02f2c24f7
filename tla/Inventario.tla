----------------------------- MODULE Inventario -----------------------------
(***************************************************************************)
(* Stock of a tenant (modulos/nucleo/inventario, and the stock writes of   *)
(* ventas, compras and catalogo).  StockBalance is a projection with four  *)
(* quantities per warehouse and variant; InventoryLedgerEntry (the kardex) *)
(* is the authority, and each entry has a unique idempotency key.          *)
(*                                                                         *)
(* Every service method is one READ COMMITTED transaction.  Balances are   *)
(* read and written under SELECT ... FOR UPDATE, so those parts are one    *)
(* step; the state of a reservation, a transfer or a count is read         *)
(* WITHOUT a lock, so these methods are two: ...Leer keeps in `tx' what    *)
(* was read, ...Aplicar takes the locks, writes and commits.               *)
(***************************************************************************)
EXTENDS Integers, FiniteSets, Functions

CONSTANTS Almacenes,      \* active warehouses
          Variantes,      \* active variants with isStockTracked
          ConNegativo,    \* those with allowNegativeStock
          Cantidades,     \* quantities a request may carry
          Claves,         \* ids of keyed requests, never shared by two requests
          Reservas, Transferencias, Conteos,  \* pools of row ids
          Procesos        \* requests that may be in flight together

ASSUME InventarioAssumption ==
  /\ ConNegativo \subseteq Variantes
  /\ Cantidades \subseteq Nat \ {0}
  /\ IsFiniteSet(Reservas) /\ IsFiniteSet(Transferencias)

VARIABLES saldo,     \* StockBalance: a row per warehouse and variant
          kardex,    \* sum of the InventoryLedgerEntry.cantidad of each row
          claves,    \* idempotency keys in the ledger
          reservas,  \* InventoryReservation
          transfers, \* InventoryTransfer with its articles
          conteos,   \* InventoryCount with its articles
          tx         \* per process: what it read before its locked writes

vars == <<saldo, kardex, claves, reservas, transfers, conteos, tx>>

-----------------------------------------------------------------------------
Filas == Almacenes \X Variantes
Contables == {0} \cup Cantidades
Articulos == [Variantes -> Contables]   \* 0: not an article of the request

SinSaldo == [existe |-> FALSE, enStock |-> 0, reserved |-> 0, enTransito |-> 0, available |-> 0]
NoReserva == [estado |-> "AUSENTE"]
NoTransfer == [estado |-> "AUSENTE"]
NoConteo == [estado |-> "AUSENTE"]
Libre == [op |-> "libre"]

Saldo == [existe : BOOLEAN, enStock : Int, reserved : Int, enTransito : Int, available : Int]
Reserva == [estado : {"ACTIVA", "LIBERADA"}, fila : Filas, cantidad : Cantidades]
Transfer == [estado : {"EN_TRANSITO", "RECIBIDA_PARCIALMENTE", "RECIBIDA", "CANCELADA"},
             origen : Almacenes, destino : Almacenes,
             enviado : [Variantes -> Nat], recibido : [Variantes -> Nat]]
Contada == UNION {[S -> Contables] : S \in SUBSET Variantes}
Conteo == [estado : {"EN_PROGRESO", "CONTABILIZADO", "CANCELADO"},
           almacen : Almacenes, contada : Contada]
Tx == {Libre}
  \cup [op : {"liberar"}, reserva : Reservas]
  \cup [op : {"registrar"}, conteo : Conteos, variante : Variantes, cantidad : Contables]
  \cup [op : {"contabilizar"}, conteo : Conteos, contada : Contada]
  \cup [op : {"cancelarConteo"}, conteo : Conteos]
  \cup [op : {"recibir"}, transfer : Transferencias, clave : Claves,
        ahora : [Variantes -> Nat], previo : [Variantes -> Nat]]
  \cup [op : {"cancelar"}, transfer : Transferencias]

TypeOK ==
  /\ saldo \in [Filas -> Saldo]
  /\ kardex \in [Filas -> Int]
  /\ reservas \in [Reservas -> Reserva \cup {NoReserva}]
  /\ transfers \in [Transferencias -> Transfer \cup {NoTransfer}]
  /\ conteos \in [Conteos -> Conteo \cup {NoConteo}]
  /\ tx \in [Procesos -> Tx]

Init ==
  /\ saldo = [f \in Filas |-> SinSaldo]
  /\ kardex = [f \in Filas |-> 0]
  /\ claves = {}
  /\ reservas = [r \in Reservas |-> NoReserva]
  /\ transfers = [t \in Transferencias |-> NoTransfer]
  /\ conteos = [c \in Conteos |-> NoConteo]
  /\ tx = [p \in Procesos |-> Libre]

-----------------------------------------------------------------------------
(* Writes of a balance row and of the ledger *)

\* Slip: available is set without what is reserved.
Fijar_SinReserva(s, n) ==
  [existe |-> TRUE, enStock |-> n, reserved |-> s.reserved,
   enTransito |-> s.enTransito, available |-> n]

\* Absolute write: ajustes, transferencias, conteos.
Fijar(s, n) ==
  [existe |-> TRUE, enStock |-> n, reserved |-> s.reserved,
   enTransito |-> s.enTransito, available |-> n - s.reserved]

\* Relative write: ventas, devoluciones, recepciones.
Sumar(s, q) ==
  [existe |-> TRUE, enStock |-> s.enStock + q, reserved |-> s.reserved,
   enTransito |-> s.enTransito, available |-> s.available + q]

Apartar(s, n) ==
  [existe |-> s.existe, enStock |-> s.enStock, reserved |-> n,
   enTransito |-> s.enTransito, available |-> s.enStock - n]

Transitar(s, n) ==
  [existe |-> TRUE, enStock |-> s.enStock, reserved |-> s.reserved,
   enTransito |-> n, available |-> s.available]

\* New ledger entries: a key already used is a unique violation and aborts.
Asentar(mov, llaves) ==
  /\ llaves \cap claves = {}
  /\ claves' = claves \cup llaves
  /\ kardex' = [f \in Filas |-> kardex[f] + mov[f]]

En(f, q) == [g \in Filas |-> IF g = f THEN q ELSE 0]
DelCliente(k) == <<"cliente", k>>

\* One row and its entry.
Mover(f, s, q, llave) ==
  /\ saldo' = [saldo EXCEPT ![f] = s]
  /\ Asentar(En(f, q), {llave})
  /\ UNCHANGED <<reservas, transfers, conteos, tx>>

\* registrarStockInicial (the client's key) and cargarStockInicial (a key per row).
StockInicial(f, q, llave) ==
  /\ ~saldo[f].existe
  /\ Mover(f, Sumar(saldo[f], q), q, llave)

\* ajustarStock: q > 0 is an ENTRADA, q < 0 a SALIDA.
Ajustar(f, q, k) ==
  /\ saldo[f].existe \/ q > 0
  /\ saldo[f].enStock + q >= 0 \/ f[2] \in ConNegativo
  /\ Mover(f, Fijar(saldo[f], saldo[f].enStock + q), q, DelCliente(k))

\* Slip: the availability of the locked row is not compared with the line.
Vender_SinVerificar(f, q, k) ==
  /\ f[2] \in ConNegativo \/ saldo[f].existe
  /\ Mover(f, Sumar(saldo[f], -q), -q, DelCliente(k))

\* registrarLinea of a sale; the lots consumed FEFO add up to the line.
Vender(f, q, k) ==
  /\ f[2] \in ConNegativo \/ (saldo[f].existe /\ saldo[f].available >= q)
  /\ Mover(f, Sumar(saldo[f], -q), -q, DelCliente(k))

\* reingresarStock of a refund, ingresarStock of a purchase receipt.
Ingresar(f, q, k) == Mover(f, Sumar(saldo[f], q), q, DelCliente(k))

\* definirNivelStock creates the row with its defaults.
DefinirNivel(f) ==
  /\ ~saldo[f].existe
  /\ saldo' = [saldo EXCEPT ![f].existe = TRUE]
  /\ UNCHANGED <<kardex, claves, reservas, transfers, conteos, tx>>

-----------------------------------------------------------------------------
(* Reservations *)

CrearReserva(r, f, q) ==
  /\ reservas[r] = NoReserva
  /\ saldo[f].existe /\ saldo[f].enStock - saldo[f].reserved >= q
  /\ saldo' = [saldo EXCEPT ![f] = Apartar(@, @.reserved + q)]
  /\ reservas' = [reservas EXCEPT ![r] = [estado |-> "ACTIVA", fila |-> f, cantidad |-> q]]
  /\ UNCHANGED <<kardex, claves, transfers, conteos, tx>>

\* Slip: a reservation may be released again.
LiberarLeer_Cualquiera(p, r) ==
  /\ tx[p] = Libre
  /\ reservas[r] # NoReserva
  /\ tx' = [tx EXCEPT ![p] = [op |-> "liberar", reserva |-> r]]
  /\ UNCHANGED <<saldo, kardex, claves, reservas, transfers, conteos>>

LiberarLeer(p, r) ==
  /\ tx[p] = Libre
  /\ reservas[r].estado = "ACTIVA"
  /\ tx' = [tx EXCEPT ![p] = [op |-> "liberar", reserva |-> r]]
  /\ UNCHANGED <<saldo, kardex, claves, reservas, transfers, conteos>>

SinBajarDeCero(n) == IF n < 0 THEN 0 ELSE n

LiberarAplicar(p) ==
  /\ tx[p].op = "liberar"
  /\ LET r == tx[p].reserva
         f == reservas[r].fila IN
       /\ saldo' = [saldo EXCEPT ![f] =
                      Apartar(@, SinBajarDeCero(@.reserved - reservas[r].cantidad))]
       /\ reservas' = [reservas EXCEPT ![r].estado = "LIBERADA"]
  /\ tx' = [tx EXCEPT ![p] = Libre]
  /\ UNCHANGED <<kardex, claves, transfers, conteos>>

-----------------------------------------------------------------------------
(* Physical counts *)

CrearConteo(c, a) ==
  /\ conteos[c] = NoConteo
  /\ conteos' = [conteos EXCEPT ![c] = [estado |-> "EN_PROGRESO", almacen |-> a,
                                        contada |-> [v \in {} |-> 0]]]
  /\ UNCHANGED <<saldo, kardex, claves, reservas, transfers, tx>>

RegistrarConteoLeer(p, c, v, q) ==
  /\ tx[p] = Libre
  /\ conteos[c].estado = "EN_PROGRESO"
  /\ tx' = [tx EXCEPT ![p] = [op |-> "registrar", conteo |-> c, variante |-> v, cantidad |-> q]]
  /\ UNCHANGED <<saldo, kardex, claves, reservas, transfers, conteos>>

RegistrarConteoAplicar(p) ==
  /\ tx[p].op = "registrar"
  /\ LET c == tx[p].conteo
         v == tx[p].variante IN
       conteos' = [conteos EXCEPT ![c].contada =
                     [w \in DOMAIN @ \cup {v} |-> IF w = v THEN tx[p].cantidad ELSE @[w]]]
  /\ tx' = [tx EXCEPT ![p] = Libre]
  /\ UNCHANGED <<saldo, kardex, claves, reservas, transfers>>

\* The state and the counted articles are read once, before any balance is locked.
ContabilizarLeer(p, c) ==
  /\ tx[p] = Libre
  /\ conteos[c].estado = "EN_PROGRESO"
  /\ tx' = [tx EXCEPT ![p] = [op |-> "contabilizar", conteo |-> c, contada |-> conteos[c].contada]]
  /\ UNCHANGED <<saldo, kardex, claves, reservas, transfers, conteos>>

\* Each counted balance is locked and set to the count; the entry is the difference
\* with the live stock, and there is none when they agree.
Contado(p, f) == f[1] = conteos[tx[p].conteo].almacen /\ f[2] \in DOMAIN tx[p].contada
Diferencia(p, f) == IF Contado(p, f) THEN tx[p].contada[f[2]] - saldo[f].enStock ELSE 0

ContabilizarAplicar(p) ==
  /\ tx[p].op = "contabilizar"
  /\ saldo' = [f \in Filas |->
                 IF Contado(p, f) /\ (saldo[f].existe \/ tx[p].contada[f[2]] > 0)
                   THEN Fijar(saldo[f], tx[p].contada[f[2]]) ELSE saldo[f]]
  /\ Asentar([f \in Filas |-> Diferencia(p, f)],
             {<<"conteo", tx[p].conteo, f[2]>> : f \in {g \in Filas : Diferencia(p, g) # 0}})
  /\ conteos' = [conteos EXCEPT ![tx[p].conteo].estado = "CONTABILIZADO"]
  /\ tx' = [tx EXCEPT ![p] = Libre]
  /\ UNCHANGED <<reservas, transfers>>

CancelarConteoLeer(p, c) ==
  /\ tx[p] = Libre
  /\ conteos[c].estado \notin {"AUSENTE", "CONTABILIZADO"}
  /\ tx' = [tx EXCEPT ![p] = [op |-> "cancelarConteo", conteo |-> c]]
  /\ UNCHANGED <<saldo, kardex, claves, reservas, transfers, conteos>>

CancelarConteoAplicar(p) ==
  /\ tx[p].op = "cancelarConteo"
  /\ conteos' = [conteos EXCEPT ![tx[p].conteo].estado = "CANCELADO"]
  /\ tx' = [tx EXCEPT ![p] = Libre]
  /\ UNCHANGED <<saldo, kardex, claves, reservas, transfers>>

-----------------------------------------------------------------------------
(* Transfers between warehouses *)

\* What of a per-variant quantity falls on row f of warehouse a.
Parte(a, cant, f) == IF f[1] = a THEN cant[f[2]] ELSE 0

\* crearTransferencia: the stock leaves the origin and is in transit at the destination.
CrearTransferencia(t, o, d, cant, k) ==
  /\ transfers[t] = NoTransfer /\ o # d
  /\ \E v \in Variantes : cant[v] > 0
  /\ \A v \in Variantes :
       cant[v] > 0 => /\ saldo[<<o, v>>].existe
                      /\ saldo[<<o, v>>].enStock - cant[v] >= 0 \/ v \in ConNegativo
  /\ saldo' = [f \in Filas |->
                 IF Parte(o, cant, f) > 0 THEN Fijar(saldo[f], saldo[f].enStock - cant[f[2]])
                 ELSE IF Parte(d, cant, f) > 0
                        THEN Transitar(saldo[f], saldo[f].enTransito + cant[f[2]])
                 ELSE saldo[f]]
  /\ Asentar([f \in Filas |-> -Parte(o, cant, f)], {DelCliente(k)})
  /\ transfers' = [transfers EXCEPT ![t] =
                     [estado |-> "EN_TRANSITO", origen |-> o, destino |-> d,
                      enviado |-> cant, recibido |-> [v \in Variantes |-> 0]]]
  /\ UNCHANGED <<reservas, conteos, tx>>

\* Slip: only the quantities are checked.
RecibirLeer_SinEstado(p, t, cant, k) ==
  /\ tx[p] = Libre
  /\ DelCliente(k) \notin claves
  /\ transfers[t] # NoTransfer
  /\ \A v \in Variantes : cant[v] <= transfers[t].enviado[v] - transfers[t].recibido[v]
  /\ tx' = [tx EXCEPT ![p] = [op |-> "recibir", transfer |-> t, clave |-> k,
                              ahora |-> cant, previo |-> transfers[t].recibido]]
  /\ UNCHANGED <<saldo, kardex, claves, reservas, transfers, conteos>>

\* recibirTransferencia up to its checks.  Quantities of variants that are not articles
\* of the transfer are ignored, so a reception may be empty.
RecibirLeer(p, t, cant, k) ==
  /\ tx[p] = Libre
  /\ DelCliente(k) \notin claves
  /\ transfers[t].estado \in {"EN_TRANSITO", "RECIBIDA_PARCIALMENTE"}
  /\ \A v \in Variantes : cant[v] <= transfers[t].enviado[v] - transfers[t].recibido[v]
  /\ tx' = [tx EXCEPT ![p] = [op |-> "recibir", transfer |-> t, clave |-> k,
                              ahora |-> cant, previo |-> transfers[t].recibido]]
  /\ UNCHANGED <<saldo, kardex, claves, reservas, transfers, conteos>>

\* Slip: the quantity stays in transit.
RecibirFila_SinBajarTransito(s, q) == IF q > 0 THEN Fijar(s, s.enStock + q) ELSE s

RecibirFila(s, q) ==
  IF q > 0 THEN Transitar(Fijar(s, s.enStock + q), s.enTransito - q) ELSE s

\* receivedQty is written from the value read before the lock.
Acumular(p, t) ==
  [v \in Variantes |-> IF tx[p].ahora[v] > 0 THEN tx[p].previo[v] + tx[p].ahora[v]
                                             ELSE transfers[t].recibido[v]]

\* Slip: no entry for what arrives.
RecibirAplicar_SinAsiento(p) ==
  /\ tx[p].op = "recibir"
  /\ LET t == tx[p].transfer
         recibido == Acumular(p, t)
         completa == \A v \in Variantes : recibido[v] >= transfers[t].enviado[v] IN
       /\ saldo' = [f \in Filas |->
                      RecibirFila(saldo[f], Parte(transfers[t].destino, tx[p].ahora, f))]
       /\ transfers' = [transfers EXCEPT
            ![t].recibido = recibido,
            ![t].estado = IF completa THEN "RECIBIDA" ELSE "RECIBIDA_PARCIALMENTE"]
  /\ tx' = [tx EXCEPT ![p] = Libre]
  /\ UNCHANGED <<kardex, claves, reservas, conteos>>

RecibirAplicar(p) ==
  /\ tx[p].op = "recibir"
  /\ LET t == tx[p].transfer
         recibido == Acumular(p, t)
         completa == \A v \in Variantes : recibido[v] >= transfers[t].enviado[v]
         llegada(f) == Parte(transfers[t].destino, tx[p].ahora, f) IN
       /\ saldo' = [f \in Filas |-> RecibirFila(saldo[f], llegada(f))]
       /\ Asentar([f \in Filas |-> llegada(f)],
                  IF \E v \in Variantes : tx[p].ahora[v] > 0 THEN {DelCliente(tx[p].clave)} ELSE {})
       /\ transfers' = [transfers EXCEPT
            ![t].recibido = recibido,
            ![t].estado = IF completa THEN "RECIBIDA" ELSE "RECIBIDA_PARCIALMENTE"]
  /\ tx' = [tx EXCEPT ![p] = Libre]
  /\ UNCHANGED <<reservas, conteos>>

CancelarLeer(p, t) ==
  /\ tx[p] = Libre
  /\ transfers[t].estado = "EN_TRANSITO"
  /\ \A v \in Variantes : transfers[t].recibido[v] = 0
  /\ tx' = [tx EXCEPT ![p] = [op |-> "cancelar", transfer |-> t]]
  /\ UNCHANGED <<saldo, kardex, claves, reservas, transfers, conteos>>

\* cancelarTransferencia: back to the origin, out of transit (never below zero).
CancelarAplicar(p) ==
  /\ tx[p].op = "cancelar"
  /\ LET t == tx[p].transfer
         vuelve(f) == Parte(transfers[t].origen, transfers[t].enviado, f)
         sale(f) == Parte(transfers[t].destino, transfers[t].enviado, f) IN
       /\ saldo' = [f \in Filas |->
            IF vuelve(f) > 0 THEN Fijar(saldo[f], saldo[f].enStock + vuelve(f))
            ELSE IF sale(f) > 0
                   THEN Transitar(saldo[f], SinBajarDeCero(saldo[f].enTransito - sale(f)))
            ELSE saldo[f]]
       /\ Asentar([f \in Filas |-> vuelve(f)], {<<"cancel", t>>})
       /\ transfers' = [transfers EXCEPT ![t].estado = "CANCELADA"]
  /\ tx' = [tx EXCEPT ![p] = Libre]
  /\ UNCHANGED <<reservas, conteos>>

\* Rollback: unique key, deadlock between two lock orders, lost connection.
Abortar(p) ==
  /\ tx[p] # Libre
  /\ tx' = [tx EXCEPT ![p] = Libre]
  /\ UNCHANGED <<saldo, kardex, claves, reservas, transfers, conteos>>

-----------------------------------------------------------------------------
Movimiento(f, q) ==
  \/ \E k \in Claves : StockInicial(f, q, DelCliente(k))
  \/ StockInicial(f, q, <<"apertura", f>>)
  \/ \E k \in Claves, s \in {-1, 1} : Ajustar(f, s * q, k)
  \/ \E k \in Claves : Vender(f, q, k)
  \/ \E k \in Claves : Ingresar(f, q, k)
  \/ \E r \in Reservas : CrearReserva(r, f, q)

Alta ==
  \/ \E f \in Filas : DefinirNivel(f)
  \/ \E c \in Conteos, a \in Almacenes : CrearConteo(c, a)
  \/ \E t \in Transferencias, o, d \in Almacenes, cant \in Articulos, k \in Claves :
       CrearTransferencia(t, o, d, cant, k)

Peticion(p) ==
  \/ \E r \in Reservas : LiberarLeer(p, r)
  \/ LiberarAplicar(p)
  \/ \E c \in Conteos, v \in Variantes, q \in Contables : RegistrarConteoLeer(p, c, v, q)
  \/ RegistrarConteoAplicar(p)
  \/ \E c \in Conteos : ContabilizarLeer(p, c)
  \/ ContabilizarAplicar(p)
  \/ \E c \in Conteos : CancelarConteoLeer(p, c)
  \/ CancelarConteoAplicar(p)
  \/ \E t \in Transferencias, cant \in Articulos, k \in Claves : RecibirLeer(p, t, cant, k)
  \/ RecibirAplicar(p)
  \/ \E t \in Transferencias : CancelarLeer(p, t)
  \/ CancelarAplicar(p)
  \/ Abortar(p)

Next ==
  \/ \E f \in Filas, q \in Cantidades : Movimiento(f, q)
  \/ Alta
  \/ \E p \in Procesos : Peticion(p)

Spec == Init /\ [][Next]_vars

-----------------------------------------------------------------------------
(* Properties that hold whatever requests overlap *)

\* "Transactional projection only; InventoryLedgerEntry is authoritative"
\* (schema.prisma): the on-hand of every row is the sum of its ledger entries, also
\* when an operation raced, was retried with its key, or was rolled back.
KardexCuadra == \A f \in Filas : saldo[f].enStock = kardex[f]

\* The stored `available', which sales check, is what is on hand and not reserved,
\* although absolute and relative writers of the row alternate.
DisponibleCuadra == \A f \in Filas : saldo[f].available = saldo[f].enStock - saldo[f].reserved

\* A variant without allowNegativeStock is never below zero on hand, nor is a
\* reservation total, whoever empties the row: sale, adjustment, transfer or count.
SinNegativos ==
  \A f \in Filas : saldo[f].reserved >= 0 /\ (f[2] \notin ConNegativo => saldo[f].enStock >= 0)

(* Properties of requests that do not overlap (one process) *)

\* What transfer t will still bring to row f, and what reservation r holds of it.
PorLlegar(t, f) ==
  IF transfers[t].estado \in {"EN_TRANSITO", "RECIBIDA_PARCIALMENTE"} /\ transfers[t].destino = f[1]
    THEN transfers[t].enviado[f[2]] - transfers[t].recibido[f[2]] ELSE 0
Apartado(r, f) ==
  IF reservas[r].estado = "ACTIVA" /\ reservas[r].fila = f THEN reservas[r].cantidad ELSE 0

\* What a row has in transit is what was sent to it and has neither arrived nor been
\* taken back.
EnTransitoCuadra ==
  \A f \in Filas :
    saldo[f].enTransito =
      SumFunctionOnSet([t \in Transferencias |-> PorLlegar(t, f)], Transferencias)

\* What a row has reserved is the total of its active reservations: the clamp at zero of
\* liberarReserva never hides a difference.
ReservadoCuadra ==
  \A f \in Filas :
    saldo[f].reserved = SumFunctionOnSet([r \in Reservas |-> Apartado(r, f)], Reservas)

\* A received or cancelled transfer and a released reservation are final: nothing is
\* received, returned or released again.
EstadosFinales ==
  [][/\ \A t \in Transferencias :
          transfers[t].estado \in {"RECIBIDA", "CANCELADA"} => transfers'[t] = transfers[t]
     /\ \A r \in Reservas : reservas[r].estado = "LIBERADA" => reservas'[r] = reservas[r]]_vars

(* What recibirTransferencia says of every reception, and does not keep: two overlapping *)
(* receptions both see the whole transfer pending.                                       *)

\* "La cantidad recibida supera lo pendiente en tránsito" refuses it: a reception that
\* is posted fits in what is pending.
RecepcionDentroDeLoPendiente ==
  [][\A p \in Procesos, v \in Variantes :
       RecibirAplicar(p) =>
         LET t == transfers[tx[p].transfer] IN tx[p].ahora[v] <= t.enviado[v] - t.recibido[v]]_vars
=============================================================================

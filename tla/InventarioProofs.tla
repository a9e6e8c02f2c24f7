-------------------------- MODULE InventarioProofs --------------------------
(***************************************************************************)
(* Theorems of Inventario for any warehouses, variants, quantities, rows   *)
(* and overlapping requests; and, of requests that do not overlap, that    *)
(* the reserved and in-transit columns are the sums of the open documents. *)
(***************************************************************************)
EXTENDS Inventario, Sumas, TLAPS

USE InventarioAssumption

-----------------------------------------------------------------------------
(* The writes of one balance row *)

\* A row that agrees with its ledger sum n: the three properties, row by row, and a row
\* not created yet holds nothing.
FilaOK(f, s, n) ==
  /\ s \in Saldo /\ n \in Int
  /\ s.enStock = n
  /\ s.available = s.enStock - s.reserved
  /\ s.reserved >= 0
  /\ f[2] \notin ConNegativo => s.enStock >= 0
  /\ ~s.existe => s.enStock = 0

\* The absolute write leaves a row at the counted quantity, with its reservation deducted.
LEMMA FijarOK ==
  ASSUME NEW f, NEW s, NEW n, FilaOK(f, s, n), NEW m \in Int,
         f[2] \notin ConNegativo => m >= 0
  PROVE  FilaOK(f, Fijar(s, m), m)
  BY DEF FilaOK, Saldo, Fijar

\* The relative write moves on hand and available by the same quantity.
LEMMA SumarOK ==
  ASSUME NEW f, NEW s, NEW n, FilaOK(f, s, n), NEW q \in Int,
         f[2] \notin ConNegativo => n + q >= 0
  PROVE  FilaOK(f, Sumar(s, q), n + q)
  BY DEF FilaOK, Saldo, Sumar

\* A reservation, or its release, only moves available.
LEMMA ApartarOK ==
  ASSUME NEW f, NEW s, NEW n, FilaOK(f, s, n), NEW m \in Nat
  PROVE  FilaOK(f, Apartar(s, m), n)
  BY DEF FilaOK, Saldo, Apartar

\* Goods in transit are outside on hand and available.
LEMMA TransitarOK ==
  ASSUME NEW f, NEW s, NEW n, FilaOK(f, s, n), NEW q \in Int
  PROVE  FilaOK(f, Transitar(s, q), n)
  BY DEF FilaOK, Saldo, Transitar

\* A reception adds to on hand what leaves transit.
LEMMA RecibirFilaOK ==
  ASSUME NEW f, NEW s, NEW n, FilaOK(f, s, n), NEW q \in Nat
  PROVE  FilaOK(f, RecibirFila(s, q), n + q)
<1>1. CASE q > 0
  <2>0. s.enStock + q \in Int /\ s.enStock = n /\ n + q = s.enStock + q
        /\ (f[2] \notin ConNegativo => s.enStock + q >= 0)
    BY DEF FilaOK, Saldo
  <2>1. FilaOK(f, Fijar(s, s.enStock + q), n + q)
    BY <2>0, FijarOK
  <2>2. s.enTransito - q \in Int
    BY DEF FilaOK, Saldo
  <2>3. FilaOK(f, Transitar(Fijar(s, s.enStock + q), s.enTransito - q), n + q)
    BY <2>1, <2>2, TransitarOK
  <2>4. QED
    BY <1>1, <2>3 DEF RecibirFila
<1>2. CASE ~(q > 0)
  BY <1>2 DEF RecibirFila, FilaOK
<1>3. QED
  BY <1>1, <1>2

-----------------------------------------------------------------------------
(* Reservations, transfers, counts and pending requests *)

\* A pending request only remembers rows that exist.
TxVigente ==
  \A p \in Procesos :
    /\ tx[p].op = "liberar" => reservas[tx[p].reserva] \in Reserva
    /\ tx[p].op \in {"recibir", "cancelar"} => transfers[tx[p].transfer] \in Transfer
    /\ tx[p].op \in {"registrar", "contabilizar", "cancelarConteo"}
         => conteos[tx[p].conteo] \in Conteo

\* Documents are well typed, and so is what requests in flight name.
DocsOK ==
  /\ reservas \in [Reservas -> Reserva \cup {NoReserva}]
  /\ transfers \in [Transferencias -> Transfer \cup {NoTransfer}]
  /\ conteos \in [Conteos -> Conteo \cup {NoConteo}]
  /\ tx \in [Procesos -> Tx]
  /\ TxVigente

\* What a request in flight names, by its kind.
LEMMA TxForma ==
  ASSUME NEW x \in Tx
  PROVE  /\ x.op = "liberar" => x.reserva \in Reservas
         /\ x.op = "registrar" => x.conteo \in Conteos /\ x.variante \in Variantes
                                  /\ x.cantidad \in Contables
         /\ x.op = "contabilizar" => x.conteo \in Conteos /\ x.contada \in Contada
         /\ x.op = "cancelarConteo" => x.conteo \in Conteos
         /\ x.op = "recibir" => /\ x.transfer \in Transferencias /\ x.clave \in Claves
                                /\ x.ahora \in [Variantes -> Nat] /\ x.previo \in [Variantes -> Nat]
         /\ x.op = "cancelar" => x.transfer \in Transferencias
  BY DEF Tx, Libre

\* Requested and counted quantities are natural numbers.
LEMMA ArticulosNat ==
  /\ Contables \subseteq Nat
  /\ \A cant \in Articulos : cant \in [Variantes -> Nat]
<1>1. Contables \subseteq Nat
  BY DEF Contables
<1>2. QED
  BY <1>1 DEF Articulos

\* No existing document is in the state that stands for its absence.
LEMMA EstadoDeFila ==
  /\ \A r \in Reserva : r.estado # "AUSENTE"
  /\ \A t \in Transfer : t.estado # "AUSENTE"
  /\ \A c \in Conteo : c.estado # "AUSENTE"
  BY DEF Reserva, Transfer, Conteo

\* The counted lines of a physical count: a quantity for some of the variants.
LEMMA ContadaFunciones ==
  ASSUME NEW m
  PROVE  m \in Contada <=> \E S \in SUBSET Variantes : m \in [S -> Contables]
  BY DEF Contada

\* Rows are updated, never deleted, so what the others remember stays.
LEMMA TxEstable ==
  ASSUME DocsOK,
         reservas' \in [Reservas -> Reserva \cup {NoReserva}],
         transfers' \in [Transferencias -> Transfer \cup {NoTransfer}],
         conteos' \in [Conteos -> Conteo \cup {NoConteo}],
         \A r \in Reservas : reservas[r] \in Reserva => reservas'[r] \in Reserva,
         \A t \in Transferencias : transfers[t] \in Transfer => transfers'[t] \in Transfer,
         \A c \in Conteos : conteos[c] \in Conteo => conteos'[c] \in Conteo,
         tx' = tx \/ \E p \in Procesos : tx' = [tx EXCEPT ![p] = Libre]
  PROVE  DocsOK'
<1>1. tx' \in [Procesos -> Tx]
  BY DEF DocsOK, Tx
<1>2. TxVigente'
  <2> SUFFICES ASSUME NEW p \in Procesos
      PROVE /\ tx'[p].op = "liberar" => reservas'[tx'[p].reserva] \in Reserva
            /\ tx'[p].op \in {"recibir", "cancelar"} => transfers'[tx'[p].transfer] \in Transfer
            /\ tx'[p].op \in {"registrar", "contabilizar", "cancelarConteo"}
                 => conteos'[tx'[p].conteo] \in Conteo
    BY DEF TxVigente
  <2>1. tx'[p] = tx[p] \/ tx'[p] = Libre
    BY DEF DocsOK
  <2>2. CASE tx'[p] = Libre
    BY <2>2 DEF Libre
  <2>3. CASE tx'[p] = tx[p]
    <3>1. tx[p] \in Tx
      BY DEF DocsOK
    <3>2. QED
      BY <2>3, <3>1, TxForma DEF DocsOK, TxVigente
  <2>4. QED
    BY <2>1, <2>2, <2>3
<1>3. QED
  BY <1>1, <1>2 DEF DocsOK

\* A request that has read its row: the other rows do not change.
LEMMA TxNueva ==
  ASSUME DocsOK, UNCHANGED <<reservas, transfers, conteos>>,
         NEW p \in Procesos, NEW x \in Tx, tx' = [tx EXCEPT ![p] = x],
         x.op = "liberar" => reservas[x.reserva] \in Reserva,
         x.op \in {"recibir", "cancelar"} => transfers[x.transfer] \in Transfer,
         x.op \in {"registrar", "contabilizar", "cancelarConteo"} => conteos[x.conteo] \in Conteo
  PROVE  DocsOK'
<1>1. tx' \in [Procesos -> Tx]
  BY DEF DocsOK
<1>2. \A o \in Procesos : tx'[o] = IF o = p THEN x ELSE tx[o]
  BY DEF DocsOK
<1>3. TxVigente'
  BY <1>2 DEF TxVigente, DocsOK
<1>4. QED
  BY <1>1, <1>3 DEF DocsOK

\* The requests that touch no reservation, transfer, count or pending request.
LEMMA MoverDocs ==
  ASSUME DocsOK, NEW f, NEW s, NEW q, NEW llave, Mover(f, s, q, llave)
  PROVE  DocsOK'
  BY TxEstable DEF Mover, DocsOK

\* No document exists at the start.
LEMMA InitDocs == Init => DocsOK
  BY DEF Init, DocsOK, TxVigente, Tx, Libre

\* Movements of one row (opening, adjustment, sale, receipt) touch no document.
LEMMA MovimientoDocs ==
  ASSUME DocsOK, NEW f \in Filas, NEW q \in Cantidades, Movimiento(f, q)
  PROVE  DocsOK'
<1>1. CASE \E r \in Reservas : CrearReserva(r, f, q)
  <2>1. PICK r \in Reservas : CrearReserva(r, f, q)
    BY <1>1
  <2>2. [estado |-> "ACTIVA", fila |-> f, cantidad |-> q] \in Reserva
    BY DEF Reserva
  <2>3. /\ reservas' \in [Reservas -> Reserva \cup {NoReserva}]
        /\ \A x \in Reservas : reservas[x] \in Reserva => reservas'[x] \in Reserva
    BY <2>1, <2>2 DEF CrearReserva, DocsOK
  <2>4. QED
    BY <2>1, <2>3, TxEstable DEF CrearReserva, DocsOK
<1>2. CASE ~ \E r \in Reservas : CrearReserva(r, f, q)
  BY <1>2, MoverDocs DEF Movimiento, StockInicial, Ajustar, Vender, Ingresar
<1>3. QED
  BY <1>1, <1>2

\* New reservations, transfers and counts are well formed.
LEMMA AltaDocs ==
  ASSUME DocsOK, Alta
  PROVE  DocsOK'
<1>1. CASE \E f \in Filas : DefinirNivel(f)
  BY <1>1, TxEstable DEF DefinirNivel, DocsOK
<1>2. ASSUME NEW c \in Conteos, NEW a \in Almacenes, CrearConteo(c, a) PROVE DocsOK'
  <2>1. [v \in {} |-> 0] \in Contada
    <3>1. [v \in {} |-> 0] \in [{} -> Contables]
      OBVIOUS
    <3>2. QED
      BY <3>1, ContadaFunciones
  <2>2. [estado |-> "EN_PROGRESO", almacen |-> a, contada |-> [v \in {} |-> 0]] \in Conteo
    BY <2>1 DEF Conteo
  <2>3. /\ conteos' \in [Conteos -> Conteo \cup {NoConteo}]
        /\ \A x \in Conteos : conteos[x] \in Conteo => conteos'[x] \in Conteo
    BY <1>2, <2>2 DEF CrearConteo, DocsOK
  <2>4. QED
    BY <1>2, <2>3, TxEstable DEF CrearConteo, DocsOK
<1>3. ASSUME NEW t \in Transferencias, NEW o \in Almacenes, NEW d \in Almacenes,
             NEW cant \in Articulos, NEW k \in Claves, CrearTransferencia(t, o, d, cant, k)
      PROVE DocsOK'
  <2>1. cant \in [Variantes -> Nat]
    BY ArticulosNat
  <2>2. [estado |-> "EN_TRANSITO", origen |-> o, destino |-> d,
         enviado |-> cant, recibido |-> [v \in Variantes |-> 0]] \in Transfer
    BY <2>1 DEF Transfer
  <2>3. /\ transfers' \in [Transferencias -> Transfer \cup {NoTransfer}]
        /\ \A x \in Transferencias : transfers[x] \in Transfer => transfers'[x] \in Transfer
    BY <1>3, <2>2 DEF CrearTransferencia, DocsOK
  <2>4. QED
    BY <1>3, <2>3, TxEstable DEF CrearTransferencia, DocsOK
<1>4. QED
  BY <1>1, <1>2, <1>3 DEF Alta

\* What a request reads names documents that exist.
LEMMA LecturasDocs ==
  ASSUME DocsOK, NEW p \in Procesos,
         \/ \E r \in Reservas : LiberarLeer(p, r)
         \/ \E c \in Conteos, v \in Variantes, q \in Contables : RegistrarConteoLeer(p, c, v, q)
         \/ \E c \in Conteos : ContabilizarLeer(p, c)
         \/ \E c \in Conteos : CancelarConteoLeer(p, c)
         \/ \E t \in Transferencias, cant \in Articulos, k \in Claves : RecibirLeer(p, t, cant, k)
         \/ \E t \in Transferencias : CancelarLeer(p, t)
  PROVE  DocsOK'
<1>1. ASSUME NEW r \in Reservas, LiberarLeer(p, r) PROVE DocsOK'
  <2> DEFINE x == [op |-> "liberar", reserva |-> r]
  <2>1. x \in Tx
    BY DEF Tx
  <2>2. reservas[r] \in Reserva
    BY <1>1 DEF LiberarLeer, DocsOK, NoReserva
  <2>3. QED
    BY <1>1, <2>1, <2>2, TxNueva DEF LiberarLeer
<1>2. ASSUME NEW c \in Conteos, NEW v \in Variantes, NEW q \in Contables,
             RegistrarConteoLeer(p, c, v, q)
      PROVE DocsOK'
  <2> DEFINE x == [op |-> "registrar", conteo |-> c, variante |-> v, cantidad |-> q]
  <2>1. x \in Tx
    BY DEF Tx
  <2>2. conteos[c] \in Conteo
    BY <1>2 DEF RegistrarConteoLeer, DocsOK, NoConteo
  <2>3. QED
    BY <1>2, <2>1, <2>2, TxNueva DEF RegistrarConteoLeer
<1>3. ASSUME NEW c \in Conteos, ContabilizarLeer(p, c) PROVE DocsOK'
  <2> DEFINE x == [op |-> "contabilizar", conteo |-> c, contada |-> conteos[c].contada]
  <2>1. conteos[c] \in Conteo
    BY <1>3 DEF ContabilizarLeer, DocsOK, NoConteo
  <2>2. x \in Tx
    BY <2>1 DEF Tx, Conteo
  <2>3. QED
    BY <1>3, <2>1, <2>2, TxNueva DEF ContabilizarLeer
<1>4. ASSUME NEW c \in Conteos, CancelarConteoLeer(p, c) PROVE DocsOK'
  <2> DEFINE x == [op |-> "cancelarConteo", conteo |-> c]
  <2>1. x \in Tx
    BY DEF Tx
  <2>2. conteos[c] \in Conteo
    BY <1>4 DEF CancelarConteoLeer, DocsOK, NoConteo
  <2>3. QED
    BY <1>4, <2>1, <2>2, TxNueva DEF CancelarConteoLeer
<1>5. ASSUME NEW t \in Transferencias, NEW cant \in Articulos, NEW k \in Claves,
             RecibirLeer(p, t, cant, k)
      PROVE DocsOK'
  <2> DEFINE x == [op |-> "recibir", transfer |-> t, clave |-> k,
                   ahora |-> cant, previo |-> transfers[t].recibido]
  <2>1. transfers[t] \in Transfer
    BY <1>5 DEF RecibirLeer, DocsOK, NoTransfer
  <2>2. cant \in [Variantes -> Nat] /\ transfers[t].recibido \in [Variantes -> Nat]
    BY <2>1, ArticulosNat DEF Transfer
  <2>3. x \in Tx
    BY <2>2 DEF Tx
  <2>4. QED
    BY <1>5, <2>1, <2>3, TxNueva DEF RecibirLeer
<1>6. ASSUME NEW t \in Transferencias, CancelarLeer(p, t) PROVE DocsOK'
  <2> DEFINE x == [op |-> "cancelar", transfer |-> t]
  <2>1. x \in Tx
    BY DEF Tx
  <2>2. transfers[t] \in Transfer
    BY <1>6 DEF CancelarLeer, DocsOK, NoTransfer
  <2>3. QED
    BY <1>6, <2>1, <2>2, TxNueva DEF CancelarLeer
<1>7. QED
  BY <1>1, <1>2, <1>3, <1>4, <1>5, <1>6

\* Releases, receptions, cancellations and counts keep every document well formed.
LEMMA EscriturasDocs ==
  ASSUME DocsOK, NEW p \in Procesos,
         \/ LiberarAplicar(p) \/ RegistrarConteoAplicar(p) \/ ContabilizarAplicar(p)
         \/ CancelarConteoAplicar(p) \/ RecibirAplicar(p) \/ CancelarAplicar(p) \/ Abortar(p)
  PROVE  DocsOK'
<1>0. tx[p] \in Tx
  BY DEF DocsOK
<1>1. CASE LiberarAplicar(p)
  <2> DEFINE r == tx[p].reserva
  <2>1. r \in Reservas /\ reservas[r] \in Reserva
    BY <1>0, <1>1, TxForma DEF LiberarAplicar, DocsOK, TxVigente
  <2>2. [reservas[r] EXCEPT !.estado = "LIBERADA"] \in Reserva
    BY <2>1 DEF Reserva
  <2>3. reservas' = [reservas EXCEPT ![r] = [reservas[r] EXCEPT !.estado = "LIBERADA"]]
    BY <1>1 DEF LiberarAplicar
  <2>4. /\ reservas' \in [Reservas -> Reserva \cup {NoReserva}]
        /\ \A x \in Reservas : reservas[x] \in Reserva => reservas'[x] \in Reserva
    BY <2>1, <2>2, <2>3 DEF DocsOK
  <2>5. QED
    BY <1>1, <2>4, TxEstable DEF LiberarAplicar, DocsOK
<1>2. CASE RegistrarConteoAplicar(p)
  <2> DEFINE c == tx[p].conteo
             v == tx[p].variante
             m == conteos[c].contada
             n == [w \in DOMAIN m \cup {v} |-> IF w = v THEN tx[p].cantidad ELSE m[w]]
  <2>1. c \in Conteos /\ v \in Variantes /\ tx[p].cantidad \in Contables /\ conteos[c] \in Conteo
    BY <1>0, <1>2, TxForma DEF RegistrarConteoAplicar, DocsOK, TxVigente
  <2>2. n \in Contada
    <3>1. m \in Contada
      BY <2>1 DEF Conteo
    <3>2. PICK S \in SUBSET Variantes : m \in [S -> Contables]
      BY <3>1, ContadaFunciones
    <3>3. n \in [S \cup {v} -> Contables]
      BY <2>1, <3>2
    <3>4. S \cup {v} \in SUBSET Variantes
      BY <2>1
    <3>5. QED
      BY <3>3, <3>4, ContadaFunciones
  <2>3. [conteos[c] EXCEPT !.contada = n] \in Conteo
    BY <2>1, <2>2 DEF Conteo
  <2>4. conteos' = [conteos EXCEPT ![c] = [conteos[c] EXCEPT !.contada = n]]
    BY <1>2, <2>1 DEF RegistrarConteoAplicar
  <2>5. /\ conteos' \in [Conteos -> Conteo \cup {NoConteo}]
        /\ \A x \in Conteos : conteos[x] \in Conteo => conteos'[x] \in Conteo
    BY <2>1, <2>3, <2>4 DEF DocsOK
  <2>6. QED
    BY <1>2, <2>5, TxEstable DEF RegistrarConteoAplicar, DocsOK
<1>3. ASSUME NEW e \in {"CONTABILIZADO", "CANCELADO"},
             tx[p].op \in {"contabilizar", "cancelarConteo"},
             conteos' = [conteos EXCEPT ![tx[p].conteo].estado = e],
             tx' = [tx EXCEPT ![p] = Libre], UNCHANGED <<reservas, transfers>>
      PROVE DocsOK'
  <2> DEFINE c == tx[p].conteo
  <2>1. c \in Conteos /\ conteos[c] \in Conteo
    BY <1>0, <1>3, TxForma DEF DocsOK, TxVigente
  <2>2. [conteos[c] EXCEPT !.estado = e] \in Conteo
    BY <2>1, <1>3 DEF Conteo
  <2>3. conteos' = [conteos EXCEPT ![c] = [conteos[c] EXCEPT !.estado = e]]
    BY <1>3
  <2>4. /\ conteos' \in [Conteos -> Conteo \cup {NoConteo}]
        /\ \A x \in Conteos : conteos[x] \in Conteo => conteos'[x] \in Conteo
    BY <2>1, <2>2, <2>3 DEF DocsOK
  <2>5. QED
    BY <1>3, <2>4, TxEstable DEF DocsOK
<1>4. CASE RecibirAplicar(p)
  <2> DEFINE t == tx[p].transfer
             recibido == Acumular(p, t)
  <2>1. /\ t \in Transferencias /\ transfers[t] \in Transfer
        /\ tx[p].ahora \in [Variantes -> Nat] /\ tx[p].previo \in [Variantes -> Nat]
    BY <1>0, <1>4, TxForma DEF RecibirAplicar, DocsOK, TxVigente
  <2>2. recibido \in [Variantes -> Nat]
    BY <2>1 DEF Acumular, Transfer
  <2>3. PICK e \in {"RECIBIDA", "RECIBIDA_PARCIALMENTE"} :
          transfers' = [transfers EXCEPT ![t].recibido = recibido, ![t].estado = e]
    BY <1>4 DEF RecibirAplicar
  <2>4. \A x \in Transferencias \ {t} : transfers'[x] = transfers[x]
    BY <2>3 DEF DocsOK
  <2>5. transfers'[t] = [transfers[t] EXCEPT !.recibido = recibido, !.estado = e]
    BY <2>1, <2>3 DEF DocsOK
  <2>6. transfers'[t] \in Transfer
    BY <2>1, <2>2, <2>5 DEF Transfer
  <2>7. /\ transfers' \in [Transferencias -> Transfer \cup {NoTransfer}]
        /\ \A x \in Transferencias : transfers[x] \in Transfer => transfers'[x] \in Transfer
    BY <2>1, <2>3, <2>4, <2>6 DEF DocsOK
  <2>8. tx' = [tx EXCEPT ![p] = Libre] /\ UNCHANGED <<reservas, conteos>>
    BY <1>4 DEF RecibirAplicar
  <2>9. QED
    BY <2>7, <2>8, TxEstable DEF DocsOK
<1>5. CASE CancelarAplicar(p)
  <2> DEFINE t == tx[p].transfer
  <2>1. t \in Transferencias /\ transfers[t] \in Transfer
    BY <1>0, <1>5, TxForma DEF CancelarAplicar, DocsOK, TxVigente
  <2>2. [transfers[t] EXCEPT !.estado = "CANCELADA"] \in Transfer
    BY <2>1 DEF Transfer
  <2>3. transfers' = [transfers EXCEPT ![t] = [transfers[t] EXCEPT !.estado = "CANCELADA"]]
    BY <1>5 DEF CancelarAplicar
  <2>4. /\ transfers' \in [Transferencias -> Transfer \cup {NoTransfer}]
        /\ \A x \in Transferencias : transfers[x] \in Transfer => transfers'[x] \in Transfer
    BY <2>1, <2>2, <2>3 DEF DocsOK
  <2>5. tx' = [tx EXCEPT ![p] = Libre] /\ UNCHANGED <<reservas, conteos>>
    BY <1>5 DEF CancelarAplicar
  <2>6. QED
    BY <2>4, <2>5, TxEstable DEF DocsOK
<1>6. CASE Abortar(p)
  BY <1>6, TxEstable DEF Abortar, DocsOK
<1>7. CASE ContabilizarAplicar(p)
  BY <1>3, <1>7 DEF ContabilizarAplicar
<1>8. CASE CancelarConteoAplicar(p)
  BY <1>3, <1>8 DEF CancelarConteoAplicar
<1>9. QED
  BY <1>1, <1>2, <1>4, <1>5, <1>6, <1>7, <1>8

-----------------------------------------------------------------------------
(* Balances and ledger *)

\* Every row agrees with its ledger.
Cuadra ==
  /\ saldo \in [Filas -> Saldo]
  /\ kardex \in [Filas -> Int]
  /\ \A f \in Filas : FilaOK(f, saldo[f], kardex[f])

\* Every balance and every ledger is zero at the start.
LEMMA InitCuadra == Init => Cuadra
  BY DEF Init, Cuadra, FilaOK, Saldo, SinSaldo

\* One step of balances and ledger, row by row.
LEMMA CuadraPorFila ==
  ASSUME saldo' = [f \in Filas |-> saldo'[f]], kardex' = [f \in Filas |-> kardex'[f]],
         \A f \in Filas : FilaOK(f, saldo'[f], kardex'[f])
  PROVE  Cuadra'
<1>1. saldo' \in [Filas -> Saldo] /\ kardex' \in [Filas -> Int]
  BY DEF FilaOK
<1>2. QED
  BY <1>1 DEF Cuadra

\* A step that writes neither balances nor ledger keeps them in agreement.
LEMMA CuadraIgual ==
  ASSUME Cuadra, UNCHANGED <<saldo, kardex>>
  PROVE  Cuadra'
  BY DEF Cuadra

\* One row, and its ledger sum if q # 0.
LEMMA CuadraUnaFila ==
  ASSUME Cuadra, NEW f \in Filas, NEW s, NEW q \in Int,
         saldo' = [saldo EXCEPT ![f] = s],
         kardex' = [g \in Filas |-> kardex[g] + En(f, q)[g]],
         FilaOK(f, s, kardex[f] + q)
  PROVE  Cuadra'
<1>1. \A g \in Filas : saldo'[g] = (IF g = f THEN s ELSE saldo[g])
  BY DEF Cuadra
<1>2. \A g \in Filas : kardex'[g] = (IF g = f THEN kardex[f] + q ELSE kardex[g])
  BY DEF Cuadra, En
<1>3. \A g \in Filas : FilaOK(g, saldo'[g], kardex'[g])
  BY <1>1, <1>2 DEF Cuadra
<1>4. s \in Saldo
  BY DEF FilaOK
<1>5. saldo' \in [Filas -> Saldo]
  BY <1>4 DEF Cuadra
<1>6. kardex' \in [Filas -> Int]
  BY DEF Cuadra, En
<1>7. QED
  BY <1>3, <1>5, <1>6 DEF Cuadra

\* So does a write of one row that leaves on hand as it is, without a ledger entry.
LEMMA CuadraSinAsiento ==
  ASSUME Cuadra, NEW f \in Filas, NEW s, saldo' = [saldo EXCEPT ![f] = s], kardex' = kardex,
         FilaOK(f, s, kardex[f])
  PROVE  Cuadra'
<1>1. s \in Saldo
  BY DEF FilaOK
<1>2. saldo' \in [Filas -> Saldo] /\ kardex' \in [Filas -> Int]
  BY <1>1 DEF Cuadra
<1>3. \A g \in Filas : FilaOK(g, saldo'[g], kardex'[g])
  BY DEF Cuadra
<1>4. QED
  BY <1>2, <1>3 DEF Cuadra

\* What the agreement says of one row.
LEMMA FilaForma ==
  ASSUME Cuadra, NEW f \in Filas
  PROVE  /\ FilaOK(f, saldo[f], kardex[f])
         /\ saldo[f].enStock \in Int /\ saldo[f].reserved \in Nat
         /\ saldo[f].enTransito \in Int /\ saldo[f].available \in Int
         /\ saldo[f].enStock = kardex[f] /\ kardex[f] \in Int
         /\ saldo[f].available = saldo[f].enStock - saldo[f].reserved
         /\ f[2] \notin ConNegativo => saldo[f].enStock >= 0
  BY DEF Cuadra, FilaOK, Saldo

\* A movement of one row is one ledger entry of the same quantity.
LEMMA MovimientoCuadra ==
  ASSUME Cuadra, NEW f \in Filas, NEW q \in Cantidades, Movimiento(f, q)
  PROVE  Cuadra'
<1>0. q \in Nat /\ q > 0 /\ q \in Int /\ -q \in Int
  OBVIOUS
<1>1. ASSUME NEW llave, NEW s, NEW m \in Int, Mover(f, s, m, llave), FilaOK(f, s, kardex[f] + m)
      PROVE Cuadra'
  BY <1>1, CuadraUnaFila DEF Mover, Asentar
<1>2. ASSUME NEW llave, StockInicial(f, q, llave) PROVE Cuadra'
  <2>1. FilaOK(f, Sumar(saldo[f], q), kardex[f] + q)
    BY <1>0, FilaForma, SumarOK
  <2>2. QED
    BY <1>0, <1>1, <1>2, <2>1 DEF StockInicial
<1>3. ASSUME NEW k \in Claves, NEW m \in Int, Ajustar(f, m, k) PROVE Cuadra'
  <2>1. saldo[f].enStock + m \in Int /\ saldo[f].enStock + m = kardex[f] + m
    BY FilaForma
  <2>2. f[2] \notin ConNegativo => saldo[f].enStock + m >= 0
    BY <1>3 DEF Ajustar
  <2>3. FilaOK(f, Fijar(saldo[f], saldo[f].enStock + m), kardex[f] + m)
    BY <2>1, <2>2, FilaForma, FijarOK
  <2>4. QED
    BY <1>1, <1>3, <2>3 DEF Ajustar
<1>4. ASSUME NEW k \in Claves, Vender(f, q, k) PROVE Cuadra'
  <2>1. f[2] \notin ConNegativo => saldo[f].available >= q
    BY <1>4 DEF Vender
  <2>2. f[2] \notin ConNegativo => kardex[f] + (-q) >= 0
    BY <1>0, <2>1, FilaForma
  <2>3. FilaOK(f, Sumar(saldo[f], -q), kardex[f] + (-q))
    BY <1>0, <2>2, FilaForma, SumarOK
  <2>4. QED
    BY <1>0, <1>1, <1>4, <2>3 DEF Vender
<1>5. ASSUME NEW k \in Claves, Ingresar(f, q, k) PROVE Cuadra'
  <2>1. FilaOK(f, Sumar(saldo[f], q), kardex[f] + q)
    BY <1>0, FilaForma, SumarOK
  <2>2. QED
    BY <1>0, <1>1, <1>5, <2>1 DEF Ingresar
<1>6. ASSUME NEW r \in Reservas, CrearReserva(r, f, q) PROVE Cuadra'
  <2>1. saldo[f].reserved + q \in Nat
    BY <1>0, FilaForma
  <2>2. FilaOK(f, Apartar(saldo[f], saldo[f].reserved + q), kardex[f])
    BY <2>1, FilaForma, ApartarOK
  <2>3. saldo' = [saldo EXCEPT ![f] = Apartar(saldo[f], saldo[f].reserved + q)] /\ kardex' = kardex
    BY <1>6 DEF CrearReserva, Cuadra
  <2>4. QED
    BY <2>2, <2>3, CuadraSinAsiento
<1>7. \A s \in {-1, 1} : s * q \in Int
  BY <1>0
<1>8. QED
  BY <1>2, <1>3, <1>4, <1>5, <1>6, <1>7 DEF Movimiento

\* The part of a transfer that one row sees: its quantity, in the row of its warehouse.
LEMMA ParteForma ==
  ASSUME NEW cant \in [Variantes -> Nat], NEW a, NEW f \in Filas
  PROVE  /\ Parte(a, cant, f) \in Nat
         /\ Parte(a, cant, f) > 0 => f[1] = a /\ f[2] \in Variantes /\ f = <<a, f[2]>>
                                   /\ Parte(a, cant, f) = cant[f[2]]
  BY DEF Parte, Filas

\* Reserving keeps on hand, and a transfer leaves the origin with an entry per article.
LEMMA AltaCuadra ==
  ASSUME Cuadra, Alta
  PROVE  Cuadra'
<1>1. ASSUME NEW f \in Filas, DefinirNivel(f) PROVE Cuadra'
  <2>1. saldo' = [saldo EXCEPT ![f] = [saldo[f] EXCEPT !.existe = TRUE]] /\ kardex' = kardex
    BY <1>1 DEF DefinirNivel
  <2>2. FilaOK(f, [saldo[f] EXCEPT !.existe = TRUE], kardex[f])
    BY FilaForma DEF FilaOK, Saldo
  <2>3. QED
    BY <2>1, <2>2, CuadraSinAsiento
<1>2. ASSUME NEW c \in Conteos, NEW a \in Almacenes, CrearConteo(c, a) PROVE Cuadra'
  BY <1>2, CuadraIgual DEF CrearConteo
<1>3. ASSUME NEW t \in Transferencias, NEW o \in Almacenes, NEW d \in Almacenes,
             NEW cant \in Articulos, NEW k \in Claves, CrearTransferencia(t, o, d, cant, k)
      PROVE Cuadra'
  <2>1. cant \in [Variantes -> Nat]
    BY ArticulosNat
  <2>2. ASSUME NEW f \in Filas PROVE FilaOK(f, saldo'[f], kardex'[f])
    <3>1. /\ saldo'[f] = IF Parte(o, cant, f) > 0 THEN Fijar(saldo[f], saldo[f].enStock - cant[f[2]])
                         ELSE IF Parte(d, cant, f) > 0
                                THEN Transitar(saldo[f], saldo[f].enTransito + cant[f[2]])
                         ELSE saldo[f]
          /\ kardex'[f] = kardex[f] + (-Parte(o, cant, f))
      BY <1>3 DEF CrearTransferencia, Asentar
    <3>2. CASE Parte(o, cant, f) > 0
      <4>1. /\ f[2] \in Variantes /\ f = <<o, f[2]>> /\ cant[f[2]] \in Nat
            /\ Parte(o, cant, f) = cant[f[2]] /\ cant[f[2]] > 0
        BY <2>1, <3>2, ParteForma
      <4>2. f[2] \notin ConNegativo => saldo[f].enStock - cant[f[2]] >= 0
        BY <1>3, <4>1 DEF CrearTransferencia
      <4>3. saldo[f].enStock - cant[f[2]] \in Int
            /\ kardex'[f] = saldo[f].enStock - cant[f[2]]
        BY <3>1, <4>1, FilaForma
      <4>4. saldo'[f] = Fijar(saldo[f], saldo[f].enStock - cant[f[2]])
        BY <3>1, <3>2
      <4>5. QED
        BY <4>2, <4>3, <4>4, FilaForma, FijarOK
    <3>3. CASE ~(Parte(o, cant, f) > 0) /\ Parte(d, cant, f) > 0
      <4>1. Parte(o, cant, f) = 0 /\ cant[f[2]] \in Nat
        BY <2>1, <3>3, ParteForma
      <4>2. kardex'[f] = kardex[f]
        BY <3>1, <4>1, FilaForma
      <4>3. saldo'[f] = Transitar(saldo[f], saldo[f].enTransito + cant[f[2]])
        BY <3>1, <3>3
      <4>4. saldo[f].enTransito + cant[f[2]] \in Int
        BY <4>1, FilaForma
      <4>5. QED
        BY <4>2, <4>3, <4>4, FilaForma, TransitarOK
    <3>4. CASE ~(Parte(o, cant, f) > 0) /\ ~(Parte(d, cant, f) > 0)
      <4>1. Parte(o, cant, f) = 0
        BY <2>1, <3>4, ParteForma
      <4>2. kardex'[f] = kardex[f]
        BY <3>1, <4>1, FilaForma
      <4>3. saldo'[f] = saldo[f]
        BY <3>1, <3>4
      <4>4. QED
        BY <4>2, <4>3, FilaForma
    <3>5. QED
      BY <3>2, <3>3, <3>4
  <2>3. saldo' = [f \in Filas |-> saldo'[f]] /\ kardex' = [f \in Filas |-> kardex'[f]]
    BY <1>3 DEF CrearTransferencia, Asentar
  <2>4. QED
    BY <2>2, <2>3, CuadraPorFila
<1>4. QED
  BY <1>1, <1>2, <1>3 DEF Alta

\* Every step of a request writes balance and ledger by the same quantity.
LEMMA PeticionCuadra ==
  ASSUME Cuadra, DocsOK, NEW p \in Procesos, Peticion(p)
  PROVE  Cuadra'
<1>0. tx[p] \in Tx
  BY DEF DocsOK
<1>1. CASE LiberarAplicar(p)
  <2> DEFINE r == tx[p].reserva
             f == reservas[r].fila
             n == SinBajarDeCero(saldo[f].reserved - reservas[r].cantidad)
  <2>1. reservas[r] \in Reserva
    BY <1>1 DEF LiberarAplicar, DocsOK, TxVigente
  <2>2. f \in Filas /\ reservas[r].cantidad \in Int
    <3>1. f \in Filas /\ reservas[r].cantidad \in Cantidades
      BY <2>1 DEF Reserva
    <3>2. \A q \in Cantidades : q \in Int
      OBVIOUS
    <3>3. QED
      BY <3>1, <3>2
  <2>3. n \in Nat
    BY <2>2, FilaForma DEF SinBajarDeCero
  <2>4. saldo' = [saldo EXCEPT ![f] = Apartar(saldo[f], n)] /\ kardex' = kardex
    BY <1>1 DEF LiberarAplicar
  <2>5. FilaOK(f, Apartar(saldo[f], n), kardex[f])
    BY <2>2, <2>3, FilaForma, ApartarOK
  <2>6. QED
    BY <2>2, <2>4, <2>5, CuadraSinAsiento
<1>2. CASE ContabilizarAplicar(p)
  <2> DEFINE m == tx[p].contada
  <2>1. m \in Contada
    BY <1>0, <1>2, TxForma DEF ContabilizarAplicar
  <2>2. ASSUME NEW f \in Filas PROVE FilaOK(f, saldo'[f], kardex'[f])
    <3>1. /\ saldo'[f] = IF Contado(p, f) /\ (saldo[f].existe \/ m[f[2]] > 0)
                           THEN Fijar(saldo[f], m[f[2]]) ELSE saldo[f]
          /\ kardex'[f] = kardex[f] + Diferencia(p, f)
      BY <1>2 DEF ContabilizarAplicar, Asentar
    <3>2. CASE Contado(p, f)
      <4>1. m[f[2]] \in Contables
        BY <2>1, <3>2, ContadaFunciones DEF Contado
      <4>2. m[f[2]] \in Nat
        BY <4>1, ArticulosNat
      <4>3. kardex'[f] = m[f[2]]
        BY <3>1, <3>2, <4>2, FilaForma DEF Diferencia
      <4>4. FilaOK(f, Fijar(saldo[f], m[f[2]]), m[f[2]])
        BY <4>2, FilaForma, FijarOK
      <4>5. CASE saldo[f].existe \/ m[f[2]] > 0
        BY <3>1, <3>2, <4>3, <4>4, <4>5
      <4>6. CASE ~(saldo[f].existe \/ m[f[2]] > 0)
        \* A row that does not exist counts as zero, and so does its ledger.
        <5>1. m[f[2]] = 0
          BY <4>2, <4>6
        <5>2. QED
          BY <3>1, <3>2, <4>3, <4>6, <5>1, FilaForma DEF FilaOK
      <4>7. QED
        BY <4>5, <4>6
    <3>3. CASE ~Contado(p, f)
      BY <3>1, <3>3, FilaForma DEF Diferencia
    <3>4. QED
      BY <3>2, <3>3
  <2>3. saldo' = [f \in Filas |-> saldo'[f]] /\ kardex' = [f \in Filas |-> kardex'[f]]
    BY <1>2 DEF ContabilizarAplicar, Asentar
  <2>4. QED
    BY <2>2, <2>3, CuadraPorFila
<1>3. CASE RecibirAplicar(p)
  <2> DEFINE t == tx[p].transfer
             llegada(f) == Parte(transfers[t].destino, tx[p].ahora, f)
  <2>1. tx[p].ahora \in [Variantes -> Nat]
    BY <1>0, <1>3, TxForma DEF RecibirAplicar
  <2>2. ASSUME NEW f \in Filas PROVE FilaOK(f, saldo'[f], kardex'[f])
    <3>1. saldo'[f] = RecibirFila(saldo[f], llegada(f)) /\ kardex'[f] = kardex[f] + llegada(f)
      BY <1>3 DEF RecibirAplicar, Asentar
    <3>2. llegada(f) \in Nat
      BY <2>1, ParteForma
    <3>3. QED
      BY <3>1, <3>2, FilaForma, RecibirFilaOK
  <2>3. saldo' = [f \in Filas |-> saldo'[f]] /\ kardex' = [f \in Filas |-> kardex'[f]]
    BY <1>3 DEF RecibirAplicar, Asentar
  <2>4. QED
    BY <2>2, <2>3, CuadraPorFila
<1>4. CASE CancelarAplicar(p)
  <2> DEFINE t == tx[p].transfer
             vuelve(f) == Parte(transfers[t].origen, transfers[t].enviado, f)
             sale(f) == Parte(transfers[t].destino, transfers[t].enviado, f)
  <2>1. transfers[t].enviado \in [Variantes -> Nat]
    BY <1>4 DEF CancelarAplicar, DocsOK, TxVigente, Transfer
  <2>2. ASSUME NEW f \in Filas PROVE FilaOK(f, saldo'[f], kardex'[f])
    <3>1. /\ saldo'[f] = IF vuelve(f) > 0 THEN Fijar(saldo[f], saldo[f].enStock + vuelve(f))
                         ELSE IF sale(f) > 0
                                THEN Transitar(saldo[f], SinBajarDeCero(saldo[f].enTransito - sale(f)))
                         ELSE saldo[f]
          /\ kardex'[f] = kardex[f] + vuelve(f)
      BY <1>4 DEF CancelarAplicar, Asentar
    <3>2. vuelve(f) \in Nat /\ sale(f) \in Nat
      BY <2>1, ParteForma
    <3>3. CASE vuelve(f) > 0
      <4>1. /\ saldo[f].enStock + vuelve(f) \in Int
            /\ f[2] \notin ConNegativo => saldo[f].enStock + vuelve(f) >= 0
            /\ kardex'[f] = saldo[f].enStock + vuelve(f)
        BY <3>1, <3>2, FilaForma
      <4>2. saldo'[f] = Fijar(saldo[f], saldo[f].enStock + vuelve(f))
        BY <3>1, <3>3
      <4>3. QED
        BY <4>1, <4>2, FilaForma, FijarOK
    <3>4. CASE ~(vuelve(f) > 0)
      <4>1. kardex'[f] = kardex[f]
        BY <3>1, <3>2, <3>4, FilaForma
      <4>2. SinBajarDeCero(saldo[f].enTransito - sale(f)) \in Int
        BY <3>2, FilaForma DEF SinBajarDeCero
      <4>3. FilaOK(f, Transitar(saldo[f], SinBajarDeCero(saldo[f].enTransito - sale(f))), kardex[f])
        BY <4>2, FilaForma, TransitarOK
      <4>4. QED
        BY <3>1, <3>4, <4>1, <4>3, FilaForma
    <3>5. QED
      BY <3>3, <3>4
  <2>3. saldo' = [f \in Filas |-> saldo'[f]] /\ kardex' = [f \in Filas |-> kardex'[f]]
    BY <1>4 DEF CancelarAplicar, Asentar
  <2>4. QED
    BY <2>2, <2>3, CuadraPorFila
<1>5. CASE ~(\/ LiberarAplicar(p) \/ ContabilizarAplicar(p) \/ RecibirAplicar(p) \/ CancelarAplicar(p))
  <2>1. UNCHANGED <<saldo, kardex>>
    BY <1>5 DEF Peticion, LiberarLeer, RegistrarConteoLeer, RegistrarConteoAplicar,
                ContabilizarLeer, CancelarConteoLeer, CancelarConteoAplicar, RecibirLeer,
                CancelarLeer, Abortar
  <2>2. QED
    BY <2>1, CuadraIgual
<1>6. QED
  BY <1>1, <1>2, <1>3, <1>4, <1>5

-----------------------------------------------------------------------------
(* Theorems *)

Inv == Cuadra /\ DocsOK

\* Documents and balances together are inductive.
LEMMA NextInv ==
  ASSUME Inv, [Next]_vars
  PROVE  Inv'
<1>1. ASSUME NEW f \in Filas, NEW q \in Cantidades, Movimiento(f, q) PROVE Inv'
  BY <1>1, MovimientoCuadra, MovimientoDocs DEF Inv
<1>2. CASE Alta
  BY <1>2, AltaCuadra, AltaDocs DEF Inv
<1>3. ASSUME NEW p \in Procesos, Peticion(p) PROVE Inv'
  <2>1. Cuadra'
    BY <1>3, PeticionCuadra DEF Inv
  <2>2. DocsOK'
    BY <1>3, LecturasDocs, EscriturasDocs DEF Inv, Peticion
  <2>3. QED
    BY <2>1, <2>2 DEF Inv
<1>4. CASE UNCHANGED vars
  <2>1. Cuadra'
    BY <1>4, CuadraIgual DEF Inv, vars
  <2>2. DocsOK'
    BY <1>4, TxEstable DEF Inv, vars, DocsOK
  <2>3. QED
    BY <2>1, <2>2 DEF Inv
<1>5. QED
  BY <1>1, <1>2, <1>3, <1>4 DEF Next

\* The inductive invariant.
THEOREM InvSiempre == Spec => []Inv
<1>1. Init => Inv
  BY InitCuadra, InitDocs DEF Inv
<1>2. QED
  BY <1>1, NextInv, PTL DEF Spec

\* Every variable of the stock model keeps its type.
THEOREM TipoCorrecto == Spec => []TypeOK
<1>1. Inv => TypeOK
  BY DEF Inv, Cuadra, DocsOK, TypeOK
<1>2. QED
  BY <1>1, InvSiempre, PTL

\* The stock on hand of every row is the sum of its ledger entries, whatever requests
\* overlap, repeat a key or roll back.
THEOREM KardexEsAutoridad == Spec => []KardexCuadra
<1>1. Inv => KardexCuadra
  BY DEF Inv, Cuadra, FilaOK, KardexCuadra
<1>2. QED
  BY <1>1, InvSiempre, PTL

\* The stored available quantity is never out of step with stock and reservations.
THEOREM DisponibleCorrecto == Spec => []DisponibleCuadra
<1>1. Inv => DisponibleCuadra
  BY DEF Inv, Cuadra, FilaOK, DisponibleCuadra
<1>2. QED
  BY <1>1, InvSiempre, PTL

\* Stock goes below zero only where the variant allows it.  It rests on the two above:
\* a sale checks `available', the other writers check the stock itself.
THEOREM StockNuncaNegativo == Spec => []SinNegativos
<1>1. Inv => SinNegativos
  BY DEF Inv, Cuadra, FilaOK, SinNegativos
<1>2. QED
  BY <1>1, InvSiempre, PTL

-----------------------------------------------------------------------------
(* Requests that do not overlap *)

\* Requests do not overlap: there is one process.
UnProceso == \A p, q \in Procesos : p = q

\* A transfer goes to another warehouse and never receives more than was sent.
TransferOK ==
  \A t \in Transferencias :
    transfers[t] \in Transfer =>
      /\ transfers[t].origen # transfers[t].destino
      /\ \A v \in Variantes : transfers[t].recibido[v] <= transfers[t].enviado[v]

\* What the pending request read is still so.  A second process would break it.
TxActual ==
  \A p \in Procesos :
    /\ tx[p].op = "liberar" => reservas[tx[p].reserva].estado = "ACTIVA"
    /\ tx[p].op = "recibir" =>
         LET t == transfers[tx[p].transfer] IN
           /\ t.estado \in {"EN_TRANSITO", "RECIBIDA_PARCIALMENTE"}
           /\ tx[p].previo = t.recibido
           /\ \A v \in Variantes : tx[p].ahora[v] <= t.enviado[v] - t.recibido[v]
    /\ tx[p].op = "cancelar" =>
         LET t == transfers[tx[p].transfer] IN
           /\ t.estado = "EN_TRANSITO"
           /\ \A v \in Variantes : t.recibido[v] = 0

\* A step that leaves reservations, or transfers, and what the rows count of them.
ReservasIgual == reservas' = reservas /\ \A f \in Filas : saldo'[f].reserved = saldo[f].reserved
TransitoIgual == transfers' = transfers /\ \A f \in Filas : saldo'[f].enTransito = saldo[f].enTransito

\* A movement of stock leaves both as they were.
LEMMA MovimientoNeutro ==
  ASSUME Inv, NEW f \in Filas, NEW q \in Cantidades, Movimiento(f, q),
         ~ \E r \in Reservas : CrearReserva(r, f, q)
  PROVE  ReservasIgual /\ TransitoIgual
<1>0. saldo \in [Filas -> Saldo]
  BY DEF Inv, Cuadra
<1>1. ASSUME NEW s, NEW n, NEW llave, Mover(f, s, n, llave),
             s.reserved = saldo[f].reserved, s.enTransito = saldo[f].enTransito
      PROVE  ReservasIgual /\ TransitoIgual
  BY <1>0, <1>1 DEF Mover, ReservasIgual, TransitoIgual
<1>2. ASSUME NEW n PROVE /\ Sumar(saldo[f], n).reserved = saldo[f].reserved
                         /\ Sumar(saldo[f], n).enTransito = saldo[f].enTransito
                         /\ Fijar(saldo[f], n).reserved = saldo[f].reserved
                         /\ Fijar(saldo[f], n).enTransito = saldo[f].enTransito
  BY DEF Sumar, Fijar
<1>3. ASSUME NEW k, StockInicial(f, q, k) PROVE ReservasIgual /\ TransitoIgual
  BY <1>1, <1>2, <1>3 DEF StockInicial
<1>4. ASSUME NEW k, NEW n, Ajustar(f, n, k) PROVE ReservasIgual /\ TransitoIgual
  BY <1>1, <1>2, <1>4 DEF Ajustar
<1>5. ASSUME NEW k, Vender(f, q, k) PROVE ReservasIgual /\ TransitoIgual
  BY <1>1, <1>2, <1>5 DEF Vender
<1>6. ASSUME NEW k, Ingresar(f, q, k) PROVE ReservasIgual /\ TransitoIgual
  BY <1>1, <1>2, <1>6 DEF Ingresar
<1>7. QED
  BY <1>3, <1>4, <1>5, <1>6 DEF Movimiento

\* Which steps touch reservations, and what the others leave of the rows.
LEMMA SoloReservas ==
  ASSUME Inv, [Next]_vars
  PROVE  \/ \E r \in Reservas, f \in Filas, q \in Cantidades : CrearReserva(r, f, q)
         \/ \E p \in Procesos : LiberarAplicar(p)
         \/ ReservasIgual
<1> USE DEF ReservasIgual
<1>0. saldo \in [Filas -> Saldo]
  BY DEF Inv, Cuadra
<1>1. ASSUME NEW f \in Filas, NEW q \in Cantidades, Movimiento(f, q),
             ~ \E r \in Reservas : CrearReserva(r, f, q)
      PROVE  ReservasIgual
  BY <1>1, MovimientoNeutro
<1>2. CASE Alta
  <2>1. ASSUME NEW f \in Filas, DefinirNivel(f) PROVE ReservasIgual
    BY <1>0, <2>1 DEF DefinirNivel, Saldo
  <2>2. ASSUME NEW c \in Conteos, NEW a \in Almacenes, CrearConteo(c, a) PROVE ReservasIgual
    BY <2>2 DEF CrearConteo
  <2>3. ASSUME NEW t \in Transferencias, NEW o \in Almacenes, NEW d \in Almacenes,
               NEW cant \in Articulos, NEW k \in Claves, CrearTransferencia(t, o, d, cant, k)
        PROVE  ReservasIgual
    BY <2>3 DEF CrearTransferencia, Fijar, Transitar
  <2>4. QED
    BY <1>2, <2>1, <2>2, <2>3 DEF Alta
<1>3. ASSUME NEW p \in Procesos, Peticion(p), ~LiberarAplicar(p) PROVE ReservasIgual
  <2>1. CASE ContabilizarAplicar(p)
    BY <2>1 DEF ContabilizarAplicar, Fijar
  <2>2. CASE RecibirAplicar(p)
    BY <2>2 DEF RecibirAplicar, RecibirFila, Transitar, Fijar
  <2>3. CASE CancelarAplicar(p)
    BY <2>3 DEF CancelarAplicar, Transitar, Fijar
  <2>4. CASE ~(ContabilizarAplicar(p) \/ RecibirAplicar(p) \/ CancelarAplicar(p))
    BY <1>3, <2>4 DEF Peticion, LiberarLeer, RegistrarConteoLeer, RegistrarConteoAplicar,
                ContabilizarLeer, CancelarConteoLeer, CancelarConteoAplicar, RecibirLeer,
                CancelarLeer, Abortar
  <2>5. QED
    BY <2>1, <2>2, <2>3, <2>4
<1>4. CASE UNCHANGED vars
  BY <1>4 DEF vars
<1>5. QED
  BY <1>1, <1>2, <1>3, <1>4 DEF Next

\* The same of transfers.
LEMMA SoloTransfers ==
  ASSUME Inv, [Next]_vars
  PROVE  \/ \E t \in Transferencias, o, d \in Almacenes, cant \in Articulos, k \in Claves :
              CrearTransferencia(t, o, d, cant, k)
         \/ \E p \in Procesos : RecibirAplicar(p) \/ CancelarAplicar(p)
         \/ TransitoIgual
<1> USE DEF TransitoIgual
<1>0. saldo \in [Filas -> Saldo]
  BY DEF Inv, Cuadra
<1>1. ASSUME NEW f \in Filas, NEW q \in Cantidades, Movimiento(f, q) PROVE TransitoIgual
  <2>1. ASSUME NEW r \in Reservas, CrearReserva(r, f, q) PROVE TransitoIgual
    BY <1>0, <2>1 DEF CrearReserva, Apartar
  <2>2. QED
    BY <1>1, <2>1, MovimientoNeutro
<1>2. ASSUME Alta, ~ \E t \in Transferencias, o, d \in Almacenes, cant \in Articulos, k \in Claves :
                       CrearTransferencia(t, o, d, cant, k)
      PROVE  TransitoIgual
  <2>1. ASSUME NEW f \in Filas, DefinirNivel(f) PROVE TransitoIgual
    BY <1>0, <2>1 DEF DefinirNivel, Saldo
  <2>2. ASSUME NEW c \in Conteos, NEW a \in Almacenes, CrearConteo(c, a) PROVE TransitoIgual
    BY <2>2 DEF CrearConteo
  <2>3. QED
    BY <1>2, <2>1, <2>2 DEF Alta
<1>3. ASSUME NEW p \in Procesos, Peticion(p), ~(RecibirAplicar(p) \/ CancelarAplicar(p))
      PROVE  TransitoIgual
  <2>1. CASE ContabilizarAplicar(p)
    BY <2>1 DEF ContabilizarAplicar, Fijar
  <2>2. CASE LiberarAplicar(p)
    BY <1>0, <2>2 DEF LiberarAplicar, Apartar
  <2>3. CASE ~(ContabilizarAplicar(p) \/ LiberarAplicar(p))
    BY <1>3, <2>3 DEF Peticion, LiberarLeer, RegistrarConteoLeer, RegistrarConteoAplicar,
                ContabilizarLeer, CancelarConteoLeer, CancelarConteoAplicar, RecibirLeer,
                CancelarLeer, Abortar
  <2>4. QED
    BY <2>1, <2>2, <2>3
<1>4. CASE UNCHANGED vars
  BY <1>4 DEF vars
<1>5. QED
  BY <1>1, <1>2, <1>3, <1>4 DEF Next

\* A row of the sum is a quantity of the request that made it.
LEMMA ApartadoForma ==
  ASSUME Inv, NEW r \in Reservas, NEW f \in Filas
  PROVE  Apartado(r, f) \in Nat
<1>1. reservas[r].estado = "ACTIVA" => reservas[r].cantidad \in Cantidades
  BY DEF Inv, DocsOK, Reserva, NoReserva
<1>2. \A q \in Cantidades : q \in Nat
  OBVIOUS
<1>3. QED
  BY <1>1, <1>2 DEF Apartado

\* And so it is after the step.
LEMMA ApartadoSigue ==
  ASSUME Inv', NEW r \in Reservas, NEW f
  PROVE  Apartado(r, f)' \in Int
<1>1. reservas'[r].estado = "ACTIVA" => reservas'[r].cantidad \in Cantidades
  BY DEF Inv, DocsOK, Reserva, NoReserva
<1>2. Cantidades \subseteq Int
  OBVIOUS
<1>3. reservas'[r].estado = "ACTIVA" => reservas'[r].cantidad \in Int
  BY <1>1, <1>2
<1>4. QED
  BY <1>3 DEF Apartado

\* One reservation changes.
LEMMA ReservadoCambia ==
  ASSUME Inv, Inv', ReservadoCuadra, NEW r \in Reservas,
         \A x \in Reservas \ {r} : reservas'[x] = reservas[x],
         \A f \in Filas : saldo'[f].reserved = saldo[f].reserved - Apartado(r, f) + Apartado(r, f)'
  PROVE  ReservadoCuadra'
<1> SUFFICES ASSUME NEW f \in Filas
    PROVE saldo'[f].reserved = SumFunctionOnSet([x \in Reservas |-> Apartado(x, f)'], Reservas)
  BY DEF ReservadoCuadra
<1> DEFINE a == [x \in Reservas |-> Apartado(x, f)]
           b == [x \in Reservas |-> Apartado(x, f)']
<1>1. \A x \in Reservas : a[x] \in Int
  BY ApartadoForma
<1>2. b[r] \in Int
  BY ApartadoSigue
<1>3. \A x \in Reservas \ {r} : b[x] = a[x]
  BY DEF Apartado
<1>4. saldo[f].reserved = SumFunctionOnSet(a, Reservas)
  BY DEF ReservadoCuadra
<1>5. saldo'[f].reserved = saldo[f].reserved - a[r] + b[r]
  OBVIOUS
<1> HIDE DEF a, b
<1>6. SumFunctionOnSet(b, Reservas) = SumFunctionOnSet(a, Reservas) - a[r] + b[r]
  BY <1>1, <1>2, <1>3, SumaCambia
<1>7. saldo'[f].reserved = SumFunctionOnSet(b, Reservas)
  BY <1>4, <1>5, <1>6
<1>8. QED
  BY <1>7 DEF b

\* A released reservation was active, so its row held at least its quantity.
LEMMA ReservadoPaso ==
  ASSUME Inv, Inv', TxActual, ReservadoCuadra, [Next]_vars
  PROVE  ReservadoCuadra'
<1>0. /\ saldo \in [Filas -> Saldo] /\ reservas \in [Reservas -> Reserva \cup {NoReserva}]
      /\ \A q \in Cantidades : q \in Int
      /\ \A f \in Filas : saldo[f].reserved \in Int
  BY DEF Inv, Cuadra, DocsOK, Saldo
<1>1. ASSUME NEW r \in Reservas, NEW f \in Filas, NEW q \in Cantidades, CrearReserva(r, f, q)
      PROVE  ReservadoCuadra'
  <2>1. \A x \in Reservas \ {r} : reservas'[x] = reservas[x]
    BY <1>0, <1>1 DEF CrearReserva
  <2>2. ASSUME NEW g \in Filas
        PROVE  saldo'[g].reserved = saldo[g].reserved - Apartado(r, g) + Apartado(r, g)'
    <3>1. Apartado(r, g) = 0
      BY <1>1 DEF CrearReserva, Apartado, NoReserva
    <3>2. Apartado(r, g)' = IF g = f THEN q ELSE 0
      BY <1>0, <1>1 DEF CrearReserva, Apartado
    <3>3. saldo'[g].reserved = IF g = f THEN saldo[g].reserved + q ELSE saldo[g].reserved
      BY <1>0, <1>1 DEF CrearReserva, Apartar
    <3>4. QED
      BY <1>0, <3>1, <3>2, <3>3
  <2>3. QED
    BY <2>1, <2>2, ReservadoCambia
<1>2. ASSUME NEW p \in Procesos, LiberarAplicar(p) PROVE ReservadoCuadra'
  <2>0. PICK r : r = tx[p].reserva
    OBVIOUS
  <2> DEFINE f == reservas[r].fila
             q == reservas[r].cantidad
  <2>1. r \in Reservas /\ reservas[r] \in Reserva /\ reservas[r].estado = "ACTIVA"
    <3>1. tx[p] \in Tx /\ tx[p].op = "liberar"
      BY <1>2 DEF Inv, DocsOK, LiberarAplicar
    <3>2. QED
      BY <2>0, <3>1, TxForma DEF Inv, DocsOK, TxVigente, TxActual
  <2>2. f \in Filas /\ q \in Int
    BY <1>0, <2>1 DEF Reserva
  <2>3. \A x \in Reservas \ {r} : reservas'[x] = reservas[x]
    BY <1>0, <1>2, <2>0 DEF LiberarAplicar
  <2>4. ASSUME NEW g \in Filas
        PROVE  saldo'[g].reserved = saldo[g].reserved - Apartado(r, g) + Apartado(r, g)'
    <3>1. Apartado(r, g) = IF g = f THEN q ELSE 0
      BY <2>1 DEF Apartado
    <3>2. Apartado(r, g)' = 0
      BY <1>0, <1>2, <2>0, <2>1 DEF LiberarAplicar, Apartado
    <3>3. saldo'[g].reserved = IF g = f THEN SinBajarDeCero(saldo[g].reserved - q)
                                        ELSE saldo[g].reserved
      BY <1>0, <1>2, <2>0, <2>2 DEF LiberarAplicar, Apartar
    <3>4. g = f => q <= saldo[g].reserved
      <4>1. \A x \in Reservas : [y \in Reservas |-> Apartado(y, g)][x] \in Nat
        BY ApartadoForma
      <4>2. [y \in Reservas |-> Apartado(y, g)][r] <= saldo[g].reserved
        BY <2>1, <4>1, SumaMayor DEF ReservadoCuadra
      <4>3. QED
        BY <2>1, <3>1, <4>2
    <3>5. QED
      BY <1>0, <2>2, <3>1, <3>2, <3>3, <3>4 DEF SinBajarDeCero
  <2>5. QED
    BY <2>1, <2>3, <2>4, ReservadoCambia
<1>3. CASE ReservasIgual
  BY <1>3 DEF ReservasIgual, ReservadoCuadra, Apartado
<1>4. QED
  BY <1>1, <1>2, <1>3, SoloReservas

\* What a transfer still brings is what was sent and has not arrived.
LEMMA PorLlegarForma ==
  ASSUME Inv, TransferOK, NEW t \in Transferencias, NEW f \in Filas
  PROVE  PorLlegar(t, f) \in Nat
<1>1. CASE transfers[t] \in Transfer
  <2>1. f[2] \in Variantes
    BY DEF Filas
  <2>2. /\ transfers[t].enviado[f[2]] \in Nat /\ transfers[t].recibido[f[2]] \in Nat
        /\ transfers[t].recibido[f[2]] <= transfers[t].enviado[f[2]]
    BY <1>1, <2>1 DEF Transfer, TransferOK
  <2>3. QED
    BY <2>2 DEF PorLlegar
<1>2. CASE transfers[t] = NoTransfer
  BY <1>2 DEF PorLlegar, NoTransfer
<1>3. QED
  BY <1>1, <1>2 DEF Inv, DocsOK

\* One transfer changes.
LEMMA TransitoCambia ==
  ASSUME Inv, TransferOK, EnTransitoCuadra, NEW t \in Transferencias,
         \A x \in Transferencias \ {t} : transfers'[x] = transfers[x],
         \A f \in Filas : /\ PorLlegar(t, f)' \in Int
                          /\ saldo'[f].enTransito =
                               saldo[f].enTransito - PorLlegar(t, f) + PorLlegar(t, f)'
  PROVE  EnTransitoCuadra'
<1> SUFFICES ASSUME NEW f \in Filas
    PROVE saldo'[f].enTransito =
            SumFunctionOnSet([x \in Transferencias |-> PorLlegar(x, f)'], Transferencias)
  BY DEF EnTransitoCuadra
<1> DEFINE a == [x \in Transferencias |-> PorLlegar(x, f)]
           b == [x \in Transferencias |-> PorLlegar(x, f)']
<1>1. \A x \in Transferencias : a[x] \in Int
  BY PorLlegarForma
<1>2. b[t] \in Int
  OBVIOUS
<1>3. \A x \in Transferencias \ {t} : b[x] = a[x]
  BY DEF PorLlegar
<1>4. saldo[f].enTransito = SumFunctionOnSet(a, Transferencias)
  BY DEF EnTransitoCuadra
<1>5. saldo'[f].enTransito = saldo[f].enTransito - a[t] + b[t]
  OBVIOUS
<1> HIDE DEF a, b
<1>6. SumFunctionOnSet(b, Transferencias) = SumFunctionOnSet(a, Transferencias) - a[t] + b[t]
  BY <1>1, <1>2, <1>3, SumaCambia
<1>7. saldo'[f].enTransito = SumFunctionOnSet(b, Transferencias)
  BY <1>4, <1>5, <1>6
<1>8. QED
  BY <1>7 DEF b

\* The transfer a pending reception or cancellation has read.
LEMMA TxTransfer ==
  ASSUME Inv, TransferOK, TxActual, NEW p \in Procesos, tx[p].op \in {"recibir", "cancelar"},
         NEW t, t = tx[p].transfer
  PROVE  /\ t \in Transferencias /\ transfers[t] \in Transfer
         /\ transfers[t].estado \in {"EN_TRANSITO", "RECIBIDA_PARCIALMENTE"}
         /\ transfers[t].origen # transfers[t].destino
         /\ transfers[t].enviado \in [Variantes -> Nat] /\ transfers[t].recibido \in [Variantes -> Nat]
         /\ \A v \in Variantes : transfers[t].recibido[v] <= transfers[t].enviado[v]
<1>1. tx[p] \in Tx
  BY DEF Inv, DocsOK
<1>2. t \in Transferencias /\ transfers[t] \in Transfer
  BY <1>1, TxForma DEF Inv, DocsOK, TxVigente
<1>3. QED
  BY <1>2 DEF Transfer, TransferOK, TxActual

\* A reception adds what arrives to what had arrived, and that is not more than was sent.
LEMMA Recepcion ==
  ASSUME Inv, TransferOK, TxActual, NEW p \in Procesos, RecibirAplicar(p),
         NEW t, t = tx[p].transfer
  PROVE  /\ \A x \in Transferencias \ {t} : transfers'[x] = transfers[x]
         /\ transfers'[t].destino = transfers[t].destino
         /\ transfers'[t].origen = transfers[t].origen
         /\ transfers'[t].enviado = transfers[t].enviado
         /\ tx[p].ahora \in [Variantes -> Nat]
         /\ \A v \in Variantes :
              /\ transfers'[t].recibido[v] = transfers[t].recibido[v] + tx[p].ahora[v]
              /\ transfers'[t].recibido[v] <= transfers[t].enviado[v]
         /\ \/ transfers'[t].estado = "RECIBIDA_PARCIALMENTE"
            \/ /\ transfers'[t].estado = "RECIBIDA"
               /\ \A v \in Variantes : transfers'[t].recibido[v] = transfers[t].enviado[v]
<1>0. tx[p].op = "recibir"
  BY DEF RecibirAplicar
<1>1. /\ t \in Transferencias /\ transfers[t] \in Transfer
      /\ transfers[t].enviado \in [Variantes -> Nat] /\ transfers[t].recibido \in [Variantes -> Nat]
  BY <1>0, TxTransfer
<1>2. /\ tx[p].ahora \in [Variantes -> Nat]
      /\ tx[p].previo = transfers[t].recibido
      /\ \A v \in Variantes :
           tx[p].ahora[v] <= transfers[t].enviado[v] - transfers[t].recibido[v]
  <2>1. tx[p] \in Tx
    BY DEF Inv, DocsOK
  <2>2. QED
    BY <1>0, <2>1, TxForma DEF TxActual
<1> DEFINE n == Acumular(p, t)
<1>3. \A v \in Variantes : /\ n[v] = transfers[t].recibido[v] + tx[p].ahora[v]
                           /\ n[v] \in Nat /\ n[v] <= transfers[t].enviado[v]
  BY <1>1, <1>2 DEF Acumular
<1>4. transfers \in [Transferencias -> Transfer \cup {NoTransfer}]
  BY DEF Inv, DocsOK
<1>5. transfers' = [transfers EXCEPT ![t].recibido = n,
                      ![t].estado = IF \A v \in Variantes : n[v] >= transfers[t].enviado[v]
                                      THEN "RECIBIDA" ELSE "RECIBIDA_PARCIALMENTE"]
  BY DEF RecibirAplicar
<1> HIDE DEF n
<1>6. \A x \in Transferencias \ {t} : transfers'[x] = transfers[x]
  BY <1>4, <1>5
<1>7. /\ transfers'[t].destino = transfers[t].destino
      /\ transfers'[t].origen = transfers[t].origen
      /\ transfers'[t].enviado = transfers[t].enviado
      /\ transfers'[t].recibido = n
      /\ transfers'[t].estado = IF \A v \in Variantes : n[v] >= transfers[t].enviado[v]
                                  THEN "RECIBIDA" ELSE "RECIBIDA_PARCIALMENTE"
  <2>1. transfers'[t] = [transfers[t] EXCEPT !.recibido = n,
                      !.estado = IF \A v \in Variantes : n[v] >= transfers[t].enviado[v]
                                      THEN "RECIBIDA" ELSE "RECIBIDA_PARCIALMENTE"]
    BY <1>1, <1>4, <1>5
  <2>2. QED
    BY <1>1, <2>1 DEF Transfer
<1>8. (\A v \in Variantes : n[v] >= transfers[t].enviado[v])
        => \A v \in Variantes : n[v] = transfers[t].enviado[v]
  BY <1>1, <1>3
<1>9. QED
  BY <1>2, <1>3, <1>6, <1>7, <1>8

\* A new transfer, a reception and a cancellation move in transit what they change of
\* their transfer.
LEMMA TransitoPaso ==
  ASSUME Inv, TransferOK, TxActual, EnTransitoCuadra, [Next]_vars
  PROVE  EnTransitoCuadra'
<1>0. /\ saldo \in [Filas -> Saldo]
      /\ transfers \in [Transferencias -> Transfer \cup {NoTransfer}]
      /\ \A f \in Filas : f[2] \in Variantes /\ saldo[f].enTransito \in Int
  BY DEF Inv, Cuadra, DocsOK, Saldo, Filas
<1>1. ASSUME NEW t \in Transferencias, NEW o \in Almacenes, NEW d \in Almacenes,
             NEW cant \in Articulos, NEW k \in Claves, CrearTransferencia(t, o, d, cant, k)
      PROVE  EnTransitoCuadra'
  <2>1. cant \in [Variantes -> Nat]
    BY ArticulosNat
  <2>2. /\ \A x \in Transferencias \ {t} : transfers'[x] = transfers[x]
        /\ transfers'[t] = [estado |-> "EN_TRANSITO", origen |-> o, destino |-> d,
                            enviado |-> cant, recibido |-> [v \in Variantes |-> 0]]
        /\ transfers[t] = NoTransfer /\ o # d
    BY <1>0, <1>1 DEF CrearTransferencia
  <2>3. ASSUME NEW f \in Filas
        PROVE  /\ PorLlegar(t, f)' \in Int
               /\ saldo'[f].enTransito =
                    saldo[f].enTransito - PorLlegar(t, f) + PorLlegar(t, f)'
    <3>1. PorLlegar(t, f) = 0
      BY <2>2 DEF PorLlegar, NoTransfer
    <3>2. PorLlegar(t, f)' = Parte(d, cant, f)
      BY <1>0, <2>1, <2>2 DEF PorLlegar, Parte
    <3>3. saldo'[f] = IF Parte(o, cant, f) > 0 THEN Fijar(saldo[f], saldo[f].enStock - cant[f[2]])
                      ELSE IF Parte(d, cant, f) > 0
                        THEN Transitar(saldo[f], saldo[f].enTransito + cant[f[2]])
                      ELSE saldo[f]
      BY <1>1 DEF CrearTransferencia
    <3>4. saldo'[f].enTransito = saldo[f].enTransito + Parte(d, cant, f)
      BY <1>0, <2>1, <2>2, <3>3 DEF Parte, Fijar, Transitar
    <3>5. QED
      BY <1>0, <2>1, <3>1, <3>2, <3>4, ParteForma
  <2>4. QED
    BY <2>2, <2>3, TransitoCambia
<1>2. ASSUME NEW p \in Procesos, RecibirAplicar(p) PROVE EnTransitoCuadra'
  <2>0. PICK t : t = tx[p].transfer
    OBVIOUS
  <2>1. tx[p].op = "recibir"
    BY <1>2 DEF RecibirAplicar
  <2>2. /\ t \in Transferencias /\ transfers[t] \in Transfer
        /\ transfers[t].estado \in {"EN_TRANSITO", "RECIBIDA_PARCIALMENTE"}
        /\ transfers[t].enviado \in [Variantes -> Nat] /\ transfers[t].recibido \in [Variantes -> Nat]
    BY <2>0, <2>1, TxTransfer
  <2>3. /\ \A x \in Transferencias \ {t} : transfers'[x] = transfers[x]
        /\ transfers'[t].destino = transfers[t].destino
        /\ transfers'[t].enviado = transfers[t].enviado
        /\ tx[p].ahora \in [Variantes -> Nat]
        /\ \A v \in Variantes :
             /\ transfers'[t].recibido[v] = transfers[t].recibido[v] + tx[p].ahora[v]
             /\ transfers'[t].recibido[v] <= transfers[t].enviado[v]
        /\ \/ transfers'[t].estado = "RECIBIDA_PARCIALMENTE"
           \/ /\ transfers'[t].estado = "RECIBIDA"
              /\ \A v \in Variantes : transfers'[t].recibido[v] = transfers[t].enviado[v]
    BY <1>2, <2>0, Recepcion
  <2>4. ASSUME NEW f \in Filas
        PROVE  /\ PorLlegar(t, f)' \in Int
               /\ saldo'[f].enTransito =
                    saldo[f].enTransito - PorLlegar(t, f) + PorLlegar(t, f)'
    <3> DEFINE llega == Parte(transfers[t].destino, tx[p].ahora, f)
               e == transfers[t].enviado[f[2]]
               r == transfers[t].recibido[f[2]]
    <3>0. e \in Nat /\ r \in Nat /\ llega \in Nat
      BY <1>0, <2>2, <2>3, ParteForma
    <3>1. PorLlegar(t, f) = IF transfers[t].destino = f[1] THEN e - r ELSE 0
      BY <2>2 DEF PorLlegar
    <3>2. PorLlegar(t, f)' = IF transfers[t].destino = f[1] THEN e - r - llega ELSE 0
      BY <1>0, <2>2, <2>3 DEF PorLlegar, Parte
    <3>3. saldo'[f] = RecibirFila(saldo[f], llega)
      BY <1>2, <2>0 DEF RecibirAplicar
    <3>4. saldo'[f].enTransito = saldo[f].enTransito - llega
      BY <1>0, <3>0, <3>3 DEF RecibirFila, Transitar, Fijar
    <3>5. transfers[t].destino # f[1] => llega = 0
      BY DEF Parte
    <3> HIDE DEF llega, e, r
    <3>6. QED
      BY <1>0, <3>0, <3>1, <3>2, <3>4, <3>5
  <2>5. QED
    BY <2>2, <2>3, <2>4, TransitoCambia
<1>3. ASSUME NEW p \in Procesos, CancelarAplicar(p) PROVE EnTransitoCuadra'
  <2>0. PICK t : t = tx[p].transfer
    OBVIOUS
  <2>1. tx[p].op = "cancelar"
    BY <1>3 DEF CancelarAplicar
  <2>2. /\ t \in Transferencias /\ transfers[t] \in Transfer
        /\ transfers[t].estado = "EN_TRANSITO"
        /\ transfers[t].origen # transfers[t].destino
        /\ transfers[t].enviado \in [Variantes -> Nat]
        /\ \A v \in Variantes : transfers[t].recibido[v] = 0
    BY <2>0, <2>1, TxTransfer DEF TxActual
  <2>3. /\ \A x \in Transferencias \ {t} : transfers'[x] = transfers[x]
        /\ transfers'[t].estado = "CANCELADA"
    BY <1>0, <1>3, <2>0, <2>2 DEF CancelarAplicar, Transfer
  <2>4. ASSUME NEW f \in Filas
        PROVE  /\ PorLlegar(t, f)' \in Int
               /\ saldo'[f].enTransito =
                    saldo[f].enTransito - PorLlegar(t, f) + PorLlegar(t, f)'
    <3> DEFINE vuelve == Parte(transfers[t].origen, transfers[t].enviado, f)
               sale == Parte(transfers[t].destino, transfers[t].enviado, f)
    <3>0. vuelve \in Nat /\ sale \in Nat /\ (vuelve > 0 => sale = 0)
      BY <2>2, ParteForma DEF Parte
    <3>1. PorLlegar(t, f) = sale
      BY <1>0, <2>2 DEF PorLlegar, Parte
    <3>2. PorLlegar(t, f)' = 0
      BY <2>3 DEF PorLlegar
    <3>3. saldo'[f] = IF vuelve > 0 THEN Fijar(saldo[f], saldo[f].enStock + vuelve)
                      ELSE IF sale > 0
                        THEN Transitar(saldo[f], SinBajarDeCero(saldo[f].enTransito - sale))
                      ELSE saldo[f]
      BY <1>3, <2>0 DEF CancelarAplicar
    <3>4. sale <= saldo[f].enTransito
      <4> DEFINE a == [x \in Transferencias |-> PorLlegar(x, f)]
      <4>1. \A x \in Transferencias : a[x] \in Nat
        BY PorLlegarForma
      <4>2. a[t] <= SumFunctionOnSet(a, Transferencias)
        <5> HIDE DEF a
        <5>1. QED
          BY <2>2, <4>1, SumaMayor
      <4>3. QED
        BY <2>2, <3>1, <4>2 DEF EnTransitoCuadra
    <3> HIDE DEF vuelve, sale
    <3>5. saldo'[f].enTransito = saldo[f].enTransito - sale
      BY <1>0, <3>0, <3>3, <3>4 DEF Transitar, Fijar, SinBajarDeCero
    <3>6. QED
      BY <1>0, <3>0, <3>1, <3>2, <3>5
  <2>5. QED
    BY <2>2, <2>3, <2>4, TransitoCambia
<1>4. CASE TransitoIgual
  BY <1>4 DEF TransitoIgual, EnTransitoCuadra, PorLlegar
<1>5. QED
  BY <1>1, <1>2, <1>3, <1>4, SoloTransfers

\* Transfers stay within what was sent.
LEMMA TransferOKPaso ==
  ASSUME Inv, TransferOK, TxActual, [Next]_vars
  PROVE  TransferOK'
<1>0. transfers \in [Transferencias -> Transfer \cup {NoTransfer}]
  BY DEF Inv, DocsOK
<1>1. ASSUME NEW t \in Transferencias, \A x \in Transferencias \ {t} : transfers'[x] = transfers[x],
             transfers'[t].origen # transfers'[t].destino,
             \A v \in Variantes : transfers'[t].recibido[v] <= transfers'[t].enviado[v]
      PROVE  TransferOK'
  BY <1>1 DEF TransferOK
<1>2. ASSUME NEW t \in Transferencias, NEW o \in Almacenes, NEW d \in Almacenes,
             NEW cant \in Articulos, NEW k \in Claves, CrearTransferencia(t, o, d, cant, k)
      PROVE  TransferOK'
  <2>1. \A v \in Variantes : cant[v] \in Nat
    BY ArticulosNat
  <2>2. /\ \A x \in Transferencias \ {t} : transfers'[x] = transfers[x]
        /\ transfers'[t] = [estado |-> "EN_TRANSITO", origen |-> o, destino |-> d,
                            enviado |-> cant, recibido |-> [v \in Variantes |-> 0]]
        /\ o # d
    BY <1>0, <1>2 DEF CrearTransferencia
  <2>3. QED
    BY <1>1, <2>1, <2>2
<1>3. ASSUME NEW p \in Procesos, RecibirAplicar(p) PROVE TransferOK'
  <2>0. PICK t : t = tx[p].transfer
    OBVIOUS
  <2>1. t \in Transferencias /\ transfers[t].origen # transfers[t].destino
    BY <1>3, <2>0, TxTransfer DEF RecibirAplicar
  <2>2. /\ \A x \in Transferencias \ {t} : transfers'[x] = transfers[x]
        /\ transfers'[t].origen # transfers'[t].destino
        /\ \A v \in Variantes : transfers'[t].recibido[v] <= transfers'[t].enviado[v]
    BY <1>3, <2>0, <2>1, Recepcion
  <2>3. QED
    BY <1>1, <2>1, <2>2
<1>4. ASSUME NEW p \in Procesos, CancelarAplicar(p) PROVE TransferOK'
  <2>0. PICK t : t = tx[p].transfer
    OBVIOUS
  <2>1. /\ t \in Transferencias /\ transfers[t] \in Transfer
        /\ transfers[t].origen # transfers[t].destino
        /\ \A v \in Variantes : transfers[t].recibido[v] <= transfers[t].enviado[v]
    BY <1>4, <2>0, TxTransfer DEF CancelarAplicar
  <2>2. transfers' = [transfers EXCEPT ![t] = [transfers[t] EXCEPT !.estado = "CANCELADA"]]
    BY <1>4, <2>0 DEF CancelarAplicar
  <2>3. /\ \A x \in Transferencias \ {t} : transfers'[x] = transfers[x]
        /\ transfers'[t].origen = transfers[t].origen
        /\ transfers'[t].destino = transfers[t].destino
        /\ transfers'[t].enviado = transfers[t].enviado
        /\ transfers'[t].recibido = transfers[t].recibido
    BY <1>0, <2>1, <2>2 DEF Transfer
  <2>4. QED
    BY <1>1, <2>1, <2>3
<1>5. CASE TransitoIgual
  BY <1>5 DEF TransitoIgual, TransferOK
<1>6. QED
  BY <1>2, <1>3, <1>4, <1>5, SoloTransfers

\* With one process nobody changes the rows of the pending request: new reservations and
\* transfers take rows of their own, and any other write ends the request.
LEMMA TxActualPaso ==
  ASSUME UnProceso, Inv, TransferOK, TxActual, [Next]_vars
  PROVE  TxActual'
<1>0. /\ tx \in [Procesos -> Tx]
      /\ reservas \in [Reservas -> Reserva \cup {NoReserva}]
      /\ transfers \in [Transferencias -> Transfer \cup {NoTransfer}]
  BY DEF Inv, DocsOK
<1>1. ASSUME tx' = tx,
             \A r \in Reservas : reservas[r] \in Reserva => reservas'[r] = reservas[r],
             \A t \in Transferencias : transfers[t] \in Transfer => transfers'[t] = transfers[t]
      PROVE  TxActual'
  <2> SUFFICES ASSUME NEW p \in Procesos
      PROVE /\ tx[p].op = "liberar" => reservas'[tx[p].reserva] = reservas[tx[p].reserva]
            /\ tx[p].op \in {"recibir", "cancelar"} =>
                 transfers'[tx[p].transfer] = transfers[tx[p].transfer]
    BY <1>1 DEF TxActual
  <2>1. tx[p] \in Tx
    BY <1>0
  <2>2. QED
    BY <1>1, <2>1, TxForma DEF Inv, DocsOK, TxVigente
<1>2. ASSUME NEW f \in Filas, NEW q \in Cantidades, Movimiento(f, q) PROVE TxActual'
  <2>1. ASSUME NEW r \in Reservas, CrearReserva(r, f, q) PROVE TxActual'
    <3>1. /\ tx' = tx /\ transfers' = transfers
          /\ \A x \in Reservas \ {r} : reservas'[x] = reservas[x]
          /\ reservas[r] = NoReserva
      BY <1>0, <2>1 DEF CrearReserva
    <3>2. NoReserva \notin Reserva
      BY EstadoDeFila DEF NoReserva
    <3>3. QED
      BY <1>1, <3>1, <3>2
  <2>2. CASE ~ \E r \in Reservas : CrearReserva(r, f, q)
    <3>1. UNCHANGED <<reservas, transfers, tx>>
      BY <1>2, <2>2 DEF Movimiento, StockInicial, Ajustar, Vender, Ingresar, Mover
    <3>2. QED
      BY <1>1, <3>1
  <2>3. QED
    BY <2>1, <2>2
<1>3. CASE Alta
  <2>1. ASSUME NEW t \in Transferencias, NEW o \in Almacenes, NEW d \in Almacenes,
               NEW cant \in Articulos, NEW k \in Claves, CrearTransferencia(t, o, d, cant, k)
        PROVE  TxActual'
    <3>1. /\ tx' = tx /\ reservas' = reservas
          /\ \A x \in Transferencias \ {t} : transfers'[x] = transfers[x]
          /\ transfers[t] = NoTransfer
      BY <1>0, <2>1 DEF CrearTransferencia
    <3>2. NoTransfer \notin Transfer
      BY EstadoDeFila DEF NoTransfer
    <3>3. QED
      BY <1>1, <3>1, <3>2
  <2>2. CASE (\E f \in Filas : DefinirNivel(f)) \/ (\E c \in Conteos, a \in Almacenes : CrearConteo(c, a))
    <3>1. UNCHANGED <<reservas, transfers, tx>>
      BY <2>2 DEF DefinirNivel, CrearConteo
    <3>2. QED
      BY <1>1, <3>1
  <2>3. QED
    BY <1>3, <2>1, <2>2 DEF Alta
<1>4. ASSUME NEW p \in Procesos, Peticion(p) PROVE TxActual'
  <2>0. \A o \in Procesos : o = p
    BY DEF UnProceso
  <2>1. ASSUME NEW x, tx' = [tx EXCEPT ![p] = x],
               x.op \notin {"liberar", "recibir", "cancelar"}
        PROVE  TxActual'
    <3>1. \A o \in Procesos : tx'[o] = x
      BY <1>0, <2>0, <2>1
    <3>2. QED
      BY <2>1, <3>1 DEF TxActual
  <2>2. ASSUME NEW r \in Reservas, LiberarLeer(p, r) PROVE TxActual'
    <3>1. \A o \in Procesos : tx'[o] = [op |-> "liberar", reserva |-> r]
      BY <1>0, <2>0, <2>2 DEF LiberarLeer
    <3>2. reservas'[r].estado = "ACTIVA"
      BY <2>2 DEF LiberarLeer
    <3>3. QED
      BY <3>1, <3>2 DEF TxActual
  <2>3. ASSUME NEW t \in Transferencias, NEW cant \in Articulos, NEW k \in Claves,
               RecibirLeer(p, t, cant, k)
        PROVE  TxActual'
    <3>1. \A o \in Procesos : tx'[o] = [op |-> "recibir", transfer |-> t, clave |-> k,
                                        ahora |-> cant, previo |-> transfers[t].recibido]
      BY <1>0, <2>0, <2>3 DEF RecibirLeer
    <3>2. /\ transfers' = transfers
          /\ transfers[t].estado \in {"EN_TRANSITO", "RECIBIDA_PARCIALMENTE"}
          /\ \A v \in Variantes : cant[v] <= transfers[t].enviado[v] - transfers[t].recibido[v]
      BY <2>3 DEF RecibirLeer
    <3>3. QED
      BY <3>1, <3>2 DEF TxActual
  <2>4. ASSUME NEW t \in Transferencias, CancelarLeer(p, t) PROVE TxActual'
    <3>1. \A o \in Procesos : tx'[o] = [op |-> "cancelar", transfer |-> t]
      BY <1>0, <2>0, <2>4 DEF CancelarLeer
    <3>2. /\ transfers'[t].estado = "EN_TRANSITO"
          /\ \A v \in Variantes : transfers'[t].recibido[v] = 0
      BY <2>4 DEF CancelarLeer
    <3>3. QED
      BY <3>1, <3>2 DEF TxActual
  <2>5. CASE ~ \/ \E r \in Reservas : LiberarLeer(p, r)
               \/ \E t \in Transferencias, cant \in Articulos, k \in Claves : RecibirLeer(p, t, cant, k)
               \/ \E t \in Transferencias : CancelarLeer(p, t)
    <3>1. ASSUME NEW x, tx' = [tx EXCEPT ![p] = x],
                 x.op \in {"libre", "registrar", "contabilizar", "cancelarConteo"}
          PROVE  TxActual'
      BY <2>1, <3>1
    <3>2. CASE \E c \in Conteos, v \in Variantes, q \in Contables : RegistrarConteoLeer(p, c, v, q)
      BY <3>1, <3>2 DEF RegistrarConteoLeer
    <3>3. CASE \E c \in Conteos : ContabilizarLeer(p, c)
      BY <3>1, <3>3 DEF ContabilizarLeer
    <3>4. CASE \E c \in Conteos : CancelarConteoLeer(p, c)
      BY <3>1, <3>4 DEF CancelarConteoLeer
    <3>5. CASE \/ LiberarAplicar(p) \/ RegistrarConteoAplicar(p) \/ ContabilizarAplicar(p)
               \/ CancelarConteoAplicar(p) \/ RecibirAplicar(p) \/ CancelarAplicar(p) \/ Abortar(p)
      <4>1. tx' = [tx EXCEPT ![p] = Libre]
        BY <3>5 DEF LiberarAplicar, RegistrarConteoAplicar, ContabilizarAplicar,
                    CancelarConteoAplicar, RecibirAplicar, CancelarAplicar, Abortar
      <4>2. QED
        BY <3>1, <4>1 DEF Libre
    <3>6. QED
      BY <1>4, <2>5, <3>2, <3>3, <3>4, <3>5 DEF Peticion
  <2>6. QED
    BY <2>2, <2>3, <2>4, <2>5
<1>5. CASE UNCHANGED vars
  BY <1>1, <1>5 DEF vars
<1>6. QED
  BY <1>2, <1>3, <1>4, <1>5 DEF Next

\* The inductive invariant of one process.
InvUno == Inv /\ TransferOK /\ TxActual /\ EnTransitoCuadra /\ ReservadoCuadra

\* No reservation and no transfer: every sum is zero.
LEMMA InitUno == Init => InvUno
<1> SUFFICES ASSUME Init PROVE InvUno
  OBVIOUS
<1>1. Inv
  BY InitCuadra, InitDocs DEF Inv
<1>2. TransferOK /\ TxActual
  BY EstadoDeFila DEF Init, TransferOK, TxActual, NoTransfer, Libre
<1>3. ASSUME NEW f \in Filas
      PROVE  /\ SumFunctionOnSet([t \in Transferencias |-> PorLlegar(t, f)], Transferencias) = 0
             /\ SumFunctionOnSet([r \in Reservas |-> Apartado(r, f)], Reservas) = 0
  <2>1. \A t \in Transferencias : [x \in Transferencias |-> PorLlegar(x, f)][t] = 0
    BY DEF Init, PorLlegar, NoTransfer
  <2>2. \A r \in Reservas : [x \in Reservas |-> Apartado(x, f)][r] = 0
    BY DEF Init, Apartado, NoReserva
  <2>3. QED
    BY <2>1, <2>2, SumaCero
<1>4. EnTransitoCuadra /\ ReservadoCuadra
  BY <1>3 DEF Init, EnTransitoCuadra, ReservadoCuadra, SinSaldo
<1>5. QED
  BY <1>1, <1>2, <1>4 DEF InvUno

\* Every step keeps it.
LEMMA PasoUno ==
  ASSUME UnProceso
  PROVE  InvUno /\ [Next]_vars => InvUno'
<1> SUFFICES ASSUME InvUno, [Next]_vars PROVE InvUno'
  OBVIOUS
<1>1. Inv'
  BY NextInv DEF InvUno
<1>2. TransferOK' /\ TxActual'
  BY TransferOKPaso, TxActualPaso DEF InvUno
<1>3. EnTransitoCuadra' /\ ReservadoCuadra'
  BY <1>1, TransitoPaso, ReservadoPaso DEF InvUno
<1>4. QED
  BY <1>1, <1>2, <1>3 DEF InvUno

\* When requests do not overlap, the quantity reserved of every row is the total of its
\* active reservations: liberarReserva never meets its clamp at zero.  The hypothesis is
\* what the code lacks, it reads the reservation without a lock.
THEOREM ReservadoSinSolape ==
  ASSUME UnProceso
  PROVE  Spec => []ReservadoCuadra
<1>1. InvUno => ReservadoCuadra
  BY DEF InvUno
<1>2. QED
  BY <1>1, InitUno, PasoUno, PTL DEF Spec

\* When requests do not overlap, the quantity in transit to every row is what its open
\* transfers have sent and not delivered, through partial receptions and cancellations.
THEOREM EnTransitoSinSolape ==
  ASSUME UnProceso
  PROVE  Spec => []EnTransitoCuadra
<1>1. InvUno => EnTransitoCuadra
  BY DEF InvUno
<1>2. QED
  BY <1>1, InitUno, PasoUno, PTL DEF Spec

\* No step leaves a final state: the pending request read a row that was not in one.
LEMMA PasoFinal ==
  ASSUME InvUno, [Next]_vars
  PROVE  /\ \A t \in Transferencias :
              transfers[t].estado \in {"RECIBIDA", "CANCELADA"} => transfers'[t] = transfers[t]
         /\ \A r \in Reservas : reservas[r].estado = "LIBERADA" => reservas'[r] = reservas[r]
<1> USE DEF InvUno
<1>0. /\ tx \in [Procesos -> Tx]
      /\ reservas \in [Reservas -> Reserva \cup {NoReserva}]
      /\ transfers \in [Transferencias -> Transfer \cup {NoTransfer}]
  BY DEF Inv, DocsOK
<1>1. ASSUME NEW t \in Transferencias, transfers[t].estado \in {"RECIBIDA", "CANCELADA"}
      PROVE  transfers'[t] = transfers[t]
  <2>1. ASSUME NEW u \in Transferencias, NEW o \in Almacenes, NEW d \in Almacenes,
               NEW cant \in Articulos, NEW k \in Claves, CrearTransferencia(u, o, d, cant, k)
        PROVE  transfers'[t] = transfers[t]
    BY <1>0, <1>1, <2>1 DEF CrearTransferencia, NoTransfer
  <2>2. ASSUME NEW p \in Procesos, RecibirAplicar(p) PROVE transfers'[t] = transfers[t]
    <3>1. transfers[tx[p].transfer].estado \in {"EN_TRANSITO", "RECIBIDA_PARCIALMENTE"}
      BY <2>2 DEF RecibirAplicar, TxActual
    <3>2. t # tx[p].transfer
      BY <1>1, <3>1
    <3>3. QED
      BY <1>1, <2>2, <3>2, Recepcion
  <2>3. ASSUME NEW p \in Procesos, CancelarAplicar(p) PROVE transfers'[t] = transfers[t]
    BY <1>0, <1>1, <2>3 DEF CancelarAplicar, TxActual
  <2>4. QED
    BY <2>1, <2>2, <2>3, SoloTransfers DEF TransitoIgual
<1>2. ASSUME NEW r \in Reservas, reservas[r].estado = "LIBERADA" PROVE reservas'[r] = reservas[r]
  <2>1. ASSUME NEW x \in Reservas, NEW f \in Filas, NEW q \in Cantidades, CrearReserva(x, f, q)
        PROVE  reservas'[r] = reservas[r]
    BY <1>0, <1>2, <2>1 DEF CrearReserva, NoReserva
  <2>2. ASSUME NEW p \in Procesos, LiberarAplicar(p) PROVE reservas'[r] = reservas[r]
    BY <1>0, <1>2, <2>2 DEF LiberarAplicar, TxActual
  <2>3. QED
    BY <2>1, <2>2, SoloReservas DEF ReservasIgual
<1>3. QED
  BY <1>1, <1>2

\* When requests do not overlap, a received or cancelled transfer and a released
\* reservation never change again.
THEOREM FinalesSinSolape ==
  ASSUME UnProceso
  PROVE  Spec => EstadosFinales
<1>1. InvUno /\ [Next]_vars =>
        [/\ \A t \in Transferencias :
              transfers[t].estado \in {"RECIBIDA", "CANCELADA"} => transfers'[t] = transfers[t]
         /\ \A r \in Reservas : reservas[r].estado = "LIBERADA" => reservas'[r] = reservas[r]]_vars
  BY PasoFinal
<1>2. QED
  BY <1>1, InitUno, PasoUno, PTL DEF Spec, EstadosFinales
=============================================================================

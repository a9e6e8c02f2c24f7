---------------------------- MODULE VentasProofs ----------------------------
(***************************************************************************)
(* Theorems about Ventas for every set of registers, sessions, carts and   *)
(* requests: first what holds whatever requests overlap, then what holds   *)
(* of requests that do not (UnProceso), as the code keeps the rest only    *)
(* then: what a request in flight has read is still so (InvUno), and what  *)
(* it is about to give back still fits (CabenTodas).                       *)
(* The lemmas about sums are those of Sumas.                               *)
(***************************************************************************)
EXTENDS Ventas, Sumas, TLAPS

\* The sessions are a function, and no two open ones share a register.
InvSesiones ==
  /\ sesiones = [s \in Sesiones |-> sesiones[s]]
  /\ UnaSesionPorCaja

\* A register has one open session at the start.
LEMMA SesionesInit == Init => InvSesiones
BY DEF Init, InvSesiones, UnaSesionPorCaja, EstaAbierta, NoSesion

\* Only abrir and cerrar write a session.
LEMMA SoloCajaEscribe ==
  ASSUME [Next]_vars
  PROVE  \/ UNCHANGED sesiones
         \/ \E p \in Procesos, s \in Sesiones, fondo \in Fondos : AbrirAplicar(p, s, fondo)
         \/ \E p \in Procesos, s \in Sesiones : Cerrar(p, s)
<1>1. CASE UNCHANGED vars
  BY <1>1 DEF vars
<1>2. \A p, c : AbrirLeer(p, c) => UNCHANGED sesiones
  BY DEF AbrirLeer
<1>3. \A p, s, tipo, monto : Mover(p, s, tipo, monto) => UNCHANGED sesiones
  BY DEF Mover
<1>4. \A p, k, s, lineas, pago, cliente, promos :
        CrearLeer(p, k, s, lineas, pago, cliente, promos) => UNCHANGED sesiones
  BY DEF CrearLeer
<1>5. \A p : CrearAplicar(p) => UNCHANGED sesiones
  BY DEF CrearAplicar
<1>6. \A p, d, k, items, caja : DevolverLeer(p, d, k, items, caja) => UNCHANGED sesiones
  BY DEF DevolverLeer
<1>7. \A p : DevolverDecidir(p) \/ DevolverAplicar(p) \/ Abortar(p) => UNCHANGED sesiones
  BY DEF DevolverDecidir, DevolverAplicar, Abortar
<1> QED
  BY <1>1, <1>2, <1>3, <1>4, <1>5, <1>6, <1>7 DEF Next, Caja, Mostrador

\* Every step keeps one open session per register: abrir finds the register free when
\* its insert reaches the index, and no other step opens a session.
LEMMA SesionesPaso == InvSesiones /\ [Next]_vars => InvSesiones'
<1> SUFFICES ASSUME InvSesiones, [Next]_vars PROVE InvSesiones'
  OBVIOUS
<1> USE DEF InvSesiones, UnaSesionPorCaja, EstaAbierta
<1>1. CASE UNCHANGED sesiones
  BY <1>1
<1>2. ASSUME NEW p \in Procesos, NEW s \in Sesiones, NEW fondo \in Fondos,
             AbrirAplicar(p, s, fondo)
      PROVE  InvSesiones'
  <2>1. /\ ~Ocupada(tx[p].caja)
        /\ sesiones' = [sesiones EXCEPT ![s] = [estado |-> "ABIERTA", caja |-> tx[p].caja]]
    BY <1>2 DEF AbrirAplicar
  <2>2. sesiones' = [r \in Sesiones |-> IF r = s THEN [estado |-> "ABIERTA", caja |-> tx[p].caja]
                                                 ELSE sesiones[r]]
    BY <2>1
  <2>3. \A r \in Sesiones : sesiones[r].estado = "ABIERTA" => sesiones[r].caja # tx[p].caja
    BY <2>1 DEF Ocupada
  <2> QED BY <2>2, <2>3
<1>3. ASSUME NEW p \in Procesos, NEW s \in Sesiones, Cerrar(p, s)
      PROVE  InvSesiones'
  <2>1. sesiones' = [r \in Sesiones |->
                       IF r = s THEN [estado |-> "CONCILIADA", caja |-> sesiones[s].caja,
                                      esperado |-> calcularEsperado(movs[s])]
                                ELSE sesiones[r]]
    BY <1>3 DEF Cerrar
  <2> QED BY <2>1
<1> QED
  BY <1>1, <1>2, <1>3, SoloCajaEscribe

\* A register never has two open sessions, whatever requests to open it overlap.
THEOREM UnaSesionAbierta == Spec => []UnaSesionPorCaja
<1>1. InvSesiones => UnaSesionPorCaja
  BY DEF InvSesiones
<1> QED BY <1>1, SesionesInit, SesionesPaso, PTL DEF Spec

\* No step touches a reconciled session: cerrar reads the state under its lock, and a
\* new session takes an id of its own.
THEOREM SesionConciliadaEsFinal == Spec => SesionFirme
<1>1. InvSesiones /\ [Next]_vars
        => [\A s \in Sesiones : sesiones[s].estado = "CONCILIADA" => sesiones'[s] = sesiones[s]]_vars
  <2> SUFFICES ASSUME InvSesiones, Next, NEW r \in Sesiones, sesiones[r].estado = "CONCILIADA"
               PROVE  sesiones'[r] = sesiones[r]
    OBVIOUS
  <2> USE DEF InvSesiones, EstaAbierta
  <2>1. CASE UNCHANGED sesiones
    BY <2>1
  <2>2. ASSUME NEW p \in Procesos, NEW s \in Sesiones, NEW fondo \in Fondos,
               AbrirAplicar(p, s, fondo)
        PROVE  sesiones'[r] = sesiones[r]
    <3>1. r # s
      BY <2>2 DEF AbrirAplicar, NoSesion
    <3> QED BY <2>2, <3>1 DEF AbrirAplicar
  <2>3. ASSUME NEW p \in Procesos, NEW s \in Sesiones, Cerrar(p, s)
        PROVE  sesiones'[r] = sesiones[r]
    <3>1. r # s
      BY <2>3 DEF Cerrar
    <3> QED BY <2>3, <3>1 DEF Cerrar
  <2> QED
    BY <2>1, <2>2, <2>3, SoloCajaEscribe
<1> QED BY <1>1, SesionesInit, SesionesPaso, PTL DEF Spec, SesionFirme

-----------------------------------------------------------------------------
(* Requests that do not overlap *)

\* Requests do not overlap: there is one process.
UnProceso == \A p, q \in Procesos : p = q

\* With one process, the session a request found open is open until it commits: closing
\* it needs that same process to be free.
InvTurno ==
  /\ sesiones = [s \in Sesiones |-> sesiones[s]]
  /\ movs = [s \in Sesiones |-> movs[s]]
  /\ tx = [p \in Procesos |-> tx[p]]
  /\ \A p \in Procesos :
       /\ tx[p].op = "vender" => tx[p].sesion \in Sesiones /\ EstaAbierta(tx[p].sesion)
       /\ tx[p].op = "decidido" => \A s \in tx[p].caja \cap Sesiones : EstaAbierta(s)
  /\ ArqueoCuadra

\* Nothing is in flight and no session exists at the start.
LEMMA TurnoInit == Init => InvTurno
BY DEF Init, InvTurno, ArqueoCuadra, EstaAbierta, NoSesion, Libre

\* Every step of the only process keeps the movements of a reconciled session.
LEMMA TurnoPaso ==
  ASSUME UnProceso
  PROVE  InvTurno /\ [Next]_vars => InvTurno'
<1> SUFFICES ASSUME InvTurno, [Next]_vars PROVE InvTurno'
  OBVIOUS
<1> USE DEF InvTurno, ArqueoCuadra, EstaAbierta, Libre
<1>1. CASE UNCHANGED vars
  BY <1>1 DEF vars
<1>2. ASSUME NEW p \in Procesos, NEW c \in Cajas, AbrirLeer(p, c)
      PROVE  InvTurno'
  BY <1>2 DEF AbrirLeer
<1>3. ASSUME NEW p \in Procesos, NEW s \in Sesiones, NEW fondo \in Fondos,
             AbrirAplicar(p, s, fondo)
      PROVE  InvTurno'
  <2>1. /\ \A q \in Procesos : tx'[q] = Libre
        /\ tx' = [q \in Procesos |-> tx'[q]]
    BY <1>3 DEF AbrirAplicar, UnProceso
  <2>2. /\ sesiones' = [r \in Sesiones |-> sesiones'[r]]
        /\ sesiones'[s].estado = "ABIERTA"
        /\ \A r \in Sesiones \ {s} : sesiones'[r] = sesiones[r]
    BY <1>3 DEF AbrirAplicar
  <2>3. /\ movs' = [r \in Sesiones |-> movs'[r]]
        /\ \A r \in Sesiones \ {s} : movs'[r] = movs[r]
    BY <1>3 DEF AbrirAplicar, Registrar
  <2> QED BY <2>1, <2>2, <2>3
<1>4. ASSUME NEW p \in Procesos, NEW s \in Sesiones, Cerrar(p, s)
      PROVE  InvTurno'
  <2>1. /\ \A q \in Procesos : tx'[q] = Libre
        /\ tx' = tx /\ movs' = movs
    BY <1>4 DEF Cerrar, UnProceso
  <2>2. /\ sesiones' = [r \in Sesiones |-> sesiones'[r]]
        /\ sesiones'[s].esperado = calcularEsperado(movs[s])
        /\ \A r \in Sesiones \ {s} : sesiones'[r] = sesiones[r]
    BY <1>4 DEF Cerrar
  <2> QED BY <2>1, <2>2
<1>5. ASSUME NEW p \in Procesos, NEW s \in Sesiones, NEW tipo \in Manuales, NEW monto \in Montos,
             Mover(p, s, tipo, monto)
      PROVE  InvTurno'
  <2>1. /\ tx' = tx /\ sesiones' = sesiones
        /\ sesiones[s].estado = "ABIERTA"
    BY <1>5 DEF Mover
  <2>2. /\ movs' = [r \in Sesiones |-> movs'[r]]
        /\ \A r \in Sesiones \ {s} : movs'[r] = movs[r]
    BY <1>5 DEF Mover, Registrar
  <2> QED BY <2>1, <2>2
<1>6. ASSUME NEW p \in Procesos, NEW k, NEW s \in Sesiones, NEW lineas, NEW pago, NEW cliente,
             NEW promos, CrearLeer(p, k, s, lineas, pago, cliente, promos)
      PROVE  InvTurno'
  BY <1>6 DEF CrearLeer
<1>7. ASSUME NEW p \in Procesos, CrearAplicar(p)
      PROVE  InvTurno'
  <2>1. /\ sesiones' = sesiones
        /\ tx[p].sesion \in Sesiones
        /\ sesiones[tx[p].sesion].estado = "ABIERTA"
    BY <1>7 DEF CrearAplicar
  <2>2. /\ tx' = [q \in Procesos |-> tx'[q]]
        /\ \A q \in Procesos : tx'[q] = Libre
    BY <1>7 DEF CrearAplicar, UnProceso
  <2>3. /\ movs' = [r \in Sesiones |-> movs'[r]]
        /\ \A r \in Sesiones \ {tx[p].sesion} : movs'[r] = movs[r]
    BY <1>7 DEF CrearAplicar, Registrar
  <2> QED BY <2>1, <2>2, <2>3
<1>8. ASSUME NEW p \in Procesos, NEW d, NEW k, NEW items, NEW caja,
             DevolverLeer(p, d, k, items, caja)
      PROVE  InvTurno'
  BY <1>8 DEF DevolverLeer
<1>9. ASSUME NEW p \in Procesos, DevolverDecidir(p)
      PROVE  InvTurno'
  <2>1. /\ sesiones' = sesiones /\ movs' = movs
        /\ tx' = [q \in Procesos |-> tx'[q]]
        /\ tx'[p].op = "decidido"
        /\ tx'[p].caja = tx[p].caja
        /\ \A s \in tx[p].caja : sesiones[s].estado = "ABIERTA"
    BY <1>9 DEF DevolverDecidir
  <2>2. \A q \in Procesos : q = p
    BY DEF UnProceso
  <2> QED BY <2>1, <2>2
<1>10. ASSUME NEW p \in Procesos, DevolverAplicar(p)
       PROVE  InvTurno'
  <2>1. /\ \A s \in Sesiones : sesiones'[s].estado = sesiones[s].estado
        /\ sesiones' = sesiones
        /\ \A s \in tx[p].caja \cap Sesiones : sesiones[s].estado = "ABIERTA"
    BY <1>10 DEF DevolverAplicar
  <2>2. /\ tx' = [q \in Procesos |-> tx'[q]]
        /\ \A q \in Procesos : tx'[q] = Libre
    BY <1>10 DEF DevolverAplicar, UnProceso
  <2>3. /\ movs' = [r \in Sesiones |-> movs'[r]]
        /\ \A r \in Sesiones \ tx[p].caja : movs'[r] = movs[r]
    BY <1>10 DEF DevolverAplicar
  <2> QED BY <2>1, <2>2, <2>3
<1>11. ASSUME NEW p \in Procesos, Abortar(p)
       PROVE  InvTurno'
  BY <1>11 DEF Abortar
<1> QED
  BY <1>1, <1>2, <1>3, <1>4, <1>5, <1>6, <1>7, <1>8, <1>9, <1>10, <1>11
  DEF Next, Caja, Mostrador

\* When requests do not overlap, the expected cash of a reconciled session stays what its
\* movements add up to.  The hypothesis is what the code lacks: a sale reads the session
\* without a lock.
THEOREM ArqueoSinSolape ==
  ASSUME UnProceso
  PROVE  Spec => []ArqueoCuadra
<1>1. InvTurno => ArqueoCuadra
  BY DEF InvTurno
<1> QED BY <1>1, TurnoInit, TurnoPaso, PTL DEF Spec

-----------------------------------------------------------------------------
(* The inductive invariant of requests that overlap *)

\* What the pending requests remember of sales and refunds.  Two refunds that have been
\* decided insert different keys.
Vigente ==
  /\ \A p \in Procesos :
       /\ tx[p].op \in {"devolver", "decidido"} => ventas[tx[p].venta] # NoVenta
       /\ tx[p].op = "decidido" => devs[tx[p].dev] = NoDev
  /\ \A p, q \in Procesos :
       tx[p].op = "decidido" /\ tx[q].op = "decidido" /\ tx[p].dev = tx[q].dev => p = q

-----------------------------------------------------------------------------
(* Every sale is in the drawer and out of the stock once *)

\* The items of a refund are some, each of a line and of a positive quantity.
LEMMA ItemsForma ==
  ASSUME NEW items \in Items
  PROVE  /\ IsFiniteSet(DOMAIN items) /\ DOMAIN items # {}
         /\ \A i \in DOMAIN items : /\ items[i].linea \in Lineas
                                    /\ items[i].cantidad \in Nat /\ items[i].cantidad > 0
<1>1. PICK n \in 1 .. MaxItems : items \in [1 .. n -> Item]
  BY DEF Items
<1>2. IsFiniteSet(1 .. n) /\ 1 \in 1 .. n
  BY <1>1, VentasAssumption, FS_Interval
<1>3. \A i \in DOMAIN items : items[i].linea \in Lineas /\ items[i].cantidad \in Cantidades
  BY <1>1 DEF Item
<1>4. \A q \in Cantidades : q \in Nat /\ q > 0
  BY VentasAssumption
<1>5. QED
  BY <1>1, <1>2, <1>3, <1>4

\* Units counted are naturals.
LEMMA CuentaNat ==
  ASSUME NEW items \in Items, NEW l
  PROVE  Cuenta(items, l) \in Nat /\ Reingresado(items, l) \in Nat
<1> DEFINE f == [i \in DOMAIN items |-> IF items[i].linea = l THEN items[i].cantidad ELSE 0]
           g == [i \in DOMAIN items |->
                   IF items[i].linea = l /\ items[i].reingresa THEN items[i].cantidad ELSE 0]
<1>1. \A i \in DOMAIN items : f[i] \in Nat /\ g[i] \in Nat
  BY ItemsForma
<1>2. DOMAIN f = DOMAIN items /\ DOMAIN g = DOMAIN items
  OBVIOUS
<1> HIDE DEF f, g
<1>3. SumFunction(f) \in Nat /\ SumFunction(g) \in Nat
  BY <1>1, <1>2, ItemsForma, SumaNatural DEF SumFunction
<1>4. QED
  BY <1>3 DEF f, g, Cuenta, Reingresado

\* The amount of a refund is a natural.
LEMMA MontoNat ==
  ASSUME NEW items \in Items
  PROVE  SumFunctionOnSet([l \in Lineas |-> Cuenta(items, l)], Lineas) \in Nat
<1> DEFINE f == [l \in Lineas |-> Cuenta(items, l)]
<1>1. \A l \in Lineas : f[l] \in Nat
  BY CuentaNat
<1> HIDE DEF f
<1>2. SumFunctionOnSet(f, Lineas) \in Nat
  BY <1>1, VentasAssumption, SumaNatural
<1>3. QED
  BY <1>2 DEF f

\* The total of a sale is a natural.
LEMMA TotalNat ==
  ASSUME NEW lineas \in Carritos
  PROVE  total(lineas) \in Nat /\ \A l \in Lineas : lineas[l] \in Nat
<1>1. \A l \in Lineas : lineas[l] \in Nat
  BY VentasAssumption
<1>2. QED
  BY <1>1, VentasAssumption, SumaNatural DEF total

\* The types of movement.
LEMMA Tipos ==
  TiposMovimiento = {"FONDO_APERTURA", "VENTA_EFECTIVO", "INGRESO_EFECTIVO",
                     "DEVOLUCION_EFECTIVO", "EGRESO_EFECTIVO"}
BY DEF TiposMovimiento, SIGNO_MOVIMIENTO

\* Expected cash is an integer.
LEMMA EsperadoEntero ==
  ASSUME NEW m \in [TiposMovimiento -> Nat]
  PROVE  calcularEsperado(m) \in Int
<1> DEFINE f == [t \in TiposMovimiento |-> SIGNO_MOVIMIENTO[t] * m[t]]
<1>1. \A t \in TiposMovimiento : f[t] \in Int
  <2>1. \A t \in TiposMovimiento : SIGNO_MOVIMIENTO[t] \in {-1, 1} /\ m[t] \in Nat
    BY Tipos DEF SIGNO_MOVIMIENTO
  <2>2. \A t \in TiposMovimiento : (-1) * m[t] \in Int /\ 1 * m[t] \in Int
    BY <2>1
  <2>3. QED
    BY <2>1, <2>2
<1>2. IsFiniteSet(TiposMovimiento)
  <2>1. TiposMovimiento = ((({"FONDO_APERTURA"} \cup {"VENTA_EFECTIVO"}) \cup {"INGRESO_EFECTIVO"})
                             \cup {"DEVOLUCION_EFECTIVO"}) \cup {"EGRESO_EFECTIVO"}
    BY Tipos
  <2>2. QED
    BY <2>1, FS_Singleton, FS_Union
<1> HIDE DEF f
<1>3. SumFunctionOnSet(f, TiposMovimiento) \in Int
  BY <1>1, <1>2, SumaEntera
<1>4. QED
  BY <1>3 DEF f, calcularEsperado

\* A movement adds to its type, in its session.
LEMMA RegistrarForma ==
  ASSUME TypeOK, NEW s \in Sesiones, NEW tipo \in TiposMovimiento, NEW monto \in Nat,
         movs' = Registrar(s, tipo, monto)
  PROVE  /\ movs' \in [Sesiones -> [TiposMovimiento -> Nat]]
         /\ \A r \in Sesiones, t \in TiposMovimiento :
              movs'[r][t] = IF r = s /\ t = tipo THEN movs[r][t] + monto ELSE movs[r][t]
BY DEF TypeOK, Registrar

\* What a pending request holds.
LEMMA TxForma ==
  ASSUME TypeOK, NEW p \in Procesos
  PROVE  /\ tx[p].op = "vender" =>
              /\ tx[p].clave \in Claves /\ tx[p].sesion \in Sesiones /\ tx[p].lineas \in Carritos
              /\ tx[p].pago \in Pagos /\ tx[p].cliente \in BOOLEAN /\ tx[p].promos \in SUBSET Promos
         /\ tx[p].op \in {"devolver", "decidido"} =>
              /\ tx[p].dev \in Devs /\ tx[p].venta \in Claves /\ tx[p].items \in Items
              /\ tx[p].caja \in SUBSET Sesiones
         /\ tx[p].op = "decidido" => tx[p].todo \in BOOLEAN
         /\ tx[p].op = "abrir" => tx[p].caja \in Cajas
<1>1. tx[p] \in Tx
  BY DEF TypeOK
<1>2. QED
  BY <1>1 DEF Tx, Libre

\* What the commit of a sale writes.
LEMMA VentaNueva ==
  ASSUME TypeOK, NEW p \in Procesos, CrearAplicar(p)
  PROVE  /\ tx[p].clave \in Claves /\ ventas[tx[p].clave] = NoVenta
         /\ \A k \in Claves \ {tx[p].clave} : ventas'[k] = ventas[k]
         /\ ventas'[tx[p].clave] \in Venta
         /\ ventas'[tx[p].clave].estado \in EstadosPago
         /\ ventas'[tx[p].clave].sesion = tx[p].sesion
         /\ ventas'[tx[p].clave].lineas = tx[p].lineas
         /\ ventas'[tx[p].clave].pago = tx[p].pago
         /\ ventas'[tx[p].clave].promos = tx[p].promos
         /\ ventas' \in [Claves -> Venta \cup {NoVenta}]
<1> DEFINE v == tx[p]
           pagado == v.pago.efectivo + v.pago.otros
           saldo == total(v.lineas) - pagado
           n == [estado |-> resolverEstado(total(v.lineas), pagado), sesion |-> v.sesion,
                 lineas |-> v.lineas, pago |-> v.pago, promos |-> v.promos,
                 deuda |-> IF v.cliente /\ saldo > 0 THEN saldo ELSE 0]
<1>1. /\ v.clave \in Claves /\ v.sesion \in Sesiones /\ v.lineas \in Carritos
      /\ v.pago \in Pagos /\ v.promos \in SUBSET Promos
  BY TxForma DEF CrearAplicar
<1>2. pagado \in Nat /\ total(v.lineas) \in Nat
  BY <1>1, VentasAssumption, TotalNat
<1>3. resolverEstado(total(v.lineas), pagado) \in EstadosPago
  BY DEF resolverEstado, EstadosPago
<1>4. (IF v.cliente /\ saldo > 0 THEN saldo ELSE 0) \in Nat
  BY <1>2
<1>5. n \in Venta
  <2> HIDE DEF saldo, pagado
  <2>1. QED
    BY <1>1, <1>3, <1>4 DEF Venta
<1>6. ventas[v.clave] = NoVenta /\ ventas' = [ventas EXCEPT ![v.clave] = n]
  BY DEF CrearAplicar
<1>7. /\ n.estado \in EstadosPago /\ n.sesion = v.sesion /\ n.lineas = v.lineas
      /\ n.pago = v.pago /\ n.promos = v.promos
  BY <1>3
<1> HIDE DEF n
<1>8. ventas'[v.clave] = n /\ \A k \in Claves \ {v.clave} : ventas'[k] = ventas[k]
  BY <1>1, <1>6 DEF TypeOK
<1>9. ventas' \in [Claves -> Venta \cup {NoVenta}]
  BY <1>5, <1>6 DEF TypeOK
<1>10. QED
  BY <1>1, <1>5, <1>6, <1>7, <1>8, <1>9

\* What the commit of refund d of sale k writes.
Inserta(p, d, k) ==
  /\ d \in Devs /\ devs[d] = NoDev
  /\ devs'[d] = [venta |-> k, items |-> tx[p].items, caja |-> tx[p].caja]
  /\ \A x \in Devs \ {d} : devs'[x] = devs[x]
  /\ devs' \in [Devs -> Dev \cup {NoDev}]
  /\ k \in Claves /\ ventas[k] \in Venta /\ ventas[k] # NoVenta
  /\ ventas'[k] = [ventas[k] EXCEPT !.estado = IF tx[p].todo THEN "DEVUELTA"
                                                              ELSE "DEVUELTA_PARCIALMENTE"]
  /\ ventas'[k] \in Venta
  /\ \A x \in Claves \ {k} : ventas'[x] = ventas[x]
  /\ ventas' \in [Claves -> Venta \cup {NoVenta}]

\* A refund that was decided inserts a row of its own and rewrites the state of its sale.
LEMMA DevNueva ==
  ASSUME TypeOK, Vigente, NEW p \in Procesos, DevolverAplicar(p)
  PROVE  \E d, k : d = tx[p].dev /\ k = tx[p].venta /\ Inserta(p, d, k)
<1>0. PICK d, k : d = tx[p].dev /\ k = tx[p].venta
  OBVIOUS
<1>1. /\ d \in Devs /\ k \in Claves /\ tx[p].items \in Items /\ tx[p].caja \in SUBSET Sesiones
      /\ devs[d] = NoDev /\ ventas[k] # NoVenta
  BY <1>0, TxForma DEF DevolverAplicar, Vigente
<1>2. ventas[k] \in Venta
  BY <1>1 DEF TypeOK
<1>3. PICK e \in {"DEVUELTA", "DEVUELTA_PARCIALMENTE"} :
        /\ e = IF tx[p].todo THEN "DEVUELTA" ELSE "DEVUELTA_PARCIALMENTE"
        /\ ventas' = [ventas EXCEPT ![k] = [ventas[k] EXCEPT !.estado = e]]
  BY <1>0 DEF DevolverAplicar
<1>4. [ventas[k] EXCEPT !.estado = e] \in Venta
  BY <1>2, <1>3 DEF Venta
<1>5. /\ ventas'[k] = [ventas[k] EXCEPT !.estado = e]
      /\ \A x \in Claves \ {k} : ventas'[x] = ventas[x]
      /\ ventas' \in [Claves -> Venta \cup {NoVenta}]
  BY <1>1, <1>3, <1>4 DEF TypeOK
<1> DEFINE n == [venta |-> k, items |-> tx[p].items, caja |-> tx[p].caja]
<1>6. n \in Dev
  BY <1>1 DEF Dev
<1>7. devs' = [devs EXCEPT ![d] = n]
  BY <1>0 DEF DevolverAplicar
<1> HIDE DEF n
<1>8. devs'[d] = n /\ (\A x \in Devs \ {d} : devs'[x] = devs[x]) /\ devs' \in [Devs -> Dev \cup {NoDev}]
  BY <1>1, <1>6, <1>7 DEF TypeOK
<1>9. Inserta(p, d, k)
  BY <1>1, <1>2, <1>3, <1>4, <1>5, <1>8 DEF n, Inserta
<1>10. QED
  BY <1>0, <1>9

\* A request that reads, decides or gives up writes its own memory only.
LEMMA TxTipo ==
  ASSUME TypeOK, UNCHANGED <<sesiones, movs, ventas, devs, uso, stock>>,
         NEW p \in Procesos, NEW x \in Tx, tx' = [tx EXCEPT ![p] = x]
  PROVE  TypeOK'
BY DEF TypeOK

\* Every step keeps the types: the stock is checked before it is taken and a use is only
\* given back when there is one.
LEMMA TipoPaso ==
  ASSUME TypeOK, Vigente, [Next]_vars
  PROVE  TypeOK'
<1> USE VentasAssumption
<1>0. Libre \in Tx
  BY DEF Tx
<1>1. CASE UNCHANGED vars
  BY <1>1 DEF vars, TypeOK
<1>2. ASSUME NEW p \in Procesos, NEW c \in Cajas, AbrirLeer(p, c) PROVE TypeOK'
  <2>1. [op |-> "abrir", caja |-> c] \in Tx
    BY DEF Tx
  <2>2. QED
    BY <1>2, <2>1, TxTipo DEF AbrirLeer
<1>3. ASSUME NEW p \in Procesos, NEW s \in Sesiones, NEW fondo \in Fondos,
             AbrirAplicar(p, s, fondo)
      PROVE  TypeOK'
  <2>1. movs' \in [Sesiones -> [TiposMovimiento -> Nat]]
    BY <1>3, RegistrarForma, Tipos DEF AbrirAplicar
  <2>2. tx[p].caja \in Cajas
    BY <1>3, TxForma DEF AbrirAplicar
  <2>3. [estado |-> "ABIERTA", caja |-> tx[p].caja] \in Abierta
    BY <2>2 DEF Abierta
  <2>4. sesiones' \in [Sesiones -> Abierta \cup Conciliada \cup {NoSesion}]
    BY <1>3, <2>3 DEF AbrirAplicar, TypeOK
  <2>5. tx' \in [Procesos -> Tx] /\ UNCHANGED <<ventas, devs, uso, stock>>
    BY <1>0, <1>3 DEF AbrirAplicar, TypeOK
  <2>6. QED
    BY <2>1, <2>4, <2>5 DEF TypeOK
<1>4. ASSUME NEW p \in Procesos, NEW s \in Sesiones, Cerrar(p, s) PROVE TypeOK'
  <2>1. sesiones[s] \in Abierta
    BY <1>4 DEF Cerrar, EstaAbierta, TypeOK, Conciliada, NoSesion
  <2>2. calcularEsperado(movs[s]) \in Int
    BY EsperadoEntero DEF TypeOK
  <2>3. [estado |-> "CONCILIADA", caja |-> sesiones[s].caja, esperado |-> calcularEsperado(movs[s])]
          \in Conciliada
    BY <2>1, <2>2 DEF Abierta, Conciliada
  <2>4. sesiones' \in [Sesiones -> Abierta \cup Conciliada \cup {NoSesion}]
    BY <1>4, <2>3 DEF Cerrar, TypeOK
  <2>5. QED
    BY <1>4, <2>4 DEF Cerrar, TypeOK
<1>5. ASSUME NEW p \in Procesos, NEW s \in Sesiones, NEW tipo \in Manuales, NEW monto \in Montos,
             Mover(p, s, tipo, monto)
      PROVE  TypeOK'
  <2>1. tipo \in TiposMovimiento /\ monto \in Nat
    BY Tipos DEF Manuales
  <2>2. movs' \in [Sesiones -> [TiposMovimiento -> Nat]]
    BY <1>5, <2>1, RegistrarForma DEF Mover
  <2>3. QED
    BY <1>5, <2>2 DEF Mover, TypeOK
<1>6. ASSUME NEW p \in Procesos, NEW k \in Claves, NEW s \in Sesiones, NEW lineas \in Carritos,
             NEW pago \in Pagos, NEW cliente \in BOOLEAN, NEW promos \in SUBSET Promos,
             CrearLeer(p, k, s, lineas, pago, cliente, promos)
      PROVE  TypeOK'
  <2>1. [op |-> "vender", clave |-> k, sesion |-> s, lineas |-> lineas,
         pago |-> pago, cliente |-> cliente, promos |-> promos] \in Tx
    BY DEF Tx
  <2>2. QED
    BY <1>6, <2>1, TxTipo DEF CrearLeer
<1>7. ASSUME NEW p \in Procesos, CrearAplicar(p) PROVE TypeOK'
  <2>1. /\ tx[p].sesion \in Sesiones /\ tx[p].lineas \in Carritos /\ tx[p].pago.efectivo \in Nat
    BY <1>7, TxForma DEF CrearAplicar
  <2>2. movs' \in [Sesiones -> [TiposMovimiento -> Nat]]
    BY <1>7, <2>1, RegistrarForma, Tipos DEF CrearAplicar
  <2>3. stock' \in [Lineas -> Nat]
    <3>1. /\ stock' = [l \in Lineas |-> stock[l] - tx[p].lineas[l]]
          /\ \A l \in Lineas : tx[p].lineas[l] <= stock[l]
      BY <1>7 DEF CrearAplicar
    <3>2. \A l \in Lineas : stock[l] \in Nat /\ tx[p].lineas[l] \in Nat
      BY <2>1, TotalNat DEF TypeOK
    <3>3. QED
      BY <3>1, <3>2
  <2>4. uso' \in [Promos -> Nat]
    BY <1>7 DEF CrearAplicar, TypeOK
  <2>5. tx' \in [Procesos -> Tx] /\ UNCHANGED <<sesiones, devs>>
    BY <1>0, <1>7 DEF CrearAplicar, TypeOK
  <2>6. ventas' \in [Claves -> Venta \cup {NoVenta}]
    BY <1>7, VentaNueva
  <2>7. QED
    BY <2>2, <2>3, <2>4, <2>5, <2>6 DEF TypeOK
<1>8. ASSUME NEW p \in Procesos, NEW d \in Devs, NEW k \in Claves, NEW items \in Items,
             NEW caja \in {{}} \cup {{s} : s \in Sesiones}, DevolverLeer(p, d, k, items, caja)
      PROVE  TypeOK'
  <2>1. caja \in SUBSET Sesiones
    OBVIOUS
  <2>2. [op |-> "devolver", dev |-> d, venta |-> k, items |-> items, caja |-> caja] \in Tx
    BY <2>1 DEF Tx
  <2>3. QED
    BY <1>8, <2>2, TxTipo DEF DevolverLeer
<1>9. ASSUME NEW p \in Procesos, DevolverDecidir(p) PROVE TypeOK'
  <2> DEFINE x == [op |-> "decidido", dev |-> tx[p].dev, venta |-> tx[p].venta,
                   items |-> tx[p].items, caja |-> tx[p].caja,
                   todo |-> TodoDevuelto(tx[p].venta, tx[p].items)]
  <2>1. /\ tx[p].dev \in Devs /\ tx[p].venta \in Claves /\ tx[p].items \in Items
        /\ tx[p].caja \in SUBSET Sesiones
    BY <1>9, TxForma DEF DevolverDecidir
  <2>2. TodoDevuelto(tx[p].venta, tx[p].items) \in BOOLEAN
    BY DEF TodoDevuelto
  <2>3. x \in Tx
    BY <2>1, <2>2 DEF Tx
  <2>4. tx' = [tx EXCEPT ![p] = x] /\ UNCHANGED <<sesiones, movs, ventas, devs, uso, stock>>
    BY <1>9 DEF DevolverDecidir
  <2> HIDE DEF x
  <2>5. QED
    BY <2>3, <2>4, TxTipo
<1>10. ASSUME NEW p \in Procesos, DevolverAplicar(p) PROVE TypeOK'
  <2> DEFINE monto == SumFunctionOnSet([l \in Lineas |-> Cuenta(tx[p].items, l)], Lineas)
  <2>1. tx[p].items \in Items /\ tx[p].caja \in SUBSET Sesiones
    BY <1>10, TxForma DEF DevolverAplicar
  <2>2. monto \in Nat
    BY <2>1, MontoNat
  <2>3. /\ movs' = [s \in Sesiones |-> IF s \in tx[p].caja
                     THEN [movs[s] EXCEPT !["DEVOLUCION_EFECTIVO"] = @ + monto] ELSE movs[s]]
        /\ stock' = [l \in Lineas |-> stock[l] + Reingresado(tx[p].items, l)]
        /\ uso' = [m \in Promos |-> IF tx[p].todo /\ m \in ventas[tx[p].venta].promos /\ uso[m] > 0
                                     THEN uso[m] - 1 ELSE uso[m]]
        /\ tx' = [tx EXCEPT ![p] = Libre] /\ UNCHANGED sesiones
    BY <1>10 DEF DevolverAplicar
  <2> HIDE DEF monto
  <2>4. movs' \in [Sesiones -> [TiposMovimiento -> Nat]]
    BY <2>2, <2>3, Tipos DEF TypeOK
  <2>5. stock' \in [Lineas -> Nat] /\ uso' \in [Promos -> Nat]
    BY <2>1, <2>3, CuentaNat DEF TypeOK
  <2>6. tx' \in [Procesos -> Tx]
    BY <1>0, <2>3 DEF TypeOK
  <2>7. PICK d, k : Inserta(p, d, k)
    BY <1>10, DevNueva
  <2>8. devs' \in [Devs -> Dev \cup {NoDev}] /\ ventas' \in [Claves -> Venta \cup {NoVenta}]
    BY <2>7 DEF Inserta
  <2>9. QED
    BY <2>3, <2>4, <2>5, <2>6, <2>8 DEF TypeOK
<1>11. ASSUME NEW p \in Procesos, Abortar(p) PROVE TypeOK'
  BY <1>0, <1>11, TxTipo DEF Abortar
<1>12. QED
  BY <1>1, <1>2, <1>3, <1>4, <1>5, <1>6, <1>7, <1>8, <1>9, <1>10, <1>11 DEF Next, Caja, Mostrador

\* Sales and refunds are inserted once and never deleted.
LEMMA VigentePaso ==
  ASSUME TypeOK, Vigente, [Next]_vars
  PROVE  Vigente'
<1>1. ASSUME NEW p \in Procesos, NEW x, tx' = [tx EXCEPT ![p] = x], ventas' = ventas, devs' = devs,
             x.op \notin {"devolver", "decidido"}
      PROVE  Vigente'
  BY <1>1 DEF TypeOK, Vigente
<1>2. CASE UNCHANGED <<tx, ventas, devs>>
  BY <1>2 DEF Vigente
<1>3. ASSUME NEW p \in Procesos, NEW c \in Cajas, AbrirLeer(p, c) PROVE Vigente'
  BY <1>1, <1>3 DEF AbrirLeer
<1>4. ASSUME NEW p \in Procesos, NEW s \in Sesiones, NEW fondo \in Fondos,
             AbrirAplicar(p, s, fondo)
      PROVE  Vigente'
  BY <1>1, <1>4 DEF AbrirAplicar, Libre
<1>5. ASSUME NEW p \in Procesos, NEW k \in Claves, NEW s \in Sesiones, NEW lineas \in Carritos,
             NEW pago \in Pagos, NEW cliente \in BOOLEAN, NEW promos \in SUBSET Promos,
             CrearLeer(p, k, s, lineas, pago, cliente, promos)
      PROVE  Vigente'
  BY <1>1, <1>5 DEF CrearLeer
<1>6. ASSUME NEW p \in Procesos, CrearAplicar(p) PROVE Vigente'
  <2>1. \A k \in Claves : ventas[k] # NoVenta => ventas'[k] = ventas[k]
    BY <1>6, VentaNueva
  <2>2. tx' = [tx EXCEPT ![p] = Libre] /\ devs' = devs
    BY <1>6 DEF CrearAplicar
  <2>3. \A q \in Procesos : tx'[q] = tx[q] \/ tx'[q] = Libre
    BY <2>2 DEF TypeOK
  <2>4. \A q \in Procesos : tx'[q].op \in {"devolver", "decidido"} =>
          tx'[q] = tx[q] /\ tx[q].venta \in Claves
    BY <2>3, TxForma DEF Libre
  <2>5. QED
    BY <2>1, <2>2, <2>4 DEF Vigente
<1>7. ASSUME NEW p \in Procesos, NEW d \in Devs, NEW k \in Claves, NEW items \in Items,
             NEW caja \in {{}} \cup {{s} : s \in Sesiones}, DevolverLeer(p, d, k, items, caja)
      PROVE  Vigente'
  <2>1. /\ tx' = [tx EXCEPT ![p] = [op |-> "devolver", dev |-> d, venta |-> k, items |-> items,
                                    caja |-> caja]]
        /\ ventas' = ventas /\ devs' = devs /\ ventas[k] # NoVenta
    BY <1>7 DEF DevolverLeer
  <2>2. QED
    BY <2>1 DEF TypeOK, Vigente
<1>8. ASSUME NEW p \in Procesos, DevolverDecidir(p) PROVE Vigente'
  <2> DEFINE x == [op |-> "decidido", dev |-> tx[p].dev, venta |-> tx[p].venta,
                   items |-> tx[p].items, caja |-> tx[p].caja,
                   todo |-> TodoDevuelto(tx[p].venta, tx[p].items)]
  <2>0. x.op = "decidido" /\ x.dev = tx[p].dev /\ x.venta = tx[p].venta
    OBVIOUS
  <2>1. tx' = [tx EXCEPT ![p] = x]
    BY <1>8 DEF DevolverDecidir
  <2>2. /\ ventas' = ventas /\ devs' = devs /\ devs[tx[p].dev] = NoDev /\ tx[p].op = "devolver"
        /\ \A q \in Procesos : tx[q].op = "decidido" => tx[q].dev # tx[p].dev
    BY <1>8 DEF DevolverDecidir
  <2> HIDE DEF x
  <2>3. QED
    BY <2>0, <2>1, <2>2 DEF TypeOK, Vigente
<1>9. ASSUME NEW p \in Procesos, DevolverAplicar(p) PROVE Vigente'
  <2>0. PICK d, k : d = tx[p].dev /\ k = tx[p].venta /\ Inserta(p, d, k)
    BY <1>9, DevNueva
  <2>1. /\ \A x \in Claves : ventas[x] # NoVenta => ventas'[x] # NoVenta
        /\ \A x \in Devs \ {d} : devs'[x] = devs[x]
    <3>1. NoVenta \notin Venta
      BY DEF NoVenta, Venta
    <3>2. QED
      BY <2>0, <3>1 DEF Inserta
  <2>2. tx' = [tx EXCEPT ![p] = Libre] /\ tx[p].op = "decidido"
    BY <1>9 DEF DevolverAplicar
  <2>3. \A q \in Procesos : tx'[q].op \in {"devolver", "decidido"} =>
          tx'[q] = tx[q] /\ q # p /\ tx[q].venta \in Claves /\ tx[q].dev \in Devs
    BY <2>2, TxForma DEF Libre, TypeOK
  <2>4. \A q \in Procesos : tx'[q].op = "decidido" => tx[q].dev # d
    BY <2>0, <2>2, <2>3 DEF Vigente
  <2>5. QED
    BY <2>1, <2>3, <2>4 DEF Vigente
<1>10. ASSUME NEW p \in Procesos, Abortar(p) PROVE Vigente'
  BY <1>1, <1>10 DEF Abortar, Libre
<1>11. ASSUME NEW p \in Procesos,
              \/ \E s \in Sesiones : Cerrar(p, s)
              \/ \E s \in Sesiones, tipo \in Manuales, monto \in Montos : Mover(p, s, tipo, monto)
       PROVE  Vigente'
  BY <1>2, <1>11 DEF Cerrar, Mover
<1>12. CASE UNCHANGED vars
  BY <1>2, <1>12 DEF vars
<1>13. QED
  BY <1>3, <1>4, <1>5, <1>6, <1>7, <1>8, <1>9, <1>10, <1>11, <1>12 DEF Next, Caja, Mostrador

\* One sale changes: the cash of each session and the units of each line change by it.
LEMMA VendidoCambia ==
  ASSUME TypeOK, TypeOK', NEW k \in Claves, \A x \in Claves \ {k} : ventas'[x] = ventas[x],
         NEW s, NEW l \in Lineas
  PROVE  /\ EfectivoEn(k, s) \in Nat /\ EfectivoEn(k, s)' \in Nat
         /\ Vendido(k, l) \in Nat /\ Vendido(k, l)' \in Nat
         /\ SumFunctionOnSet([x \in Claves |-> EfectivoEn(x, s)], Claves) \in Int
         /\ SumFunctionOnSet([x \in Claves |-> Vendido(x, l)], Claves) \in Int
         /\ SumFunctionOnSet([x \in Claves |-> EfectivoEn(x, s)'], Claves) =
              SumFunctionOnSet([x \in Claves |-> EfectivoEn(x, s)], Claves)
                - EfectivoEn(k, s) + EfectivoEn(k, s)'
         /\ SumFunctionOnSet([x \in Claves |-> Vendido(x, l)'], Claves) =
              SumFunctionOnSet([x \in Claves |-> Vendido(x, l)], Claves)
                - Vendido(k, l) + Vendido(k, l)'
<1> DEFINE a == [x \in Claves |-> EfectivoEn(x, s)]
           b == [x \in Claves |-> EfectivoEn(x, s)']
           c == [x \in Claves |-> Vendido(x, l)]
           d == [x \in Claves |-> Vendido(x, l)']
<1>1. \A v \in Venta : v.pago.efectivo \in Nat /\ v.lineas[l] \in Nat
  <2>1. \A v \in Venta : v.pago \in Pagos /\ v.lineas \in Carritos
    BY DEF Venta
  <2>2. QED
    BY <2>1, VentasAssumption
<1>2. \A x \in Claves : EfectivoEn(x, s) \in Nat /\ Vendido(x, l) \in Nat
  BY <1>1 DEF EfectivoEn, Vendido, TypeOK
<1>3. EfectivoEn(k, s)' \in Nat /\ Vendido(k, l)' \in Nat
  <2>1. ventas'[k] = NoVenta \/ ventas'[k] \in Venta
    BY DEF TypeOK
  <2>2. QED
    BY <1>1, <2>1 DEF EfectivoEn, Vendido
<1>4. ASSUME NEW x \in Claves \ {k}
      PROVE  EfectivoEn(x, s)' = EfectivoEn(x, s) /\ Vendido(x, l)' = Vendido(x, l)
  BY DEF EfectivoEn, Vendido
<1>5. /\ \A x \in Claves : a[x] \in Int /\ c[x] \in Int
      /\ b[k] \in Int /\ d[k] \in Int
      /\ \A x \in Claves \ {k} : b[x] = a[x] /\ d[x] = c[x]
      /\ a[k] = EfectivoEn(k, s) /\ b[k] = EfectivoEn(k, s)'
      /\ c[k] = Vendido(k, l) /\ d[k] = Vendido(k, l)'
  BY <1>2, <1>3, <1>4
<1> HIDE DEF a, b, c, d
<1>6. /\ SumFunctionOnSet(a, Claves) \in Int /\ SumFunctionOnSet(c, Claves) \in Int
  BY <1>5, VentasAssumption, SumaEntera
<1>7. SumFunctionOnSet(b, Claves) = SumFunctionOnSet(a, Claves) - a[k] + b[k]
  BY <1>5, VentasAssumption, SumaCambia
<1>8. SumFunctionOnSet(d, Claves) = SumFunctionOnSet(c, Claves) - c[k] + d[k]
  BY <1>5, VentasAssumption, SumaCambia
<1>9. QED
  BY <1>2, <1>3, <1>5, <1>6, <1>7, <1>8 DEF a, b, c, d

\* What a refund put back is a natural.
LEMMA RepuestoNat ==
  ASSUME TypeOK, NEW d \in Devs, NEW l
  PROVE  Repuesto(d, l) \in Nat
<1>1. \A v \in Dev : Reingresado(v.items, l) \in Nat
  BY CuentaNat DEF Dev
<1>2. QED
  BY <1>1 DEF Repuesto, TypeOK

\* One refund changes.
LEMMA RepuestoCambia ==
  ASSUME TypeOK, TypeOK', NEW d \in Devs, \A x \in Devs \ {d} : devs'[x] = devs[x], NEW l
  PROVE  /\ Repuesto(d, l) \in Nat /\ Repuesto(d, l)' \in Nat
         /\ SumFunctionOnSet([x \in Devs |-> Repuesto(x, l)], Devs) \in Int
         /\ SumFunctionOnSet([x \in Devs |-> Repuesto(x, l)'], Devs) =
              SumFunctionOnSet([x \in Devs |-> Repuesto(x, l)], Devs)
                - Repuesto(d, l) + Repuesto(d, l)'
<1> DEFINE a == [x \in Devs |-> Repuesto(x, l)]
           b == [x \in Devs |-> Repuesto(x, l)']
<1>1. \A v \in Dev : Reingresado(v.items, l) \in Nat
  BY CuentaNat DEF Dev
<1>2. \A x \in Devs : Repuesto(x, l) \in Nat
  BY <1>1 DEF Repuesto, TypeOK
<1>3. Repuesto(d, l)' \in Nat
  <2>1. devs'[d] = NoDev \/ devs'[d] \in Dev
    BY DEF TypeOK
  <2>2. Repuesto(d, l)' = IF devs'[d] # NoDev THEN Reingresado(devs'[d].items, l) ELSE 0
    BY DEF Repuesto, Reingresado
  <2>3. QED
    BY <1>1, <2>1, <2>2
<1>4. ASSUME NEW x \in Devs \ {d} PROVE Repuesto(x, l)' = Repuesto(x, l)
  BY DEF Repuesto
<1>5. /\ \A x \in Devs : a[x] \in Int
      /\ b[d] \in Int
      /\ \A x \in Devs \ {d} : b[x] = a[x]
      /\ a[d] = Repuesto(d, l) /\ b[d] = Repuesto(d, l)'
  BY <1>2, <1>3, <1>4
<1> HIDE DEF a, b
<1>6. SumFunctionOnSet(a, Devs) \in Int
  BY <1>5, VentasAssumption, SumaEntera
<1>7. SumFunctionOnSet(b, Devs) = SumFunctionOnSet(a, Devs) - a[d] + b[d]
  BY <1>5, VentasAssumption, SumaCambia
<1>8. QED
  BY <1>2, <1>3, <1>5, <1>6, <1>7 DEF a, b

\* The other steps touch neither.
LEMMA UnaVezIgual ==
  ASSUME CadaVentaUnaVez, UNCHANGED <<ventas, devs, stock>>,
         \A s \in Sesiones : movs'[s]["VENTA_EFECTIVO"] = movs[s]["VENTA_EFECTIVO"]
  PROVE  CadaVentaUnaVez'
BY DEF CadaVentaUnaVez, EfectivoEn, Vendido, Repuesto

\* The commit of a sale finds its key free; the commit of a refund, its own.
LEMMA UnaVezPaso ==
  ASSUME TypeOK, TypeOK', Vigente, CadaVentaUnaVez, [Next]_vars
  PROVE  CadaVentaUnaVez'
<1>0. /\ \A s \in Sesiones : movs[s]["VENTA_EFECTIVO"] \in Nat
      /\ \A l \in Lineas : stock[l] \in Nat /\ Existencias[l] \in Nat
  BY Tipos, VentasAssumption DEF TypeOK
<1>1. ASSUME NEW s \in Sesiones, NEW tipo \in TiposMovimiento \ {"VENTA_EFECTIVO"}, NEW monto \in Nat,
             movs' = Registrar(s, tipo, monto), UNCHANGED <<ventas, devs, stock>>
      PROVE  CadaVentaUnaVez'
  <2>1. \A r \in Sesiones : movs'[r]["VENTA_EFECTIVO"] = movs[r]["VENTA_EFECTIVO"]
    BY <1>1, Tipos, RegistrarForma
  <2>2. QED
    BY <1>1, <2>1, UnaVezIgual
<1>2. ASSUME NEW p \in Procesos, NEW s \in Sesiones, NEW fondo \in Fondos,
             AbrirAplicar(p, s, fondo)
      PROVE  CadaVentaUnaVez'
  BY <1>1, <1>2, Tipos, VentasAssumption DEF AbrirAplicar
<1>3. ASSUME NEW p \in Procesos, NEW s \in Sesiones, NEW tipo \in Manuales, NEW monto \in Montos,
             Mover(p, s, tipo, monto)
      PROVE  CadaVentaUnaVez'
  BY <1>1, <1>3, Tipos, VentasAssumption DEF Mover, Manuales
<1>4. ASSUME NEW p \in Procesos, CrearAplicar(p) PROVE CadaVentaUnaVez'
  <2>0. PICK k, s : k = tx[p].clave /\ s = tx[p].sesion
    OBVIOUS
  <2>1. /\ k \in Claves /\ ventas[k] = NoVenta
        /\ \A x \in Claves \ {k} : ventas'[x] = ventas[x]
        /\ ventas'[k] \in Venta /\ ventas'[k].sesion = s
        /\ ventas'[k].lineas = tx[p].lineas /\ ventas'[k].pago = tx[p].pago
    BY <1>4, <2>0, VentaNueva
  <2>2. /\ s \in Sesiones /\ tx[p].pago.efectivo \in Nat
        /\ movs' = Registrar(s, "VENTA_EFECTIVO", tx[p].pago.efectivo)
        /\ stock' = [l \in Lineas |-> stock[l] - tx[p].lineas[l]] /\ devs' = devs
    BY <1>4, <2>0, TxForma, VentasAssumption DEF CrearAplicar
  <2>3. ventas'[k] # NoVenta
    BY <2>1 DEF NoVenta, Venta
  <2>4. ASSUME NEW r \in Sesiones
        PROVE movs'[r]["VENTA_EFECTIVO"] =
                SumFunctionOnSet([x \in Claves |-> EfectivoEn(x, r)'], Claves)
    <3> DEFINE vieja == SumFunctionOnSet([x \in Claves |-> EfectivoEn(x, r)], Claves)
               nueva == SumFunctionOnSet([x \in Claves |-> EfectivoEn(x, r)'], Claves)
    <3>0. movs[r]["VENTA_EFECTIVO"] = vieja
      BY DEF CadaVentaUnaVez
    <3>1. nueva = vieja - EfectivoEn(k, r) + EfectivoEn(k, r)' /\ vieja \in Int
      <4>1. PICK l : l \in Lineas
        BY <2>2, VentasAssumption, <1>4, TxForma DEF CrearAplicar
      <4>2. QED
        BY <2>1, <4>1, VendidoCambia
    <3>2. EfectivoEn(k, r) = 0
      BY <2>1 DEF EfectivoEn
    <3>3. EfectivoEn(k, r)' = IF r = s THEN tx[p].pago.efectivo ELSE 0
      BY <2>1, <2>3 DEF EfectivoEn
    <3>4. movs'[r]["VENTA_EFECTIVO"] =
            IF r = s THEN movs[r]["VENTA_EFECTIVO"] + tx[p].pago.efectivo ELSE movs[r]["VENTA_EFECTIVO"]
      BY <2>2, Tipos, RegistrarForma
    <3> HIDE DEF vieja, nueva
    <3>5. movs'[r]["VENTA_EFECTIVO"] = nueva
      BY <2>2, <3>0, <3>1, <3>2, <3>3, <3>4
    <3>6. QED
      BY <3>5 DEF nueva
  <2>5. ASSUME NEW l \in Lineas
        PROVE stock'[l] = Existencias[l] - SumFunctionOnSet([x \in Claves |-> Vendido(x, l)'], Claves)
                            + SumFunctionOnSet([x \in Devs |-> Repuesto(x, l)'], Devs)
    <3> DEFINE vieja == SumFunctionOnSet([x \in Claves |-> Vendido(x, l)], Claves)
               nueva == SumFunctionOnSet([x \in Claves |-> Vendido(x, l)'], Claves)
               vuelta == SumFunctionOnSet([x \in Devs |-> Repuesto(x, l)], Devs)
    <3>0. stock[l] = Existencias[l] - vieja + vuelta
      BY DEF CadaVentaUnaVez
    <3>1. nueva = vieja - Vendido(k, l) + Vendido(k, l)' /\ vieja \in Int
      BY <2>1, VendidoCambia
    <3>2. Vendido(k, l) = 0
      BY <2>1 DEF Vendido
    <3>3. Vendido(k, l)' = tx[p].lineas[l] /\ tx[p].lineas[l] \in Nat
      <4>1. tx[p].lineas \in Carritos
        BY <1>4, TxForma DEF CrearAplicar
      <4>2. QED
        BY <2>1, <2>3, <4>1, TotalNat DEF Vendido
    <3>4. stock'[l] = stock[l] - tx[p].lineas[l]
      BY <2>2
    <3>5. SumFunctionOnSet([x \in Devs |-> Repuesto(x, l)'], Devs) = vuelta
      BY <2>2 DEF Repuesto
    <3>6. vuelta \in Int
      <4> DEFINE a == [x \in Devs |-> Repuesto(x, l)]
      <4>1. \A x \in Devs : a[x] \in Int
        BY RepuestoNat
      <4> HIDE DEF a
      <4>2. SumFunctionOnSet(a, Devs) \in Int
        BY <4>1, VentasAssumption, SumaEntera
      <4>3. QED
        BY <4>2 DEF a
    <3> HIDE DEF vieja, nueva, vuelta
    <3>7. stock'[l] = Existencias[l] - nueva + vuelta
      BY <1>0, <3>0, <3>1, <3>2, <3>3, <3>4, <3>6
    <3>8. QED
      BY <3>5, <3>7 DEF nueva
  <2>6. QED
    BY <2>4, <2>5 DEF CadaVentaUnaVez
<1>5. ASSUME NEW p \in Procesos, DevolverAplicar(p) PROVE CadaVentaUnaVez'
  <2>0. PICK d, k : d = tx[p].dev /\ k = tx[p].venta /\ Inserta(p, d, k)
    BY <1>5, DevNueva
  <2>1. /\ k \in Claves /\ ventas[k] # NoVenta /\ ventas'[k] # NoVenta
        /\ ventas'[k].sesion = ventas[k].sesion /\ ventas'[k].pago = ventas[k].pago
        /\ ventas'[k].lineas = ventas[k].lineas
        /\ \A x \in Claves \ {k} : ventas'[x] = ventas[x]
    BY <2>0 DEF Inserta, Venta, NoVenta
  <2>2. /\ d \in Devs /\ devs[d] = NoDev /\ devs'[d].items = tx[p].items /\ devs'[d] # NoDev
        /\ \A x \in Devs \ {d} : devs'[x] = devs[x]
    BY <2>0 DEF Inserta, NoDev
  <2>3. \A s \in Sesiones : movs'[s]["VENTA_EFECTIVO"] = movs[s]["VENTA_EFECTIVO"]
    BY <1>5, Tipos DEF DevolverAplicar, TypeOK
  <2>4. \A x \in Claves : /\ \A s : EfectivoEn(x, s)' = EfectivoEn(x, s)
                          /\ \A l : Vendido(x, l)' = Vendido(x, l)
    BY <2>1 DEF EfectivoEn, Vendido
  <2>5. ASSUME NEW s \in Sesiones
        PROVE movs'[s]["VENTA_EFECTIVO"] =
                SumFunctionOnSet([x \in Claves |-> EfectivoEn(x, s)'], Claves)
    <3>1. [x \in Claves |-> EfectivoEn(x, s)'] = [x \in Claves |-> EfectivoEn(x, s)]
      BY <2>4
    <3>2. QED
      BY <2>3, <3>1 DEF CadaVentaUnaVez
  <2>6. ASSUME NEW l \in Lineas
        PROVE stock'[l] = Existencias[l] - SumFunctionOnSet([x \in Claves |-> Vendido(x, l)'], Claves)
                            + SumFunctionOnSet([x \in Devs |-> Repuesto(x, l)'], Devs)
    <3> DEFINE vendido == SumFunctionOnSet([x \in Claves |-> Vendido(x, l)], Claves)
               vieja == SumFunctionOnSet([x \in Devs |-> Repuesto(x, l)], Devs)
               nueva == SumFunctionOnSet([x \in Devs |-> Repuesto(x, l)'], Devs)
    <3>0. stock[l] = Existencias[l] - vendido + vieja
      BY DEF CadaVentaUnaVez
    <3>1. nueva = vieja - Repuesto(d, l) + Repuesto(d, l)' /\ vieja \in Int
      BY <2>2, RepuestoCambia
    <3>2. Repuesto(d, l) = 0
      BY <2>2 DEF Repuesto
    <3>3. Repuesto(d, l)' = Reingresado(tx[p].items, l)
      BY <2>2 DEF Repuesto, Reingresado
    <3>4. Reingresado(tx[p].items, l) \in Nat
      BY <1>5, TxForma, CuentaNat DEF DevolverAplicar
    <3>5. stock'[l] = stock[l] + Reingresado(tx[p].items, l)
      BY <1>5 DEF DevolverAplicar
    <3>6. SumFunctionOnSet([x \in Claves |-> Vendido(x, l)'], Claves) = vendido
      <4>1. [x \in Claves |-> Vendido(x, l)'] = [x \in Claves |-> Vendido(x, l)]
        BY <2>4
      <4>2. QED
        BY <4>1
    <3>7. vendido \in Int
      BY <2>1, VendidoCambia
    <3> HIDE DEF vieja, nueva, vendido
    <3>8. stock'[l] = Existencias[l] - vendido + nueva
      BY <1>0, <3>0, <3>1, <3>2, <3>3, <3>4, <3>5, <3>7
    <3>9. QED
      BY <3>6, <3>8 DEF nueva
  <2>7. QED
    BY <2>5, <2>6 DEF CadaVentaUnaVez
<1>6. CASE UNCHANGED <<movs, ventas, devs, stock>>
  BY <1>6, UnaVezIgual
<1>7. ASSUME NEW p \in Procesos,
             \/ \E c \in Cajas : AbrirLeer(p, c)
             \/ \E s \in Sesiones : Cerrar(p, s)
             \/ \E k \in Claves, s \in Sesiones, lineas \in Carritos, pago \in Pagos,
                  cliente \in BOOLEAN, promos \in SUBSET Promos :
                    CrearLeer(p, k, s, lineas, pago, cliente, promos)
             \/ \E d \in Devs, k \in Claves, items \in Items, caja \in {{}} \cup {{s} : s \in Sesiones} :
                    DevolverLeer(p, d, k, items, caja)
             \/ DevolverDecidir(p) \/ Abortar(p)
      PROVE  CadaVentaUnaVez'
  BY <1>6, <1>7 DEF AbrirLeer, Cerrar, CrearLeer, DevolverLeer, DevolverDecidir, Abortar
<1>8. CASE UNCHANGED vars
  BY <1>6, <1>8 DEF vars
<1>9. QED
  BY <1>2, <1>3, <1>4, <1>5, <1>7, <1>8 DEF Next, Caja, Mostrador

\* The inductive invariant of requests that overlap.
InvVentas == TypeOK /\ Vigente /\ CadaVentaUnaVez

\* The invariant holds of an empty point of sale, where every sum is zero.
LEMMA VentasInit == Init => InvVentas
<1> SUFFICES ASSUME Init PROVE InvVentas
  OBVIOUS
<1>1. TypeOK /\ Vigente
  BY Tipos, VentasAssumption DEF Init, TypeOK, Vigente, Tx, Libre
<1>2. ASSUME NEW s, NEW l
      PROVE  /\ SumFunctionOnSet([x \in Claves |-> EfectivoEn(x, s)], Claves) = 0
             /\ SumFunctionOnSet([x \in Claves |-> Vendido(x, l)], Claves) = 0
             /\ SumFunctionOnSet([x \in Devs |-> Repuesto(x, l)], Devs) = 0
  <2>1. \A x \in Claves : EfectivoEn(x, s) = 0 /\ Vendido(x, l) = 0
    BY DEF Init, EfectivoEn, Vendido
  <2>2. \A x \in Devs : Repuesto(x, l) = 0
    BY DEF Init, Repuesto
  <2>3. QED
    BY <2>1, <2>2, VentasAssumption, SumaCero
<1>3. \A l \in Lineas : Existencias[l] \in Nat
  BY VentasAssumption
<1>4. CadaVentaUnaVez
  <2>1. \A s \in Sesiones : movs[s]["VENTA_EFECTIVO"] = 0
    BY Tipos DEF Init
  <2>2. \A l \in Lineas : stock[l] = Existencias[l] - 0 + 0
    BY <1>3 DEF Init
  <2>3. \A s \in Sesiones :
          movs[s]["VENTA_EFECTIVO"] = SumFunctionOnSet([k \in Claves |-> EfectivoEn(k, s)], Claves)
    BY <1>2, <2>1
  <2>4. ASSUME NEW l \in Lineas
        PROVE stock[l] = Existencias[l] - SumFunctionOnSet([k \in Claves |-> Vendido(k, l)], Claves)
                            + SumFunctionOnSet([d \in Devs |-> Repuesto(d, l)], Devs)
    BY <1>2, <2>2
  <2>5. QED
    BY <2>3, <2>4 DEF CadaVentaUnaVez
<1>5. QED
  BY <1>1, <1>4 DEF InvVentas

\* Every step keeps the invariant.
LEMMA VentasPaso == InvVentas /\ [Next]_vars => InvVentas'
<1> SUFFICES ASSUME InvVentas, [Next]_vars PROVE InvVentas'
  OBVIOUS
<1>1. TypeOK'
  BY TipoPaso DEF InvVentas
<1>2. Vigente'
  BY VigentePaso DEF InvVentas
<1>3. CadaVentaUnaVez'
  BY <1>1, UnaVezPaso DEF InvVentas
<1>4. QED
  BY <1>1, <1>2, <1>3 DEF InvVentas

\* The invariant holds of every behaviour.
LEMMA VentasSiempre == Spec => []InvVentas
BY VentasInit, VentasPaso, PTL DEF Spec

\* Every variable of the point of sale keeps its type: stock, quotas and movements never
\* go below zero.
THEOREM TipoCorrecto == Spec => []TypeOK
<1>1. InvVentas => TypeOK
  BY DEF InvVentas
<1> QED BY <1>1, VentasSiempre, PTL

\* Whatever requests overlap or are retried with their key, the cash of a drawer is that
\* of its sales, each counted once, and the stock of a line is what there was, less what
\* was sold, plus what was returned to the shelf.
THEOREM VentasUnaVez == Spec => []CadaVentaUnaVez
<1>1. InvVentas => CadaVentaUnaVez
  BY DEF InvVentas
<1> QED BY <1>1, VentasSiempre, PTL

\* A refund is of a sale that exists.
DevsOK == \A d \in Devs : devs[d] # NoDev => ventas[devs[d].venta] # NoVenta

\* What the pending request read is still so.
TxActual ==
  \A p \in Procesos :
    /\ tx[p].op = "vender" => \A m \in tx[p].promos : uso[m] < UsoMaximo[m]
    /\ tx[p].op \in {"devolver", "decidido"} => ventas[tx[p].venta].estado # "DEVUELTA"
    /\ tx[p].op = "decidido" => tx[p].todo = TodoDevuelto(tx[p].venta, tx[p].items)

\* What refund d gave back of line l of sale k.
DevueltoPor(d, k, l) == IF devs[d].venta = k THEN Cuenta(devs[d].items, l) ELSE 0

\* What came back of a line of a sale is a natural, refund by refund.
LEMMA DevueltoForma ==
  ASSUME TypeOK, NEW k \in Claves, NEW l
  PROVE  /\ \A d \in Devs : DevueltoPor(d, k, l) \in Nat
         /\ Devuelto(k, l) = SumFunctionOnSet([d \in Devs |-> DevueltoPor(d, k, l)], Devs)
         /\ Devuelto(k, l) \in Nat
<1>1. ASSUME NEW d \in Devs PROVE DevueltoPor(d, k, l) \in Nat
  <2>1. CASE devs[d] = NoDev
    BY <2>1, VentasAssumption DEF NoDev, DevueltoPor
  <2>2. CASE devs[d] \in Dev
    <3>1. devs[d].items \in Items
      BY <2>2 DEF Dev
    <3>2. QED
      BY <3>1, CuentaNat DEF DevueltoPor
  <2>3. QED
    BY <2>1, <2>2 DEF TypeOK
<1> DEFINE a == [d \in Devs |-> DevueltoPor(d, k, l)]
<1>2. Devuelto(k, l) = SumFunctionOnSet(a, Devs)
  BY DEF Devuelto, DevueltoPor
<1>3. \A d \in Devs : a[d] \in Nat
  BY <1>1
<1>4. SumFunctionOnSet(a, Devs) \in Nat
  <2> HIDE DEF a
  <2>1. QED
    BY <1>3, VentasAssumption, SumaNatural
<1>5. QED
  BY <1>1, <1>2, <1>4

\* A refund adds its units to its sale and to no other.
LEMMA DevueltoCambia ==
  ASSUME TypeOK, NEW p \in Procesos, NEW d, NEW k, Inserta(p, d, k), tx[p].items \in Items,
         NEW x \in Claves, NEW l
  PROVE  Devuelto(x, l)' = IF x = k THEN Devuelto(x, l) + Cuenta(tx[p].items, l)
                                    ELSE Devuelto(x, l)
<1>0. /\ d \in Devs /\ devs[d] = NoDev /\ devs'[d].venta = k /\ devs'[d].items = tx[p].items
      /\ \A y \in Devs \ {d} : devs'[y] = devs[y]
  BY DEF Inserta
<1> DEFINE a == [y \in Devs |-> DevueltoPor(y, x, l)]
           b == [y \in Devs |-> IF y = d THEN (IF x = k THEN Cuenta(tx[p].items, l) ELSE 0)
                                         ELSE DevueltoPor(y, x, l)]
<1>1. Devuelto(x, l)' = SumFunctionOnSet(b, Devs)
  <2>1. \A y \in Devs : b[y] = IF devs'[y].venta = x THEN Cuenta(devs'[y].items, l) ELSE 0
    BY <1>0 DEF DevueltoPor
  <2>2. b = [y \in Devs |-> IF devs'[y].venta = x THEN Cuenta(devs'[y].items, l) ELSE 0]
    BY <2>1
  <2> HIDE DEF b
  <2>3. QED
    BY <2>2 DEF Devuelto, Cuenta
<1>2. Devuelto(x, l) = SumFunctionOnSet(a, Devs) /\ Devuelto(x, l) \in Nat
  BY DevueltoForma
<1>3. /\ \A y \in Devs : a[y] \in Int
      /\ a[d] = 0 /\ b[d] = IF x = k THEN Cuenta(tx[p].items, l) ELSE 0
      /\ b[d] \in Int
      /\ \A y \in Devs \ {d} : b[y] = a[y]
  <2>1. a[d] = 0
    BY <1>0, VentasAssumption DEF DevueltoPor, NoDev
  <2>2. Cuenta(tx[p].items, l) \in Nat
    BY CuentaNat
  <2>3. \A y \in Devs : a[y] \in Int
    <3>1. \A y \in Devs : DevueltoPor(y, x, l) \in Nat
      BY DevueltoForma
    <3>2. QED
      BY <3>1
  <2>4. b[d] = (IF x = k THEN Cuenta(tx[p].items, l) ELSE 0) /\ b[d] \in Int
    BY <1>0, <2>2
  <2>5. \A y \in Devs \ {d} : b[y] = a[y]
    OBVIOUS
  <2>6. QED
    BY <2>1, <2>3, <2>4, <2>5
<1> HIDE DEF a, b
<1>4. SumFunctionOnSet(b, Devs) = SumFunctionOnSet(a, Devs) - a[d] + b[d]
  BY <1>0, <1>3, VentasAssumption, SumaCambia
<1>5. Cuenta(tx[p].items, l) \in Nat
  BY CuentaNat
<1>6. QED
  BY <1>1, <1>2, <1>3, <1>4, <1>5

-----------------------------------------------------------------------------
(* Requests that do not overlap: the state of a returned sale and the quota of its *)
(* promotions                                                                    *)

\* Only the commit of a refund writes a refund.
LEMMA SoloDevolverEscribe ==
  ASSUME [Next]_vars
  PROVE  UNCHANGED devs \/ \E p \in Procesos : DevolverAplicar(p)
<1>1. ASSUME NEW p \in Procesos, Caja(p) PROVE UNCHANGED devs
  BY <1>1 DEF Caja, AbrirLeer, AbrirAplicar, Cerrar, Mover
<1>2. ASSUME NEW p \in Procesos, Mostrador(p), ~DevolverAplicar(p) PROVE UNCHANGED devs
  BY <1>2 DEF Mostrador, CrearLeer, CrearAplicar, DevolverLeer, DevolverDecidir
<1>3. ASSUME NEW p \in Procesos, Abortar(p) PROVE UNCHANGED devs
  BY <1>3 DEF Abortar
<1>4. QED
  BY <1>1, <1>2, <1>3 DEF Next, vars

\* Only the commits write sales and the quota.
LEMMA SoloConfirmarEscribe ==
  ASSUME [Next]_vars
  PROVE  \/ UNCHANGED <<ventas, devs, uso>>
         \/ \E p \in Procesos : CrearAplicar(p) \/ DevolverAplicar(p)
<1>1. ASSUME NEW p \in Procesos, Caja(p) PROVE UNCHANGED <<ventas, devs, uso>>
  BY <1>1 DEF Caja, AbrirLeer, AbrirAplicar, Cerrar, Mover
<1>2. ASSUME NEW p \in Procesos, Mostrador(p), ~(CrearAplicar(p) \/ DevolverAplicar(p))
      PROVE  UNCHANGED <<ventas, devs, uso>>
  BY <1>2 DEF Mostrador, CrearLeer, DevolverLeer, DevolverDecidir
<1>3. ASSUME NEW p \in Procesos, Abortar(p) PROVE UNCHANGED <<ventas, devs, uso>>
  BY <1>3 DEF Abortar
<1>4. QED
  BY <1>1, <1>2, <1>3 DEF Next, vars

\* A sale that was made stays.
LEMMA VentasQuedan ==
  ASSUME InvVentas, [Next]_vars
  PROVE  \A x \in Claves : ventas[x] # NoVenta => ventas'[x] # NoVenta
<1>0. NoVenta \notin Venta
  BY DEF NoVenta, Venta
<1>1. ASSUME NEW p \in Procesos, CrearAplicar(p)
      PROVE  \A x \in Claves : ventas[x] # NoVenta => ventas'[x] # NoVenta
  BY <1>1, VentaNueva DEF InvVentas
<1>2. ASSUME NEW p \in Procesos, DevolverAplicar(p)
      PROVE  \A x \in Claves : ventas[x] # NoVenta => ventas'[x] # NoVenta
  <2>1. PICK d, k : Inserta(p, d, k)
    BY <1>2, DevNueva DEF InvVentas
  <2>2. QED
    BY <1>0, <2>1 DEF Inserta
<1>3. QED
  BY <1>1, <1>2, SoloConfirmarEscribe

\* A refund that is committed is of a sale that stays.
LEMMA DevsOKPaso ==
  ASSUME InvVentas, DevsOK, [Next]_vars
  PROVE  DevsOK'
<1>1. \A x \in Claves : ventas[x] # NoVenta => ventas'[x] # NoVenta
  BY VentasQuedan
<1>2. \A d \in Devs : devs[d] # NoDev => devs[d].venta \in Claves
  BY DEF InvVentas, TypeOK, Dev
<1>3. ASSUME NEW p \in Procesos, DevolverAplicar(p) PROVE DevsOK'
  <2>0. PICK d, k : Inserta(p, d, k)
    BY <1>3, DevNueva DEF InvVentas
  <2>1. /\ \A x \in Devs \ {d} : devs'[x] = devs[x]
        /\ devs'[d].venta = k /\ k \in Claves /\ ventas[k] # NoVenta
    BY <2>0 DEF Inserta
  <2>2. QED
    BY <1>1, <1>2, <2>1 DEF DevsOK
<1>4. CASE UNCHANGED devs
  BY <1>1, <1>2, <1>4 DEF DevsOK
<1>5. QED
  BY <1>3, <1>4, SoloDevolverEscribe

\* What the refunds of sale x gave back does not change while its refunds do not.
LEMMA DevueltoIgual ==
  ASSUME UNCHANGED devs, NEW x, NEW l
  PROVE  Devuelto(x, l)' = Devuelto(x, l)
BY DEF Devuelto, Cuenta

\* Nothing came back of a sale that was not made.
LEMMA SinVentaNada ==
  ASSUME TypeOK, DevsOK, NEW k \in Claves, ventas[k] = NoVenta
  PROVE  /\ \A d \in Devs : devs[d].venta # k
         /\ \A l : Devuelto(k, l) = 0
<1>1. \A d \in Devs : devs[d].venta # k
  BY VentasAssumption DEF DevsOK, NoDev
<1>2. ASSUME NEW l PROVE Devuelto(k, l) = 0
  <2> DEFINE a == [d \in Devs |-> IF devs[d].venta = k THEN Cuenta(devs[d].items, l) ELSE 0]
  <2>1. \A d \in Devs : a[d] = 0
    BY <1>1
  <2> HIDE DEF a
  <2>2. SumFunctionOnSet(a, Devs) = 0
    BY <2>1, VentasAssumption, SumaCero
  <2>3. QED
    BY <2>2 DEF a, Devuelto
<1>3. QED
  BY <1>1, <1>2

\* EstadoDevuelta, for one sale.
EstadoDe(k) ==
  ventas[k] # NoVenta =>
    /\ (\A l \in Lineas : Devuelto(k, l) >= ventas[k].lineas[l]) <=> ventas[k].estado = "DEVUELTA"
    /\ (\E d \in Devs : devs[d].venta = k)
         <=> ventas[k].estado \in {"DEVUELTA", "DEVUELTA_PARCIALMENTE"}

\* A new sale has lines to give back; a refund that was decided on what is still so
\* leaves the state that its own items and the earlier refunds call for.
LEMMA EstadoPaso ==
  ASSUME InvVentas, DevsOK, TxActual, EstadoDevuelta, [Next]_vars
  PROVE  EstadoDevuelta'
<1>0. TypeOK /\ Vigente
  BY DEF InvVentas
<1>1. ASSUME NEW p \in Procesos, CrearAplicar(p), NEW x \in Claves PROVE EstadoDe(x)'
  <2>1. UNCHANGED devs
    BY <1>1 DEF CrearAplicar
  <2>2. \A l : Devuelto(x, l)' = Devuelto(x, l)
    BY <2>1, DevueltoIgual
  <2>3. CASE x # tx[p].clave
    <3>1. ventas'[x] = ventas[x]
      BY <1>0, <1>1, <2>3, VentaNueva
    <3>2. EstadoDe(x)
      BY DEF EstadoDevuelta, EstadoDe
    <3>3. QED
      BY <2>1, <2>2, <3>1, <3>2 DEF EstadoDe
  <2>4. CASE x = tx[p].clave
    <3>1. /\ ventas[x] = NoVenta /\ ventas'[x].estado \in EstadosPago
          /\ ventas'[x].lineas = tx[p].lineas
      BY <1>0, <1>1, <2>4, VentaNueva
    <3>2. tx[p].lineas \in Carritos
      BY <1>0, <1>1, TxForma DEF CrearAplicar
    <3>3. PICK l \in Lineas : ventas'[x].lineas[l] > 0 /\ ventas'[x].lineas[l] \in Nat
      BY <3>1, <3>2, VentasAssumption, TotalNat
    <3>4. Devuelto(x, l)' = 0
      BY <1>0, <2>2, <3>1, SinVentaNada
    <3>5. ~(\A y \in Lineas : Devuelto(x, y)' >= ventas'[x].lineas[y])
      BY <3>3, <3>4
    <3>6. \A d \in Devs : devs'[d].venta # x
      BY <1>0, <2>1, <3>1, SinVentaNada
    <3>7. ventas'[x].estado \notin {"DEVUELTA", "DEVUELTA_PARCIALMENTE"}
      BY <3>1 DEF EstadosPago
    <3>8. QED
      BY <3>5, <3>6, <3>7 DEF EstadoDe
  <2>5. QED
    BY <2>3, <2>4
<1>2. ASSUME NEW p \in Procesos, DevolverAplicar(p), NEW x \in Claves PROVE EstadoDe(x)'
  <2>0. PICK d, k : d = tx[p].dev /\ k = tx[p].venta /\ Inserta(p, d, k)
    BY <1>0, <1>2, DevNueva
  <2>1. /\ d \in Devs /\ k \in Claves /\ devs'[d].venta = k
        /\ devs[d] = NoDev /\ \A y \in Devs \ {d} : devs'[y] = devs[y]
    BY <2>0 DEF Inserta
  <2>2. tx[p].items \in Items /\ tx[p].todo \in BOOLEAN
    BY <1>0, <1>2, TxForma DEF DevolverAplicar
  <2>3. \A l : Devuelto(x, l)' = IF x = k THEN Devuelto(x, l) + Cuenta(tx[p].items, l)
                                          ELSE Devuelto(x, l)
    BY <1>0, <2>0, <2>2, DevueltoCambia
  <2>4. EstadoDe(x)
    BY DEF EstadoDevuelta, EstadoDe
  <2>5. CASE x # k
    <3>1. ventas'[x] = ventas[x]
      BY <2>0, <2>5 DEF Inserta
    <3>2. (\E y \in Devs : devs'[y].venta = x) <=> (\E y \in Devs : devs[y].venta = x)
      BY <2>1, <2>5, VentasAssumption DEF NoDev
    <3>3. \A l : Devuelto(x, l)' = Devuelto(x, l)
      BY <2>3, <2>5
    <3>4. QED
      BY <2>4, <3>1, <3>2, <3>3 DEF EstadoDe
  <2>6. CASE x = k
    <3>1. /\ ventas'[x].estado = (IF tx[p].todo THEN "DEVUELTA" ELSE "DEVUELTA_PARCIALMENTE")
          /\ ventas'[x].lineas = ventas[x].lineas
      BY <2>0, <2>6 DEF Inserta, Venta
    <3>2. tx[p].todo = TodoDevuelto(tx[p].venta, tx[p].items)
      BY <1>2 DEF TxActual, DevolverAplicar
    <3>3. tx[p].todo <=> \A l \in Lineas : Devuelto(x, l) + Cuenta(tx[p].items, l)
                                             >= ventas[x].lineas[l]
      BY <2>0, <2>6, <3>2 DEF TodoDevuelto
    <3>4. \A l : Devuelto(x, l)' = Devuelto(x, l) + Cuenta(tx[p].items, l)
      BY <2>3, <2>6
    <3>5. tx[p].todo <=> \A l \in Lineas : Devuelto(x, l)' >= ventas'[x].lineas[l]
      BY <3>1, <3>3, <3>4
    <3>6. \E y \in Devs : devs'[y].venta = x
      BY <2>1, <2>6
    <3>7. QED
      BY <2>2, <3>1, <3>5, <3>6 DEF EstadoDe
  <2>7. QED
    BY <2>5, <2>6
<1>3. ASSUME UNCHANGED <<ventas, devs>>, NEW x \in Claves PROVE EstadoDe(x)'
  <2>1. \A l : Devuelto(x, l)' = Devuelto(x, l)
    BY <1>3, DevueltoIgual
  <2>2. EstadoDe(x)
    BY DEF EstadoDevuelta, EstadoDe
  <2>3. QED
    BY <1>3, <2>1, <2>2 DEF EstadoDe
<1>4. \A x \in Claves : EstadoDe(x)'
  <2>1. CASE UNCHANGED <<ventas, devs, uso>>
    BY <1>3, <2>1
  <2>2. QED
    BY <1>1, <1>2, <2>1, SoloConfirmarEscribe
<1>5. QED
  BY <1>4 DEF EstadoDe, EstadoDevuelta

\* The sales that use promotion m.
Cuentan(m) == {k \in Claves : /\ ventas[k] # NoVenta
                              /\ m \in ventas[k].promos
                              /\ ventas[k].estado # "DEVUELTA"}

\* A sale that commits takes a use its read found free; a sale that comes back whole
\* was not so before, and gives its use back.
LEMMA CupoPaso ==
  ASSUME InvVentas, TxActual, CupoCuadra, [Next]_vars
  PROVE  CupoCuadra'
<1>0. TypeOK /\ Vigente /\ IsFiniteSet(Claves)
  BY VentasAssumption DEF InvVentas
<1>1. \A m \in Promos : /\ uso[m] = Cardinality(Cuentan(m)) /\ uso[m] <= UsoMaximo[m]
                        /\ uso[m] \in Nat /\ UsoMaximo[m] \in Nat
  BY <1>0, VentasAssumption DEF CupoCuadra, Cuentan, TypeOK
<1>2. \A m : IsFiniteSet(Cuentan(m))
  BY <1>0, FS_Subset DEF Cuentan
<1>3. ASSUME NEW p \in Procesos, CrearAplicar(p), NEW m \in Promos
      PROVE  uso'[m] = Cardinality(Cuentan(m)') /\ uso'[m] <= UsoMaximo[m]
  <2>0. PICK k : k = tx[p].clave
    OBVIOUS
  <2>1. /\ k \in Claves /\ ventas[k] = NoVenta
        /\ \A x \in Claves \ {k} : ventas'[x] = ventas[x]
        /\ ventas'[k] \in Venta /\ ventas'[k].estado \in EstadosPago
        /\ ventas'[k].promos = tx[p].promos
    BY <1>0, <1>3, <2>0, VentaNueva
  <2>2. ventas'[k] # NoVenta /\ ventas'[k].estado # "DEVUELTA"
    BY <2>1 DEF EstadosPago, NoVenta
  <2>3. uso'[m] = IF m \in tx[p].promos THEN uso[m] + 1 ELSE uso[m]
    BY <1>3 DEF CrearAplicar
  <2>4. CASE m \in tx[p].promos
    <3>1. Cuentan(m)' = Cuentan(m) \cup {k} /\ k \notin Cuentan(m)
      BY <2>1, <2>2, <2>4 DEF Cuentan
    <3>2. Cardinality(Cuentan(m)') = Cardinality(Cuentan(m)) + 1
      BY <1>2, <3>1, FS_AddElement
    <3>3. uso[m] < UsoMaximo[m]
      BY <1>3, <2>4 DEF TxActual, CrearAplicar
    <3>4. QED
      BY <1>1, <2>3, <2>4, <3>2, <3>3
  <2>5. CASE m \notin tx[p].promos
    <3>1. Cuentan(m)' = Cuentan(m)
      BY <2>1, <2>5 DEF Cuentan
    <3>2. QED
      BY <1>1, <2>3, <2>5, <3>1
  <2>6. QED
    BY <2>4, <2>5
<1>4. ASSUME NEW p \in Procesos, DevolverAplicar(p), NEW m \in Promos
      PROVE  uso'[m] = Cardinality(Cuentan(m)') /\ uso'[m] <= UsoMaximo[m]
  <2>0. PICK d, k : d = tx[p].dev /\ k = tx[p].venta /\ Inserta(p, d, k)
    BY <1>0, <1>4, DevNueva
  <2>1. /\ k \in Claves /\ ventas[k] # NoVenta /\ ventas'[k] # NoVenta
        /\ \A x \in Claves \ {k} : ventas'[x] = ventas[x]
        /\ ventas'[k].promos = ventas[k].promos
        /\ ventas'[k].estado = IF tx[p].todo THEN "DEVUELTA" ELSE "DEVUELTA_PARCIALMENTE"
    BY <2>0 DEF Inserta, Venta, NoVenta
  <2>2. ventas[k].estado # "DEVUELTA"
    BY <1>4, <2>0 DEF TxActual, DevolverAplicar
  <2>3. uso'[m] = IF tx[p].todo /\ m \in ventas[k].promos /\ uso[m] > 0 THEN uso[m] - 1 ELSE uso[m]
    BY <1>4, <2>0 DEF DevolverAplicar
  <2>4. CASE tx[p].todo /\ m \in ventas[k].promos
    <3>1. Cuentan(m)' = Cuentan(m) \ {k} /\ k \in Cuentan(m)
      BY <2>1, <2>2, <2>4 DEF Cuentan
    <3>2. Cardinality(Cuentan(m)') = Cardinality(Cuentan(m)) - 1
      BY <1>2, <3>1, FS_RemoveElement
    <3>3. Cardinality(Cuentan(m)) # 0
      BY <1>2, <3>1, FS_EmptySet
    <3>4. QED
      BY <1>1, <2>3, <2>4, <3>2, <3>3
  <2>5. CASE ~(tx[p].todo /\ m \in ventas[k].promos)
    <3>1. Cuentan(m)' = Cuentan(m)
      BY <2>1, <2>2, <2>5 DEF Cuentan
    <3>2. QED
      BY <1>1, <2>3, <2>5, <3>1
  <2>6. QED
    BY <2>4, <2>5
<1>5. ASSUME UNCHANGED <<ventas, devs, uso>>, NEW m \in Promos
      PROVE  uso'[m] = Cardinality(Cuentan(m)') /\ uso'[m] <= UsoMaximo[m]
  <2>1. Cuentan(m)' = Cuentan(m)
    BY <1>5 DEF Cuentan
  <2>2. QED
    BY <1>1, <1>5, <2>1
<1>6. \A m \in Promos : uso'[m] = Cardinality(Cuentan(m)') /\ uso'[m] <= UsoMaximo[m]
  <2>1. CASE UNCHANGED <<ventas, devs, uso>>
    BY <1>5, <2>1
  <2>2. QED
    BY <1>3, <1>4, <2>1, SoloConfirmarEscribe
<1>7. QED
  BY <1>6 DEF Cuentan, CupoCuadra

\* What the request of p read is still so.
Actual(p) ==
  /\ tx[p].op = "vender" => \A m \in tx[p].promos : uso[m] < UsoMaximo[m]
  /\ tx[p].op \in {"devolver", "decidido"} => ventas[tx[p].venta].estado # "DEVUELTA"
  /\ tx[p].op = "decidido" => tx[p].todo = TodoDevuelto(tx[p].venta, tx[p].items)

\* A sale of which something still fits is not returned whole.
LEMMA NoDevuelta ==
  ASSUME TypeOK, EstadoDevuelta, NEW p \in Procesos, NEW d \in Devs, NEW k \in Claves,
         NEW items \in Items, NEW caja, DevolverLeer(p, d, k, items, caja)
  PROVE  ventas[k].estado # "DEVUELTA"
<1>1. PICK i \in DOMAIN items : TRUE
  BY ItemsForma
<1>2. items[i].linea \in Lineas /\ items[i].cantidad \in Nat /\ items[i].cantidad > 0
  BY ItemsForma
<1>3. /\ ventas[k] # NoVenta
      /\ items[i].cantidad + Devuelto(k, items[i].linea) <= ventas[k].lineas[items[i].linea]
  BY DEF DevolverLeer
<1>4. ventas[k].lineas[items[i].linea] \in Nat
  <2>1. ventas[k].lineas \in Carritos
    BY <1>3 DEF TypeOK, Venta
  <2>2. QED
    BY <1>2, <2>1, TotalNat
<1>5. Devuelto(k, items[i].linea) \in Nat
  BY DevueltoForma
<1>6. ~(Devuelto(k, items[i].linea) >= ventas[k].lineas[items[i].linea])
  BY <1>2, <1>3, <1>4, <1>5
<1>7. QED
  BY <1>2, <1>3, <1>6 DEF EstadoDevuelta

\* Nothing changes under the only request while it is in flight.
LEMMA TxActualPaso ==
  ASSUME UnProceso, TypeOK, EstadoDevuelta, TxActual, [Next]_vars
  PROVE  TxActual'
<1>0. \A p \in Procesos : Actual(p)
  BY DEF TxActual, Actual
<1>1. ASSUME NEW p \in Procesos, tx'[p].op \notin {"vender", "devolver", "decidido"}
      PROVE  Actual(p)'
  BY <1>1 DEF Actual
<1>2. ASSUME NEW p \in Procesos, UNCHANGED <<ventas, devs, uso, tx>>
      PROVE  Actual(p)'
  <2>0. PICK k, items : k = tx[p].venta /\ items = tx[p].items
    OBVIOUS
  <2>1. TodoDevuelto(k, items)' = TodoDevuelto(k, items)
    BY <1>2, DevueltoIgual DEF TodoDevuelto, Cuenta
  <2>2. k = tx'[p].venta /\ items = tx'[p].items
    BY <1>2, <2>0
  <2>3. Actual(p)
    BY <1>0
  <2>4. TodoDevuelto(k, items)' = TodoDevuelto(tx[p].venta, tx[p].items)'
    BY <2>2
  <2>5. QED
    BY <1>2, <2>0, <2>1, <2>3, <2>4 DEF Actual
<1>3. ASSUME NEW p \in Procesos,
             \/ \E c \in Cajas : AbrirLeer(p, c)
             \/ \E s \in Sesiones, fondo \in Fondos : AbrirAplicar(p, s, fondo)
             \/ CrearAplicar(p) \/ DevolverAplicar(p) \/ Abortar(p)
      PROVE  Actual(p)'
  <2>1. tx'[p].op \in {"abrir", "libre"}
    BY <1>3 DEF AbrirLeer, AbrirAplicar, CrearAplicar, DevolverAplicar, Abortar, TypeOK, Libre
  <2>2. QED
    BY <1>1, <2>1
<1>4. ASSUME NEW p \in Procesos,
             \/ \E s \in Sesiones : Cerrar(p, s)
             \/ \E s \in Sesiones, tipo \in Manuales, monto \in Montos : Mover(p, s, tipo, monto)
      PROVE  Actual(p)'
  BY <1>2, <1>4 DEF Cerrar, Mover
<1>5. ASSUME NEW p \in Procesos, NEW k \in Claves, NEW s \in Sesiones, NEW lineas \in Carritos,
             NEW pago \in Pagos, NEW cliente \in BOOLEAN, NEW promos \in SUBSET Promos,
             CrearLeer(p, k, s, lineas, pago, cliente, promos)
      PROVE  Actual(p)'
  <2>1. tx'[p].op = "vender" /\ tx'[p].promos = promos /\ UNCHANGED uso
    BY <1>5 DEF CrearLeer, TypeOK
  <2>2. \A m \in promos : uso[m] < UsoMaximo[m]
    BY <1>5 DEF CrearLeer
  <2>3. QED
    BY <2>1, <2>2 DEF Actual
<1>6. ASSUME NEW p \in Procesos, NEW d \in Devs, NEW k \in Claves, NEW items \in Items,
             NEW caja \in {{}} \cup {{s} : s \in Sesiones}, DevolverLeer(p, d, k, items, caja)
      PROVE  Actual(p)'
  <2>1. ventas[k].estado # "DEVUELTA"
    BY <1>6, NoDevuelta
  <2>2. tx'[p].op = "devolver" /\ tx'[p].venta = k /\ UNCHANGED ventas
    BY <1>6 DEF DevolverLeer, TypeOK
  <2>3. QED
    BY <2>1, <2>2 DEF Actual
<1>7. ASSUME NEW p \in Procesos, DevolverDecidir(p) PROVE Actual(p)'
  <2>0. PICK k, items : k = tx[p].venta /\ items = tx[p].items
    OBVIOUS
  <2>1. /\ tx'[p].op = "decidido" /\ tx'[p].venta = k /\ tx'[p].items = items
        /\ tx'[p].todo = TodoDevuelto(k, items) /\ UNCHANGED <<ventas, devs>>
    BY <1>7, <2>0 DEF DevolverDecidir, TypeOK
  <2>2. TodoDevuelto(k, items)' = TodoDevuelto(k, items)
    BY <2>1, DevueltoIgual DEF TodoDevuelto, Cuenta
  <2>3. TodoDevuelto(tx[p].venta, tx[p].items)' = TodoDevuelto(k, items)'
    BY <2>1
  <2>4. ventas[k].estado # "DEVUELTA"
    BY <1>0, <1>7, <2>0 DEF Actual, DevolverDecidir
  <2>5. QED
    BY <2>1, <2>2, <2>3, <2>4 DEF Actual
<1>8. CASE UNCHANGED vars
  BY <1>2, <1>8 DEF vars, TxActual, Actual
<1>9. CASE Next
  <2>1. PICK p \in Procesos : Caja(p) \/ Mostrador(p) \/ Abortar(p)
    BY <1>9 DEF Next
  <2>2. Actual(p)'
    BY <1>3, <1>4, <1>5, <1>6, <1>7, <2>1 DEF Caja, Mostrador
  <2>3. \A q \in Procesos : Actual(q)'
    BY <2>2 DEF UnProceso
  <2>4. QED
    BY <2>3 DEF TxActual, Actual
<1>10. QED
  BY <1>8, <1>9

\* The inductive invariant of the only request.
InvUno == InvVentas /\ DevsOK /\ TxActual /\ EstadoDevuelta /\ CupoCuadra

\* The invariant of the only request holds of an empty point of sale.
LEMMA UnoInit == Init => InvUno
<1> SUFFICES ASSUME Init PROVE InvUno
  OBVIOUS
<1>1. InvVentas
  BY VentasInit
<1>2. DevsOK /\ TxActual /\ EstadoDevuelta
  BY DEF Init, DevsOK, TxActual, EstadoDevuelta, Libre
<1>3. CupoCuadra
  <2>1. \A m \in Promos : {k \in Claves : /\ ventas[k] # NoVenta
                                          /\ m \in ventas[k].promos
                                          /\ ventas[k].estado # "DEVUELTA"} = {}
    BY DEF Init
  <2>2. Cardinality({}) = 0
    BY FS_EmptySet
  <2>3. \A m \in Promos : uso[m] = 0 /\ 0 <= UsoMaximo[m]
    BY VentasAssumption DEF Init
  <2>4. QED
    BY <2>1, <2>2, <2>3 DEF CupoCuadra
<1>4. QED
  BY <1>1, <1>2, <1>3 DEF InvUno

\* Every step of the only request keeps it.
LEMMA UnoPaso ==
  ASSUME UnProceso
  PROVE  InvUno /\ [Next]_vars => InvUno'
<1> SUFFICES ASSUME InvUno, [Next]_vars PROVE InvUno'
  OBVIOUS
<1>1. InvVentas' /\ DevsOK'
  BY VentasPaso, DevsOKPaso DEF InvUno
<1>2. EstadoDevuelta' /\ CupoCuadra'
  BY EstadoPaso, CupoPaso DEF InvUno
<1>3. TxActual'
  BY TxActualPaso DEF InvUno, InvVentas
<1>4. QED
  BY <1>1, <1>2, <1>3 DEF InvUno

\* While requests do not overlap, a sale is marked as returned exactly when every unit
\* of it came back, and as returned in part when some refund of it exists.
THEOREM EstadoSinSolape ==
  ASSUME UnProceso
  PROVE  Spec => []EstadoDevuelta
<1>1. InvUno => EstadoDevuelta
  BY DEF InvUno
<1> QED BY <1>1, UnoInit, UnoPaso, PTL DEF Spec

\* While requests do not overlap, the use of a promotion is the number of sales that
\* have it and were not returned whole, and stays within its quota.
THEOREM CupoSinSolape ==
  ASSUME UnProceso
  PROVE  Spec => []CupoCuadra
<1>1. InvUno => CupoCuadra
  BY DEF InvUno
<1> QED BY <1>1, UnoInit, UnoPaso, PTL DEF Spec

-----------------------------------------------------------------------------
(* Requests that do not overlap: several refunds of one sale *)

\* A line that a request names once at most counts with that item, or not at all.
LEMMA CuentaUna ==
  ASSUME NEW items \in Items, NEW l,
         \A i, j \in DOMAIN items : items[i].linea = l /\ items[j].linea = l => i = j
  PROVE  \/ Cuenta(items, l) = 0
         \/ \E i \in DOMAIN items : items[i].linea = l /\ Cuenta(items, l) = items[i].cantidad
<1> DEFINE S == DOMAIN items
           f == [i \in S |-> IF items[i].linea = l THEN items[i].cantidad ELSE 0]
<1>1. Cuenta(items, l) = SumFunctionOnSet(f, S)
  BY DEF Cuenta, SumFunction
<1>2. IsFiniteSet(S) /\ \A i \in S : f[i] \in Int
  BY ItemsForma
<1>3. CASE \A i \in S : items[i].linea # l
  <2>1. \A i \in S : f[i] = 0
    BY <1>3
  <2> HIDE DEF f
  <2>2. SumFunctionOnSet(f, S) = 0
    BY <1>2, <2>1, SumaCero
  <2>3. QED
    BY <1>1, <2>2
<1>4. ASSUME NEW i \in S, items[i].linea = l
      PROVE  Cuenta(items, l) = items[i].cantidad
  <2>1. f[i] = items[i].cantidad /\ \A j \in S \ {i} : f[j] = 0
    BY <1>4
  <2>2. items[i].cantidad \in Nat
    BY ItemsForma
  <2> HIDE DEF f
  <2>3. SumFunctionOnSet(f, S) = f[i] + SumFunctionOnSet(f, S \ {i})
    BY <1>2, SumaSin
  <2>4. IsFiniteSet(S \ {i})
    BY <1>2, FS_RemoveElement
  <2>5. SumFunctionOnSet(f, S \ {i}) = 0
    BY <2>1, <2>4, SumaCero
  <2>6. QED
    BY <1>1, <2>1, <2>2, <2>3, <2>5
<1>5. QED
  BY <1>3, <1>4

\* Each item fits in what the committed refunds leave of its line.
Cabe(k, items) ==
  \A i \in DOMAIN items :
    items[i].cantidad + Devuelto(k, items[i].linea) <= ventas[k].lineas[items[i].linea]

EnDevolucion(p) == tx[p].op \in {"devolver", "decidido"}

CabenTodas == \A p \in Procesos : EnDevolucion(p) => Cabe(tx[p].venta, tx[p].items)

InvDevuelto == InvUno /\ CabenTodas /\ DevueltoAcotado

\* What fits goes on fitting while sales and refunds do not change.
LEMMA CabeIgual ==
  ASSUME UNCHANGED <<ventas, devs>>, NEW k, NEW items, Cabe(k, items)
  PROVE  Cabe(k, items)'
<1>1. \A l : Devuelto(k, l)' = Devuelto(k, l)
  BY DevueltoIgual
<1>2. QED
  BY <1>1 DEF Cabe

\* A step of a request that is not its commit: a refund in flight keeps its items, or has
\* just read that they fit.
LEMMA DevolucionSigue ==
  ASSUME TypeOK, NEW p \in Procesos, Caja(p) \/ Mostrador(p) \/ Abortar(p), EnDevolucion(p)'
  PROVE  /\ UNCHANGED <<ventas, devs>>
         /\ \/ EnDevolucion(p) /\ tx'[p].venta = tx[p].venta /\ tx'[p].items = tx[p].items
            \/ Cabe(tx'[p].venta, tx'[p].items)
<1>1. CASE Caja(p)
  <2>1. ASSUME \/ \E c \in Cajas : AbrirLeer(p, c)
               \/ \E s \in Sesiones, fondo \in Fondos : AbrirAplicar(p, s, fondo)
        PROVE  FALSE
    BY <2>1 DEF AbrirLeer, AbrirAplicar, EnDevolucion, TypeOK, Libre
  <2>2. ASSUME \/ \E s \in Sesiones : Cerrar(p, s)
               \/ \E s \in Sesiones, tipo \in Manuales, monto \in Montos : Mover(p, s, tipo, monto)
        PROVE  UNCHANGED <<ventas, devs, tx>>
    BY <2>2 DEF Cerrar, Mover
  <2>3. QED
    BY <1>1, <2>1, <2>2 DEF Caja, EnDevolucion
<1>2. CASE CrearAplicar(p) \/ DevolverAplicar(p) \/ Abortar(p)
  BY <1>2 DEF CrearAplicar, DevolverAplicar, Abortar, EnDevolucion, TypeOK, Libre
<1>3. ASSUME NEW k \in Claves, NEW s \in Sesiones, NEW lineas \in Carritos,
             NEW pago \in Pagos, NEW cliente \in BOOLEAN, NEW promos \in SUBSET Promos,
             CrearLeer(p, k, s, lineas, pago, cliente, promos)
      PROVE  FALSE
  BY <1>3 DEF CrearLeer, EnDevolucion, TypeOK
<1>4. ASSUME NEW d \in Devs, NEW k \in Claves, NEW items \in Items,
             NEW caja \in {{}} \cup {{s} : s \in Sesiones}, DevolverLeer(p, d, k, items, caja)
      PROVE  UNCHANGED <<ventas, devs>> /\ Cabe(tx'[p].venta, tx'[p].items)
  <2>1. UNCHANGED <<ventas, devs>> /\ tx'[p].venta = k /\ tx'[p].items = items
    BY <1>4 DEF DevolverLeer, TypeOK
  <2>2. Cabe(k, items)
    BY <1>4 DEF DevolverLeer, Cabe
  <2>3. QED
    BY <2>1, <2>2
<1>5. CASE DevolverDecidir(p)
  BY <1>5 DEF DevolverDecidir, EnDevolucion, TypeOK
<1>6. QED
  BY <1>1, <1>2, <1>3, <1>4, <1>5 DEF Mostrador

\* Nothing is refunded under the only request: its items go on fitting until it commits.
LEMMA CabenTodasPaso ==
  ASSUME UnProceso, TypeOK, CabenTodas, [Next]_vars
  PROVE  CabenTodas'
<1>1. ASSUME NEW p \in Procesos, EnDevolucion(p)'
      PROVE  Cabe(tx[p].venta, tx[p].items)'
  <2>1. PICK k, items : k = tx'[p].venta /\ items = tx'[p].items
    OBVIOUS
  <2>2. UNCHANGED <<ventas, devs>> /\ Cabe(k, items)
    <3>1. CASE UNCHANGED vars
      BY <1>1, <2>1, <3>1 DEF vars, CabenTodas, EnDevolucion
    <3>2. CASE Next
      <4>1. Caja(p) \/ Mostrador(p) \/ Abortar(p)
        BY <3>2 DEF Next, UnProceso
      <4>2. /\ UNCHANGED <<ventas, devs>>
            /\ \/ EnDevolucion(p) /\ tx'[p].venta = tx[p].venta /\ tx'[p].items = tx[p].items
               \/ Cabe(tx'[p].venta, tx'[p].items)
        BY <1>1, <4>1, DevolucionSigue
      <4>3. QED
        BY <2>1, <4>2 DEF CabenTodas
    <3>3. QED
      BY <3>1, <3>2
  <2>3. Cabe(k, items)'
    BY <2>2, CabeIgual
  <2>4. QED
    BY <2>1, <2>3
<1>2. QED
  BY <1>1 DEF CabenTodas, EnDevolucion

\* DevueltoAcotado, for one line of one sale.
Acotado(k, l) ==
  ventas[k] # NoVenta /\ SinRepetir(k, l) => Devuelto(k, l) <= ventas[k].lineas[l]

\* A refund adds to a line what fits in it, unless it names the line twice.
LEMMA DevueltoPaso ==
  ASSUME InvVentas, DevsOK, CabenTodas, DevueltoAcotado, [Next]_vars
  PROVE  DevueltoAcotado'
<1>0. TypeOK /\ Vigente /\ \A k \in Claves, l \in Lineas : Acotado(k, l)
  BY DEF InvVentas, DevueltoAcotado, Acotado
<1>1. ASSUME NEW p \in Procesos, CrearAplicar(p), NEW x \in Claves, NEW l \in Lineas
      PROVE  Acotado(x, l)'
  <2>1. UNCHANGED devs /\ Devuelto(x, l)' = Devuelto(x, l)
    BY <1>1, DevueltoIgual DEF CrearAplicar
  <2>2. CASE x # tx[p].clave
    <3>1. ventas'[x] = ventas[x]
      BY <1>0, <1>1, <2>2, VentaNueva
    <3>2. QED
      BY <1>0, <2>1, <3>1 DEF Acotado, SinRepetir
  <2>3. CASE x = tx[p].clave
    <3>1. ventas[x] = NoVenta /\ ventas'[x].lineas = tx[p].lineas
      BY <1>0, <1>1, <2>3, VentaNueva
    <3>2. tx[p].lineas \in Carritos
      BY <1>0, <1>1, TxForma DEF CrearAplicar
    <3>3. ventas'[x].lineas[l] \in Nat
      BY <3>1, <3>2, TotalNat
    <3>4. Devuelto(x, l)' = 0
      BY <1>0, <2>1, <3>1, SinVentaNada
    <3>5. QED
      BY <3>3, <3>4 DEF Acotado
  <2>4. QED
    BY <2>2, <2>3
<1>2. ASSUME NEW p \in Procesos, DevolverAplicar(p), NEW x \in Claves, NEW l \in Lineas,
             ventas'[x] # NoVenta, SinRepetir(x, l)'
      PROVE  Devuelto(x, l)' <= ventas'[x].lineas[l]
  <2>0. PICK d, k, items : d = tx[p].dev /\ k = tx[p].venta /\ Inserta(p, d, k) /\ items = tx[p].items
    BY <1>0, <1>2, DevNueva
  <2>1. /\ d \in Devs /\ k \in Claves /\ devs'[d].venta = k /\ devs'[d].items = items
        /\ devs[d] = NoDev /\ \A y \in Devs \ {d} : devs'[y] = devs[y]
    BY <2>0 DEF Inserta
  <2>2. items \in Items /\ EnDevolucion(p)
    BY <1>0, <1>2, <2>0, TxForma DEF DevolverAplicar, EnDevolucion
  <2>3. Devuelto(x, l)' = IF x = k THEN Devuelto(x, l) + Cuenta(items, l) ELSE Devuelto(x, l)
    BY <1>0, <2>0, <2>2, DevueltoCambia
  <2>4. SinRepetir(x, l)
    BY <1>2, <2>1, VentasAssumption DEF SinRepetir, NoDev
  <2>5. ventas[x] # NoVenta /\ ventas'[x].lineas = ventas[x].lineas
    BY <1>2, <2>0 DEF Inserta, Venta
  <2>6. Devuelto(x, l) <= ventas[x].lineas[l]
    BY <1>0, <2>4, <2>5 DEF Acotado
  <2>7. CASE x # k
    BY <2>3, <2>5, <2>6, <2>7
  <2>8. CASE x = k
    <3>1. \A i, j \in DOMAIN items : items[i].linea = l /\ items[j].linea = l => i = j
      BY <1>2, <2>1, <2>8 DEF SinRepetir
    <3>2. Devuelto(x, l) \in Nat
      BY <1>0, DevueltoForma
    <3>3. CASE Cuenta(items, l) = 0
      BY <2>3, <2>5, <2>6, <2>8, <3>2, <3>3
    <3>4. ASSUME NEW i \in DOMAIN items, items[i].linea = l, Cuenta(items, l) = items[i].cantidad
          PROVE  Devuelto(x, l)' <= ventas'[x].lineas[l]
      <4>1. Cabe(k, items)
        BY <2>0, <2>2 DEF CabenTodas
      <4>2. items[i].cantidad + Devuelto(x, l) <= ventas[x].lineas[l]
        BY <2>8, <3>4, <4>1 DEF Cabe
      <4>3. items[i].cantidad \in Nat
        BY <2>2, ItemsForma
      <4>4. QED
        BY <2>3, <2>5, <2>8, <3>2, <3>4, <4>2, <4>3
    <3>5. QED
      BY <2>2, <3>1, <3>3, <3>4, CuentaUna
  <2>9. QED
    BY <2>7, <2>8
<1>3. ASSUME UNCHANGED <<ventas, devs>>, NEW x \in Claves, NEW l \in Lineas
      PROVE  Acotado(x, l)'
  <2>1. Devuelto(x, l)' = Devuelto(x, l)
    BY <1>3, DevueltoIgual
  <2>2. QED
    BY <1>0, <1>3, <2>1 DEF Acotado, SinRepetir
<1>4. \A x \in Claves, l \in Lineas : Acotado(x, l)'
  <2>1. CASE UNCHANGED <<ventas, devs, uso>>
    BY <1>3, <2>1
  <2>2. ASSUME NEW p \in Procesos, DevolverAplicar(p)
        PROVE  \A x \in Claves, l \in Lineas : Acotado(x, l)'
    BY <1>2, <2>2 DEF Acotado
  <2>3. QED
    BY <1>1, <2>1, <2>2, SoloConfirmarEscribe
<1>5. QED
  BY <1>4 DEF Acotado, DevueltoAcotado

\* While requests do not overlap, the refunds of a sale give back no more of a line than
\* was sold, unless one request names the line twice.
THEOREM DevueltoSinSolape ==
  ASSUME UnProceso
  PROVE  Spec => []DevueltoAcotado
<1>1. Init => InvDevuelto
  <2> SUFFICES ASSUME Init PROVE InvDevuelto
    OBVIOUS
  <2>1. InvUno
    BY UnoInit
  <2>2. CabenTodas /\ DevueltoAcotado
    BY DEF Init, CabenTodas, EnDevolucion, DevueltoAcotado, Libre
  <2>3. QED
    BY <2>1, <2>2 DEF InvDevuelto
<1>2. InvDevuelto /\ [Next]_vars => InvDevuelto'
  <2> SUFFICES ASSUME InvDevuelto, [Next]_vars PROVE InvDevuelto'
    OBVIOUS
  <2>1. InvUno'
    BY UnoPaso DEF InvDevuelto
  <2>2. CabenTodas' /\ DevueltoAcotado'
    BY CabenTodasPaso, DevueltoPaso DEF InvDevuelto, InvUno, InvVentas
  <2>3. QED
    BY <2>1, <2>2 DEF InvDevuelto
<1>3. InvDevuelto => DevueltoAcotado
  BY DEF InvDevuelto
<1> QED BY <1>1, <1>2, <1>3, PTL DEF Spec
=============================================================================

--------------------------- MODULE CuentasProofs ---------------------------
(* Theorems of Cuentas for any debts, amounts, keys and payments in        *)
(* flight.                                                                 *)
EXTENDS Cuentas, TLAPS

USE CuentasAssumption

-----------------------------------------------------------------------------
(* Type correctness *)

\* What a request asks to allocate is a share in the sense of the invariant.
LEMMA AsignacionEsReparto ==
  ASSUME NEW a \in Asignaciones(PorCobrar) \cup Asignaciones(PorPagar)
  PROVE  a \in Reparto
  BY DEF Asignaciones, Reparto, Cuentas

\* A share gives an amount to each account of its domain.
LEMMA RepartoForma ==
  /\ NoPago \in Reparto
  /\ \A a \in Reparto : /\ DOMAIN a \subseteq Cuentas
                        /\ a \in [DOMAIN a -> Int]
  BY DEF Reparto, NoPago

\* The fields of a payment in flight after it read, or wrote, one more instalment.
LEMMA PagoTrasLeer ==
  ASSUME NEW t, EsPago(t), NEW f
  PROVE  LET u == [t EXCEPT !.leido = f]
         IN /\ DOMAIN u = DOMAIN t /\ u.op = t.op /\ u.clave = t.clave /\ u.asig = t.asig
            /\ u.escrito = t.escrito /\ u.leido = f
  BY DEF EsPago

\* Writing one instalment changes nothing else of what a payment in flight keeps.
LEMMA PagoTrasEscribir ==
  ASSUME NEW t, EsPago(t), NEW f
  PROVE  LET u == [t EXCEPT !.escrito = f]
         IN /\ DOMAIN u = DOMAIN t /\ u.op = t.op /\ u.clave = t.clave /\ u.asig = t.asig
            /\ u.leido = t.leido /\ u.escrito = f
  BY DEF EsPago

\* A payment in flight is not an idle process.
LEMMA PagoNoEsLibre ==
  ASSUME NEW t, EsPago(t)
  PROVE  t # Libre
  BY DEF EsPago, Libre

\* An account is never deleted, so what a payment has read of it stands.
LEMMA TxSigue ==
  ASSUME TypeOK, tx' = tx, \A c \in Cuentas : Existe(c) => Existe(c)'
  PROVE  /\ \A p \in Procesos : tx'[p] = Libre \/ EsPago(tx[p])'
         /\ tx' = [p \in Procesos |-> tx'[p]]
  BY RepartoForma DEF TypeOK, EsPago

\* An account that exists has all its columns.
LEMMA CuentaExiste ==
  ASSUME TypeOK, NEW c \in Cuentas
  PROVE  Existe(c) <=> cuentas[c] \in Cuenta
  BY DEF TypeOK, Existe, Cuenta, NoCuenta

\* A tenant without debts is well typed.
THEOREM TypeInicial == Init => TypeOK
  BY RepartoForma DEF Init, TypeOK, Libre, NoPago, Reparto

\* Selling on credit and receiving a purchase (which open an account) keep the types.
LEMMA TypeDeuda ==
  ASSUME TypeOK, Deuda
  PROVE  TypeOK'
<1>1. CASE \E c \in PorCobrar, saldo \in Importes : Fiar(c, saldo)
  <2>1. PICK c \in PorCobrar, saldo \in Importes : Fiar(c, saldo)
    BY <1>1
  <2>2. c \in Cuentas /\ Nueva(saldo) \in Cuenta
    BY DEF Cuentas, Nueva, Cuenta
  <2>3. cuentas' \in [Cuentas -> Cuenta \cup {NoCuenta}] /\ \A d \in Cuentas : Existe(d) => Existe(d)'
    BY <2>1, <2>2 DEF Fiar, TypeOK, Existe, Cuenta, NoCuenta
  <2>4. tx' = tx
    BY <2>1 DEF Fiar
  <2>5. QED
    BY <2>1, <2>3, <2>4, TxSigue DEF Fiar, TypeOK
<1>2. CASE \E c \in PorPagar, importe \in Importes, aCredito \in BOOLEAN :
             Recepcionar(c, importe, aCredito)
  <2>1. PICK c \in PorPagar, importe \in Importes, aCredito \in BOOLEAN :
               Recepcionar(c, importe, aCredito)
    BY <1>2
  <2>2. c \in Cuentas /\ Nueva(importe) \in Cuenta
    BY DEF Cuentas, Nueva, Cuenta
  <2>3. cuentas' \in [Cuentas -> Cuenta \cup {NoCuenta}] /\ \A d \in Cuentas : Existe(d) => Existe(d)'
    BY <2>1, <2>2 DEF Recepcionar, TypeOK, Existe, Cuenta, NoCuenta
  <2>4. tx' = tx
    BY <2>1 DEF Recepcionar
  <2>5. QED
    BY <2>1, <2>3, <2>4, TxSigue DEF Recepcionar, TypeOK
<1>3. QED
  BY <1>1, <1>2 DEF Deuda

\* A step of one payment that leaves the accounts alone.
LEMMA TxDeUno ==
  ASSUME TypeOK, NEW p \in Procesos, NEW t, tx' = [tx EXCEPT ![p] = t],
         t = Libre \/ EsPago(t), cuentas' = cuentas
  PROVE  /\ \A q \in Procesos : tx'[q] = Libre \/ EsPago(tx[q])'
         /\ tx' = [q \in Procesos |-> tx'[q]]
<1>1. ASSUME NEW u, EsPago(u)
      PROVE  EsPago(u)'
  BY <1>1 DEF EsPago, Existe
<1>2. QED
  BY <1>1 DEF TypeOK

\* Every step of registrarCobro and pagarProveedor keeps the types.
LEMMA TypeCobro ==
  ASSUME TypeOK, NEW p \in Procesos, Cobro(p)
  PROVE  TypeOK'
<1>1. ASSUME NEW k \in Claves, NEW asig \in Asignaciones(PorCobrar) \cup Asignaciones(PorPagar),
             CrearPago(p, k, asig)
      PROVE  TypeOK'
  <2> DEFINE t == [op |-> "pago", clave |-> k, asig |-> asig, leido |-> NoPago, escrito |-> {}]
  <2>1. asig \in Reparto
    BY AsignacionEsReparto
  <2>2. EsPago(t)
    BY <2>1, RepartoForma DEF EsPago, NoPago
  <2>3. tx' = [tx EXCEPT ![p] = t] /\ cuentas' = cuentas
    BY <1>1 DEF CrearPago
  <2>4. QED
    BY <1>1, <2>2, <2>3, TxDeUno DEF CrearPago, TypeOK
<1>2. ASSUME NEW c \in Cuentas, LeerCuota(p, c)
      PROVE  TypeOK'
  <2> DEFINE f == [d \in DOMAIN tx[p].leido \cup {c} |->
                     IF d = c THEN cuentas[c].pendiente ELSE tx[p].leido[d]]
             t == [tx[p] EXCEPT !.leido = f]
  <2>1. EsPago(tx[p]) /\ Existe(c)
    BY <1>2 DEF LeerCuota, EnPago, TypeOK
  <2>2. f \in [DOMAIN tx[p].leido \cup {c} -> Nat]
    BY <2>1, CuentaExiste DEF EsPago, Cuenta
  <2>3. EsPago(t)
    <3> HIDE DEF f
    <3>1. /\ DOMAIN t = DOMAIN tx[p] /\ t.op = tx[p].op /\ t.clave = tx[p].clave
          /\ t.asig = tx[p].asig /\ t.escrito = tx[p].escrito /\ t.leido = f
      BY <2>1, PagoTrasLeer
    <3>2. \A d \in DOMAIN f : Existe(d) /\ tx[p].asig[d] <= f[d]
      BY <1>2, <2>1, <2>2 DEF f, EsPago, LeerCuota
    <3> HIDE DEF t
    <3>3. QED
      BY <1>2, <2>1, <2>2, <3>1, <3>2 DEF EsPago, LeerCuota
  <2>4. tx' = [tx EXCEPT ![p] = t] /\ cuentas' = cuentas
    BY <1>2 DEF LeerCuota, TypeOK
  <2>5. cruzadas' \subseteq Cuentas
    BY <1>2 DEF LeerCuota, TypeOK
  <2> HIDE DEF t
  <2>6. QED
    BY <1>2, <2>3, <2>4, <2>5, TxDeUno DEF LeerCuota, TypeOK
<1>3. ASSUME NEW c \in Cuentas, EscribirCuota(p, c)
      PROVE  TypeOK'
  <2> DEFINE t == [tx[p] EXCEPT !.escrito = @ \cup {c}]
  <2>1. EsPago(tx[p])
    BY <1>3 DEF EscribirCuota, EnPago, TypeOK
  <2>2. EsPago(t)
    <3>1. /\ DOMAIN t = DOMAIN tx[p] /\ t.op = tx[p].op /\ t.clave = tx[p].clave
          /\ t.asig = tx[p].asig /\ t.leido = tx[p].leido
          /\ t.escrito = tx[p].escrito \cup {c}
      BY <2>1, PagoTrasEscribir
    <3> HIDE DEF t
    <3>2. QED
      BY <1>3, <2>1, <3>1 DEF EsPago, EscribirCuota
  <2>3. tx' = [tx EXCEPT ![p] = t] /\ cuentas' = cuentas
    BY <1>3 DEF EscribirCuota, TypeOK
  <2> HIDE DEF t
  <2>4. QED
    BY <1>3, <2>2, <2>3, TxDeUno DEF EscribirCuota, TypeOK
<1>4. CASE ConfirmarPago(p)
  <2> DEFINE a == tx[p].asig
  <2>1. /\ EsPago(tx[p]) /\ DOMAIN tx[p].leido = DOMAIN a
        /\ a \in Reparto /\ a \in [DOMAIN a -> Int] /\ DOMAIN a \subseteq Cuentas
    BY <1>4, RepartoForma DEF ConfirmarPago, EnPago, TypeOK, EsPago
  <2>2. \A c \in DOMAIN a : Saldada(cuentas[c], tx[p].leido[c] - a[c]) \in Cuenta
    <3> SUFFICES ASSUME NEW c \in DOMAIN a
                 PROVE  Saldada(cuentas[c], tx[p].leido[c] - a[c]) \in Cuenta
      OBVIOUS
    <3>1. cuentas[c] \in Cuenta
      BY <2>1, CuentaExiste DEF EsPago
    <3>2. tx[p].leido[c] - a[c] \in Nat
      BY <2>1 DEF EsPago
    <3>3. QED
      BY <3>1, <3>2 DEF Saldada, Cuenta
  <2>3. cuentas' \in [Cuentas -> Cuenta \cup {NoCuenta}]
    BY <1>4, <2>2 DEF ConfirmarPago, TypeOK
  <2>4. \A c \in Cuentas : Existe(c) => Existe(c)'
    BY <1>4, <2>1, <2>2 DEF ConfirmarPago, Existe, Cuenta, NoCuenta, TypeOK
  <2>5. asignado' \in [Cuentas -> Int] /\ pagos' \in [Claves -> Reparto]
    BY <1>4, <2>1 DEF ConfirmarPago, TypeOK, EsPago
  <2>6. ASSUME NEW u, EsPago(u)
        PROVE  EsPago(u)'
    BY <2>4, <2>6, RepartoForma DEF EsPago
  <2>7. \A q \in Procesos : tx'[q] = Libre \/ EsPago(tx[q])'
    BY <1>4, <2>6 DEF ConfirmarPago, TypeOK
  <2>8. tx' = [q \in Procesos |-> tx'[q]]
    BY <1>4 DEF ConfirmarPago, TypeOK
  <2>9. QED
    BY <1>4, <2>3, <2>5, <2>7, <2>8 DEF ConfirmarPago, TypeOK
<1>5. CASE Abortar(p)
  BY <1>5, TxDeUno DEF Abortar, TypeOK
<1>6. QED
  BY <1>1, <1>2, <1>3, <1>4, <1>5 DEF Cobro

\* Every account, allocation and payment in flight keeps its type: a balance that payments
\* lower by what they read before never becomes negative, however many overlap.
THEOREM TipoDeCuentas == Spec => []TypeOK
<1>1. TypeOK /\ [Next]_vars => TypeOK'
  <2> SUFFICES ASSUME TypeOK, [Next]_vars
               PROVE  TypeOK'
    OBVIOUS
  <2>1. CASE Deuda
    BY <2>1, TypeDeuda
  <2>2. ASSUME NEW p \in Procesos, Cobro(p)
        PROVE  TypeOK'
    BY <2>2, TypeCobro
  <2>3. CASE UNCHANGED vars
    <3>1. /\ \A p \in Procesos : tx'[p] = Libre \/ EsPago(tx[p])'
          /\ tx' = [p \in Procesos |-> tx'[p]]
      BY <2>3, TxSigue DEF vars, Existe
    <3>2. QED
      BY <2>3, <3>1 DEF vars, TypeOK
  <2>4. QED
    BY <2>1, <2>2, <2>3 DEF Next
<1>2. QED
  BY <1>1, TypeInicial, PTL DEF Spec

-----------------------------------------------------------------------------
(* Balances *)

\* Payment p has read account c.
Lee(p, c) == EnPago(p) /\ c \in DOMAIN tx[p].leido

\* What an account owes by the allocations that were committed.
Resta(c) == cuentas[c].original - asignado[c]

\* The key of a payment in flight is its own, and has no payment yet.
ClavesOK ==
  \A p \in Procesos : EnPago(p) =>
    /\ pagos[tx[p].clave] = NoPago
    /\ \A q \in Procesos \ {p} : EnPago(q) => tx[q].clave # tx[p].clave

\* A receipt and its account are created together.
RecibosOK == \A c \in PorPagar : Existe(c) => c \in recibos

\* What a payment read covers what is owed too: it is what the balance becomes.
NuncaMenos(c) ==
  ~Rebajada(c) =>
    /\ Existe(c) => cuentas[c].pendiente >= Resta(c)
    /\ \A p \in Procesos : Lee(p, c) => tx[p].leido[c] >= Resta(c)

\* Alone, a payment still finds what it read.
Igual(c) ==
  c \notin cruzadas =>
    /\ Existe(c) => cuentas[c].pendiente = Resta(c)
    /\ \A p \in Procesos : Lee(p, c) =>
         /\ tx[p].leido[c] = cuentas[c].pendiente
         /\ \A q \in Procesos \ {p} : ~Lee(q, c)

SinCuenta(c) == ~Existe(c) => asignado[c] = 0

SaldosOK == \A c \in Cuentas : SinCuenta(c) /\ NuncaMenos(c) /\ Igual(c)

InvSaldos == TypeOK /\ ClavesOK /\ RecibosOK /\ SaldosOK

\* Nothing is owed and nothing allocated at the start.
LEMMA SaldosInicial == Init => InvSaldos
<1> SUFFICES ASSUME Init
             PROVE  InvSaldos
  OBVIOUS
<1>1. \A p \in Procesos : ~EnPago(p)
  BY DEF Init, EnPago
<1>2. \A c \in Cuentas : ~Existe(c) /\ asignado[c] = 0
  BY DEF Init, Existe
<1>3. ClavesOK /\ RecibosOK
  BY <1>1, <1>2 DEF ClavesOK, RecibosOK, Cuentas
<1>4. SaldosOK
  BY <1>1, <1>2 DEF SaldosOK, SinCuenta, NuncaMenos, Igual, Lee
<1>5. QED
  BY <1>3, <1>4, TypeInicial DEF InvSaldos

\* A reader of an account finds it there.
LEMMA LeeExistente ==
  ASSUME TypeOK, NEW p \in Procesos, NEW c, Lee(p, c)
  PROVE  /\ EsPago(tx[p]) /\ c \in Cuentas /\ Existe(c) /\ cuentas[c] \in Cuenta
         /\ tx[p].leido[c] \in Nat /\ c \in DOMAIN tx[p].asig /\ tx[p].asig[c] \in Int
         /\ asignado[c] \in Int
<1>1. EsPago(tx[p])
  BY DEF Lee, EnPago, TypeOK
<1>2. c \in DOMAIN tx[p].asig /\ Existe(c) /\ tx[p].leido[c] \in Nat
  BY <1>1 DEF EsPago, Lee
<1>3. c \in Cuentas /\ tx[p].asig[c] \in Int
  BY <1>1, <1>2, RepartoForma DEF EsPago
<1>4. QED
  BY <1>1, <1>2, <1>3, CuentaExiste DEF TypeOK

\* A new debt of one account.
LEMMA SaldosNueva ==
  ASSUME InvSaldos, NEW c \in Cuentas, NEW importe \in Nat, ~Existe(c),
         cuentas' = [cuentas EXCEPT ![c] = Nueva(importe)],
         asignado' = asignado, pagos' = pagos, tx' = tx, cruzadas' = cruzadas
  PROVE  SaldosOK'
<1>1. \A p \in Procesos : ~Lee(p, c)
  BY LeeExistente DEF InvSaldos
<1>2. asignado[c] = 0
  BY DEF InvSaldos, SaldosOK, SinCuenta
<1>3. cuentas'[c] = Nueva(importe) /\ \A d \in Cuentas \ {c} : cuentas'[d] = cuentas[d]
  BY DEF InvSaldos, TypeOK
<1>4. /\ Nueva(importe) # NoCuenta /\ Nueva(importe).pendiente = importe
      /\ Nueva(importe).original = importe
  BY DEF Nueva, NoCuenta
<1>5. \A d \in Cuentas : Rebajada(d)' <=> Rebajada(d)
  BY DEF Rebajada
<1>6. \A p \in Procesos, d \in Cuentas : Lee(p, d)' <=> Lee(p, d)
  BY DEF Lee, EnPago
<1>7. SinCuenta(c)' /\ NuncaMenos(c)' /\ Igual(c)'
  BY <1>1, <1>2, <1>3, <1>4, <1>6 DEF SinCuenta, NuncaMenos, Igual, Resta, Existe
<1>8. ASSUME NEW d \in Cuentas \ {c}
      PROVE  SinCuenta(d)' /\ NuncaMenos(d)' /\ Igual(d)'
  <2>1. SinCuenta(d) /\ NuncaMenos(d) /\ Igual(d)
    BY DEF InvSaldos, SaldosOK
  <2>2. (Existe(d)' <=> Existe(d)) /\ Resta(d)' = Resta(d) /\ cuentas'[d] = cuentas[d]
    BY <1>3 DEF Existe, Resta
  <2>3. QED
    BY <1>5, <1>6, <2>1, <2>2 DEF SinCuenta, NuncaMenos, Igual
<1>9. QED
  BY <1>7, <1>8 DEF SaldosOK

\* Nobody reads an account anew.
LEMMA SaldosSinLectura ==
  ASSUME InvSaldos, cuentas' = cuentas, asignado' = asignado, pagos' = pagos,
         cruzadas' = cruzadas,
         \A p \in Procesos, c \in Cuentas :
           Lee(p, c)' => Lee(p, c) /\ tx'[p].leido[c] = tx[p].leido[c]
  PROVE  SaldosOK'
<1>1. SUFFICES ASSUME NEW c \in Cuentas
               PROVE  SinCuenta(c)' /\ NuncaMenos(c)' /\ Igual(c)'
  BY DEF SaldosOK
<1>2. SinCuenta(c) /\ NuncaMenos(c) /\ Igual(c)
  BY DEF InvSaldos, SaldosOK
<1>3. (Rebajada(c)' <=> Rebajada(c)) /\ (Existe(c)' <=> Existe(c)) /\ Resta(c)' = Resta(c)
  BY DEF Rebajada, Existe, Resta
<1>4. QED
  BY <1>2, <1>3 DEF SinCuenta, NuncaMenos, Igual

\* One payment reads one balance.
LEMMA SaldosLeer ==
  ASSUME InvSaldos, NEW p \in Procesos, NEW c \in Cuentas, LeerCuota(p, c)
  PROVE  SaldosOK'
<1> DEFINE f == [d \in DOMAIN tx[p].leido \cup {c} |->
                   IF d = c THEN cuentas[c].pendiente ELSE tx[p].leido[d]]
           t == [tx[p] EXCEPT !.leido = f]
<1>1. EsPago(tx[p]) /\ Existe(c) /\ cuentas[c] \in Cuenta
  BY CuentaExiste DEF LeerCuota, EnPago, TypeOK, InvSaldos
<1>2. t.leido = f /\ DOMAIN t = DOMAIN tx[p]
  BY <1>1, PagoTrasLeer
<1>3. tx'[p] = t /\ \A q \in Procesos \ {p} : tx'[q] = tx[q]
  BY DEF LeerCuota, InvSaldos, TypeOK
<1>4. \A q \in Procesos \ {p}, d \in Cuentas : Lee(q, d)' <=> Lee(q, d)
  BY <1>3 DEF Lee, EnPago
<1>5. \A d \in Cuentas : Lee(p, d)' <=> (Lee(p, d) \/ d = c)
  <2>1. tx'[p].leido = f /\ EnPago(p) /\ EnPago(p)'
    <3>1. DOMAIN Libre = {"op"}
      BY DEF Libre
    <3>2. QED
      BY <1>1, <1>2, <1>3, <3>1 DEF LeerCuota, EsPago, EnPago
  <2>2. QED
    BY <2>1 DEF Lee
<1>6. \A d \in DOMAIN tx[p].leido : d # c /\ tx'[p].leido[d] = tx[p].leido[d]
  BY <1>2, <1>3 DEF LeerCuota
<1>7. tx'[p].leido[c] = cuentas[c].pendiente
  BY <1>2, <1>3
<1> HIDE DEF t, f
<1>8. \A d \in Cuentas : /\ Rebajada(d)' <=> Rebajada(d)
                         /\ Existe(d)' <=> Existe(d)
                         /\ Resta(d)' = Resta(d)
  BY DEF LeerCuota, Rebajada, Existe, Resta
<1>9. ASSUME NEW d \in Cuentas
      PROVE  SinCuenta(d)' /\ NuncaMenos(d)' /\ Igual(d)'
  <2>1. SinCuenta(d) /\ NuncaMenos(d) /\ Igual(d)
    BY DEF InvSaldos, SaldosOK
  <2>2. SinCuenta(d)'
    BY <2>1, <1>8 DEF SinCuenta, LeerCuota
  <2>3. NuncaMenos(d)'
    BY <2>1, <1>1, <1>3, <1>4, <1>5, <1>6, <1>7, <1>8 DEF NuncaMenos, LeerCuota, Lee
  <2>4. Igual(d)'
    <3>1. CASE d # c
      <4>1. d \in cruzadas' <=> d \in cruzadas
        BY <3>1 DEF LeerCuota
      <4>2. QED
        BY <2>1, <3>1, <4>1, <1>3, <1>4, <1>5, <1>6, <1>8 DEF Igual, LeerCuota, Lee
    <3>2. CASE d = c
      <4>1. c \notin cruzadas' => c \notin cruzadas /\ \A q \in Procesos \ {p} : ~Lee(q, c)
        BY DEF LeerCuota, Lee
      <4>2. QED
        BY <2>1, <3>2, <4>1, <1>1, <1>3, <1>4, <1>5, <1>6, <1>7, <1>8 DEF Igual, LeerCuota
    <3>3. QED
      BY <3>1, <3>2
  <2>5. QED
    BY <2>2, <2>3, <2>4
<1>10. QED
  BY <1>9 DEF SaldosOK

\* A payment is committed: each of its balances becomes what it read less what it allocates.
LEMMA SaldosConfirmar ==
  ASSUME InvSaldos, NEW p \in Procesos, ConfirmarPago(p)
  PROVE  SaldosOK'
<1> DEFINE a == tx[p].asig
           k == tx[p].clave
<1>1. EnPago(p) /\ EsPago(tx[p]) /\ k \in Claves /\ pagos[k] = NoPago
  BY DEF ConfirmarPago, EnPago, InvSaldos, TypeOK, ClavesOK, EsPago
<1>2. \A c \in DOMAIN a : Lee(p, c)
  BY <1>1 DEF ConfirmarPago, EsPago, Lee
<1>3. \A q \in Procesos, c \in Cuentas :
        Lee(q, c)' => q # p /\ Lee(q, c) /\ tx'[q].leido[c] = tx[q].leido[c]
  BY DEF ConfirmarPago, Lee, EnPago, InvSaldos, TypeOK
<1>4. \A c \in Cuentas : Rebajada(c) => Rebajada(c)'
  BY <1>1 DEF Rebajada, ConfirmarPago, InvSaldos, TypeOK, NoPago
<1>5. \A c \in DOMAIN a : a[c] < 0 => Rebajada(c)'
  BY <1>1 DEF Rebajada, ConfirmarPago, InvSaldos, TypeOK
<1>6. \A c \in Cuentas : /\ cuentas'[c] = IF c \in DOMAIN a THEN Saldada(cuentas[c], tx[p].leido[c] - a[c])
                                          ELSE cuentas[c]
                         /\ asignado'[c] = IF c \in DOMAIN a THEN asignado[c] + a[c] ELSE asignado[c]
  BY DEF ConfirmarPago
<1> HIDE DEF a, k
<1>7. ASSUME NEW c \in Cuentas, c \notin DOMAIN a
      PROVE  SinCuenta(c)' /\ NuncaMenos(c)' /\ Igual(c)'
  <2>1. SinCuenta(c) /\ NuncaMenos(c) /\ Igual(c)
    BY DEF InvSaldos, SaldosOK
  <2>2. cuentas'[c] = cuentas[c] /\ asignado'[c] = asignado[c]
    BY <1>6, <1>7
  <2>3. (Existe(c)' <=> Existe(c)) /\ Resta(c)' = Resta(c)
    BY <2>2 DEF Existe, Resta
  <2>4. cruzadas' = cruzadas
    BY DEF ConfirmarPago
  <2>5. QED
    BY <1>3, <1>4, <2>1, <2>2, <2>3, <2>4 DEF SinCuenta, NuncaMenos, Igual
<1>8. ASSUME NEW c \in Cuentas, c \in DOMAIN a
      PROVE  SinCuenta(c)' /\ NuncaMenos(c)' /\ Igual(c)'
  <2>1. NuncaMenos(c) /\ Igual(c) /\ Lee(p, c)
    BY <1>2, <1>8 DEF InvSaldos, SaldosOK
  <2>2. /\ cuentas[c] \in Cuenta /\ asignado[c] \in Int /\ a[c] \in Int
        /\ tx[p].leido[c] \in Nat
    BY <2>1, LeeExistente DEF a, InvSaldos
  <2>3. /\ cuentas'[c].original = cuentas[c].original
        /\ cuentas'[c].pendiente = tx[p].leido[c] - a[c]
        /\ cuentas'[c] # NoCuenta
    BY <1>6, <1>8, <2>2 DEF Saldada, Cuenta, NoCuenta
  <2>4. cuentas[c].original \in Nat /\ cuentas[c].pendiente \in Nat
    BY <2>2 DEF Cuenta
  <2>5. Resta(c) \in Int /\ Resta(c)' = Resta(c) - a[c]
    BY <1>6, <1>8, <2>2, <2>3, <2>4 DEF Resta
  <2>6. Existe(c)'
    BY <2>3 DEF Existe
  <2>7. NuncaMenos(c)'
    <3> SUFFICES ASSUME ~Rebajada(c)'
                 PROVE  /\ cuentas'[c].pendiente >= Resta(c)'
                        /\ \A q \in Procesos : Lee(q, c)' => tx'[q].leido[c] >= Resta(c)'
      BY <2>6 DEF NuncaMenos
    <3>1. ~Rebajada(c) /\ a[c] >= 0
      BY <1>4, <1>5, <1>8, <2>2
    <3>2. \A q \in Procesos : Lee(q, c) => tx[q].leido[c] >= Resta(c) /\ tx[q].leido[c] \in Nat
      BY <2>1, <3>1, LeeExistente DEF NuncaMenos, InvSaldos
    <3>3. cuentas'[c].pendiente >= Resta(c)'
      BY <2>1, <2>2, <2>3, <2>5, <3>2
    <3>4. ASSUME NEW q \in Procesos, Lee(q, c)'
          PROVE  tx'[q].leido[c] >= Resta(c)'
      BY <1>3, <2>2, <2>5, <3>1, <3>2, <3>4
    <3>5. QED
      BY <3>3, <3>4
  <2>8. Igual(c)'
    <3> SUFFICES ASSUME c \notin cruzadas
                 PROVE  /\ cuentas'[c].pendiente = Resta(c)'
                        /\ \A q \in Procesos : ~Lee(q, c)'
      BY <2>6 DEF Igual, ConfirmarPago
    <3>1. tx[p].leido[c] = Resta(c) /\ \A q \in Procesos \ {p} : ~Lee(q, c)
      BY <2>1, LeeExistente DEF Igual, InvSaldos
    <3>2. QED
      BY <1>3, <2>2, <2>3, <2>5, <3>1
  <2>9. QED
    BY <2>6, <2>7, <2>8 DEF SinCuenta
<1>9. QED
  BY <1>7, <1>8 DEF SaldosOK

\* The key of a payment does not change while it is in flight.
LEMMA ClaveFija ==
  ASSUME InvSaldos, NEW p \in Procesos, NEW c \in Cuentas, LeerCuota(p, c) \/ EscribirCuota(p, c)
  PROVE  /\ EnPago(p) /\ tx'[p].clave = tx[p].clave
         /\ \A q \in Procesos \ {p} : tx'[q] = tx[q]
<1>1. EnPago(p) /\ EsPago(tx[p])
  BY DEF LeerCuota, EscribirCuota, EnPago, InvSaldos, TypeOK
<1>2. CASE LeerCuota(p, c)
  <2> DEFINE f == [d \in DOMAIN tx[p].leido \cup {c} |->
                     IF d = c THEN cuentas[c].pendiente ELSE tx[p].leido[d]]
             t == [tx[p] EXCEPT !.leido = f]
  <2>1. t.clave = tx[p].clave
    BY <1>1, PagoTrasLeer
  <2>2. tx' = [tx EXCEPT ![p] = t]
    BY <1>2 DEF LeerCuota, InvSaldos, TypeOK
  <2> HIDE DEF t
  <2>3. QED
    BY <1>1, <2>1, <2>2 DEF InvSaldos, TypeOK
<1>3. CASE EscribirCuota(p, c)
  <2> DEFINE t == [tx[p] EXCEPT !.escrito = @ \cup {c}]
  <2>1. t.clave = tx[p].clave
    BY <1>1, PagoTrasEscribir
  <2>2. tx' = [tx EXCEPT ![p] = t]
    BY <1>3 DEF EscribirCuota, InvSaldos, TypeOK
  <2> HIDE DEF t
  <2>3. QED
    BY <1>1, <2>1, <2>2 DEF InvSaldos, TypeOK
<1>4. QED
  BY <1>2, <1>3

\* Payments in flight keep keys of their own: the unique index stops a second commit of one.
LEMMA ClavesSiguen ==
  ASSUME InvSaldos, NEW p \in Procesos, Cobro(p)
  PROVE  ClavesOK'
<1>1. ASSUME NEW k \in Claves, NEW asig, CrearPago(p, k, asig)
      PROVE  ClavesOK'
  <2>1. /\ tx'[p].clave = k /\ \A q \in Procesos \ {p} : tx'[q] = tx[q]
        /\ pagos' = pagos /\ pagos[k] = NoPago
    BY <1>1 DEF CrearPago, InvSaldos, TypeOK
  <2>2. \A q \in Procesos : EnPago(q) => tx[q].clave # k
    BY <1>1 DEF CrearPago
  <2>3. QED
    BY <2>1, <2>2 DEF ClavesOK, EnPago, InvSaldos
<1>2. ASSUME NEW c \in Cuentas, LeerCuota(p, c) \/ EscribirCuota(p, c)
      PROVE  ClavesOK'
  <2>1. pagos' = pagos
    BY <1>2 DEF LeerCuota, EscribirCuota
  <2>2. QED
    BY <1>2, <2>1, ClaveFija DEF ClavesOK, EnPago, InvSaldos
<1>3. CASE ConfirmarPago(p)
  <2>1. /\ EnPago(p) /\ ~EnPago(p)' /\ \A q \in Procesos \ {p} : tx'[q] = tx[q]
        /\ \A k \in Claves : k # tx[p].clave => pagos'[k] = pagos[k]
    BY <1>3 DEF ConfirmarPago, InvSaldos, TypeOK, EnPago
  <2>2. \A q \in Procesos : EnPago(q) => tx[q].clave \in Claves
    BY DEF InvSaldos, TypeOK, EnPago, EsPago
  <2>3. QED
    BY <2>1, <2>2 DEF ClavesOK, EnPago, InvSaldos
<1>4. CASE Abortar(p)
  BY <1>4 DEF Abortar, ClavesOK, EnPago, InvSaldos, TypeOK
<1>5. QED
  BY <1>1, <1>2, <1>3, <1>4 DEF Cobro

\* A new debt is owed whole, and no payment in flight has read it.
LEMMA SaldosDeuda ==
  ASSUME InvSaldos, Deuda
  PROVE  InvSaldos'
<1>1. TypeOK'
  BY TypeDeuda DEF InvSaldos
<1>2. ClavesOK'
  BY DEF Deuda, Fiar, Recepcionar, InvSaldos, ClavesOK, EnPago
<1>3. ASSUME NEW c \in PorCobrar, NEW saldo \in Importes, Fiar(c, saldo)
      PROVE  RecibosOK' /\ SaldosOK'
  <2>1. RecibosOK'
    BY <1>3 DEF Fiar, RecibosOK, Existe, InvSaldos, TypeOK
  <2>2. c \in Cuentas /\ saldo \in Nat
    BY DEF Cuentas
  <2>3. QED
    BY <1>3, <2>1, <2>2, SaldosNueva DEF Fiar
<1>4. ASSUME NEW c \in PorPagar, NEW importe \in Importes, NEW aCredito \in BOOLEAN,
             Recepcionar(c, importe, aCredito)
      PROVE  RecibosOK' /\ SaldosOK'
  <2>1. RecibosOK'
    <3>1. \A d \in Cuentas : d # c => cuentas'[d] = cuentas[d]
      BY <1>4 DEF Recepcionar, InvSaldos, TypeOK
    <3>2. QED
      BY <1>4, <3>1 DEF Recepcionar, RecibosOK, Existe, InvSaldos, Cuentas
  <2>2. c \in Cuentas /\ importe \in Nat /\ ~Existe(c)
    BY <1>4 DEF Cuentas, Recepcionar, InvSaldos, RecibosOK
  <2>3. CASE aCredito
    BY <1>4, <2>1, <2>2, <2>3, SaldosNueva DEF Recepcionar
  <2>4. CASE ~aCredito
    BY <1>4, <2>1, <2>4, SaldosSinLectura DEF Recepcionar, Lee, EnPago
  <2>5. QED
    BY <2>3, <2>4
<1>5. QED
  BY <1>1, <1>2, <1>3, <1>4 DEF Deuda, InvSaldos

\* A step of a payment moves the stored balance and what that payment will still allocate
\* together; a lost update only restores debt.
LEMMA SaldosCobro ==
  ASSUME InvSaldos, NEW p \in Procesos, Cobro(p)
  PROVE  InvSaldos'
<1>1. TypeOK' /\ ClavesOK'
  BY TypeCobro, ClavesSiguen DEF InvSaldos
<1>2. ASSUME NEW k \in Claves, NEW asig, CrearPago(p, k, asig)
      PROVE  RecibosOK' /\ SaldosOK'
  <2>1. tx'[p].leido = NoPago /\ \A q \in Procesos \ {p} : tx'[q] = tx[q]
    BY <1>2 DEF CrearPago, InvSaldos, TypeOK
  <2>2. \A q \in Procesos, c \in Cuentas :
          Lee(q, c)' => Lee(q, c) /\ tx'[q].leido[c] = tx[q].leido[c]
    BY <2>1 DEF Lee, EnPago, NoPago
  <2>3. QED
    BY <1>2, <2>2, SaldosSinLectura DEF CrearPago, InvSaldos, RecibosOK, Existe
<1>3. ASSUME NEW c \in Cuentas, LeerCuota(p, c)
      PROVE  RecibosOK' /\ SaldosOK'
  BY <1>3, SaldosLeer DEF LeerCuota, InvSaldos, RecibosOK, Existe
<1>4. ASSUME NEW c \in Cuentas, EscribirCuota(p, c)
      PROVE  RecibosOK' /\ SaldosOK'
  <2> DEFINE t == [tx[p] EXCEPT !.escrito = @ \cup {c}]
  <2>1. EnPago(p) /\ EsPago(tx[p])
    BY <1>4 DEF EscribirCuota, EnPago, InvSaldos, TypeOK
  <2>2. t.leido = tx[p].leido
    BY <2>1, PagoTrasEscribir
  <2>3. tx' = [tx EXCEPT ![p] = t]
    BY <1>4 DEF EscribirCuota, InvSaldos, TypeOK
  <2> HIDE DEF t
  <2>4. \A q \in Procesos, d \in Cuentas :
          Lee(q, d)' => Lee(q, d) /\ tx'[q].leido[d] = tx[q].leido[d]
    BY <2>1, <2>2, <2>3 DEF Lee, EnPago, InvSaldos, TypeOK
  <2>5. QED
    BY <1>4, <2>4, SaldosSinLectura DEF EscribirCuota, InvSaldos, RecibosOK, Existe
<1>5. CASE ConfirmarPago(p)
  <2>1. \A c \in Cuentas : Existe(c)' => Existe(c)
    <3>1. \A c \in DOMAIN tx[p].asig : Existe(c)
      BY <1>5 DEF ConfirmarPago, EnPago, InvSaldos, TypeOK, EsPago
    <3>2. QED
      BY <1>5, <3>1 DEF ConfirmarPago, Existe
  <2>2. QED
    BY <1>1, <1>5, <2>1, SaldosConfirmar DEF ConfirmarPago, InvSaldos, RecibosOK, Cuentas
<1>6. CASE Abortar(p)
  <2>1. \A q \in Procesos, c \in Cuentas :
          Lee(q, c)' => Lee(q, c) /\ tx'[q].leido[c] = tx[q].leido[c]
    BY <1>6 DEF Abortar, Lee, EnPago, InvSaldos, TypeOK
  <2>2. QED
    BY <1>1, <1>6, <2>1, SaldosSinLectura DEF Abortar, InvSaldos, RecibosOK, Existe
<1>7. QED
  BY <1>1, <1>2, <1>3, <1>4, <1>5, <1>6 DEF Cobro, InvSaldos

\* The stored balances are bounded by what was committed and by what payments in flight
\* read, in every behaviour: the invariant that DeudaNuncaPerdonada and SaldoProyectado
\* follow from.
THEOREM Saldos == Spec => []InvSaldos
<1>1. InvSaldos /\ [Next]_vars => InvSaldos'
  <2> SUFFICES ASSUME InvSaldos, [Next]_vars
               PROVE  InvSaldos'
    OBVIOUS
  <2>1. CASE Deuda
    BY <2>1, SaldosDeuda
  <2>2. ASSUME NEW p \in Procesos, Cobro(p)
        PROVE  InvSaldos'
    BY <2>2, SaldosCobro
  <2>3. CASE UNCHANGED vars
    <3>1. SaldosOK'
      BY <2>3, SaldosSinLectura DEF vars, Lee, EnPago
    <3>2. /\ \A p \in Procesos : tx'[p] = Libre \/ EsPago(tx[p])'
          /\ tx' = [p \in Procesos |-> tx'[p]]
      BY <2>3, TxSigue DEF vars, Existe, InvSaldos
    <3>3. TypeOK'
      BY <2>3, <3>2 DEF vars, InvSaldos, TypeOK
    <3>4. QED
      BY <2>3, <3>1, <3>3 DEF vars, InvSaldos, ClavesOK, RecibosOK, EnPago, Existe
  <2>4. QED
    BY <2>1, <2>2, <2>3 DEF Next
<1>2. QED
  BY <1>1, SaldosInicial, PTL DEF Spec

\* Whatever payments of one debt overlap, none is forgiven: the lost update of registrarCobro
\* and pagarProveedor always leaves the balance too high.
THEOREM DeudaNuncaPerdonada == Spec => []DeudaNoPerdonada
<1>1. InvSaldos => DeudaNoPerdonada
  BY DEF InvSaldos, SaldosOK, NuncaMenos, Resta, DeudaNoPerdonada
<1>2. QED
  BY <1>1, Saldos, PTL

\* An instalment no two payments ever read together is the projection of its allocations.
THEOREM SaldoProyectado == Spec => []SaldoEsProyeccion
<1>1. InvSaldos => SaldoEsProyeccion
  BY DEF InvSaldos, SaldosOK, Igual, Resta, SaldoEsProyeccion
<1>2. QED
  BY <1>1, Saldos, PTL
=============================================================================

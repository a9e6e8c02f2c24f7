------------------------------ MODULE Cuentas -------------------------------
(***************************************************************************)
(* Accounts receivable (modulos/nucleo/clientes) and payable               *)
(* (modulos/nucleo/compras): a debt, its instalment and the payments       *)
(* allocated to it.                                                        *)
(*                                                                         *)
(* registrarCobro and pagarProveedor are the same method over two sets of  *)
(* tables.  For each allocation they read montoPendiente without a lock,   *)
(* check it and write back the difference; the write takes the row, so a   *)
(* second payment of the instalment waits there with what it read before.  *)
(* An account is created with one instalment and recalcular copies its     *)
(* balance, so an account and its instalment are one record here.          *)
(***************************************************************************)
EXTENDS Integers, FiniteSets, FiniteSetsExt

CONSTANTS PorCobrar,  \* pool of AccountsReceivable, by the sale they come from
          PorPagar,   \* pool of AccountsPayable, by the receipt they come from
          Importes,   \* amounts of a new debt
          Claves,     \* idempotency keys of payments
          Montos,     \* amounts of an allocation; IsNumberString lets them be negative
          Procesos    \* payments that may be in flight together

Cuentas == PorCobrar \cup PorPagar

ASSUME CuentasAssumption ==
  /\ PorCobrar \cap PorPagar = {}
  /\ Importes \subseteq Nat
  /\ Montos \subseteq Int

VARIABLES cuentas,   \* AccountsReceivable, AccountsPayable with their instalment
          asignado,  \* per instalment: sum of its committed allocations
          recibos,   \* PurchaseReceipt, by idempotency key
          pagos,     \* ReceivablePayment, PurchasePayment: allocations by key
          tx,        \* per process: payment in flight
          cruzadas   \* history: instalments that two payments in flight had read

vars == <<cuentas, asignado, recibos, pagos, tx, cruzadas>>

-----------------------------------------------------------------------------
NoCuenta == [estado |-> "AUSENTE"]
NoPago == [c \in {} |-> 0]
Libre == [op |-> "libre"]

Existe(c) == cuentas[c] # NoCuenta

Cuenta == [estado : {"PENDIENTE", "PAGADA_PARCIALMENTE", "PAGADA"}, original : Nat,
           pendiente : Nat]

\* A payment names each instalment once (unique index of the allocations), and its
\* amount is positive and the sum of its allocations.
Asignaciones(lado) ==
  {a \in UNION {[S -> Montos] : S \in SUBSET lado} :
     MapThenSumSet(LAMBDA c : a[c], DOMAIN a) > 0}

Reparto == UNION {[S -> Montos] : S \in SUBSET Cuentas}

\* leido: the instalments read so far, with what was read; escrito: those written.
EsPago(t) ==
  /\ DOMAIN t = {"op", "clave", "asig", "leido", "escrito"}
  /\ t.op = "pago" /\ t.clave \in Claves /\ t.asig \in Reparto
  /\ t.escrito \subseteq DOMAIN t.leido /\ DOMAIN t.leido \subseteq DOMAIN t.asig
  /\ t.leido \in [DOMAIN t.leido -> Nat]
  /\ \A c \in DOMAIN t.leido : Existe(c) /\ t.asig[c] <= t.leido[c]

TypeOK ==
  /\ cuentas \in [Cuentas -> Cuenta \cup {NoCuenta}]
  /\ asignado \in [Cuentas -> Int]
  /\ recibos \subseteq PorPagar
  /\ pagos \in [Claves -> Reparto]
  /\ \A p \in Procesos : tx[p] = Libre \/ EsPago(tx[p])
  /\ tx = [p \in Procesos |-> tx[p]]
  /\ cruzadas \subseteq Cuentas

Init ==
  /\ cuentas = [c \in Cuentas |-> NoCuenta]
  /\ asignado = [c \in Cuentas |-> 0]
  /\ recibos = {}
  /\ pagos = [k \in Claves |-> NoPago]
  /\ tx = [p \in Procesos |-> Libre]
  /\ cruzadas = {}

-----------------------------------------------------------------------------
(* Debts *)

Nueva(importe) == [estado |-> "PENDIENTE", original |-> importe, pendiente |-> importe]

\* generarCuentaPorCobrar, in the transaction of the sale: nothing if it is paid.
Fiar(c, saldo) ==
  /\ ~Existe(c)
  /\ saldo > 0
  /\ cuentas' = [cuentas EXCEPT ![c] = Nueva(saldo)]
  /\ UNCHANGED <<asignado, recibos, pagos, tx, cruzadas>>

\* recepcionar: a known key returns the receipt; the unique index stops a key in flight.
\* The stock that comes in is Ingresar of Inventario.
Recepcionar(c, importe, aCredito) ==
  /\ c \notin recibos
  /\ recibos' = recibos \cup {c}
  /\ cuentas' = IF aCredito THEN [cuentas EXCEPT ![c] = Nueva(importe)] ELSE cuentas
  /\ UNCHANGED <<asignado, pagos, tx, cruzadas>>

-----------------------------------------------------------------------------
(* Payments: registrarCobro, pagarProveedor *)

EnPago(p) == tx[p] # Libre

\* The payment row is inserted first: a second insert of its key waits and fails.
CrearPago(p, k, asig) ==
  /\ ~EnPago(p)
  /\ pagos[k] = NoPago
  /\ \A q \in Procesos : EnPago(q) => tx[q].clave # k
  /\ tx' = [tx EXCEPT ![p] = [op |-> "pago", clave |-> k, asig |-> asig, leido |-> NoPago,
                              escrito |-> {}]]
  /\ UNCHANGED <<cuentas, asignado, recibos, pagos, cruzadas>>

\* Slip: the balance is not compared with the allocation.
LeerCuota_SinTope(p, c) ==
  /\ EnPago(p)
  /\ c \in DOMAIN tx[p].asig \ DOMAIN tx[p].leido
  /\ DOMAIN tx[p].leido = tx[p].escrito
  /\ Existe(c)
  /\ tx' = [tx EXCEPT ![p].leido = [d \in DOMAIN @ \cup {c} |->
                                      IF d = c THEN cuentas[c].pendiente ELSE @[d]]]
  /\ cruzadas' = IF \E q \in Procesos \ {p} : EnPago(q) /\ c \in DOMAIN tx[q].leido
                   THEN cruzadas \cup {c} ELSE cruzadas
  /\ UNCHANGED <<cuentas, asignado, recibos, pagos>>

\* Slip: what is left is computed from the original amount.
LeerCuota_Original(p, c) ==
  /\ EnPago(p)
  /\ c \in DOMAIN tx[p].asig \ DOMAIN tx[p].leido
  /\ DOMAIN tx[p].leido = tx[p].escrito
  /\ Existe(c)
  /\ tx[p].asig[c] <= cuentas[c].pendiente
  /\ tx' = [tx EXCEPT ![p].leido = [d \in DOMAIN @ \cup {c} |->
                                      IF d = c THEN cuentas[c].original ELSE @[d]]]
  /\ cruzadas' = IF \E q \in Procesos \ {p} : EnPago(q) /\ c \in DOMAIN tx[q].leido
                   THEN cruzadas \cup {c} ELSE cruzadas
  /\ UNCHANGED <<cuentas, asignado, recibos, pagos>>

\* The next allocation: the committed balance of its instalment must cover it.
LeerCuota(p, c) ==
  /\ EnPago(p)
  /\ c \in DOMAIN tx[p].asig \ DOMAIN tx[p].leido
  /\ DOMAIN tx[p].leido = tx[p].escrito
  /\ Existe(c)
  /\ tx[p].asig[c] <= cuentas[c].pendiente
  /\ tx' = [tx EXCEPT ![p].leido = [d \in DOMAIN @ \cup {c} |->
                                      IF d = c THEN cuentas[c].pendiente ELSE @[d]]]
  /\ cruzadas' = IF \E q \in Procesos \ {p} : EnPago(q) /\ c \in DOMAIN tx[q].leido
                   THEN cruzadas \cup {c} ELSE cruzadas
  /\ UNCHANGED <<cuentas, asignado, recibos, pagos>>

\* Its update takes the row until commit.
EscribirCuota(p, c) ==
  /\ EnPago(p)
  /\ c \in DOMAIN tx[p].leido \ tx[p].escrito
  /\ \A q \in Procesos \ {p} : EnPago(q) => c \notin tx[q].escrito
  /\ tx' = [tx EXCEPT ![p].escrito = @ \cup {c}]
  /\ UNCHANGED <<cuentas, asignado, recibos, pagos, cruzadas>>

\* Slip: any payment settles its instalment.
Saldada_Entera(cuenta, saldo) == [cuenta EXCEPT !.pendiente = 0, !.estado = "PAGADA"]

\* What an instalment is left with, and recalcular on its account.
Saldada(cuenta, saldo) ==
  [cuenta EXCEPT !.pendiente = saldo,
                 !.estado = IF saldo <= 0 THEN "PAGADA" ELSE "PAGADA_PARCIALMENTE"]

\* Commit: the instalments become what was read less what is allocated.
ConfirmarPago(p) ==
  /\ EnPago(p)
  /\ tx[p].escrito = DOMAIN tx[p].asig
  /\ LET a == tx[p].asig IN
       /\ cuentas' = [c \in Cuentas |-> IF c \in DOMAIN a
                        THEN Saldada(cuentas[c], tx[p].leido[c] - a[c]) ELSE cuentas[c]]
       /\ asignado' = [c \in Cuentas |-> IF c \in DOMAIN a THEN asignado[c] + a[c]
                                                           ELSE asignado[c]]
       /\ pagos' = [pagos EXCEPT ![tx[p].clave] = a]
  /\ tx' = [tx EXCEPT ![p] = Libre]
  /\ UNCHANGED <<recibos, cruzadas>>

\* Rollback: an allocation above the balance, an unknown instalment, a deadlock between
\* two payments of the same instalments in opposite orders, a lost connection.
Abortar(p) ==
  /\ EnPago(p)
  /\ tx' = [tx EXCEPT ![p] = Libre]
  /\ UNCHANGED <<cuentas, asignado, recibos, pagos, cruzadas>>

-----------------------------------------------------------------------------
Deuda ==
  \/ \E c \in PorCobrar, saldo \in Importes : Fiar(c, saldo)
  \/ \E c \in PorPagar, importe \in Importes, aCredito \in BOOLEAN :
       Recepcionar(c, importe, aCredito)

Cobro(p) ==
  \/ \E k \in Claves, asig \in Asignaciones(PorCobrar) \cup Asignaciones(PorPagar) :
       CrearPago(p, k, asig)
  \/ \E c \in Cuentas : LeerCuota(p, c) \/ EscribirCuota(p, c)
  \/ ConfirmarPago(p)
  \/ Abortar(p)

Next == Deuda \/ \E p \in Procesos : Cobro(p)

Spec == Init /\ [][Next]_vars

-----------------------------------------------------------------------------
\* An allocation may be negative (nothing refuses it) and then raises the balance.
Rebajada(c) == \E k \in Claves : c \in DOMAIN pagos[k] /\ pagos[k][c] < 0

\* "Payment allocations are authoritative": whatever payments overlap, a balance is never
\* below the debt less its allocations.  A subtraction that gets lost (two payments read
\* the same balance) leaves the customer owing too much, never too little; only the loss
\* of a negative allocation would forgive a debt.
DeudaNoPerdonada ==
  \A c \in Cuentas : Existe(c) /\ ~Rebajada(c) =>
    cuentas[c].pendiente >= cuentas[c].original - asignado[c]

\* "Open balances are projections": the balance of an instalment is the debt less its
\* allocations, as long as no two payments of it were in flight together.
SaldoEsProyeccion ==
  \A c \in Cuentas \ cruzadas :
    Existe(c) => cuentas[c].pendiente = cuentas[c].original - asignado[c]

=============================================================================

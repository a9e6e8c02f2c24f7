---------------------------- MODULE Facturacion -----------------------------
(***************************************************************************)
(* Invoices of the platform to one tenant (modulos/administracion/         *)
(* facturacion).  registrarPago reads montoPaid without a lock and writes  *)
(* back the sum; a CHECK keeps montoPaid within the total, and the index   *)
(* of the idempotency key stops a payment that is already there.           *)
(***************************************************************************)
EXTENDS Integers, FiniteSets, Functions

CONSTANTS Facturas,  \* pool of Invoice
          Total,     \* the price of the plan
          Abonos,    \* pool of Payment, by idempotency key
          Montos,    \* amounts of a payment
          Cobros     \* requests that may be in flight together

ASSUME FacturacionAssumption ==
  /\ IsFiniteSet(Facturas) /\ IsFiniteSet(Abonos)
  /\ Total \in Nat /\ Montos \subseteq Nat

VARIABLES factura,   \* Invoice
          abono,     \* Payment
          cobro,     \* per request: what it read
          leidas     \* history: invoices that two payments in flight had read

varsFac == <<factura, abono, cobro, leidas>>

-----------------------------------------------------------------------------
NoFactura == [numero |-> 0, pagado |-> 0, estado |-> "AUSENTE"]
NoAbono == [factura |-> "ninguna", monto |-> 0]
Inactivo == [op |-> "inactivo"]

Factura == [numero : Nat \ {0}, pagado : 0 .. Total, estado : {"ABIERTA", "PAGADA"}]

Cobro == {Inactivo}
  \cup [op : {"facturar"}, numero : Nat \ {0}]
  \cup [op : {"pagar"}, factura : Facturas, abono : Abonos, monto : Montos, pagado : 0 .. Total]

Emitidas == {f \in Facturas : factura[f] # NoFactura}

TypeOKFac ==
  /\ factura \in [Facturas -> Factura \cup {NoFactura}]
  /\ \A f, h \in Emitidas : factura[f].numero = factura[h].numero => f = h
  /\ \A f \in Emitidas : factura[f].numero <= Cardinality(Emitidas)
  /\ abono \in [Abonos -> [factura : Emitidas, monto : Montos] \cup {NoAbono}]
  /\ \A c \in Cobros : cobro[c] \in Cobro
  /\ leidas \subseteq Facturas

InitFac ==
  /\ factura = [f \in Facturas |-> NoFactura]
  /\ abono = [a \in Abonos |-> NoAbono]
  /\ cobro = [c \in Cobros |-> Inactivo]
  /\ leidas = {}

Inicia(c, que) == cobro[c] = Inactivo /\ cobro' = [cobro EXCEPT ![c] = que]
Acaba(c) == cobro' = [cobro EXCEPT ![c] = Inactivo]

-----------------------------------------------------------------------------
\* generarFactura: the number is the count of invoices plus one.
FacturarLeer(c) ==
  /\ Inicia(c, [op |-> "facturar", numero |-> Cardinality(Emitidas) + 1])
  /\ UNCHANGED <<factura, abono, leidas>>

FacturarAplicar(c, f) ==
  /\ cobro[c].op = "facturar"
  /\ factura[f] = NoFactura
  /\ \A h \in Facturas : factura[h].numero # cobro[c].numero
  /\ factura' = [factura EXCEPT ![f] = [numero |-> cobro[c].numero, pagado |-> 0,
                                        estado |-> "ABIERTA"]]
  /\ Acaba(c)
  /\ UNCHANGED <<abono, leidas>>

\* registrarPago: a known key returns its payment, and nothing more is read.
PagarLeer(c, f, a, m) ==
  /\ f \in Emitidas /\ factura[f].estado # "PAGADA"
  /\ abono[a] = NoAbono
  /\ Inicia(c, [op |-> "pagar", factura |-> f, abono |-> a, monto |-> m,
                pagado |-> factura[f].pagado])
  /\ leidas' = leidas \cup {h \in {f} : \E d \in Cobros : cobro[d].op = "pagar" /\ cobro[d].factura = h}
  /\ UNCHANGED <<factura, abono>>

\* Slip: an invoice is settled by any payment.
PagarAplicar_Liquidada(c) ==
  LET q == cobro[c]
      pagado == q.pagado + q.monto IN
  /\ q.op = "pagar"
  /\ abono[q.abono] = NoAbono
  /\ pagado <= Total
  /\ abono' = [abono EXCEPT ![q.abono] = [factura |-> q.factura, monto |-> q.monto]]
  /\ factura' = [factura EXCEPT ![q.factura].pagado = pagado, ![q.factura].estado = "PAGADA"]
  /\ Acaba(c)
  /\ UNCHANGED leidas

PagarAplicar(c) ==
  LET q == cobro[c]
      pagado == q.pagado + q.monto IN
  /\ q.op = "pagar"
  /\ abono[q.abono] = NoAbono
  /\ pagado <= Total
  /\ abono' = [abono EXCEPT ![q.abono] = [factura |-> q.factura, monto |-> q.monto]]
  /\ factura' = [factura EXCEPT ![q.factura].pagado = pagado,
                                ![q.factura].estado = IF pagado >= Total THEN "PAGADA" ELSE "ABIERTA"]
  /\ Acaba(c)
  /\ UNCHANGED leidas

\* A check, an index or the CHECK fails: the transaction is rolled back.
Deshacer(c) ==
  /\ cobro[c] # Inactivo
  /\ Acaba(c)
  /\ UNCHANGED <<factura, abono, leidas>>

NextFac ==
  \E c \in Cobros :
    \/ FacturarLeer(c) \/ PagarAplicar(c) \/ Deshacer(c)
    \/ \E f \in Facturas : FacturarAplicar(c, f)
    \/ \E f \in Facturas, a \in Abonos, m \in Montos : PagarLeer(c, f, a, m)

-----------------------------------------------------------------------------
PagadoDe(f) ==
  SumFunctionOnSet([a \in Abonos |-> IF abono[a].factura = f THEN abono[a].monto ELSE 0], Abonos)

\* No invoice is settled for less than its total: the payments recorded for it are at least
\* what montoPaid says, which they equal unless two payments overlapped; an overlap loses a
\* payment (and may reopen a settled invoice) but never gives one away.
PagadaCubierta ==
  \A f \in Emitidas :
    /\ factura[f].pagado <= PagadoDe(f)
    /\ factura[f].estado = "PAGADA" => PagadoDe(f) >= Total
    /\ f \notin leidas => factura[f].pagado = PagadoDe(f)
=============================================================================

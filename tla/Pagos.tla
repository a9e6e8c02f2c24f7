-------------------------------- MODULE Pagos -------------------------------
(***************************************************************************)
(* Card payments (modulos/nucleo/pagos): a payment intent, the charge at   *)
(* the provider, its webhooks, and the SalePayment that reconciles it with *)
(* a sale.                                                                 *)
(*                                                                         *)
(* crearIntento calls the provider inside its database transaction: what   *)
(* the provider did stays when the transaction rolls back.  A webhook may  *)
(* be early, late, repeated or out of order.  An intent has one            *)
(* transaction and their states move together: they are one record here.   *)
(***************************************************************************)
EXTENDS Naturals

CONSTANTS Claves,   \* idempotency keys of payments
          Ventas,   \* pool of Sale
          Cargos,   \* pool of charges at the provider
          Procesos  \* requests and webhooks that may be in flight together

VARIABLES cuenta,     \* PaymentProviderAccount: the merchant is registered
          ventas,     \* sales created
          intentos,   \* PaymentIntent and its PaymentTransaction, by key
          pagados,    \* SalePayment, by the key of its intent
          procesados, \* PaymentWebhookEvent with procesadoEn: charge and type
          cargos,     \* the provider's charges
          tx,         \* per process: request in flight
          perdidos,   \* history: captured charges whose request was cut
          tardias     \* history: keys whose sale came after it was last looked for

vars == <<cuenta, ventas, intentos, pagados, procesados, cargos, tx, perdidos, tardias>>

-----------------------------------------------------------------------------
Estados == {"CAPTURADA", "FALLIDA"}
\* Types of an event by what they contain: `succeeded'; not that but `creation' (such as
\* charge.creation.failed), or no type at all; neither.
Avisos == {"exito", "impreciso", "otro"}

NoIntento == [estado |-> "AUSENTE"]
NoCargo == [estado |-> "AUSENTE"]
Libre == [op |-> "libre"]

\* cargo and venta hold one id at most: the provider's error may name no charge, and a
\* payment may be for no sale.
AlMasUno(S) == {{}} \cup {{x} : x \in S}
Intento == [estado : Estados, cargo : AlMasUno(Cargos), venta : AlMasUno(Ventas)]
Cargo == [estado : Estados, clave : Claves]
Tx == {Libre}
  \cup [op : {"intento"}, clave : Claves, venta : AlMasUno(Ventas)]
  \cup [op : {"cobrado"}, clave : Claves, venta : AlMasUno(Ventas), estado : Estados,
        cargo : AlMasUno(Cargos), pagar : BOOLEAN]
  \cup [op : {"aviso"}, cargo : Cargos, tipo : Avisos]
  \cup [op : {"tomado"}, cargo : Cargos, tipo : Avisos, claves : AlMasUno(Claves),
        pagar : BOOLEAN]

\* What the provider says of a charge is of a charge it has, and a payment is of an intent.
TypeOK ==
  /\ cuenta \in BOOLEAN /\ ventas \subseteq Ventas
  /\ intentos \in [Claves -> Intento \cup {NoIntento}]
  /\ pagados \subseteq {k \in Claves : intentos[k] # NoIntento}
  /\ procesados \subseteq {c \in Cargos : cargos[c] # NoCargo} \X Avisos
  /\ cargos \in [Cargos -> Cargo \cup {NoCargo}]
  /\ tx \in [Procesos -> Tx]
  /\ perdidos \subseteq Cargos /\ tardias \subseteq Claves

Init ==
  /\ cuenta = FALSE /\ ventas = {}
  /\ intentos = [k \in Claves |-> NoIntento]
  /\ pagados = {} /\ procesados = {}
  /\ cargos = [c \in Cargos |-> NoCargo]
  /\ tx = [p \in Procesos |-> Libre]
  /\ perdidos = {} /\ tardias = {}

-----------------------------------------------------------------------------
RegistrarCuenta ==
  /\ ~cuenta
  /\ cuenta' = TRUE
  /\ UNCHANGED <<ventas, intentos, pagados, procesados, cargos, tx, perdidos, tardias>>

\* Keys of sale v that have been, or are being, recorded without a payment of it.
SinPagar(v) ==
  {k \in Claves : intentos[k] # NoIntento /\ intentos[k].venta = {v} /\ k \notin pagados}
  \cup {tx[p].clave : p \in {q \in Procesos : tx[q].op = "cobrado" /\ tx[q].venta = {v}}}

\* crear of VentasService: the point of sale may create it before or after the payment.
CrearVenta(v) ==
  /\ v \notin ventas
  /\ ventas' = ventas \cup {v}
  /\ tardias' = tardias \cup SinPagar(v)
  /\ UNCHANGED <<cuenta, intentos, pagados, procesados, cargos, tx, perdidos>>

-----------------------------------------------------------------------------
(* crearIntento *)

\* Slip: only a committed key is known, and the insert does not wait for one in flight.
IntentoLeer_SinIndice(p, k, venta) ==
  /\ tx[p] = Libre
  /\ intentos[k] = NoIntento
  /\ tx' = [tx EXCEPT ![p] = [op |-> "intento", clave |-> k, venta |-> venta]]
  /\ UNCHANGED <<cuenta, ventas, intentos, pagados, procesados, cargos, perdidos, tardias>>

\* A known key returns its intent; the insert of a key in flight waits, and then fails.
IntentoLeer(p, k, venta) ==
  /\ tx[p] = Libre
  /\ intentos[k] = NoIntento
  /\ \A q \in Procesos : tx[q].op \in {"intento", "cobrado"} => tx[q].clave # k
  /\ tx' = [tx EXCEPT ![p] = [op |-> "intento", clave |-> k, venta |-> venta]]
  /\ UNCHANGED <<cuenta, ventas, intentos, pagados, procesados, cargos, perdidos, tardias>>

\* The provider captures or rejects a new charge and answers: the sale is looked for at once.
Cobrar(p, c, estado) ==
  /\ tx[p].op = "intento"
  /\ cargos[c] = NoCargo
  /\ cargos' = [cargos EXCEPT ![c] = [estado |-> estado, clave |-> tx[p].clave]]
  /\ tx' = [tx EXCEPT ![p] =
       [op |-> "cobrado", clave |-> tx[p].clave, venta |-> tx[p].venta, estado |-> estado,
        cargo |-> {c},
        pagar |-> estado = "CAPTURADA" /\ tx[p].venta # {} /\ tx[p].venta \subseteq ventas]]
  /\ UNCHANGED <<cuenta, ventas, intentos, pagados, procesados, perdidos, tardias>>

\* It refuses without a charge: an unknown token, a bad key.
Rechazar(p) ==
  /\ tx[p].op = "intento"
  /\ tx' = [tx EXCEPT ![p] =
       [op |-> "cobrado", clave |-> tx[p].clave, venta |-> tx[p].venta,
        estado |-> "FALLIDA", cargo |-> {}, pagar |-> FALSE]]
  /\ UNCHANGED <<cuenta, ventas, intentos, pagados, procesados, cargos, perdidos, tardias>>

Confirmar(p) ==
  /\ tx[p].op = "cobrado"
  /\ intentos' = [intentos EXCEPT ![tx[p].clave] =
       [estado |-> tx[p].estado, cargo |-> tx[p].cargo, venta |-> tx[p].venta]]
  /\ pagados' = IF tx[p].pagar THEN pagados \cup {tx[p].clave} ELSE pagados
  /\ tx' = [tx EXCEPT ![p] = Libre]
  /\ UNCHANGED <<cuenta, ventas, procesados, cargos, perdidos, tardias>>

\* The answer of the provider is lost, the transaction times out or rolls back, the
\* server stops: the charge stays.
Abortar(p) ==
  /\ tx[p] # Libre
  /\ tx' = [tx EXCEPT ![p] = Libre]
  /\ perdidos' = IF tx[p].op = "cobrado" /\ tx[p].estado = "CAPTURADA"
                   THEN perdidos \cup tx[p].cargo ELSE perdidos
  /\ UNCHANGED <<cuenta, ventas, intentos, pagados, procesados, cargos, tardias>>

-----------------------------------------------------------------------------
(* procesarWebhook *)

\* Slip: any event of a charge counts as its capture.
Clasificar_Todo(tipo) == "CAPTURADA"

\* interpretarWebhook looks for `succeeded' or `creation' in the type of the event, and an
\* event without a type is charge.creation.succeeded.
Clasificar(tipo) == IF tipo \in {"exito", "impreciso"} THEN "CAPTURADA" ELSE "FALLIDA"

\* The events of a charge, whatever their type: the provider never calls `succeeded' a
\* charge it rejected.
AvisosDe(c) == IF cargos[c].estado = "CAPTURADA" THEN Avisos ELSE Avisos \ {"exito"}

\* An event already processed is answered as a duplicate.
AvisoLeer(p, c, tipo) ==
  /\ tx[p] = Libre
  /\ cuenta
  /\ cargos[c] # NoCargo /\ tipo \in AvisosDe(c)
  /\ <<c, tipo>> \notin procesados
  /\ tx' = [tx EXCEPT ![p] = [op |-> "aviso", cargo |-> c, tipo |-> tipo]]
  /\ UNCHANGED <<cuenta, ventas, intentos, pagados, procesados, cargos, perdidos, tardias>>

De(c) == {k \in Claves : intentos[k] # NoIntento /\ intentos[k].cargo = {c}}

\* Whether the payment of key k is missing and its sale exists (conciliarConVenta).
PorConciliar(k) ==
  k \notin pagados /\ intentos[k].venta # {} /\ intentos[k].venta \subseteq ventas

\* The upsert of the event and the update of the transaction take their rows; then the
\* payment and the sale are looked for.  An event without a transaction here is dropped.
AvisoTomar(p) ==
  /\ tx[p].op = "aviso"
  /\ \A q \in Procesos : tx[q].op = "tomado" => tx[q].cargo # tx[p].cargo
  /\ LET claves == De(tx[p].cargo) IN
       tx' = [tx EXCEPT ![p] =
         [op |-> "tomado", cargo |-> tx[p].cargo, tipo |-> tx[p].tipo, claves |-> claves,
          pagar |-> Clasificar(tx[p].tipo) = "CAPTURADA" /\ \E k \in claves : PorConciliar(k)]]
  /\ UNCHANGED <<cuenta, ventas, intentos, pagados, procesados, cargos, perdidos, tardias>>

\* Slip: a webhook only updates the states.
AvisoAplicar_SinConciliar(p) ==
  /\ tx[p].op = "tomado"
  /\ intentos' = [k \in Claves |-> IF k \in tx[p].claves
                    THEN [intentos[k] EXCEPT !.estado = Clasificar(tx[p].tipo)] ELSE intentos[k]]
  /\ procesados' = procesados \cup {<<tx[p].cargo, tx[p].tipo>>}
  /\ tx' = [tx EXCEPT ![p] = Libre]
  /\ tardias' = IF tx[p].pagar THEN tardias \ tx[p].claves ELSE tardias
  /\ UNCHANGED <<cuenta, ventas, pagados, cargos, perdidos>>

\* The state is overwritten whatever it was, and the event is processed.
AvisoAplicar(p) ==
  /\ tx[p].op = "tomado"
  /\ intentos' = [k \in Claves |-> IF k \in tx[p].claves
                    THEN [intentos[k] EXCEPT !.estado = Clasificar(tx[p].tipo)] ELSE intentos[k]]
  /\ pagados' = IF tx[p].pagar THEN pagados \cup tx[p].claves ELSE pagados
  /\ procesados' = procesados \cup {<<tx[p].cargo, tx[p].tipo>>}
  /\ tx' = [tx EXCEPT ![p] = Libre]
  /\ tardias' = IF tx[p].pagar THEN tardias \ tx[p].claves ELSE tardias
  /\ UNCHANGED <<cuenta, ventas, cargos, perdidos>>

-----------------------------------------------------------------------------
Pago(p) ==
  \/ \E k \in Claves, venta \in AlMasUno(Ventas) : IntentoLeer(p, k, venta)
  \/ \E c \in Cargos, estado \in Estados : Cobrar(p, c, estado)
  \/ Rechazar(p)
  \/ Confirmar(p)

Aviso(p) ==
  \/ \E c \in Cargos, tipo \in Avisos : AvisoLeer(p, c, tipo)
  \/ AvisoTomar(p)
  \/ AvisoAplicar(p)

Next ==
  \/ RegistrarCuenta
  \/ \E v \in Ventas : CrearVenta(v)
  \/ \E p \in Procesos : Pago(p) \/ Aviso(p) \/ Abortar(p)

Spec == Init /\ [][Next]_vars

-----------------------------------------------------------------------------
\* A sale is credited with a card payment only if the provider captured that charge, or
\* sent of it a notice that does not say so but that the code reads as a capture (a failed
\* creation, or no type): no other webhook, repeated, late or out of order, does.
PagoRespaldado ==
  \A k \in pagados :
    \E c \in intentos[k].cargo :
      /\ cargos[c].clave = k
      /\ cargos[c].estado = "CAPTURADA" \/ <<c, "impreciso">> \in procesados

\* "Idempotente por idempotencyKey": what the provider captured for a key is the charge
\* its intent records or is about to, so a customer is charged once per key, except by a
\* request that was cut after the charge: its retry charges again.
CargoConocido ==
  \A c \in Cargos \ perdidos : cargos[c].estado = "CAPTURADA" =>
    \/ /\ intentos[cargos[c].clave] # NoIntento
       /\ c \in intentos[cargos[c].clave].cargo
    \/ /\ intentos[cargos[c].clave] = NoIntento
       /\ \E p \in Procesos : tx[p].op = "cobrado" /\ tx[p].cargo = {c}

\* A captured payment of a sale that exists has reached the sale, if the sale existed when
\* the payment was recorded or last reported: a sale created later waits for another webhook.
PagoConciliado ==
  \A k \in Claves \ tardias :
    intentos[k].estado = "CAPTURADA" /\ intentos[k].venta # {} /\ intentos[k].venta \subseteq ventas
      => k \in pagados
=============================================================================

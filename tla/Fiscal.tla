------------------------------- MODULE Fiscal -------------------------------
(***************************************************************************)
(* Electronic invoicing (modulos/nucleo/fiscal).  FiscalService issues a   *)
(* document from a sale, or a credit note from an accepted document, in    *)
(* one database transaction that also reserves the correlative of the     *)
(* series and writes an outbox event.  ProcesadorFiscal instances claim    *)
(* events under a two-minute lease, call the provider OUTSIDE any          *)
(* transaction and write the verdict back.                                 *)
(*                                                                         *)
(* Transactions are READ COMMITTED, so an operation is two steps: what it  *)
(* reads without a lock (kept in `api' or `trab') and, later, what it      *)
(* writes under the row lock until commit.                                 *)
(***************************************************************************)
EXTENDS Integers, FiniteSets

CONSTANTS Ventas,           \* pool of sale ids
          VentasConRuc,     \* those whose customer has a RUC
          Documentos,       \* pool of ElectronicDocument ids
          Series,           \* active DocumentSeries of the company
          TipoDeSerie,      \* [Series -> documentType]
          Solicitudes,      \* API requests that may be in flight together
          Trabajadores,     \* instances of ProcesadorFiscal
          Lote,             \* `lote': events claimed per cycle (10)
          MaxIntentos,      \* MAX_INTENTOS (5)
          MaxCaidas,        \* bound: crashes of a worker or aborted cycles
          ArriendoCubreLote \* TRUE: a batch always ends within the two-minute lease

TiposVenta == {"FACTURA", "BOLETA"}
Tipos == TiposVenta \cup {"NOTA_CREDITO"}
Causas == {"emision", "reintento"}

ASSUME FiscalAssumption ==
  /\ VentasConRuc \subseteq Ventas
  /\ TipoDeSerie \in [Series -> Tipos]
  /\ Lote \in Nat \ {0} /\ MaxIntentos \in Nat \ {0} /\ MaxCaidas \in Nat
  /\ ArriendoCubreLote \in BOOLEAN

VARIABLES docs,       \* ElectronicDocument rows
          proximo,    \* DocumentSeries.nextNumber, shared by sales and documents
          eventos,    \* OutboxEvent rows, one per idempotency key <<document, cause>>
          proveedor,  \* what the provider holds about each document (external)
          api,        \* per request: what it read before its locked writes
          trab,       \* per worker: the cycle it is in
          caidas,     \* crashes so far
          ventas      \* Sale rows: the series and number each took

vars == <<docs, proximo, eventos, proveedor, api, trab, caidas, ventas>>

-----------------------------------------------------------------------------
(* Rows and the transition table *)

EstadosDoc == {"BORRADOR", "EN_COLA", "FIRMADO", "ENVIADO", "ACEPTADO",
               "ACEPTADO_CON_OBSERVACIONES", "RECHAZADO", "ERROR",
               "BAJA_SOLICITADA", "ANULADO"}

TRANSICIONES ==
  [BORRADOR |-> {"EN_COLA", "ERROR"},
   EN_COLA |-> {"FIRMADO", "ENVIADO", "ACEPTADO", "RECHAZADO", "ERROR"},
   FIRMADO |-> {"ENVIADO", "ERROR"},
   ENVIADO |-> {"ACEPTADO", "ACEPTADO_CON_OBSERVACIONES", "RECHAZADO", "ERROR"},
   ACEPTADO |-> {"BAJA_SOLICITADA"},
   ACEPTADO_CON_OBSERVACIONES |-> {"BAJA_SOLICITADA"},
   RECHAZADO |-> {"EN_COLA"},
   ERROR |-> {"EN_COLA"},
   BAJA_SOLICITADA |-> {"ANULADO", "ERROR"},
   ANULADO |-> {}]

puedeTransicionar(desde, hacia) == hacia \in TRANSICIONES[desde]
ESTADOS_PROCESABLES == {"EN_COLA", "ERROR"}
Aceptados == {"ACEPTADO", "ACEPTADO_CON_OBSERVACIONES"}
\* States the duplicate check of emitirDesdeVenta does not count.
Descartados == {"RECHAZADO", "ERROR", "ANULADO"}

NoDoc == [estado |-> "AUSENTE"]
Comprobante == [estado : EstadosDoc, venta : Ventas, serie : Series,
                numero : Nat, origen : SUBSET Documentos]
NoVenta == [serie |-> "AUSENTE"]
Existe(d) == docs[d].estado # "AUSENTE"
Tipo(d) == TipoDeSerie[docs[d].serie]
Vivo(d) == Existe(d) /\ docs[d].estado \notin Descartados

\* The delivery phase is (publicadoEn, bloqueadoEn, disponibleEn): EN_ESPERA is an
\* unlocked row whose disponibleEn lies ahead, VENCIDO a lock older than the lease.
Fases == {"AUSENTE", "DISPONIBLE", "RECLAMADO", "VENCIDO", "EN_ESPERA", "PUBLICADO"}
Eventos == Documentos \X Causas
Evento == [fase : Fases, intentos : Nat]
SinEvento == [fase |-> "AUSENTE", intentos |-> 0]
EventoNuevo == [fase |-> "DISPONIBLE", intentos |-> 0]

Respuestas == {"ACEPTADO", "ENVIADO", "RECHAZADO", "FALLO"}
Trabajo == [ev : Eventos, intentos : Nat]
Libre == [op |-> "libre"]
Ocioso == [pc |-> "ocioso", lote |-> {}]
EnLote(l) == [pc |-> "lote", lote |-> l]
Pedido == {Libre}
     \cup [op : {"emitir"}, venta : Ventas, serie : Series]
     \cup [op : {"nota"}, origen : Documentos, serie : Series]
     \cup [op : {"reintentar"}, doc : Documentos]
Ciclo == {Ocioso}
     \cup [pc : {"lote"}, lote : SUBSET Trabajo]
     \cup [pc : {"enviar"}, lote : SUBSET Trabajo, job : Trabajo, leido : ESTADOS_PROCESABLES]
     \cup [pc : {"registrar"}, lote : SUBSET Trabajo, job : Trabajo,
           leido : ESTADOS_PROCESABLES, respuesta : Respuestas]
     \cup [pc : {"cerrar"}, lote : SUBSET Trabajo, job : Trabajo, procesado : BOOLEAN]

TypeOK ==
  /\ docs \in [Documentos -> Comprobante \cup {NoDoc}]
  /\ proximo \in [Series -> Nat]
  /\ eventos \in [Eventos -> Evento]
  /\ proveedor \in [Documentos -> {"SIN_REGISTRO", "ACEPTADO", "ENVIADO"}]
  /\ api \in [Solicitudes -> Pedido]
  /\ trab \in [Trabajadores -> Ciclo]
  /\ caidas \in Nat
  /\ ventas \in [Ventas -> [serie : Series, numero : Nat] \cup {NoVenta}]

Init ==
  /\ docs = [d \in Documentos |-> NoDoc]
  /\ proximo = [s \in Series |-> 1]
  /\ eventos = [e \in Eventos |-> SinEvento]
  /\ proveedor = [d \in Documentos |-> "SIN_REGISTRO"]
  /\ api = [p \in Solicitudes |-> Libre]
  /\ trab = [w \in Trabajadores |-> Ocioso]
  /\ caidas = 0
  /\ ventas = [v \in Ventas |-> NoVenta]

-----------------------------------------------------------------------------
(* API requests *)

\* Slip: the correlative is read and the series is not advanced.
Vender_SinAvanzar(v, s) ==
  /\ ventas[v] = NoVenta
  /\ ventas' = [ventas EXCEPT ![v] = [serie |-> s, numero |-> proximo[s]]]
  /\ UNCHANGED <<docs, proximo, eventos, proveedor, api, trab, caidas>>

\* VentasService.crear takes the sale's number from any active DocumentSeries, of
\* whatever type: there is none for sales alone.
Vender(v, s) ==
  /\ ventas[v] = NoVenta
  /\ ventas' = [ventas EXCEPT ![v] = [serie |-> s, numero |-> proximo[s]]]
  /\ proximo' = [proximo EXCEPT ![s] = @ + 1]
  /\ UNCHANGED <<docs, eventos, proveedor, api, trab, caidas>>

\* persistirDocumento after reservarCorrelativo: the series row is locked, so the
\* number, the increment, the document and its event are one step.
Persistir(d, v, s, origen) ==
  /\ ~Existe(d)
  /\ docs' = [docs EXCEPT ![d] = [estado |-> "EN_COLA", venta |-> v, serie |-> s,
                                  numero |-> proximo[s], origen |-> origen]]
  /\ proximo' = [proximo EXCEPT ![s] = @ + 1]
  /\ eventos' = [eventos EXCEPT ![<<d, "emision">>] = EventoNuevo]

\* Bound: the pool of ids is not exhausted.
HayLugar == \E d \in Documentos : ~Existe(d)

\* emitirDesdeVenta up to the duplicate check, which reads without a lock.
EmitirLeer(p, v, s) ==
  /\ api[p] = Libre /\ HayLugar
  /\ ventas[v] # NoVenta
  /\ TipoDeSerie[s] \in TiposVenta
  /\ TipoDeSerie[s] = "FACTURA" => v \in VentasConRuc
  /\ ~ \E d \in Documentos : Vivo(d) /\ docs[d].venta = v /\ Tipo(d) = TipoDeSerie[s]
  /\ api' = [api EXCEPT ![p] = [op |-> "emitir", venta |-> v, serie |-> s]]
  /\ UNCHANGED <<docs, proximo, eventos, proveedor, trab, caidas, ventas>>

EmitirAplicar(p) ==
  /\ api[p].op = "emitir"
  /\ \E d \in Documentos : Persistir(d, api[p].venta, api[p].serie, {})
  /\ api' = [api EXCEPT ![p] = Libre]
  /\ UNCHANGED <<proveedor, trab, caidas, ventas>>

\* Slip: the state of the origin is not checked.
NotaLeer_SinAceptado(p, d, s) ==
  /\ api[p] = Libre /\ HayLugar /\ Existe(d)
  /\ TipoDeSerie[s] = "NOTA_CREDITO"
  /\ api' = [api EXCEPT ![p] = [op |-> "nota", origen |-> d, serie |-> s]]
  /\ UNCHANGED <<docs, proximo, eventos, proveedor, trab, caidas, ventas>>

\* emitirNotaCredito reads the origin, then reserves the number and persists.
NotaLeer(p, d, s) ==
  /\ api[p] = Libre /\ HayLugar
  /\ docs[d].estado \in Aceptados
  /\ TipoDeSerie[s] = "NOTA_CREDITO"
  /\ api' = [api EXCEPT ![p] = [op |-> "nota", origen |-> d, serie |-> s]]
  /\ UNCHANGED <<docs, proximo, eventos, proveedor, trab, caidas, ventas>>

NotaAplicar(p) ==
  /\ api[p].op = "nota"
  /\ \E d \in Documentos :
       Persistir(d, docs[api[p].origen].venta, api[p].serie, {api[p].origen})
  /\ api' = [api EXCEPT ![p] = Libre]
  /\ UNCHANGED <<proveedor, trab, caidas, ventas>>

\* reintentar reads the state; the write that follows is unconditional.
ReintentarLeer(p, d) ==
  /\ api[p] = Libre
  /\ Existe(d)
  /\ puedeTransicionar(docs[d].estado, "EN_COLA")
  /\ api' = [api EXCEPT ![p] = [op |-> "reintentar", doc |-> d]]
  /\ UNCHANGED <<docs, proximo, eventos, proveedor, trab, caidas, ventas>>

\* Slip: the event is upserted, so that a second retry does not fail on the key.
ReintentarAplicar_Upsert(p) ==
  /\ api[p].op = "reintentar"
  /\ LET d == api[p].doc IN
       /\ docs' = [docs EXCEPT ![d].estado = "EN_COLA"]
       /\ eventos' = IF eventos[<<d, "reintento">>] = SinEvento
                       THEN [eventos EXCEPT ![<<d, "reintento">>] = EventoNuevo]
                       ELSE eventos
  /\ api' = [api EXCEPT ![p] = Libre]
  /\ UNCHANGED <<proximo, proveedor, trab, caidas, ventas>>

\* The key fiscal:emitir:<doc>:reintento is unique: a second retry of the same
\* document fails on it and the whole transaction rolls back (see Abortar).
ReintentarAplicar(p) ==
  /\ api[p].op = "reintentar"
  /\ LET d == api[p].doc IN
       /\ eventos[<<d, "reintento">>] = SinEvento
       /\ docs' = [docs EXCEPT ![d].estado = "EN_COLA"]
       /\ eventos' = [eventos EXCEPT ![<<d, "reintento">>] = EventoNuevo]
  /\ api' = [api EXCEPT ![p] = Libre]
  /\ UNCHANGED <<proximo, proveedor, trab, caidas, ventas>>

\* Rollback of the request's transaction: unique key, lock timeout, lost connection.
Abortar(p) ==
  /\ api[p] # Libre
  /\ api' = [api EXCEPT ![p] = Libre]
  /\ UNCHANGED <<docs, proximo, eventos, proveedor, trab, caidas, ventas>>

-----------------------------------------------------------------------------
(* The worker: reclamar, procesarPendiente, registrarResultado, cerrar *)

\* Slip: the claim only looks for unlocked rows.
Reclamables_SinVencidos == {e \in Eventos : eventos[e].fase = "DISPONIBLE"}

Reclamables == {e \in Eventos : eventos[e].fase \in {"DISPONIBLE", "VENCIDO"}}
\* The claim takes a full batch, or everything there is.
Llena(S) == Cardinality(S) = Lote \/ (Cardinality(S) < Lote /\ S = Reclamables)

\* One UPDATE ... FOR UPDATE SKIP LOCKED: lock, count the attempt, return the rows.
Reclamar(w) ==
  /\ trab[w].pc = "ocioso"
  /\ \E S \in SUBSET Reclamables :
       /\ S # {} /\ Llena(S)
       /\ eventos' = [e \in Eventos |->
                        IF e \in S THEN [fase |-> "RECLAMADO", intentos |-> eventos[e].intentos + 1]
                                   ELSE eventos[e]]
       /\ trab' = [trab EXCEPT ![w] =
                     EnLote({[ev |-> e, intentos |-> eventos[e].intentos + 1] : e \in S})]
  /\ UNCHANGED <<docs, proximo, proveedor, api, caidas, ventas>>

\* First transaction of procesarPendiente: the state is read and the lock released.
Leer(w) ==
  /\ trab[w].pc = "lote"
  /\ \E j \in trab[w].lote :
       LET leido == docs[j.ev[1]].estado IN
       \/ /\ leido \in ESTADOS_PROCESABLES
          /\ trab' = [trab EXCEPT ![w] = [pc |-> "enviar", lote |-> trab[w].lote \ {j},
                                          job |-> j, leido |-> leido]]
       \/ /\ leido \notin ESTADOS_PROCESABLES
          /\ trab' = [trab EXCEPT ![w] = [pc |-> "cerrar", lote |-> trab[w].lote \ {j},
                                          job |-> j, procesado |-> FALSE]]
  /\ UNCHANGED <<docs, proximo, eventos, proveedor, api, caidas, ventas>>

\* The provider (external).  It answers ACEPTADO or ENVIADO, the same for every send
\* of one document; any HTTP or business error is RECHAZADO; FALLO is an exception of
\* fetch, before the request arrived or after the provider had taken it.
Responder(d, r, registro) ==
  \/ r \in {"ACEPTADO", "ENVIADO"} /\ proveedor[d] \in {"SIN_REGISTRO", r} /\ registro = r
  \/ r = "RECHAZADO" /\ registro = proveedor[d]
  \/ r = "FALLO" /\ registro = proveedor[d]
  \/ r = "FALLO" /\ proveedor[d] = "SIN_REGISTRO" /\ registro \in {"ACEPTADO", "ENVIADO"}

Enviar(w) ==
  /\ trab[w].pc = "enviar"
  /\ LET d == trab[w].job.ev[1] IN
     \E r \in Respuestas, registro \in {"SIN_REGISTRO", "ACEPTADO", "ENVIADO"} :
       /\ Responder(d, r, registro)
       /\ proveedor' = [proveedor EXCEPT ![d] = registro]
       /\ trab' = [trab EXCEPT ![w] = [pc |-> "registrar", lote |-> trab[w].lote,
                     job |-> trab[w].job, leido |-> trab[w].leido, respuesta |-> r]]
  /\ UNCHANGED <<docs, proximo, eventos, api, caidas, ventas>>

\* Slips: the verdict is written without the table; a timeout is taken for a delivery
\* still in progress.
Destino_SinTabla(leido, respuesta) == IF respuesta = "FALLO" THEN "ERROR" ELSE respuesta
Destino_Optimista(leido, respuesta) == IF respuesta = "FALLO" THEN "ENVIADO" ELSE respuesta

\* registrarResultado: the table is consulted with the state read BEFORE the call.
Destino(leido, respuesta) ==
  LET propuesto == IF respuesta = "FALLO" THEN "ERROR" ELSE respuesta IN
  IF puedeTransicionar(leido, propuesto) THEN propuesto ELSE leido

Registrar(w) ==
  /\ trab[w].pc = "registrar"
  /\ docs' = [docs EXCEPT ![trab[w].job.ev[1]].estado =
                Destino(trab[w].leido, trab[w].respuesta)]
  /\ trab' = [trab EXCEPT ![w] = [pc |-> "cerrar", lote |-> trab[w].lote, job |-> trab[w].job,
                                  procesado |-> trab[w].respuesta # "FALLO"]]
  /\ UNCHANGED <<proximo, eventos, proveedor, api, caidas, ventas>>

Siguiente(lote) == IF lote = {} THEN Ocioso ELSE EnLote(lote)

\* procesar after procesarPendiente: publish on success or when the attempts are used
\* up, otherwise unlock and back off.
Cerrar(w) ==
  /\ trab[w].pc = "cerrar"
  /\ LET j == trab[w].job
         agotado == trab[w].procesado \/ j.intentos >= MaxIntentos IN
       /\ eventos[j.ev].fase # "PUBLICADO"
       /\ eventos' = [eventos EXCEPT ![j.ev].fase = IF agotado THEN "PUBLICADO" ELSE "EN_ESPERA"]
  /\ trab' = [trab EXCEPT ![w] = Siguiente(trab[w].lote)]
  /\ UNCHANGED <<docs, proximo, proveedor, api, caidas, ventas>>

\* A published row is immutable (trigger): the update raises, tick gives up the batch.
CerrarPublicado(w) ==
  /\ trab[w].pc = "cerrar"
  /\ eventos[trab[w].job.ev].fase = "PUBLICADO"
  /\ trab' = [trab EXCEPT ![w] = Ocioso]
  /\ UNCHANGED <<docs, proximo, eventos, proveedor, api, caidas, ventas>>

\* The process dies, or a database error ends the cycle: the rest of the batch stays
\* locked until its lease runs out.
Caer(w) ==
  /\ trab[w].pc # "ocioso"
  /\ caidas < MaxCaidas
  /\ trab' = [trab EXCEPT ![w] = Ocioso]
  /\ caidas' = caidas + 1
  /\ UNCHANGED <<docs, proximo, eventos, proveedor, api, ventas>>

-----------------------------------------------------------------------------
(* The clock *)

\* Events a worker in cycle c still has to work on.
Retenidos(c) ==
  {j.ev : j \in c.lote} \cup
  (IF c.pc \in {"enviar", "registrar", "cerrar"} THEN {c.job.ev} ELSE {})

\* bloqueadoEn becomes older than two minutes.
VencerArriendo(e) ==
  /\ eventos[e].fase = "RECLAMADO"
  /\ ArriendoCubreLote => \A w \in Trabajadores : e \notin Retenidos(trab[w])
  /\ eventos' = [eventos EXCEPT ![e].fase = "VENCIDO"]
  /\ UNCHANGED <<docs, proximo, proveedor, api, trab, caidas, ventas>>

\* disponibleEn is reached.
Despertar(e) ==
  /\ eventos[e].fase = "EN_ESPERA"
  /\ eventos' = [eventos EXCEPT ![e].fase = "DISPONIBLE"]
  /\ UNCHANGED <<docs, proximo, proveedor, api, trab, caidas, ventas>>

-----------------------------------------------------------------------------
Peticion(p) ==
  \/ \E v \in Ventas, s \in Series : EmitirLeer(p, v, s)
  \/ EmitirAplicar(p)
  \/ \E d \in Documentos, s \in Series : NotaLeer(p, d, s)
  \/ NotaAplicar(p)
  \/ \E d \in Documentos : ReintentarLeer(p, d)
  \/ ReintentarAplicar(p)
  \/ Abortar(p)

\* One cycle of tick, step by step.
Tick(w) ==
  \/ Reclamar(w)
  \/ Leer(w)
  \/ Enviar(w)
  \/ Registrar(w)
  \/ Cerrar(w)
  \/ CerrarPublicado(w)

Reloj(e) == VencerArriendo(e) \/ Despertar(e)

Next ==
  \/ \E v \in Ventas, s \in Series : Vender(v, s)
  \/ \E p \in Solicitudes : Peticion(p)
  \/ \E w \in Trabajadores : Tick(w)
  \/ \E w \in Trabajadores : Caer(w)
  \/ \E e \in Eventos : Reloj(e)

Spec == Init /\ [][Next]_vars

\* setInterval keeps calling tick and time passes; nobody has to send a request, and
\* nothing is promised about the provider's answers.
Equidad == /\ \A w \in Trabajadores : WF_vars(Tick(w))
           /\ \A e \in Eventos : WF_vars(Reloj(e))
FairSpec == Spec /\ Equidad

-----------------------------------------------------------------------------
(* Properties *)

\* A queued document always has an outbox event that will still be delivered: no
\* crash, lost lease, exhausted retry or repeated request orphans it in EN_COLA.
EnColaTieneEntrega ==
  \A d \in Documentos :
    docs[d].estado = "EN_COLA" =>
      \E c \in Causas : eventos[<<d, c>>].fase \notin {"AUSENTE", "PUBLICADO"}

\* A document is shown ACEPTADO or ENVIADO only if the provider answered so about it,
\* whichever worker wrote and however old the state it read.
EstadoRespaldado ==
  \A d \in Documentos :
    docs[d].estado \in {"ACEPTADO", "ENVIADO"} => proveedor[d] = docs[d].estado

\* A credit note only reverses a document the provider accepted, for the same sale.
NotaSobreAceptado ==
  \A d \in Documentos :
    Existe(d) => \A o \in docs[d].origen :
                   proveedor[o] = "ACEPTADO" /\ docs[o].venta = docs[d].venta

\* Who carries number n of series s: electronic documents and sales.
Titulares(s, n) ==
  {<<"documento", d>> : d \in {x \in Documentos : Existe(x) /\ docs[x].serie = s /\ docs[x].numero = n}}
  \cup {<<"venta", v>> : v \in {x \in Ventas : ventas[x] # NoVenta /\ ventas[x].serie = s
                                                               /\ ventas[x].numero = n}}

\* The two services that draw from the counter of a series never give one number twice,
\* and together leave none out: a gap in the sales of a series is always a document of it.
CorrelativosSinHuecos ==
  \A s \in Series :
    /\ \A n \in 1 .. proximo[s] - 1 : \E t \in Titulares(s, n) : Titulares(s, n) = {t}
    /\ \A d \in Documentos : Existe(d) /\ docs[d].serie = s => docs[d].numero < proximo[s]
    /\ \A v \in Ventas : ventas[v] # NoVenta /\ ventas[v].serie = s => ventas[v].numero < proximo[s]

\* Every write of estado follows TRANSICIONES (maquina-estados.ts: "puedeTransicionar
\* guards every write").  It holds with one worker instance.
TransicionLegal ==
  [][\A d \in Documentos :
       Existe(d) /\ docs'[d].estado # docs[d].estado
         => puedeTransicionar(docs[d].estado, docs'[d].estado)]_docs

\* A queued document is eventually delivered and leaves EN_COLA.
EntregaEventual ==
  \A d \in Documentos : docs[d].estado = "EN_COLA" ~> docs[d].estado # "EN_COLA"

(* What comments of the code say, and the code does not keep *)

\* emitirDesdeVenta: "a sale already invoiced (and not rejected) returns the existing
\* document instead of minting a duplicate correlative".
SinComprobanteDuplicado ==
  \A d1, d2 \in Documentos :
    Vivo(d1) /\ Vivo(d2) /\ docs[d1].venta = docs[d2].venta
      /\ Tipo(d1) = Tipo(d2) /\ Tipo(d1) \in TiposVenta => d1 = d2

\* ventas.service, reservarCorrelativo: "concurrent sales never receive the same number
\* or leave gaps": the sales of a series are numbered without a hole.
VentasSinHuecos ==
  \A v \in Ventas : \A n \in 1 .. (IF ventas[v] = NoVenta THEN 0 ELSE ventas[v].numero) :
    \E u \in Ventas : ventas[u].serie = ventas[v].serie /\ ventas[u].numero = n

\* procesarPendiente: "Sends a queued/errored document to the provider and records
\* SUNAT's verdict": an acceptance the worker writes back leaves the document accepted.
VeredictoRegistrado ==
  [][\A w \in Trabajadores :
       Registrar(w) /\ trab[w].respuesta = "ACEPTADO"
         => docs'[trab[w].job.ev[1]].estado \in Aceptados]_vars
=============================================================================

---------------------------- MODULE FiscalProofs ----------------------------
(***************************************************************************)
(* Theorems of Fiscal for any number of sales, documents, series, requests *)
(* and workers, and whether or not a batch ends within its lease.          *)
(*                                                                         *)
(* Three invariants over one type part (TInv): EInv, a queued document has *)
(* its delivery; RInv, a stored verdict is one the provider gave; LInv,    *)
(* with one worker, the state it read before a send is the one it writes   *)
(* over.  The numbers of a series need TInv alone.                         *)
(***************************************************************************)
EXTENDS Fiscal, TLAPS

USE FiscalAssumption DEF Existe

-----------------------------------------------------------------------------
(* The transition table, as the worker uses it *)

\* A worker never writes EN_COLA: from EN_COLA every verdict is a legal target, and from
\* ERROR none is, so registrarResultado then keeps ERROR.
LEMMA DestinoFueraDeCola ==
  ASSUME NEW l \in ESTADOS_PROCESABLES, NEW r \in Respuestas
  PROVE  /\ Destino(l, r) \in EstadosDoc
         /\ Destino(l, r) # "EN_COLA"
         /\ Destino(l, r) \in {"ACEPTADO", "ENVIADO"} => r = Destino(l, r)
  BY DEF Destino, puedeTransicionar, TRANSICIONES, ESTADOS_PROCESABLES, Respuestas, EstadosDoc

\* What a cycle in each step of the worker is.
LEMMA CicloForma ==
  ASSUME NEW c \in Ciclo
  PROVE  /\ c.pc = "lote" => c.lote \in SUBSET Trabajo
         /\ c.pc = "enviar" => /\ c.lote \in SUBSET Trabajo /\ c.job \in Trabajo
                               /\ c.leido \in ESTADOS_PROCESABLES
         /\ c.pc = "registrar" => /\ c.lote \in SUBSET Trabajo /\ c.job \in Trabajo
                                  /\ c.leido \in ESTADOS_PROCESABLES
                                  /\ c.respuesta \in Respuestas
         /\ c.pc = "cerrar" => /\ c.lote \in SUBSET Trabajo /\ c.job \in Trabajo
                               /\ c.procesado \in BOOLEAN
         /\ c.pc = "ocioso" => c = Ocioso
  BY DEF Ciclo, Ocioso

\* What a request in flight names.
LEMMA PedidoForma ==
  ASSUME NEW p \in Pedido
  PROVE  /\ p.op = "emitir" => p.venta \in Ventas /\ p.serie \in Series
         /\ p.op = "nota" => p.origen \in Documentos /\ p.serie \in Series
         /\ p.op = "reintentar" => p.doc \in Documentos
  BY DEF Pedido, Libre

\* A claimed job names an event, and the event a document and a cause.
LEMMA TrabajoForma ==
  ASSUME NEW j \in Trabajo
  PROVE  /\ j.ev \in Eventos /\ j.intentos \in Nat
         /\ j.ev[1] \in Documentos /\ j.ev[2] \in Causas /\ j.ev = <<j.ev[1], j.ev[2]>>
  BY DEF Trabajo, Eventos

\* A worker holds events only.
LEMMA RetenidosSonEventos ==
  ASSUME NEW c \in Ciclo
  PROVE  Retenidos(c) \subseteq Eventos
<1>1. c.lote \in SUBSET Trabajo
  BY DEF Ciclo, Ocioso
<1>2. \A j \in c.lote : j.ev \in Eventos
  BY <1>1, TrabajoForma
<1>3. c.pc \in {"enviar", "registrar", "cerrar"} => c.job.ev \in Eventos
  BY CicloForma, TrabajoForma
<1>4. QED
  BY <1>2, <1>3 DEF Retenidos

-----------------------------------------------------------------------------
(* Type correctness, with the facts about pending requests that it rests on *)

\* A request only remembers documents that exist; nobody works on a missing row.
PedidoVigente ==
  \A p \in Solicitudes :
    /\ api[p].op = "nota" => Existe(api[p].origen)
    /\ api[p].op = "reintentar" => Existe(api[p].doc)

\* An event belongs to a document, and every document has its emission event.
EventoDeDocumento ==
  \A d \in Documentos :
    /\ \A c \in Causas : eventos[<<d, c>>].fase # "AUSENTE" => Existe(d)
    /\ Existe(d) => eventos[<<d, "emision">>].fase # "AUSENTE"

\* Events that a worker holds are in the outbox.
TrabajoVigente ==
  \A w \in Trabajadores : \A e \in Retenidos(trab[w]) : eventos[e].fase # "AUSENTE"

TInv == TypeOK /\ PedidoVigente /\ EventoDeDocumento /\ TrabajoVigente

\* Nothing is in flight at the start.
LEMMA InitTInv == Init => TInv
<1> SUFFICES ASSUME Init PROVE TInv
  OBVIOUS
<1>1. TypeOK
  BY DEF Init, TypeOK, NoDoc, NoVenta, SinEvento, Evento, Fases, Pedido, Ciclo, Libre
<1>2. PedidoVigente
  BY DEF Init, PedidoVigente, Libre
<1>3. EventoDeDocumento
  BY DEF Init, EventoDeDocumento, SinEvento, NoDoc, Eventos, Causas
<1>4. TrabajoVigente
  BY DEF Init, TrabajoVigente, Retenidos, Ocioso
<1>5. QED
  BY <1>1, <1>2, <1>3, <1>4 DEF TInv

\* Creating a document: the common part of EmitirAplicar and NotaAplicar.
LEMMA PersistirTInv ==
  ASSUME TInv, NEW d \in Documentos, NEW v \in Ventas, NEW s \in Series,
         NEW origen \in SUBSET Documentos, Persistir(d, v, s, origen),
         NEW p \in Solicitudes, api' = [api EXCEPT ![p] = Libre],
         UNCHANGED <<proveedor, trab, caidas, ventas>>
  PROVE  TInv'
<1> USE DEF TInv, Persistir
<1> DEFINE nuevo == [estado |-> "EN_COLA", venta |-> v, serie |-> s,
                     numero |-> proximo[s], origen |-> origen]
<1>1. nuevo \in Comprobante
  BY DEF Comprobante, TypeOK, EstadosDoc
<1>2. EventoNuevo \in Evento /\ EventoNuevo.fase # "AUSENTE"
  BY DEF EventoNuevo, Evento, Fases
<1>3. docs' \in [Documentos -> Comprobante \cup {NoDoc}]
  BY <1>1 DEF TypeOK
<1>4. proximo' \in [Series -> Nat]
  BY DEF TypeOK
<1>5. /\ eventos' \in [Eventos -> Evento]
      /\ \A e \in Eventos : eventos[e].fase # "AUSENTE" => eventos'[e].fase # "AUSENTE"
      /\ \A e \in Eventos : e # <<d, "emision">> => eventos'[e] = eventos[e]
      /\ eventos'[<<d, "emision">>] = EventoNuevo
  BY <1>2 DEF TypeOK, Eventos, Causas
<1>6. api' \in [Solicitudes -> Pedido]
  BY DEF TypeOK, Pedido
<1>7. TypeOK'
  BY <1>3, <1>4, <1>5, <1>6 DEF TypeOK
<1>8. \A x \in Documentos : Existe(x) => Existe(x)'
  BY DEF TypeOK
<1>9. PedidoVigente'
  BY <1>8, PedidoForma DEF PedidoVigente, TypeOK, Libre
<1>10. EventoDeDocumento'
  <2> SUFFICES ASSUME NEW x \in Documentos
               PROVE  /\ \A c \in Causas : eventos'[<<x, c>>].fase # "AUSENTE" => Existe(x)'
                      /\ Existe(x)' => eventos'[<<x, "emision">>].fase # "AUSENTE"
    BY DEF EventoDeDocumento
  <2>1. CASE x = d
    BY <2>1, <1>2, <1>5 DEF TypeOK
  <2>2. CASE x # d
    <3>1. docs'[x] = docs[x] /\ \A c \in Causas : eventos'[<<x, c>>] = eventos[<<x, c>>]
      BY <2>2, <1>5 DEF TypeOK, Eventos
    <3>2. QED
      BY <3>1 DEF EventoDeDocumento
  <2>3. QED
    BY <2>1, <2>2
<1>11. TrabajoVigente'
  <2>1. \A w \in Trabajadores : Retenidos(trab[w]) \subseteq Eventos
    BY RetenidosSonEventos DEF TypeOK
  <2>2. QED
    BY <2>1, <1>5 DEF TrabajoVigente
<1>12. QED
  BY <1>7, <1>9, <1>10, <1>11

\* Requests (emit, credit note, retry) leave documents, events and locals well formed.
LEMMA PeticionTInv ==
  ASSUME TInv, NEW p \in Solicitudes, Peticion(p)
  PROVE  TInv'
<1> USE DEF TInv
<1>1. ASSUME NEW v \in Ventas, NEW s \in Series, EmitirLeer(p, v, s)
      PROVE  TInv'
  <2>1. api' \in [Solicitudes -> Pedido]
    BY <1>1 DEF EmitirLeer, TypeOK, Pedido
  <2>2. TypeOK' /\ EventoDeDocumento' /\ TrabajoVigente'
    BY <1>1, <2>1 DEF EmitirLeer, TypeOK, EventoDeDocumento, TrabajoVigente
  <2>3. PedidoVigente'
    BY <1>1 DEF EmitirLeer, TypeOK, PedidoVigente
  <2>4. QED
    BY <2>2, <2>3
<1>2. CASE EmitirAplicar(p)
  <2>1. api[p] \in Pedido /\ api[p].op = "emitir"
    BY <1>2 DEF EmitirAplicar, TypeOK
  <2>2. PICK d \in Documentos : Persistir(d, api[p].venta, api[p].serie, {})
    BY <1>2 DEF EmitirAplicar
  <2>3. api[p].venta \in Ventas /\ api[p].serie \in Series /\ {} \in SUBSET Documentos
    BY <2>1, PedidoForma
  <2>4. api' = [api EXCEPT ![p] = Libre] /\ UNCHANGED <<proveedor, trab, caidas, ventas>>
    BY <1>2 DEF EmitirAplicar
  <2>5. QED
    BY <2>2, <2>3, <2>4, PersistirTInv
<1>3. ASSUME NEW d \in Documentos, NEW s \in Series, NotaLeer(p, d, s)
      PROVE  TInv'
  <2>1. api' \in [Solicitudes -> Pedido]
    BY <1>3 DEF NotaLeer, TypeOK, Pedido
  <2>2. Existe(d)
    BY <1>3 DEF NotaLeer, Aceptados
  <2>3. QED
    BY <1>3, <2>1, <2>2 DEF NotaLeer, TypeOK, PedidoVigente, EventoDeDocumento, TrabajoVigente
<1>4. CASE NotaAplicar(p)
  <2>1. api[p] \in Pedido /\ api[p].op = "nota"
    BY <1>4 DEF NotaAplicar, TypeOK
  <2>2. docs[api[p].origen] \in Comprobante
    BY <2>1, PedidoForma DEF PedidoVigente, TypeOK, NoDoc
  <2>3. PICK d \in Documentos :
          Persistir(d, docs[api[p].origen].venta, api[p].serie, {api[p].origen})
    BY <1>4 DEF NotaAplicar
  <2>4. docs[api[p].origen].venta \in Ventas /\ api[p].serie \in Series
        /\ {api[p].origen} \in SUBSET Documentos
    BY <2>1, <2>2, PedidoForma DEF Comprobante
  <2>5. QED
    BY <1>4, <2>3, <2>4, PersistirTInv DEF NotaAplicar
<1>5. ASSUME NEW d \in Documentos, ReintentarLeer(p, d)
      PROVE  TInv'
  <2>1. api' \in [Solicitudes -> Pedido]
    BY <1>5 DEF ReintentarLeer, TypeOK, Pedido
  <2>2. QED
    BY <1>5, <2>1
       DEF ReintentarLeer, TypeOK, PedidoVigente, EventoDeDocumento, TrabajoVigente
<1>6. CASE ReintentarAplicar(p)
  <2> DEFINE d == api[p].doc
  <2>1. d \in Documentos /\ docs[d] \in Comprobante
    BY <1>6, PedidoForma DEF ReintentarAplicar, PedidoVigente, TypeOK, NoDoc
  <2>2. /\ docs' \in [Documentos -> Comprobante \cup {NoDoc}]
        /\ \A x \in Documentos : Existe(x)' <=> Existe(x)
    <3>1. [docs[d] EXCEPT !.estado = "EN_COLA"] \in Comprobante
      BY <2>1 DEF Comprobante, EstadosDoc
    <3>2. docs' = [docs EXCEPT ![d] = [docs[d] EXCEPT !.estado = "EN_COLA"]]
      BY <1>6 DEF ReintentarAplicar
    <3>3. QED
      BY <2>1, <3>1, <3>2 DEF TypeOK, NoDoc, Comprobante, EstadosDoc
  <2>3. /\ eventos' = [eventos EXCEPT ![<<d, "reintento">>] = EventoNuevo]
        /\ EventoNuevo \in Evento /\ EventoNuevo.fase # "AUSENTE"
    BY <1>6 DEF ReintentarAplicar, EventoNuevo, Evento, Fases
  <2>4. /\ eventos' \in [Eventos -> Evento]
        /\ \A e \in Eventos : eventos[e].fase # "AUSENTE" => eventos'[e].fase # "AUSENTE"
        /\ \A e \in Eventos : e # <<d, "reintento">> => eventos'[e] = eventos[e]
    BY <2>3 DEF TypeOK
  <2>5. api' \in [Solicitudes -> Pedido]
    BY <1>6 DEF ReintentarAplicar, TypeOK, Pedido
  <2>6. TypeOK'
    BY <1>6, <2>2, <2>4, <2>5 DEF ReintentarAplicar, TypeOK
  <2>7. PedidoVigente'
    BY <1>6, <2>2, PedidoForma DEF ReintentarAplicar, PedidoVigente, TypeOK, Libre
  <2>8. EventoDeDocumento'
    <3> SUFFICES ASSUME NEW x \in Documentos
                 PROVE  /\ \A c \in Causas : eventos'[<<x, c>>].fase # "AUSENTE" => Existe(x)'
                        /\ Existe(x)' => eventos'[<<x, "emision">>].fase # "AUSENTE"
      BY DEF EventoDeDocumento
    <3>1. \A c \in Causas : <<x, c>> \in Eventos
      BY DEF Eventos
    <3>2. ASSUME NEW c \in Causas, eventos'[<<x, c>>].fase # "AUSENTE"
          PROVE  Existe(x)'
      <4>1. CASE x = d
        BY <4>1, <2>1, <2>2 DEF NoDoc, Comprobante, EstadosDoc
      <4>2. CASE x # d
        BY <4>2, <2>2, <2>4, <3>1, <3>2 DEF EventoDeDocumento
      <4>3. QED
        BY <4>1, <4>2
    <3>3. Existe(x)' => eventos'[<<x, "emision">>].fase # "AUSENTE"
      BY <2>2, <2>4, <3>1 DEF EventoDeDocumento, Causas
    <3>4. QED
      BY <3>2, <3>3
  <2>9. TrabajoVigente'
    <3>1. \A w \in Trabajadores : Retenidos(trab[w]) \subseteq Eventos
      BY RetenidosSonEventos DEF TypeOK
    <3>2. QED
      BY <1>6, <3>1, <2>4 DEF TrabajoVigente, ReintentarAplicar
  <2>10. QED
    BY <2>6, <2>7, <2>8, <2>9
<1>7. CASE Abortar(p)
  <2>1. api' \in [Solicitudes -> Pedido]
    BY <1>7 DEF Abortar, TypeOK, Pedido
  <2>2. QED
    BY <1>7, <2>1 DEF Abortar, TypeOK, PedidoVigente, EventoDeDocumento, TrabajoVigente, Libre
<1>8. QED
  BY <1>1, <1>2, <1>3, <1>4, <1>5, <1>6, <1>7 DEF Peticion

\* Steps that only move events between delivery phases keep what is said about them.
LEMMA MoverEventosTInv ==
  ASSUME TInv, eventos' \in [Eventos -> Evento],
         \A e \in Eventos : eventos'[e].fase = "AUSENTE" <=> eventos[e].fase = "AUSENTE",
         UNCHANGED <<docs, api, ventas>>,
         trab' \in [Trabajadores -> Ciclo],
         \A w \in Trabajadores : \A e \in Retenidos(trab'[w]) : eventos[e].fase # "AUSENTE",
         UNCHANGED <<proximo, proveedor, ventas>>, caidas' \in Nat
  PROVE  TInv'
<1> USE DEF TInv
<1>1. TypeOK' /\ PedidoVigente'
  BY DEF TypeOK, PedidoVigente
<1>2. EventoDeDocumento'
  BY DEF EventoDeDocumento, Eventos, Causas
<1>3. TrabajoVigente'
  BY RetenidosSonEventos DEF TrabajoVigente
<1>4. QED
  BY <1>1, <1>2, <1>3

\* So does each step of a cycle of the worker.
LEMMA TickTInv ==
  ASSUME TInv, NEW w \in Trabajadores, Tick(w)
  PROVE  TInv'
<1> USE DEF TInv
<1> DEFINE c == trab[w]
<1>0. c \in Ciclo /\ trab[w] \in Ciclo
  BY DEF TypeOK
<1>1. CASE Reclamar(w)
  <2>1. PICK S \in SUBSET Reclamables :
          /\ eventos' = [e \in Eventos |->
                IF e \in S THEN [fase |-> "RECLAMADO", intentos |-> eventos[e].intentos + 1]
                           ELSE eventos[e]]
          /\ trab' = [trab EXCEPT ![w] =
                EnLote({[ev |-> e, intentos |-> eventos[e].intentos + 1] : e \in S})]
    BY <1>1 DEF Reclamar
  <2> DEFINE l == {[ev |-> e, intentos |-> eventos[e].intentos + 1] : e \in S}
  <2>2. /\ \A e \in S : e \in Eventos /\ eventos[e].fase # "AUSENTE"
        /\ \A e \in Eventos : eventos[e].intentos \in Nat
    BY DEF Reclamables, TypeOK, Evento
  <2>3. /\ eventos' \in [Eventos -> Evento]
        /\ \A e \in Eventos : eventos'[e].fase = "AUSENTE" <=> eventos[e].fase = "AUSENTE"
    BY <2>1, <2>2 DEF TypeOK, Evento, Fases
  <2>4. l \in SUBSET Trabajo
    BY <2>2 DEF Trabajo
  <2>5. EnLote(l) \in Ciclo /\ Retenidos(EnLote(l)) = S
    <3>1. {j.ev : j \in l} = S
      <4>1. ASSUME NEW j \in l PROVE j.ev \in S
        <5>1. PICK e \in S : j = [ev |-> e, intentos |-> eventos[e].intentos + 1]
          OBVIOUS
        <5>2. QED
          BY <5>1
      <4>2. ASSUME NEW e \in S PROVE \E j \in l : j.ev = e
        <5>1. [ev |-> e, intentos |-> eventos[e].intentos + 1] \in l
          OBVIOUS
        <5>2. QED
          BY <5>1
      <4>3. QED
        BY <4>1, <4>2
    <3>2. EnLote(l) \in Ciclo
      BY <2>4 DEF EnLote, Ciclo
    <3>3. QED
      BY <3>1, <3>2 DEF EnLote, Retenidos
  <2>6. trab' \in [Trabajadores -> Ciclo]
    BY <2>1, <2>5 DEF TypeOK
  <2>7. \A x \in Trabajadores : \A e \in Retenidos(trab'[x]) : eventos[e].fase # "AUSENTE"
    BY <2>1, <2>2, <2>5 DEF TypeOK, TrabajoVigente
  <2>8. UNCHANGED <<docs, api, proximo, proveedor, caidas, ventas>>
    BY <1>1 DEF Reclamar
  <2>9. QED
    BY <2>3, <2>6, <2>7, <2>8, MoverEventosTInv DEF TypeOK
<1>2. CASE Leer(w)
  <2>1. c.pc = "lote" /\ c.lote \in SUBSET Trabajo /\ c.job = c.job
    BY <1>0, <1>2, CicloForma DEF Leer
  <2>2. PICK j \in c.lote :
          \/ /\ docs[j.ev[1]].estado \in ESTADOS_PROCESABLES
             /\ trab' = [trab EXCEPT ![w] = [pc |-> "enviar", lote |-> c.lote \ {j},
                                   job |-> j, leido |-> docs[j.ev[1]].estado]]
          \/ trab' = [trab EXCEPT ![w] = [pc |-> "cerrar", lote |-> c.lote \ {j},
                                   job |-> j, procesado |-> FALSE]]
    BY <1>2 DEF Leer
  <2> DEFINE a == [pc |-> "enviar", lote |-> c.lote \ {j}, job |-> j,
                   leido |-> docs[j.ev[1]].estado]
             b == [pc |-> "cerrar", lote |-> c.lote \ {j}, job |-> j, procesado |-> FALSE]
  <2>3. trab'[w] \in Ciclo /\ Retenidos(trab'[w]) = Retenidos(c)
    <3>1. j \in Trabajo /\ c.lote \ {j} \in SUBSET Trabajo
      BY <2>1
    <3>2. {i.ev : i \in c.lote} = {i.ev : i \in c.lote \ {j}} \cup {j.ev}
      OBVIOUS
    <3>3. Retenidos(c) = {i.ev : i \in c.lote}
      BY <2>1 DEF Retenidos
    <3>4. Retenidos(a) = Retenidos(c) /\ Retenidos(b) = Retenidos(c)
      BY <3>2, <3>3 DEF Retenidos
    <3>5. b \in Ciclo /\ (docs[j.ev[1]].estado \in ESTADOS_PROCESABLES => a \in Ciclo)
      BY <3>1 DEF Ciclo
    <3>6. QED
      BY <2>2, <3>4, <3>5 DEF TypeOK
  <2>4. trab' = [trab EXCEPT ![w] = trab'[w]]
    BY <2>2 DEF TypeOK
  <2>5. UNCHANGED <<docs, eventos, api, proximo, proveedor, caidas, ventas>>
    BY <1>2 DEF Leer
  <2>6. QED
    BY <2>3, <2>4, <2>5, MoverEventosTInv DEF TypeOK, TrabajoVigente
<1>3. CASE Enviar(w)
  <2>1. /\ c.pc = "enviar" /\ c.lote \in SUBSET Trabajo /\ c.job \in Trabajo
        /\ c.leido \in ESTADOS_PROCESABLES
    BY <1>0, <1>3, CicloForma DEF Enviar
  <2>2. PICK r \in Respuestas, reg \in {"SIN_REGISTRO", "ACEPTADO", "ENVIADO"} :
          /\ proveedor' = [proveedor EXCEPT ![c.job.ev[1]] = reg]
          /\ trab' = [trab EXCEPT ![w] = [pc |-> "registrar", lote |-> c.lote,
                        job |-> c.job, leido |-> c.leido, respuesta |-> r]]
    BY <1>3 DEF Enviar
  <2>3. trab'[w] \in Ciclo /\ Retenidos(trab'[w]) = Retenidos(c)
    BY <2>1, <2>2 DEF TypeOK, Ciclo, Retenidos
  <2>4. TypeOK'
    BY <1>3, <2>2, <2>3 DEF Enviar, TypeOK
  <2>5. QED
    BY <1>3, <2>2, <2>3, <2>4
       DEF Enviar, TypeOK, PedidoVigente, EventoDeDocumento, TrabajoVigente
<1>4. CASE Registrar(w)
  <2>1. /\ c.pc = "registrar" /\ c.lote \in SUBSET Trabajo /\ c.job \in Trabajo
        /\ c.leido \in ESTADOS_PROCESABLES /\ c.respuesta \in Respuestas
    BY <1>0, <1>4, CicloForma DEF Registrar
  <2> DEFINE d == c.job.ev[1]
             nuevo == Destino(c.leido, c.respuesta)
  <2>2. d \in Documentos /\ Existe(d)
    <3>1. c.job.ev \in Retenidos(c) /\ c.job.ev = <<d, c.job.ev[2]>> /\ c.job.ev[2] \in Causas
          /\ d \in Documentos
      BY <2>1, TrabajoForma DEF Retenidos
    <3>2. QED
      BY <3>1 DEF TrabajoVigente, EventoDeDocumento
  <2>3. nuevo \in EstadosDoc
    BY <2>1, DestinoFueraDeCola
  <2>4. docs[d] \in Comprobante /\ [docs[d] EXCEPT !.estado = nuevo] \in Comprobante
    BY <2>2, <2>3 DEF TypeOK, NoDoc, Comprobante
  <2>5. docs' = [docs EXCEPT ![d] = [docs[d] EXCEPT !.estado = nuevo]]
    BY <1>4 DEF Registrar
  <2>6. /\ docs' \in [Documentos -> Comprobante \cup {NoDoc}]
        /\ \A x \in Documentos : Existe(x)' <=> Existe(x)
    BY <2>2, <2>4, <2>5 DEF TypeOK, Comprobante, EstadosDoc
  <2>7. trab'[w] \in Ciclo /\ Retenidos(trab'[w]) = Retenidos(c)
    BY <1>4, <2>1 DEF Registrar, TypeOK, Ciclo, Retenidos
  <2>8. trab' = [trab EXCEPT ![w] = trab'[w]]
    BY <1>4 DEF Registrar, TypeOK
  <2>9. TypeOK'
    BY <1>4, <2>6, <2>7, <2>8 DEF Registrar, TypeOK
  <2>10. PedidoVigente' /\ EventoDeDocumento'
    BY <1>4, <2>6, PedidoForma DEF Registrar, PedidoVigente, EventoDeDocumento, TypeOK
  <2>11. TrabajoVigente'
    BY <1>4, <2>7, <2>8 DEF Registrar, TrabajoVigente, TypeOK
  <2>12. QED
    BY <2>9, <2>10, <2>11
<1>5. CASE Cerrar(w)
  <2>1. c.pc = "cerrar" /\ c.lote \in SUBSET Trabajo /\ c.job \in Trabajo
    BY <1>0, <1>5, CicloForma DEF Cerrar
  <2>2. c.job.ev \in Eventos /\ c.job.ev \in Retenidos(c)
    BY <2>1, TrabajoForma DEF Retenidos
  <2>3. PICK f \in {"PUBLICADO", "EN_ESPERA"} : eventos' = [eventos EXCEPT ![c.job.ev].fase = f]
    BY <1>5 DEF Cerrar
  <2>4. /\ eventos' \in [Eventos -> Evento]
        /\ \A e \in Eventos : eventos'[e].fase = "AUSENTE" <=> eventos[e].fase = "AUSENTE"
    BY <2>2, <2>3 DEF TypeOK, Evento, Fases, TrabajoVigente
  <2>5. Siguiente(c.lote) \in Ciclo /\ Retenidos(Siguiente(c.lote)) \subseteq Retenidos(c)
    BY <2>1 DEF Siguiente, Ciclo, Ocioso, EnLote, Retenidos
  <2>6. trab' = [trab EXCEPT ![w] = Siguiente(c.lote)]
    BY <1>5 DEF Cerrar
  <2>7. trab' \in [Trabajadores -> Ciclo]
        /\ \A x \in Trabajadores : \A e \in Retenidos(trab'[x]) : eventos[e].fase # "AUSENTE"
    BY <2>5, <2>6 DEF TypeOK, TrabajoVigente
  <2>8. UNCHANGED <<docs, api, proximo, proveedor, caidas, ventas>>
    BY <1>5 DEF Cerrar
  <2>9. QED
    BY <2>4, <2>7, <2>8, MoverEventosTInv DEF TypeOK
<1>6. CASE CerrarPublicado(w)
  <2>1. Ocioso \in Ciclo /\ Retenidos(Ocioso) = {}
    BY DEF Ciclo, Ocioso, Retenidos
  <2>2. QED
    BY <1>6, <2>1, MoverEventosTInv DEF CerrarPublicado, TypeOK, TrabajoVigente
<1>7. QED
  BY <1>1, <1>2, <1>3, <1>4, <1>5, <1>6 DEF Tick

\* So do sales, crashes and the passing of time.
LEMMA RestoTInv ==
  ASSUME TInv,
         \/ \E v \in Ventas, s \in Series : Vender(v, s)
         \/ \E w \in Trabajadores : Caer(w)
         \/ \E e \in Eventos : Reloj(e)
         \/ UNCHANGED vars
  PROVE  TInv'
<1> USE DEF TInv
<1>1. ASSUME NEW w \in Trabajadores, Caer(w)
      PROVE  TInv'
  <2>1. Ocioso \in Ciclo /\ Retenidos(Ocioso) = {}
    BY DEF Ciclo, Ocioso, Retenidos
  <2>2. QED
    BY <1>1, <2>1, MoverEventosTInv DEF Caer, TypeOK, TrabajoVigente
<1>2. ASSUME NEW e \in Eventos, Reloj(e)
      PROVE  TInv'
  <2>1. PICK f \in {"VENCIDO", "DISPONIBLE"} :
          eventos' = [eventos EXCEPT ![e].fase = f] /\ eventos[e].fase # "AUSENTE"
    BY <1>2 DEF Reloj, VencerArriendo, Despertar
  <2>2. /\ eventos' \in [Eventos -> Evento]
        /\ \A x \in Eventos : eventos'[x].fase = "AUSENTE" <=> eventos[x].fase = "AUSENTE"
    BY <2>1 DEF TypeOK, Evento, Fases
  <2>3. UNCHANGED <<docs, api, proximo, proveedor, caidas, trab, ventas>>
    BY <1>2 DEF Reloj, VencerArriendo, Despertar
  <2>4. QED
    BY <2>2, <2>3, MoverEventosTInv DEF TypeOK, TrabajoVigente
<1>3. CASE UNCHANGED vars
  BY <1>3 DEF vars, TypeOK, PedidoVigente, EventoDeDocumento, TrabajoVigente
<1>4. ASSUME NEW v \in Ventas, NEW s \in Series, Vender(v, s)
      PROVE  TInv'
  <2>1. proximo[s] \in Nat /\ proximo' \in [Series -> Nat]
    BY <1>4 DEF Vender, TypeOK
  <2>2. TypeOK'
    BY <1>4, <2>1 DEF Vender, TypeOK
  <2>3. QED
    BY <1>4, <2>2 DEF Vender, PedidoVigente, EventoDeDocumento, TrabajoVigente
<1>5. QED
  BY <1>1, <1>2, <1>3, <1>4

\* The type part is inductive by itself.
LEMMA NextTInv == TInv /\ [Next]_vars => TInv'
  BY PeticionTInv, TickTInv, RestoTInv DEF Next

\* Every reachable state is well typed: rows, requests in flight and worker cycles.
THEOREM TypeCorrect == Spec => []TypeOK
<1>1. TInv => TypeOK
  BY DEF TInv
<1>2. QED
  BY InitTInv, NextTInv, <1>1, PTL DEF Spec

-----------------------------------------------------------------------------
(* Delivery: a queued document keeps a live event *)

\* The event that answers for a queued document: its retry event once there is one,
\* which can never be repeated, and its emission event until then.
EventoVigente ==
  \A d \in Documentos :
    docs[d].estado = "EN_COLA" =>
      IF eventos[<<d, "reintento">>].fase = "AUSENTE"
      THEN eventos[<<d, "emision">>].fase # "PUBLICADO"
      ELSE eventos[<<d, "reintento">>].fase # "PUBLICADO"

\* A worker about to close an event has left its document outside EN_COLA, or a later
\* reintentar has queued it again with an event of its own.
CierreJusto(c) ==
  c.pc = "cerrar" /\ docs[c.job.ev[1]].estado = "EN_COLA" =>
    c.job.ev[2] = "emision" /\ eventos[<<c.job.ev[1], "reintento">>].fase # "AUSENTE"

EInv == TInv /\ EventoVigente /\ \A w \in Trabajadores : CierreJusto(trab[w])

\* An idempotency key of the outbox is a document and a cause.
LEMMA ClavesSonEventos ==
  ASSUME NEW d \in Documentos, NEW c \in Causas
  PROVE  <<d, c>> \in Eventos
  BY DEF Eventos

\* An event that is pending and agrees with its document is the delivery EN_COLA promises.
LEMMA EInvDaEntrega == EInv => EnColaTieneEntrega
<1> SUFFICES ASSUME EInv, NEW d \in Documentos, docs[d].estado = "EN_COLA"
             PROVE  \E c \in Causas : eventos[<<d, c>>].fase \notin {"AUSENTE", "PUBLICADO"}
  BY DEF EnColaTieneEntrega
<1>1. eventos[<<d, "emision">>].fase # "AUSENTE"
  BY DEF EInv, TInv, EventoDeDocumento
<1>2. QED
  BY <1>1 DEF EInv, EventoVigente, Causas

\* Steps that leave the documents alone, publish nothing and start no closing.
LEMMA EInvEstable ==
  ASSUME EInv, TInv', docs' = docs,
         \A e \in Eventos :
           /\ eventos'[e].fase = "AUSENTE" <=> eventos[e].fase = "AUSENTE"
           /\ eventos'[e].fase = "PUBLICADO" => eventos[e].fase = "PUBLICADO",
         \A w \in Trabajadores : trab'[w].pc = "cerrar" =>
           trab'[w] = trab[w] \/ docs[trab'[w].job.ev[1]].estado # "EN_COLA"
  PROVE  EInv'
<1>1. EventoVigente'
  <2> SUFFICES ASSUME NEW d \in Documentos, docs[d].estado = "EN_COLA"
               PROVE  IF eventos'[<<d, "reintento">>].fase = "AUSENTE"
                      THEN eventos'[<<d, "emision">>].fase # "PUBLICADO"
                      ELSE eventos'[<<d, "reintento">>].fase # "PUBLICADO"
    BY DEF EventoVigente
  <2>1. <<d, "emision">> \in Eventos /\ <<d, "reintento">> \in Eventos
    BY ClavesSonEventos DEF Causas
  <2>2. QED
    BY <2>1 DEF EInv, EventoVigente
<1>2. ASSUME NEW w \in Trabajadores
      PROVE  CierreJusto(trab[w])'
  <2> SUFFICES ASSUME trab'[w].pc = "cerrar", docs[trab'[w].job.ev[1]].estado = "EN_COLA"
               PROVE  /\ trab'[w].job.ev[2] = "emision"
                      /\ eventos'[<<trab'[w].job.ev[1], "reintento">>].fase # "AUSENTE"
    BY DEF CierreJusto
  <2>1. trab'[w] = trab[w] /\ trab[w] \in Ciclo
    BY DEF EInv, TInv, TypeOK
  <2>2. trab[w].job.ev[1] \in Documentos
    BY <2>1, CicloForma, TrabajoForma
  <2>3. <<trab[w].job.ev[1], "reintento">> \in Eventos
    BY <2>2, ClavesSonEventos DEF Causas
  <2>4. QED
    BY <2>1, <2>3 DEF EInv, CierreJusto
<1>3. QED
  BY <1>1, <1>2 DEF EInv

\* Writes to one document d: those of the others are untouched.
LEMMA EInvPersistir ==
  ASSUME EInv, TInv', NEW d \in Documentos, NEW v, NEW s, NEW o, Persistir(d, v, s, o),
         trab' = trab
  PROVE  EInv'
<1> USE DEF EInv, TInv
<1>1. eventos[<<d, "reintento">>].fase = "AUSENTE" /\ eventos[<<d, "emision">>].fase = "AUSENTE"
  BY DEF Persistir, EventoDeDocumento, Causas
<1>2. /\ \A x \in Documentos \ {d} : docs'[x] = docs[x]
      /\ \A e \in Eventos : e # <<d, "emision">> => eventos'[e] = eventos[e]
      /\ eventos'[<<d, "emision">>] = EventoNuevo
  BY DEF Persistir, TypeOK, Eventos, Causas
<1>3. EventoVigente'
  <2> SUFFICES ASSUME NEW x \in Documentos, docs'[x].estado = "EN_COLA"
               PROVE  IF eventos'[<<x, "reintento">>].fase = "AUSENTE"
                      THEN eventos'[<<x, "emision">>].fase # "PUBLICADO"
                      ELSE eventos'[<<x, "reintento">>].fase # "PUBLICADO"
    BY DEF EventoVigente
  <2>1. <<x, "emision">> \in Eventos /\ <<x, "reintento">> \in Eventos
    BY ClavesSonEventos DEF Causas
  <2>2. CASE x = d
    BY <2>1, <2>2, <1>1, <1>2 DEF EventoNuevo
  <2>3. CASE x # d
    BY <2>1, <2>3, <1>2 DEF EventoVigente
  <2>4. QED
    BY <2>2, <2>3
<1>4. ASSUME NEW w \in Trabajadores
      PROVE  CierreJusto(trab[w])'
  <2> SUFFICES ASSUME trab[w].pc = "cerrar", docs'[trab[w].job.ev[1]].estado = "EN_COLA"
               PROVE  /\ trab[w].job.ev[2] = "emision"
                      /\ eventos'[<<trab[w].job.ev[1], "reintento">>].fase # "AUSENTE"
    BY DEF CierreJusto
  <2> DEFINE x == trab[w].job.ev[1]
  <2>1. /\ x \in Documentos /\ trab[w].job.ev \in Eventos
        /\ trab[w].job.ev = <<x, trab[w].job.ev[2]>> /\ trab[w].job.ev[2] \in Causas
    BY CicloForma, TrabajoForma DEF TypeOK
  <2>2. eventos[trab[w].job.ev].fase # "AUSENTE"
    BY DEF TrabajoVigente, Retenidos
  <2>3. x # d
    BY <2>1, <2>2, <1>1 DEF Causas
  <2>4. <<x, "reintento">> \in Eventos
    BY <2>1, ClavesSonEventos DEF Causas
  <2>5. QED
    BY <2>1, <2>3, <2>4, <1>2 DEF CierreJusto
<1>5. QED
  BY <1>3, <1>4

\* A request that queues a document writes its event in the same transaction.
LEMMA EInvPeticion ==
  ASSUME EInv, TInv', NEW p \in Solicitudes, Peticion(p)
  PROVE  EInv'
<1>1. ASSUME \/ \E v \in Ventas, s \in Series : EmitirLeer(p, v, s)
             \/ \E d \in Documentos, s \in Series : NotaLeer(p, d, s)
             \/ \E d \in Documentos : ReintentarLeer(p, d)
             \/ Abortar(p)
      PROVE  EInv'
  <2>1. docs' = docs /\ eventos' = eventos /\ trab' = trab
    BY <1>1 DEF EmitirLeer, NotaLeer, ReintentarLeer, Abortar
  <2>2. QED
    BY <2>1, EInvEstable
<1>2. CASE EmitirAplicar(p) \/ NotaAplicar(p)
  <2>1. trab' = trab
    BY <1>2 DEF EmitirAplicar, NotaAplicar
  <2>2. CASE EmitirAplicar(p)
    <3>1. PICK d \in Documentos : Persistir(d, api[p].venta, api[p].serie, {})
      BY <2>2 DEF EmitirAplicar
    <3>2. QED
      BY <2>1, <3>1, EInvPersistir
  <2>3. CASE NotaAplicar(p)
    <3>1. PICK d \in Documentos :
            Persistir(d, docs[api[p].origen].venta, api[p].serie, {api[p].origen})
      BY <2>3 DEF NotaAplicar
    <3>2. QED
      BY <2>1, <3>1, EInvPersistir
  <2>4. QED
    BY <1>2, <2>2, <2>3
<1>3. CASE ReintentarAplicar(p)
  <2> DEFINE d == api[p].doc
  <2> USE DEF EInv, TInv
  <2>1. d \in Documentos
    BY <1>3, PedidoForma DEF ReintentarAplicar, TypeOK
  <2>2. <<d, "reintento">> \in Eventos /\ eventos[<<d, "reintento">>].fase = "AUSENTE"
    <3>1. <<d, "reintento">> \in Eventos
      BY <2>1, ClavesSonEventos DEF Causas
    <3>2. eventos[<<d, "reintento">>] = SinEvento
      BY <1>3 DEF ReintentarAplicar
    <3>3. QED
      BY <3>1, <3>2 DEF SinEvento
  <2>3. /\ \A x \in Documentos \ {d} : docs'[x] = docs[x]
        /\ \A e \in Eventos : e # <<d, "reintento">> => eventos'[e] = eventos[e]
        /\ eventos'[<<d, "reintento">>] = EventoNuevo
        /\ trab' = trab
    BY <1>3, <2>1, <2>2 DEF ReintentarAplicar, TypeOK
  <2>4. EventoVigente'
    <3> SUFFICES ASSUME NEW x \in Documentos, docs'[x].estado = "EN_COLA"
                 PROVE  IF eventos'[<<x, "reintento">>].fase = "AUSENTE"
                        THEN eventos'[<<x, "emision">>].fase # "PUBLICADO"
                        ELSE eventos'[<<x, "reintento">>].fase # "PUBLICADO"
      BY DEF EventoVigente
    <3>1. <<x, "emision">> \in Eventos /\ <<x, "reintento">> \in Eventos
      BY ClavesSonEventos DEF Causas
    <3>2. CASE x = d
      BY <3>2, <2>3 DEF EventoNuevo
    <3>3. CASE x # d
      BY <3>1, <3>3, <2>3 DEF EventoVigente
    <3>4. QED
      BY <3>2, <3>3
  <2>5. ASSUME NEW w \in Trabajadores
        PROVE  CierreJusto(trab[w])'
    <3> SUFFICES ASSUME trab[w].pc = "cerrar", docs'[trab[w].job.ev[1]].estado = "EN_COLA"
                 PROVE  /\ trab[w].job.ev[2] = "emision"
                        /\ eventos'[<<trab[w].job.ev[1], "reintento">>].fase # "AUSENTE"
      BY <2>3 DEF CierreJusto
    <3> DEFINE x == trab[w].job.ev[1]
    <3>1. /\ x \in Documentos /\ trab[w].job.ev[2] \in Causas
          /\ trab[w].job.ev = <<x, trab[w].job.ev[2]>>
      BY CicloForma, TrabajoForma DEF TypeOK
    <3>2. eventos[trab[w].job.ev].fase # "AUSENTE"
      BY DEF TrabajoVigente, Retenidos
    <3>3. CASE x = d
      BY <3>1, <3>2, <3>3, <2>2, <2>3 DEF Causas, EventoNuevo
    <3>4. CASE x # d
      <4>1. <<x, "reintento">> \in Eventos
        BY <3>1, ClavesSonEventos DEF Causas
      <4>2. QED
        BY <3>1, <3>4, <4>1, <2>3 DEF CierreJusto
    <3>5. QED
      BY <3>3, <3>4
  <2>6. QED
    BY <2>4, <2>5
<1>4. QED
  BY <1>1, <1>2, <1>3 DEF Peticion

\* A worker closes an event only when its document has left EN_COLA or waits on another
\* event.
LEMMA EInvTick ==
  ASSUME EInv, TInv', NEW w \in Trabajadores, Tick(w)
  PROVE  EInv'
<1> USE DEF EInv, TInv
<1> DEFINE c == trab[w]
<1>0. trab[w] \in Ciclo
  BY DEF TypeOK
<1>1. CASE Reclamar(w)
  <2>1. docs' = docs
    BY <1>1 DEF Reclamar
  <2>2. PICK S \in SUBSET Reclamables :
          /\ eventos' = [e \in Eventos |->
                IF e \in S THEN [fase |-> "RECLAMADO", intentos |-> eventos[e].intentos + 1]
                           ELSE eventos[e]]
          /\ trab' = [trab EXCEPT ![w] =
                EnLote({[ev |-> e, intentos |-> eventos[e].intentos + 1] : e \in S})]
    BY <1>1 DEF Reclamar
  <2>3. \A e \in Eventos :
          /\ eventos'[e].fase = "AUSENTE" <=> eventos[e].fase = "AUSENTE"
          /\ eventos'[e].fase = "PUBLICADO" => eventos[e].fase = "PUBLICADO"
    BY <2>2 DEF Reclamables
  <2>4. \A x \in Trabajadores : trab'[x].pc = "cerrar" => trab'[x] = trab[x]
    BY <2>2 DEF TypeOK, EnLote
  <2>5. QED
    BY <2>1, <2>3, <2>4, EInvEstable
<1>2. CASE Leer(w)
  <2>1. docs' = docs /\ eventos' = eventos
    BY <1>2 DEF Leer
  <2>2. \A x \in Trabajadores \ {w} : trab'[x] = trab[x]
    BY <1>2 DEF Leer, TypeOK
  <2>3. trab'[w].pc = "cerrar" => docs[trab'[w].job.ev[1]].estado # "EN_COLA"
    BY <1>2 DEF Leer, TypeOK, ESTADOS_PROCESABLES
  <2>4. QED
    BY <2>1, <2>2, <2>3, EInvEstable
<1>3. CASE Enviar(w)
  <2>1. docs' = docs /\ eventos' = eventos
        /\ \A x \in Trabajadores : trab'[x].pc = "cerrar" => trab'[x] = trab[x]
    BY <1>3 DEF Enviar, TypeOK
  <2>2. QED
    BY <2>1, EInvEstable
<1>4. CASE Registrar(w)
  <2> DEFINE d == c.job.ev[1]
  <2>1. /\ c.pc = "registrar" /\ c.job \in Trabajo
        /\ c.leido \in ESTADOS_PROCESABLES /\ c.respuesta \in Respuestas
    BY <1>0, <1>4, CicloForma DEF Registrar
  <2>2. d \in Documentos /\ Existe(d)
    <3>1. c.job.ev \in Retenidos(c) /\ c.job.ev = <<d, c.job.ev[2]>> /\ c.job.ev[2] \in Causas
          /\ d \in Documentos
      BY <2>1, TrabajoForma DEF Retenidos
    <3>2. QED
      BY <3>1 DEF TrabajoVigente, EventoDeDocumento
  <2>3. Destino(c.leido, c.respuesta) # "EN_COLA"
    BY <2>1, DestinoFueraDeCola
  <2>4. /\ docs' = [docs EXCEPT ![d] = [docs[d] EXCEPT !.estado = Destino(c.leido, c.respuesta)]]
        /\ docs[d] \in Comprobante
    BY <1>4, <2>2 DEF Registrar, TypeOK, NoDoc
  <2>5. /\ docs'[d].estado # "EN_COLA"
        /\ \A x \in Documentos \ {d} : docs'[x] = docs[x]
    BY <2>2, <2>3, <2>4 DEF TypeOK, Comprobante
  <2>6. eventos' = eventos /\ trab'[w].job = c.job
        /\ \A x \in Trabajadores \ {w} : trab'[x] = trab[x]
    BY <1>4 DEF Registrar, TypeOK
  <2>7. EventoVigente'
    BY <2>5, <2>6 DEF EventoVigente
  <2>8. ASSUME NEW x \in Trabajadores
        PROVE  CierreJusto(trab[x])'
    <3> SUFFICES ASSUME trab'[x].pc = "cerrar", docs'[trab'[x].job.ev[1]].estado = "EN_COLA"
                 PROVE  /\ trab'[x].job.ev[2] = "emision"
                        /\ eventos'[<<trab'[x].job.ev[1], "reintento">>].fase # "AUSENTE"
      BY DEF CierreJusto
    <3>1. x # w
      BY <2>5, <2>6
    <3>2. trab'[x] = trab[x] /\ trab[x] \in Ciclo
      BY <3>1, <2>6 DEF TypeOK
    <3>3. trab[x].job.ev[1] \in Documentos
      BY <3>2, CicloForma, TrabajoForma
    <3>4. docs'[trab[x].job.ev[1]] = docs[trab[x].job.ev[1]]
      BY <3>2, <3>3, <2>5
    <3>5. QED
      BY <3>2, <3>4, <2>6 DEF CierreJusto
  <2>9. QED
    BY <2>7, <2>8
<1>5. CASE Cerrar(w)
  <2> DEFINE d == c.job.ev[1]
             k == c.job.ev[2]
  <2>1. c.pc = "cerrar" /\ d \in Documentos /\ k \in Causas /\ c.job.ev = <<d, k>>
        /\ c.job.ev \in Eventos
    BY <1>0, <1>5, CicloForma, TrabajoForma DEF Cerrar
  <2>2. PICK f \in {"PUBLICADO", "EN_ESPERA"} : eventos' = [eventos EXCEPT ![c.job.ev].fase = f]
    BY <1>5 DEF Cerrar
  <2>3. eventos[c.job.ev].fase # "AUSENTE"
    BY <2>1 DEF TrabajoVigente, Retenidos
  <2>4. /\ eventos'[<<d, k>>].fase = f
        /\ \A e \in Eventos : e # <<d, k>> => eventos'[e] = eventos[e]
        /\ \A e \in Eventos : eventos'[e].fase = "AUSENTE" <=> eventos[e].fase = "AUSENTE"
    BY <2>1, <2>2, <2>3 DEF TypeOK, Evento
  <2>5. docs' = docs /\ \A x \in Trabajadores : trab'[x].pc = "cerrar" => trab'[x] = trab[x]
    BY <1>5 DEF Cerrar, TypeOK, Siguiente, Ocioso, EnLote
  <2>6. EventoVigente'
    <3> SUFFICES ASSUME NEW x \in Documentos, docs[x].estado = "EN_COLA"
                 PROVE  IF eventos'[<<x, "reintento">>].fase = "AUSENTE"
                        THEN eventos'[<<x, "emision">>].fase # "PUBLICADO"
                        ELSE eventos'[<<x, "reintento">>].fase # "PUBLICADO"
      BY <2>5 DEF EventoVigente
    <3>1. <<x, "emision">> \in Eventos /\ <<x, "reintento">> \in Eventos
      BY ClavesSonEventos DEF Causas
    <3>2. CASE x = d
      <4>1. k = "emision" /\ eventos[<<d, "reintento">>].fase # "AUSENTE"
        BY <2>1, <3>2 DEF CierreJusto
      <4>2. QED
        BY <3>1, <3>2, <4>1, <2>4 DEF EventoVigente
    <3>3. CASE x # d
      BY <3>1, <3>3, <2>4 DEF EventoVigente
    <3>4. QED
      BY <3>2, <3>3
  <2>7. ASSUME NEW x \in Trabajadores
        PROVE  CierreJusto(trab[x])'
    <3> SUFFICES ASSUME trab'[x].pc = "cerrar", docs'[trab'[x].job.ev[1]].estado = "EN_COLA"
                 PROVE  /\ trab'[x].job.ev[2] = "emision"
                        /\ eventos'[<<trab'[x].job.ev[1], "reintento">>].fase # "AUSENTE"
      BY DEF CierreJusto
    <3>1. trab'[x] = trab[x] /\ trab[x] \in Ciclo
      BY <2>5 DEF TypeOK
    <3>2. <<trab[x].job.ev[1], "reintento">> \in Eventos
      BY <3>1, CicloForma, TrabajoForma, ClavesSonEventos DEF Causas
    <3>3. QED
      BY <3>1, <3>2, <2>4, <2>5 DEF CierreJusto
  <2>8. QED
    BY <2>6, <2>7
<1>6. CASE CerrarPublicado(w)
  <2>1. docs' = docs /\ eventos' = eventos
        /\ \A x \in Trabajadores : trab'[x].pc = "cerrar" => trab'[x] = trab[x]
    BY <1>6 DEF CerrarPublicado, TypeOK, Ocioso
  <2>2. QED
    BY <2>1, EInvEstable
<1>7. QED
  BY <1>1, <1>2, <1>3, <1>4, <1>5, <1>6 DEF Tick

\* A crash or the end of a lease gives the event back; sales touch neither.
LEMMA EInvResto ==
  ASSUME EInv, TInv',
         \/ \E v \in Ventas, s \in Series : Vender(v, s)
         \/ \E w \in Trabajadores : Caer(w)
         \/ \E e \in Eventos : Reloj(e)
         \/ UNCHANGED vars
  PROVE  EInv'
<1>1. ASSUME NEW w \in Trabajadores, Caer(w)
      PROVE  EInv'
  <2>1. docs' = docs /\ eventos' = eventos
        /\ \A x \in Trabajadores : trab'[x].pc = "cerrar" => trab'[x] = trab[x]
    BY <1>1 DEF Caer, EInv, TInv, TypeOK, Ocioso
  <2>2. QED
    BY <2>1, EInvEstable
<1>2. ASSUME NEW e \in Eventos, Reloj(e)
      PROVE  EInv'
  <2>1. docs' = docs /\ trab' = trab
    BY <1>2 DEF Reloj, VencerArriendo, Despertar
  <2>2. \A x \in Eventos :
          /\ eventos'[x].fase = "AUSENTE" <=> eventos[x].fase = "AUSENTE"
          /\ eventos'[x].fase = "PUBLICADO" => eventos[x].fase = "PUBLICADO"
    BY <1>2 DEF Reloj, VencerArriendo, Despertar, EInv, TInv, TypeOK, Evento
  <2>3. QED
    BY <2>1, <2>2, EInvEstable
<1>3. CASE UNCHANGED vars
  <2>1. docs' = docs /\ trab' = trab /\ eventos' = eventos
    BY <1>3 DEF vars
  <2>2. QED
    BY <2>1, EInvEstable
<1>4. ASSUME NEW v \in Ventas, NEW s \in Series, Vender(v, s)
      PROVE  EInv'
  <2>1. docs' = docs /\ trab' = trab /\ eventos' = eventos
    BY <1>4 DEF Vender
  <2>2. QED
    BY <2>1, EInvEstable
<1>5. QED
  BY <1>1, <1>2, <1>3, <1>4

\* No queued document is ever without an event to be delivered, for any number of
\* workers, crashes, expired leases, requests and retries.
THEOREM DocumentoNuncaHuerfano == Spec => []EnColaTieneEntrega
<1>1. Init => EInv
  <2> SUFFICES ASSUME Init PROVE EInv
    OBVIOUS
  <2>1. TInv
    BY InitTInv
  <2>2. EventoVigente
    BY DEF Init, NoDoc, EventoVigente
  <2>3. \A w \in Trabajadores : CierreJusto(trab[w])
    BY DEF Init, Ocioso, CierreJusto
  <2>4. QED
    BY <2>1, <2>2, <2>3 DEF EInv
<1>2. EInv /\ [Next]_vars => EInv'
  <2> SUFFICES ASSUME EInv, [Next]_vars PROVE EInv'
    OBVIOUS
  <2>1. TInv'
    BY NextTInv DEF EInv
  <2>2. QED
    BY <2>1, EInvPeticion, EInvTick, EInvResto DEF Next
<1>3. QED
  BY <1>1, <1>2, EInvDaEntrega, PTL DEF Spec

-----------------------------------------------------------------------------
(* What a document shows is what the provider answered: for any number of  *)
(* workers, with leases that run out under them, and crashes.              *)

\* Verdicts that need the provider to have said so.
Favorables == {"ACEPTADO", "ENVIADO"}

\* An answer not yet written is the provider's; the provider never takes one back.
RespuestaFirme ==
  \A w \in Trabajadores : trab[w].pc = "registrar" /\ trab[w].respuesta \in Favorables =>
    proveedor[trab[w].job.ev[1]] = trab[w].respuesta

\* No answer of the provider leads to it, so "accepted" is ACEPTADO.
SinObservaciones == \A d \in Documentos : docs[d].estado # "ACEPTADO_CON_OBSERVACIONES"

NotaEnCurso == \A p \in Solicitudes : api[p].op = "nota" => proveedor[api[p].origen] = "ACEPTADO"

\* The origins of a note are documents, so their rows are not new ones.
OrigenExiste == \A d \in Documentos : Existe(d) => \A o \in docs[d].origen : Existe(o)

RInv == /\ TInv /\ EstadoRespaldado /\ RespuestaFirme /\ SinObservaciones
        /\ NotaEnCurso /\ OrigenExiste /\ NotaSobreAceptado

-----------------------------------------------------------------------------
\* What a document reverses is a document.
LEMMA OrigenEsDocumento ==
  ASSUME TypeOK, NEW d \in Documentos, Existe(d)
  PROVE  docs[d] \in Comprobante /\ docs[d].origen \subseteq Documentos
  BY DEF TypeOK, Existe, NoDoc, Comprobante

\* What a step may do to documents, to the provider and to whoever has them in hand.
LEMMA Estable ==
  ASSUME RInv, TInv',
         \A d \in Documentos : proveedor[d] # "SIN_REGISTRO" => proveedor'[d] = proveedor[d],
         \A d \in Documentos : Existe(d) =>
           /\ docs'[d].estado # "AUSENTE"
           /\ docs'[d].venta = docs[d].venta /\ docs'[d].origen = docs[d].origen,
         \A d \in Documentos :
           \/ docs'[d].estado = docs[d].estado
           \/ docs'[d].estado \in {"EN_COLA", "ERROR", "RECHAZADO"}
           \/ docs'[d].estado \in Favorables /\ proveedor[d] = docs'[d].estado,
         \A d \in Documentos : ~Existe(d) /\ docs'[d].estado # "AUSENTE" =>
           \A o \in docs'[d].origen :
             o \in Documentos /\ Existe(o) /\ proveedor[o] = "ACEPTADO" /\ docs[o].venta = docs'[d].venta,
         \A w \in Trabajadores : trab'[w].pc = "registrar" /\ trab'[w].respuesta \in Favorables =>
           \/ trab'[w] = trab[w]
           \/ proveedor'[trab'[w].job.ev[1]] = trab'[w].respuesta,
         \A p \in Solicitudes : api'[p].op = "nota" =>
           \/ api'[p] = api[p]
           \/ api'[p].origen \in Documentos /\ proveedor[api'[p].origen] = "ACEPTADO"
  PROVE  RInv'
<1> USE DEF RInv, TInv
<1>1. EstadoRespaldado'
  BY DEF EstadoRespaldado, Favorables
<1>2. RespuestaFirme'
  <2>1. SUFFICES ASSUME NEW w \in Trabajadores, trab'[w].pc = "registrar",
                        trab'[w].respuesta \in Favorables, trab'[w] = trab[w]
                 PROVE  proveedor'[trab[w].job.ev[1]] = trab[w].respuesta
    BY DEF RespuestaFirme
  <2>2. proveedor[trab[w].job.ev[1]] = trab[w].respuesta
    BY <2>1 DEF RespuestaFirme
  <2>3. trab[w].job.ev[1] \in Documentos
    BY <2>1, CicloForma, TrabajoForma DEF TypeOK
  <2>4. QED
    BY <2>1, <2>2, <2>3 DEF Favorables
<1>3. SinObservaciones'
  BY DEF SinObservaciones, Favorables
<1>4. NotaEnCurso'
  <2>1. SUFFICES ASSUME NEW p \in Solicitudes, api'[p].op = "nota"
                 PROVE  proveedor'[api'[p].origen] = "ACEPTADO"
    BY DEF NotaEnCurso
  <2>2. CASE api'[p] = api[p]
    BY <2>1, <2>2, PedidoForma DEF NotaEnCurso, TypeOK
  <2>3. CASE api'[p].origen \in Documentos /\ proveedor[api'[p].origen] = "ACEPTADO"
    BY <2>3
  <2>4. QED
    BY <2>1, <2>2, <2>3
<1>5. OrigenExiste' /\ NotaSobreAceptado'
  <2>1. SUFFICES ASSUME NEW d \in Documentos, docs'[d].estado # "AUSENTE", NEW o \in docs'[d].origen
                 PROVE  /\ docs'[o].estado # "AUSENTE"
                        /\ proveedor'[o] = "ACEPTADO" /\ docs'[o].venta = docs'[d].venta
    BY DEF OrigenExiste, NotaSobreAceptado, Existe
  <2>2. CASE Existe(d)
    <3>1. o \in docs[d].origen /\ docs'[d].venta = docs[d].venta
      BY <2>1, <2>2
    <3>2. o \in Documentos /\ Existe(o) /\ proveedor[o] = "ACEPTADO" /\ docs[o].venta = docs[d].venta
      BY <2>2, <3>1, OrigenEsDocumento DEF OrigenExiste, NotaSobreAceptado
    <3>3. QED
      BY <3>1, <3>2
  <2>3. CASE ~Existe(d)
    BY <2>1, <2>3
  <2>4. QED
    BY <2>2, <2>3
<1>6. QED
  BY <1>1, <1>2, <1>3, <1>4, <1>5

-----------------------------------------------------------------------------
(* Requests *)

\* What the documents of a request may reverse.
OrigenesDe(v, origen) ==
  \A o \in origen : o \in Documentos /\ Existe(o) /\ proveedor[o] = "ACEPTADO" /\ docs[o].venta = v

\* A new document is in no verdict of the provider yet, and a new note reverses one accepted
\* for good.
LEMMA RespaldoPersistir ==
  ASSUME RInv, TInv', NEW d \in Documentos, NEW v, NEW s, NEW origen,
         Persistir(d, v, s, origen), NEW p \in Solicitudes, api' = [api EXCEPT ![p] = Libre],
         proveedor' = proveedor, trab' = trab, OrigenesDe(v, origen)
  PROVE  RInv'
<1>1. /\ ~Existe(d) /\ docs'[d].estado = "EN_COLA" /\ docs'[d].venta = v /\ docs'[d].origen = origen
      /\ \A x \in Documentos \ {d} : docs'[x] = docs[x]
  BY DEF Persistir, RInv, TInv, TypeOK
<1>2. \A q \in Solicitudes : api'[q].op = "nota" => api'[q] = api[q]
  BY DEF RInv, TInv, TypeOK, Libre
<1>3. QED
  BY <1>1, <1>2, Estable DEF Existe, OrigenesDe

\* Requests keep every stored verdict backed.
LEMMA RespaldoPeticion ==
  ASSUME RInv, TInv', NEW p \in Solicitudes, Peticion(p)
  PROVE  RInv'
<1> USE DEF RInv, TInv
<1>1. ASSUME UNCHANGED <<docs, proveedor, trab>>,
             \A q \in Solicitudes : api'[q].op = "nota" =>
               \/ api'[q] = api[q]
               \/ api'[q].origen \in Documentos /\ proveedor[api'[q].origen] = "ACEPTADO"
      PROVE  RInv'
  BY <1>1, Estable DEF Existe
<1>2. CASE \/ \E v \in Ventas, s \in Series : EmitirLeer(p, v, s)
           \/ \E d \in Documentos : ReintentarLeer(p, d)
           \/ Abortar(p)
  <2>1. \A q \in Solicitudes : api'[q].op = "nota" => api'[q] = api[q]
    BY <1>2 DEF EmitirLeer, ReintentarLeer, Abortar, Libre, TypeOK
  <2>2. UNCHANGED <<docs, proveedor, trab>>
    BY <1>2 DEF EmitirLeer, ReintentarLeer, Abortar
  <2>3. QED
    BY <1>1, <2>1, <2>2
<1>3. ASSUME NEW d \in Documentos, NEW s \in Series, NotaLeer(p, d, s)
      PROVE  RInv'
  <2>1. proveedor[d] = "ACEPTADO"
    BY <1>3 DEF NotaLeer, Aceptados, SinObservaciones, EstadoRespaldado
  <2>2. \A q \in Solicitudes : api'[q].op = "nota" =>
          api'[q] = api[q] \/ api'[q].origen = d
    BY <1>3 DEF NotaLeer, TypeOK
  <2>3. UNCHANGED <<docs, proveedor, trab>>
    BY <1>3 DEF NotaLeer
  <2>4. QED
    BY <1>1, <2>1, <2>2, <2>3
<1>4. CASE EmitirAplicar(p)
  <2>1. PICK v, s : v = api[p].venta /\ s = api[p].serie
    OBVIOUS
  <2>2. PICK d \in Documentos : Persistir(d, v, s, {})
    BY <1>4, <2>1 DEF EmitirAplicar
  <2>3. api' = [api EXCEPT ![p] = Libre] /\ proveedor' = proveedor /\ trab' = trab
        /\ OrigenesDe(v, {})
    BY <1>4 DEF EmitirAplicar, OrigenesDe
  <2> HIDE DEF RInv, TInv
  <2>4. QED
    BY <2>2, <2>3, RespaldoPersistir
<1>5. CASE NotaAplicar(p)
  <2>1. PICK v, s, o : o = api[p].origen /\ v = docs[o].venta /\ s = api[p].serie
    OBVIOUS
  <2>2. PICK d \in Documentos : Persistir(d, v, s, {o})
    BY <1>5, <2>1 DEF NotaAplicar
  <2>3. o \in Documentos /\ Existe(o) /\ proveedor[o] = "ACEPTADO"
    BY <1>5, <2>1, PedidoForma DEF NotaAplicar, TypeOK, PedidoVigente, NotaEnCurso
  <2>4. api' = [api EXCEPT ![p] = Libre] /\ proveedor' = proveedor /\ trab' = trab
    BY <1>5 DEF NotaAplicar
  <2>5. OrigenesDe(v, {o})
    BY <2>1, <2>3 DEF OrigenesDe
  <2> HIDE DEF RInv, TInv
  <2>6. QED
    BY <2>2, <2>4, <2>5, RespaldoPersistir
<1>6. CASE ReintentarAplicar(p)
  <2> DEFINE d == api[p].doc
  <2>1. d \in Documentos /\ Existe(d)
    BY <1>6, PedidoForma DEF ReintentarAplicar, TypeOK, PedidoVigente
  <2>2. docs[d] \in Comprobante
    BY <2>1, OrigenEsDocumento
  <2>3. docs' = [docs EXCEPT ![d].estado = "EN_COLA"]
    BY <1>6 DEF ReintentarAplicar
  <2>4. /\ docs'[d].estado = "EN_COLA" /\ docs'[d].venta = docs[d].venta
        /\ docs'[d].origen = docs[d].origen
        /\ \A x \in Documentos \ {d} : docs'[x] = docs[x]
    BY <2>1, <2>2, <2>3 DEF Comprobante, TypeOK
  <2>5. \A q \in Solicitudes : api'[q].op = "nota" => api'[q] = api[q]
    BY <1>6 DEF ReintentarAplicar, Libre, TypeOK
  <2>6. UNCHANGED <<proveedor, trab>>
    BY <1>6 DEF ReintentarAplicar
  <2> HIDE DEF d
  <2>7. QED
    BY <2>1, <2>4, <2>5, <2>6, Estable DEF Existe
<1>7. QED
  BY <1>2, <1>3, <1>4, <1>5, <1>6 DEF Peticion

-----------------------------------------------------------------------------
(* Workers *)

\* A worker stores only the answer it holds, which is in the log of the provider.
LEMMA RespaldoTick ==
  ASSUME RInv, TInv', NEW w \in Trabajadores, Tick(w)
  PROVE  RInv'
<1> USE DEF RInv, TInv
<1>0. trab[w] \in Ciclo
  BY DEF TypeOK
<1>1. CASE Reclamar(w) \/ Leer(w) \/ Cerrar(w) \/ CerrarPublicado(w)
  <2>1. UNCHANGED <<docs, proveedor, api>>
    BY <1>1 DEF Reclamar, Leer, Cerrar, CerrarPublicado
  <2>2. \A x \in Trabajadores : trab'[x].pc = "registrar" => trab'[x] = trab[x]
    BY <1>1 DEF Reclamar, Leer, Cerrar, CerrarPublicado, EnLote, Siguiente, Ocioso, TypeOK
  <2>3. QED
    BY <2>1, <2>2, Estable DEF Existe
<1>2. CASE Enviar(w)
  <2> DEFINE d == trab[w].job.ev[1]
  <2>1. d \in Documentos
    BY <1>0, <1>2, CicloForma, TrabajoForma DEF Enviar
  <2>2. PICK r \in Respuestas, registro \in {"SIN_REGISTRO", "ACEPTADO", "ENVIADO"} :
          /\ Responder(d, r, registro)
          /\ proveedor' = [proveedor EXCEPT ![d] = registro]
          /\ trab' = [trab EXCEPT ![w] = [pc |-> "registrar", lote |-> trab[w].lote,
                        job |-> trab[w].job, leido |-> trab[w].leido, respuesta |-> r]]
    BY <1>2 DEF Enviar
  <2>3. /\ proveedor[d] # "SIN_REGISTRO" => registro = proveedor[d]
        /\ r \in Favorables => registro = r
    BY <2>2 DEF Responder, Favorables
  <2>4. /\ proveedor'[d] = registro
        /\ \A x \in Documentos \ {d} : proveedor'[x] = proveedor[x]
    BY <2>1, <2>2 DEF TypeOK
  <2>5. /\ trab'[w].job.ev[1] = d /\ trab'[w].respuesta = r
        /\ \A x \in Trabajadores \ {w} : trab'[x] = trab[x]
    BY <2>2 DEF TypeOK
  <2>6. UNCHANGED <<docs, api>>
    BY <1>2 DEF Enviar
  <2> HIDE DEF d
  <2>7. QED
    BY <2>1, <2>3, <2>4, <2>5, <2>6, Estable DEF Existe
<1>3. CASE Registrar(w)
  <2> DEFINE d == trab[w].job.ev[1]
  <2>1. /\ d \in Documentos /\ trab[w].respuesta \in Respuestas
        /\ trab[w].leido \in ESTADOS_PROCESABLES /\ trab[w].job.ev \in Eventos
    BY <1>0, <1>3, CicloForma, TrabajoForma DEF Registrar
  <2>2. Existe(d)
    <3>1. trab[w].job.ev \in Retenidos(trab[w])
      BY <1>3 DEF Registrar, Retenidos
    <3>2. PICK c \in Causas : trab[w].job.ev = <<d, c>>
      BY <2>1 DEF Eventos
    <3>3. eventos[<<d, c>>].fase # "AUSENTE"
      BY <3>1, <3>2 DEF TrabajoVigente
    <3>4. QED
      BY <2>1, <3>3 DEF EventoDeDocumento
  <2>3. docs[d] \in Comprobante
    BY <2>1, <2>2, OrigenEsDocumento
  <2> DEFINE e == Destino(trab[w].leido, trab[w].respuesta)
  <2>4. docs' = [docs EXCEPT ![d].estado = e]
    BY <1>3 DEF Registrar
  <2>5. /\ docs'[d].estado = e /\ docs'[d].venta = docs[d].venta /\ docs'[d].origen = docs[d].origen
        /\ \A x \in Documentos \ {d} : docs'[x] = docs[x]
    BY <2>1, <2>3, <2>4 DEF Comprobante, TypeOK
  <2>6. e \in {"ERROR", "RECHAZADO"} \cup Favorables
    BY <2>1, DestinoFueraDeCola
    DEF Destino, puedeTransicionar, TRANSICIONES, ESTADOS_PROCESABLES, Respuestas, Favorables
  <2>7. e \in Favorables => proveedor[d] = e
    BY <1>3, <2>1, DestinoFueraDeCola DEF Registrar, RespuestaFirme, Favorables
  <2>8. UNCHANGED <<proveedor, api>>
    BY <1>3 DEF Registrar
  <2>9. \A x \in Trabajadores : trab'[x].pc = "registrar" => trab'[x] = trab[x]
    BY <1>3 DEF Registrar, TypeOK
  <2>10. e # "AUSENTE"
    BY <2>6 DEF Favorables
  <2> HIDE DEF d, e
  <2>11. QED
    BY <2>1, <2>2, <2>5, <2>6, <2>7, <2>8, <2>9, <2>10, Estable DEF Existe
<1>4. QED
  BY <1>1, <1>2, <1>3 DEF Tick

\* Sales, crashes and time store no verdict.
LEMMA RespaldoResto ==
  ASSUME RInv, TInv',
         \/ \E v \in Ventas, s \in Series : Vender(v, s)
         \/ \E w \in Trabajadores : Caer(w)
         \/ \E e \in Eventos : Reloj(e)
         \/ UNCHANGED vars
  PROVE  RInv'
<1>1. UNCHANGED <<docs, proveedor, api>>
  BY DEF Vender, Caer, Reloj, VencerArriendo, Despertar, vars
<1>2. \A x \in Trabajadores : trab'[x].pc = "registrar" => trab'[x] = trab[x]
  BY DEF Vender, Caer, Reloj, VencerArriendo, Despertar, vars, Ocioso, RInv, TInv, TypeOK
<1>3. QED
  BY <1>1, <1>2, Estable DEF Existe

-----------------------------------------------------------------------------
\* Every stored verdict is backed, in every behaviour.
LEMMA RInvSiempre == Spec => []RInv
<1>1. Init => RInv
  <2>1. Init => TInv
    BY InitTInv
  <2>2. ASSUME Init
        PROVE  /\ EstadoRespaldado /\ RespuestaFirme /\ SinObservaciones
               /\ NotaEnCurso /\ OrigenExiste /\ NotaSobreAceptado
    BY <2>2 DEF Init, EstadoRespaldado, RespuestaFirme, SinObservaciones, NotaEnCurso,
                OrigenExiste, NotaSobreAceptado, NoDoc, Ocioso, Libre, Existe
  <2>3. QED
    BY <2>1, <2>2 DEF RInv
<1>2. RInv /\ [Next]_vars => RInv'
  <2> SUFFICES ASSUME RInv, [Next]_vars PROVE RInv'
    OBVIOUS
  <2>1. TInv'
    BY NextTInv DEF RInv
  <2>2. QED
    BY <2>1, RespaldoPeticion, RespaldoTick, RespaldoResto DEF Next
<1>3. QED
  BY <1>1, <1>2, PTL DEF Spec

\* A document is shown ACEPTADO or ENVIADO only if the provider answered so, however many
\* workers send it again after a lease that ran out, and however old the state each read.
THEOREM VeredictoDelProveedor == Spec => []EstadoRespaldado
<1>1. RInv => EstadoRespaldado
  BY DEF RInv
<1>2. QED
  BY RInvSiempre, <1>1, PTL

\* A credit note reverses a document of the same sale that the provider accepted, although
\* the origin is read before the correlative is locked.
THEOREM NotaDeAceptado == Spec => []NotaSobreAceptado
<1>1. RInv => NotaSobreAceptado
  BY DEF RInv
<1>2. QED
  BY RInvSiempre, <1>1, PTL

-----------------------------------------------------------------------------
(* The transition table, with one worker *)

\* One instance of ProcesadorFiscal: two of them may hold the two events of one document,
\* and the second writes over a verdict it did not see.
UnTrabajador == \A v, w \in Trabajadores : v = w

\* The states reintentar takes.
Reintentables == {"BORRADOR", "RECHAZADO", "ERROR"}

\* The state the worker read holds until it writes, but for a retry of a failed document.
LecturaVigente(c) ==
  c.pc \in {"enviar", "registrar"} =>
    \/ docs[c.job.ev[1]].estado = c.leido
    \/ c.leido = "ERROR" /\ docs[c.job.ev[1]].estado = "EN_COLA"

\* A document that a request is about to queue again can be queued, unless another request
\* took its only retry.
ReintentoVigente(t) ==
  t.op = "reintentar" =>
    \/ eventos[<<t.doc, "reintento">>].fase # "AUSENTE"
    \/ docs[t.doc].estado \in Reintentables

LInv == /\ TInv
        /\ \A w \in Trabajadores : LecturaVigente(trab[w])
        /\ \A p \in Solicitudes : ReintentoVigente(api[p])

\* One step of one document.
Legal ==
  \A d \in Documentos :
    Existe(d) /\ docs'[d].estado # docs[d].estado
      => puedeTransicionar(docs[d].estado, docs'[d].estado)

\* What a worker works on exists.
LEMMA JobExiste ==
  ASSUME TInv, NEW w \in Trabajadores, trab[w].pc \in {"enviar", "registrar"}
  PROVE  /\ trab[w].job.ev[1] \in Documentos /\ Existe(trab[w].job.ev[1])
         /\ trab[w].leido \in ESTADOS_PROCESABLES
<1>1. trab[w] \in Ciclo
  BY DEF TInv, TypeOK
<1>2. trab[w].job \in Trabajo /\ trab[w].leido \in ESTADOS_PROCESABLES
  BY <1>1, CicloForma
<1>3. trab[w].job.ev \in Retenidos(trab[w])
  BY DEF Retenidos
<1>4. QED
  BY <1>2, <1>3, TrabajoForma DEF TInv, TrabajoVigente, EventoDeDocumento

\* Every step but registrarResultado: documents stay, or are queued again with an event.
LEMMA LecturaSigue ==
  ASSUME LInv, TInv',
         \A d \in Documentos : Existe(d) =>
           \/ docs'[d].estado = docs[d].estado
           \/ /\ docs[d].estado \in Reintentables /\ docs'[d].estado = "EN_COLA"
              /\ eventos'[<<d, "reintento">>].fase # "AUSENTE",
         \A d \in Documentos :
           eventos[<<d, "reintento">>].fase # "AUSENTE" => eventos'[<<d, "reintento">>].fase # "AUSENTE",
         \A w \in Trabajadores : trab'[w] = trab[w] \/ LecturaVigente(trab[w])',
         \A p \in Solicitudes : api'[p] = api[p] \/ ReintentoVigente(api[p])'
  PROVE  LInv' /\ Legal
<1>1. ASSUME NEW w \in Trabajadores, trab'[w] = trab[w]
      PROVE  LecturaVigente(trab[w])'
  <2>1. CASE trab[w].pc \in {"enviar", "registrar"}
    <3>1. LecturaVigente(trab[w])
      BY DEF LInv
    <3>2. /\ trab[w].job.ev[1] \in Documentos /\ Existe(trab[w].job.ev[1])
          /\ trab[w].leido \in {"EN_COLA", "ERROR"}
      BY <2>1, JobExiste DEF LInv, ESTADOS_PROCESABLES
    <3>3. QED
      BY <1>1, <2>1, <3>1, <3>2 DEF LecturaVigente, Reintentables
  <2>2. CASE trab[w].pc \notin {"enviar", "registrar"}
    BY <1>1, <2>2 DEF LecturaVigente
  <2>3. QED
    BY <2>1, <2>2
<1>2. ASSUME NEW p \in Solicitudes, api'[p] = api[p]
      PROVE  ReintentoVigente(api[p])'
  <2>1. CASE api[p].op = "reintentar"
    <3>1. ReintentoVigente(api[p])
      BY DEF LInv
    <3>2. api[p].doc \in Documentos /\ Existe(api[p].doc)
      BY <2>1, PedidoForma DEF LInv, TInv, TypeOK, PedidoVigente
    <3>3. QED
      BY <1>2, <2>1, <3>1, <3>2 DEF ReintentoVigente
  <2>2. CASE api[p].op # "reintentar"
    BY <1>2, <2>2 DEF ReintentoVigente
  <2>3. QED
    BY <2>1, <2>2
<1>3. Legal
  <2>1. \A s \in Reintentables : puedeTransicionar(s, "EN_COLA")
    BY DEF puedeTransicionar, TRANSICIONES, Reintentables
  <2>2. QED
    BY <2>1 DEF Legal
<1>4. QED
  BY <1>1, <1>2, <1>3 DEF LInv

\* A request changes no document the only worker is sending, and moves documents along the
\* table.
LEMMA LecturaPeticion ==
  ASSUME LInv, TInv', NEW p \in Solicitudes, Peticion(p)
  PROVE  LInv' /\ Legal
<1>0. TypeOK /\ Libre.op = "libre" /\ trab' = trab
  BY DEF LInv, TInv, Libre, Peticion, EmitirLeer, EmitirAplicar, NotaLeer, NotaAplicar,
         ReintentarLeer, ReintentarAplicar, Abortar
<1>1. ASSUME NEW d \in Documentos, NEW v, NEW s, NEW o, Persistir(d, v, s, o), api' = [api EXCEPT ![p] = Libre]
      PROVE  LInv' /\ Legal
  <2>1. \A x \in Documentos : Existe(x) => docs'[x].estado = docs[x].estado
    BY <1>0, <1>1 DEF Persistir, TypeOK
  <2>2. \A x \in Documentos : eventos'[<<x, "reintento">>] = eventos[<<x, "reintento">>]
    BY <1>0, <1>1 DEF Persistir, TypeOK, Eventos, Causas
  <2>3. \A q \in Solicitudes : api'[q] = api[q] \/ api'[q].op = "libre"
    BY <1>0, <1>1 DEF TypeOK
  <2>4. \A q \in Solicitudes : api'[q] = api[q] \/ ReintentoVigente(api[q])'
    BY <2>3 DEF ReintentoVigente
  <2>5. QED
    BY <1>0, <2>1, <2>2, <2>4, LecturaSigue
<1>2. CASE EmitirAplicar(p) \/ NotaAplicar(p)
  BY <1>1, <1>2 DEF EmitirAplicar, NotaAplicar
<1>3. CASE \/ \E v \in Ventas, s \in Series : EmitirLeer(p, v, s)
           \/ \E d \in Documentos, s \in Series : NotaLeer(p, d, s)
           \/ Abortar(p)
  <2>1. UNCHANGED <<docs, eventos>>
    BY <1>3 DEF EmitirLeer, NotaLeer, Abortar
  <2>2. \A q \in Solicitudes : api'[q] = api[q] \/ api'[q].op # "reintentar"
    BY <1>0, <1>3 DEF EmitirLeer, NotaLeer, Abortar, TypeOK
  <2>3. \A q \in Solicitudes : api'[q] = api[q] \/ ReintentoVigente(api[q])'
    BY <2>2 DEF ReintentoVigente
  <2>4. QED
    BY <1>0, <2>1, <2>3, LecturaSigue
<1>4. ASSUME NEW d \in Documentos, ReintentarLeer(p, d)
      PROVE  LInv' /\ Legal
  <2>1. UNCHANGED <<docs, eventos>>
    BY <1>4 DEF ReintentarLeer
  <2>2. docs[d].estado \in EstadosDoc
    BY <1>0, <1>4 DEF ReintentarLeer, TypeOK, Comprobante, NoDoc
  <2>3. docs[d].estado \in Reintentables
    BY <1>4, <2>2 DEF ReintentarLeer, puedeTransicionar, TRANSICIONES, EstadosDoc, Reintentables
  <2>4. \A q \in Solicitudes : api'[q] = api[q] \/ api'[q].doc = d
    BY <1>0, <1>4 DEF ReintentarLeer, TypeOK
  <2>5. \A q \in Solicitudes : api'[q] = api[q] \/ ReintentoVigente(api[q])'
    BY <2>1, <2>3, <2>4 DEF ReintentoVigente
  <2>6. QED
    BY <1>0, <2>1, <2>5, LecturaSigue
<1>5. CASE ReintentarAplicar(p)
  <2>0. PICK d \in Documentos : d = api[p].doc /\ Existe(d) /\ api[p].op = "reintentar"
    BY <1>0, <1>5, PedidoForma DEF ReintentarAplicar, LInv, TInv, TypeOK, PedidoVigente
  <2>1. eventos[<<d, "reintento">>].fase = "AUSENTE"
    BY <1>5, <2>0 DEF ReintentarAplicar, SinEvento
  <2>2. docs[d].estado \in Reintentables
    BY <2>0, <2>1 DEF LInv, ReintentoVigente
  <2>3. docs[d] \in Comprobante
    BY <1>0, <2>0 DEF TypeOK, NoDoc
  <2>4. /\ docs'[d].estado = "EN_COLA"
        /\ \A x \in Documentos \ {d} : docs'[x] = docs[x]
    BY <1>0, <1>5, <2>0, <2>3 DEF ReintentarAplicar, TypeOK, Comprobante
  <2>5. /\ eventos'[<<d, "reintento">>].fase = "DISPONIBLE"
        /\ \A x \in Documentos \ {d} : eventos'[<<x, "reintento">>] = eventos[<<x, "reintento">>]
    BY <1>0, <1>5, <2>0 DEF ReintentarAplicar, TypeOK, EventoNuevo, Eventos, Causas
  <2>6. \A q \in Solicitudes : api'[q] = api[q] \/ api'[q].op = "libre"
    BY <1>0, <1>5 DEF ReintentarAplicar, TypeOK
  <2>7. \A q \in Solicitudes : api'[q] = api[q] \/ ReintentoVigente(api[q])'
    BY <2>6 DEF ReintentoVigente
  <2>8. QED
    BY <1>0, <2>2, <2>4, <2>5, <2>7, LecturaSigue
<1>6. QED
  BY <1>2, <1>3, <1>4, <1>5 DEF Peticion

\* Reading, sending, closing, and everything that neither is a request nor a worker.
LEMMA LecturaResto ==
  ASSUME LInv, TInv',
         \/ \E v \in Ventas, s \in Series : Vender(v, s)
         \/ \E w \in Trabajadores : Reclamar(w) \/ Leer(w) \/ Enviar(w) \/ Cerrar(w) \/ CerrarPublicado(w)
         \/ \E w \in Trabajadores : Caer(w)
         \/ \E e \in Eventos : Reloj(e)
         \/ UNCHANGED vars
  PROVE  LInv' /\ Legal
<1>0. TypeOK /\ UNCHANGED <<docs, api>>
  BY DEF LInv, TInv, Vender, Reclamar, Leer, Enviar, Cerrar, CerrarPublicado, Caer, Reloj,
         VencerArriendo, Despertar, vars
<1>1. \A e \in Eventos : eventos[e].fase # "AUSENTE" => eventos'[e].fase # "AUSENTE"
  <2>0. \A e \in Eventos : eventos[e] \in Evento
    BY <1>0 DEF TypeOK
  <2>1. ASSUME NEW w \in Trabajadores, Reclamar(w)
        PROVE  \A e \in Eventos : eventos[e].fase # "AUSENTE" => eventos'[e].fase # "AUSENTE"
    BY <2>1 DEF Reclamar
  <2>2. ASSUME NEW w \in Trabajadores, Cerrar(w)
        PROVE  \A e \in Eventos : eventos[e].fase # "AUSENTE" => eventos'[e].fase # "AUSENTE"
    <3>1. PICK f \in {"PUBLICADO", "EN_ESPERA"} : eventos' = [eventos EXCEPT ![trab[w].job.ev].fase = f]
      BY <2>2 DEF Cerrar
    <3>2. QED
      BY <1>0, <2>0, <3>1 DEF TypeOK, Evento
  <2>3. ASSUME NEW x \in Eventos, Reloj(x)
        PROVE  \A e \in Eventos : eventos[e].fase # "AUSENTE" => eventos'[e].fase # "AUSENTE"
    <3>1. PICK f \in {"VENCIDO", "DISPONIBLE"} : eventos' = [eventos EXCEPT ![x].fase = f]
      BY <2>3 DEF Reloj, VencerArriendo, Despertar
    <3>2. QED
      BY <1>0, <2>0, <3>1 DEF TypeOK, Evento
  <2>4. QED
    BY <2>1, <2>2, <2>3 DEF Vender, Leer, Enviar, CerrarPublicado, Caer, vars
<1>2. \A d \in Documentos : <<d, "reintento">> \in Eventos
  BY DEF Eventos, Causas
<1>3. \A w \in Trabajadores : trab'[w] = trab[w] \/ LecturaVigente(trab[w])'
  <2>1. ASSUME NEW w \in Trabajadores, Reclamar(w) \/ CerrarPublicado(w) \/ Cerrar(w) \/ Caer(w)
        PROVE  \A x \in Trabajadores : trab'[x] = trab[x] \/ trab'[x].pc \in {"ocioso", "lote"}
    BY <1>0, <2>1 DEF Reclamar, CerrarPublicado, Cerrar, Caer, Siguiente, Ocioso, EnLote, TypeOK
  <2>2. ASSUME NEW w \in Trabajadores, Reclamar(w) \/ CerrarPublicado(w) \/ Cerrar(w) \/ Caer(w)
        PROVE  \A x \in Trabajadores : trab'[x] = trab[x] \/ LecturaVigente(trab[x])'
    BY <2>1, <2>2 DEF LecturaVigente
  <2>3. ASSUME NEW w \in Trabajadores, Leer(w)
        PROVE  \A x \in Trabajadores : trab'[x] = trab[x] \/ LecturaVigente(trab[x])'
    <3>1. \A x \in Trabajadores : trab'[x] = trab[x] \/ x = w
      BY <1>0, <2>3 DEF Leer, TypeOK
    <3>2. PICK j \in trab[w].lote :
            \/ /\ docs[j.ev[1]].estado \in ESTADOS_PROCESABLES
               /\ trab' = [trab EXCEPT ![w] = [pc |-> "enviar", lote |-> trab[w].lote \ {j},
                                               job |-> j, leido |-> docs[j.ev[1]].estado]]
            \/ trab' = [trab EXCEPT ![w] = [pc |-> "cerrar", lote |-> trab[w].lote \ {j},
                                            job |-> j, procesado |-> FALSE]]
      BY <2>3 DEF Leer
    <3>3. \/ trab'[w].pc = "enviar" /\ trab'[w].leido = docs[trab'[w].job.ev[1]].estado
          \/ trab'[w].pc = "cerrar"
      BY <1>0, <3>2 DEF TypeOK
    <3>4. LecturaVigente(trab[w])'
      BY <1>0, <3>3 DEF LecturaVigente
    <3>5. QED
      BY <3>1, <3>4
  <2>4. ASSUME NEW w \in Trabajadores, Enviar(w)
        PROVE  \A x \in Trabajadores : trab'[x] = trab[x] \/ LecturaVigente(trab[x])'
    <3>1. /\ \A x \in Trabajadores : trab'[x] = trab[x] \/ x = w
          /\ trab'[w].job = trab[w].job /\ trab'[w].leido = trab[w].leido /\ trab[w].pc = "enviar"
      BY <1>0, <2>4 DEF Enviar, TypeOK
    <3>2. LecturaVigente(trab[w])
      BY DEF LInv
    <3>3. LecturaVigente(trab[w])'
      BY <1>0, <3>1, <3>2 DEF LecturaVigente
    <3>4. QED
      BY <3>1, <3>3
  <2>5. QED
    BY <2>2, <2>3, <2>4 DEF Vender, Reloj, VencerArriendo, Despertar, vars
<1>4. QED
  BY <1>0, <1>1, <1>2, <1>3, LecturaSigue

\* registrarResultado consults the table with the state it read before the call.
LEMMA LecturaRegistrar ==
  ASSUME UnTrabajador, LInv, TInv', NEW w \in Trabajadores, Registrar(w)
  PROVE  LInv' /\ Legal
<1>0. TypeOK /\ UNCHANGED <<eventos, api>> /\ trab[w].pc = "registrar" /\ trab[w] \in Ciclo
  BY DEF LInv, TInv, Registrar, TypeOK
<1>1. PICK d \in Documentos : d = trab[w].job.ev[1] /\ Existe(d) /\ trab[w].leido \in {"EN_COLA", "ERROR"}
  BY <1>0, JobExiste DEF LInv, ESTADOS_PROCESABLES
<1>2. PICK s : s = Destino(trab[w].leido, trab[w].respuesta)
  OBVIOUS
<1>3. docs[d] \in Comprobante
  BY <1>0, <1>1 DEF TypeOK, NoDoc
<1>4. docs'[d].estado = s /\ \A x \in Documentos \ {d} : docs'[x] = docs[x]
  BY <1>0, <1>1, <1>2, <1>3 DEF Registrar, TypeOK, Comprobante
<1>5. \/ docs[d].estado = trab[w].leido
      \/ trab[w].leido = "ERROR" /\ docs[d].estado = "EN_COLA"
  BY <1>0, <1>1 DEF LInv, LecturaVigente
<1>6. /\ trab[w].leido = "ERROR" => s = "ERROR"
      /\ trab[w].leido = "EN_COLA" => s \in {"EN_COLA", "ENVIADO", "ACEPTADO", "RECHAZADO", "ERROR"}
  <2>1. trab[w].respuesta \in Respuestas
    BY <1>0, CicloForma
  <2>2. QED
    BY <1>2, <2>1 DEF Destino, puedeTransicionar, TRANSICIONES, Respuestas
<1>7. Legal
  <2>1. docs[d].estado # s => puedeTransicionar(docs[d].estado, s)
    BY <1>1, <1>5, <1>6 DEF puedeTransicionar, TRANSICIONES
  <2>2. QED
    BY <1>4, <2>1 DEF Legal
<1>8. \A x \in Trabajadores : LecturaVigente(trab[x])'
  <2>1. trab'[w].pc = "cerrar"
    BY <1>0 DEF Registrar, TypeOK
  <2>2. LecturaVigente(trab[w])'
    BY <2>1 DEF LecturaVigente
  <2>3. QED
    BY <2>2 DEF UnTrabajador
<1>9. ASSUME NEW p \in Solicitudes
      PROVE  ReintentoVigente(api[p])'
  <2>1. ReintentoVigente(api[p])
    BY DEF LInv
  <2>2. CASE api[p].op = "reintentar"
    <3>1. api[p].doc \in Documentos
      BY <1>0, <2>2, PedidoForma DEF TypeOK
    <3>2. docs[d].estado \in Reintentables => s \in Reintentables
      BY <1>5, <1>6, <1>1 DEF Reintentables
    <3>3. QED
      BY <1>0, <1>4, <2>1, <2>2, <3>1, <3>2 DEF ReintentoVigente
  <2>3. CASE api[p].op # "reintentar"
    BY <1>0, <2>3 DEF ReintentoVigente
  <2>4. QED
    BY <2>2, <2>3
<1>10. QED
  BY <1>7, <1>8, <1>9 DEF LInv

\* With one worker, every write of a document's state follows TRANSICIONES, although
\* reintentar writes without looking again and the worker with the state it read before the
\* call: the unique key of the retry makes the first safe, and that only the worker takes a
\* document out of EN_COLA the second.
THEOREM TransicionesSegunTabla ==
  ASSUME UnTrabajador
  PROVE  Spec => TransicionLegal
<1>1. Init => LInv
  <2>1. Init => TInv
    BY InitTInv
  <2>2. Init => \A w \in Trabajadores : LecturaVigente(trab[w])
    BY DEF Init, LecturaVigente, Ocioso
  <2>3. Init => \A p \in Solicitudes : ReintentoVigente(api[p])
    BY DEF Init, ReintentoVigente, Libre
  <2>4. QED
    BY <2>1, <2>2, <2>3 DEF LInv
<1>2. LInv /\ [Next]_vars => LInv' /\ Legal
  <2>1. SUFFICES ASSUME LInv, [Next]_vars
                 PROVE  LInv' /\ Legal
    OBVIOUS
  <2>2. TInv'
    BY <2>1, NextTInv DEF LInv
  <2>3. ASSUME NEW w \in Trabajadores, Tick(w)
        PROVE  LInv' /\ Legal
    BY <2>1, <2>2, <2>3, LecturaResto, LecturaRegistrar DEF Tick
  <2>4. QED
    BY <2>1, <2>2, <2>3, LecturaPeticion, LecturaResto DEF Next
<1>3. LInv /\ [Next]_vars =>
        [\A d \in Documentos :
           Existe(d) /\ docs'[d].estado # docs[d].estado
             => puedeTransicionar(docs[d].estado, docs'[d].estado)]_docs
  BY <1>2 DEF Legal
<1>4. QED
  BY <1>1, <1>2, <1>3, PTL DEF Spec, TransicionLegal
-----------------------------------------------------------------------------
(* The correlatives of a series *)

\* Steps that create neither a document nor a sale leave the holders as they were.
LEMMA MismosTitulares ==
  ASSUME CorrelativosSinHuecos, UNCHANGED <<proximo, ventas>>,
         \A d \in Documentos : /\ Existe(d)' = Existe(d)
                               /\ Existe(d) => /\ docs'[d].serie = docs[d].serie
                                              /\ docs'[d].numero = docs[d].numero
  PROVE  CorrelativosSinHuecos'
<1>1. ASSUME NEW s, NEW n
      PROVE  Titulares(s, n)' = Titulares(s, n)
  BY DEF Titulares
<1>2. QED
  BY <1>1 DEF CorrelativosSinHuecos

\* t, a new document or a new sale, takes the next number k of series s, and no other number
\* changes hands.
Toma(s, k, t) ==
  /\ k = proximo[s]
  /\ proximo' = [proximo EXCEPT ![s] = @ + 1]
  /\ Titulares(s, k)' = Titulares(s, k) \cup {t}
  /\ \A r \in Series, n \in Nat : r # s \/ n # k => Titulares(r, n)' = Titulares(r, n)

\* Whoever takes the next number of a series is its only holder.
LEMMA SiguienteTitular ==
  ASSUME TypeOK, CorrelativosSinHuecos, NEW s \in Series, NEW k, NEW t, Toma(s, k, t)
  PROVE  \A r \in Series : \A n \in 1 .. proximo'[r] - 1 :
           \E u \in Titulares(r, n)' : Titulares(r, n)' = {u}
<1>1. \A r \in Series : proximo[r] \in Nat /\ proximo'[r] = IF r = s THEN proximo[r] + 1 ELSE proximo[r]
  BY DEF TypeOK, Toma
<1>2. Titulares(s, k) = {}
  <2>1. \A d \in Documentos : ~ (Existe(d) /\ docs[d].serie = s /\ docs[d].numero = k)
    BY <1>1 DEF Toma, CorrelativosSinHuecos
  <2>2. \A v \in Ventas : ~ (ventas[v] # NoVenta /\ ventas[v].serie = s /\ ventas[v].numero = k)
    BY <1>1 DEF Toma, CorrelativosSinHuecos
  <2>3. QED
    BY <2>1, <2>2 DEF Titulares
<1>3. SUFFICES ASSUME NEW r \in Series, NEW n \in 1 .. proximo'[r] - 1
               PROVE  \E u \in Titulares(r, n)' : Titulares(r, n)' = {u}
  OBVIOUS
<1>4. n \in Nat
  BY <1>1
<1>5. CASE r = s /\ n = k
  BY <1>2, <1>5 DEF Toma
<1>6. CASE r # s \/ n # k
  <2>1. n \in 1 .. proximo[r] - 1
    BY <1>1, <1>6 DEF Toma
  <2>2. Titulares(r, n)' = Titulares(r, n)
    BY <1>4, <1>6 DEF Toma
  <2>3. \E u \in Titulares(r, n) : Titulares(r, n) = {u}
    BY <2>1 DEF CorrelativosSinHuecos
  <2>4. QED
    BY <2>2, <2>3
<1>7. QED
  BY <1>5, <1>6

\* A new document takes the number under the row lock of the series.
LEMMA PersistirCorrelativo ==
  ASSUME TypeOK, CorrelativosSinHuecos,
         NEW d \in Documentos, NEW v, NEW s \in Series, NEW origen,
         Persistir(d, v, s, origen), UNCHANGED ventas
  PROVE  CorrelativosSinHuecos'
<1>0. PICK k : k = proximo[s]
  OBVIOUS
<1>1. \A r \in Series : proximo[r] \in Nat /\ proximo'[r] \in Nat /\ proximo[r] <= proximo'[r]
  BY DEF TypeOK, Persistir
<1>2. proximo' = [proximo EXCEPT ![s] = @ + 1] /\ proximo'[s] = proximo[s] + 1
  BY DEF TypeOK, Persistir
<1>3. /\ ~Existe(d) /\ Existe(d)' /\ docs'[d].serie = s /\ docs'[d].numero = proximo[s]
      /\ \A x \in Documentos \ {d} : docs'[x] = docs[x]
  BY DEF TypeOK, Persistir
<1>4. Titulares(s, k)' = Titulares(s, k) \cup {<<"documento", d>>}
  BY <1>0, <1>1, <1>3 DEF Titulares
<1>5. \A r \in Series, n \in Nat : r # s \/ n # k => Titulares(r, n)' = Titulares(r, n)
  BY <1>0, <1>3 DEF Titulares
<1>6. \A x \in Documentos : \A r \in Series :
        Existe(x)' /\ docs'[x].serie = r => docs'[x].numero < proximo'[r]
  BY <1>1, <1>2, <1>3 DEF CorrelativosSinHuecos, TypeOK, Comprobante, NoDoc
<1>7. \A x \in Ventas : \A r \in Series :
        ventas[x] # NoVenta /\ ventas[x].serie = r => ventas[x].numero < proximo'[r]
  BY <1>1 DEF CorrelativosSinHuecos, TypeOK
<1>8. \A r \in Series : \A n \in 1 .. proximo'[r] - 1 :
        \E u \in Titulares(r, n)' : Titulares(r, n)' = {u}
  <2>1. Toma(s, k, <<"documento", d>>)
    BY <1>0, <1>2, <1>4, <1>5 DEF Toma
  <2>2. QED
    BY <2>1, SiguienteTitular
<1>9. QED
  BY <1>6, <1>7, <1>8 DEF CorrelativosSinHuecos

\* So does a new sale.
LEMMA VenderCorrelativo ==
  ASSUME TypeOK, CorrelativosSinHuecos, NEW v \in Ventas, NEW s \in Series, Vender(v, s)
  PROVE  CorrelativosSinHuecos'
<1>0. PICK k : k = proximo[s]
  OBVIOUS
<1>1. \A r \in Series : proximo[r] \in Nat /\ proximo'[r] \in Nat /\ proximo[r] <= proximo'[r]
  BY DEF TypeOK, Vender
<1>2. proximo' = [proximo EXCEPT ![s] = @ + 1] /\ proximo'[s] = proximo[s] + 1 /\ docs' = docs
  BY DEF TypeOK, Vender
<1>3. /\ ventas[v] = NoVenta /\ ventas'[v] = [serie |-> s, numero |-> proximo[s]]
      /\ \A x \in Ventas \ {v} : ventas'[x] = ventas[x]
  BY DEF TypeOK, Vender
<1>4. ventas'[v] # NoVenta /\ ventas'[v].serie = s /\ ventas'[v].numero = proximo[s]
  BY <1>3 DEF NoVenta
<1>5. Titulares(s, k)' = Titulares(s, k) \cup {<<"venta", v>>}
  BY <1>0, <1>2, <1>3, <1>4 DEF Titulares
<1>6. \A r \in Series, n \in Nat : r # s \/ n # k => Titulares(r, n)' = Titulares(r, n)
  BY <1>0, <1>2, <1>3, <1>4 DEF Titulares
<1>7. \A x \in Documentos : \A r \in Series :
        Existe(x)' /\ docs'[x].serie = r => docs'[x].numero < proximo'[r]
  BY <1>1, <1>2 DEF CorrelativosSinHuecos, TypeOK, Comprobante, NoDoc
<1>8. \A x \in Ventas : \A r \in Series :
        ventas'[x] # NoVenta /\ ventas'[x].serie = r => ventas'[x].numero < proximo'[r]
  BY <1>1, <1>2, <1>3, <1>4 DEF CorrelativosSinHuecos, TypeOK
<1>9. \A r \in Series : \A n \in 1 .. proximo'[r] - 1 :
        \E u \in Titulares(r, n)' : Titulares(r, n)' = {u}
  <2>1. Toma(s, k, <<"venta", v>>)
    BY <1>0, <1>2, <1>5, <1>6 DEF Toma
  <2>2. QED
    BY <2>1, SiguienteTitular
<1>10. QED
  BY <1>7, <1>8, <1>9 DEF CorrelativosSinHuecos

\* Every other step rewrites the state of a document at most.
LEMMA RestoCorrelativo ==
  ASSUME TInv, CorrelativosSinHuecos, [Next]_vars,
         ~ \E v \in Ventas, s \in Series : Vender(v, s),
         ~ \E p \in Solicitudes : EmitirAplicar(p) \/ NotaAplicar(p)
  PROVE  CorrelativosSinHuecos'
<1>0. TypeOK
  BY DEF TInv
<1>1. ASSUME NEW d \in Documentos, NEW e, Existe(d), e # "AUSENTE",
             docs' = [docs EXCEPT ![d].estado = e], UNCHANGED <<proximo, ventas>>
      PROVE  CorrelativosSinHuecos'
  <2>1. docs[d] \in Comprobante
    BY <1>0, <1>1 DEF TypeOK, NoDoc
  <2>2. /\ docs'[d].serie = docs[d].serie /\ docs'[d].numero = docs[d].numero /\ docs'[d].estado = e
        /\ \A x \in Documentos \ {d} : docs'[x] = docs[x]
    BY <1>0, <1>1, <2>1 DEF TypeOK, Comprobante
  <2>3. \A x \in Documentos : /\ Existe(x)' = Existe(x)
                              /\ docs'[x].serie = docs[x].serie /\ docs'[x].numero = docs[x].numero
    BY <1>1, <2>2
  <2>4. QED
    BY <1>1, <2>3, MismosTitulares
<1>2. ASSUME UNCHANGED <<docs, proximo, ventas>>
      PROVE  CorrelativosSinHuecos'
  BY <1>2, MismosTitulares
<1>3. ASSUME NEW p \in Solicitudes, ReintentarAplicar(p)
      PROVE  CorrelativosSinHuecos'
  <2>1. api[p].doc \in Documentos /\ Existe(api[p].doc)
    BY <1>0, <1>3, PedidoForma DEF TInv, TypeOK, PedidoVigente, ReintentarAplicar
  <2>2. docs' = [docs EXCEPT ![api[p].doc].estado = "EN_COLA"] /\ UNCHANGED <<proximo, ventas>>
    BY <1>3 DEF ReintentarAplicar
  <2>3. QED
    BY <1>1, <2>1, <2>2
<1>4. ASSUME NEW w \in Trabajadores, Registrar(w)
      PROVE  CorrelativosSinHuecos'
  <2>1. trab[w].pc = "registrar" /\ trab[w] \in Ciclo
    BY <1>0, <1>4 DEF Registrar, TypeOK
  <2>2. PICK d \in Documentos : d = trab[w].job.ev[1] /\ Existe(d)
    BY <2>1, JobExiste DEF TInv
  <2>3. PICK e : e = Destino(trab[w].leido, trab[w].respuesta)
    OBVIOUS
  <2>4. e # "AUSENTE"
    BY <2>1, <2>3, CicloForma, DestinoFueraDeCola DEF EstadosDoc
  <2>5. docs' = [docs EXCEPT ![d].estado = e] /\ UNCHANGED <<proximo, ventas>>
    BY <1>4, <2>2, <2>3 DEF Registrar
  <2>6. QED
    BY <1>1, <2>2, <2>4, <2>5
<1>5. ASSUME NEW p \in Solicitudes, Peticion(p)
      PROVE  CorrelativosSinHuecos'
  <2>1. ~EmitirAplicar(p) /\ ~NotaAplicar(p)
    OBVIOUS
  <2>2. QED
    BY <1>2, <1>3, <1>5, <2>1 DEF Peticion, EmitirLeer, NotaLeer, ReintentarLeer, Abortar
<1>6. ASSUME NEW w \in Trabajadores, Tick(w) \/ Caer(w)
      PROVE  CorrelativosSinHuecos'
  BY <1>2, <1>4, <1>6 DEF Tick, Reclamar, Leer, Enviar, Cerrar, CerrarPublicado, Caer
<1>7. ASSUME NEW e \in Eventos, Reloj(e)
      PROVE  CorrelativosSinHuecos'
  BY <1>2, <1>7 DEF Reloj, VencerArriendo, Despertar
<1>8. QED
  BY <1>2, <1>5, <1>6, <1>7 DEF Next, vars

\* Whatever the requests and the sales running at once, no number of a series is given
\* twice and none is lost: the numbers below nextNumber have one holder each, a document
\* or a sale, and nobody holds another.
THEOREM CorrelativosUnicos == Spec => []CorrelativosSinHuecos
<1>1. Init => TInv /\ CorrelativosSinHuecos
  <2>1. Init => CorrelativosSinHuecos
    BY DEF Init, CorrelativosSinHuecos, NoDoc
  <2>2. QED
    BY <2>1, InitTInv
<1>2. TInv /\ CorrelativosSinHuecos /\ [Next]_vars => TInv' /\ CorrelativosSinHuecos'
  <2>1. SUFFICES ASSUME TInv, CorrelativosSinHuecos, [Next]_vars
                 PROVE  CorrelativosSinHuecos'
    BY NextTInv
  <2>2. ASSUME NEW p \in Solicitudes, EmitirAplicar(p) \/ NotaAplicar(p)
        PROVE  CorrelativosSinHuecos'
    <3>1. api[p] \in Pedido /\ TypeOK
      BY <2>1 DEF TInv, TypeOK
    <3>2. api[p].serie \in Series /\ UNCHANGED ventas
      BY <2>2, <3>1, PedidoForma DEF EmitirAplicar, NotaAplicar
    <3>3. \E d \in Documentos : \E v, origen : Persistir(d, v, api[p].serie, origen)
      BY <2>2 DEF EmitirAplicar, NotaAplicar
    <3>4. QED
      BY <2>1, <3>1, <3>2, <3>3, PersistirCorrelativo
  <2>3. ASSUME NEW v \in Ventas, NEW s \in Series, Vender(v, s)
        PROVE  CorrelativosSinHuecos'
    BY <2>1, <2>3, VenderCorrelativo DEF TInv
  <2>4. QED
    BY <2>1, <2>2, <2>3, RestoCorrelativo
<1>3. QED
  BY <1>1, <1>2, PTL DEF Spec
=============================================================================

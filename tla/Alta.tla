-------------------------------- MODULE Alta --------------------------------
(***************************************************************************)
(* A business signs up (modulos/nucleo/onboarding) and is projected into   *)
(* the administration database (modulos/administracion/administracion-     *)
(* inquilino).                                                             *)
(*                                                                         *)
(* registrar creates the tenant, its owner and the event tenant.created in *)
(* one transaction.  RelayTenantOutbox, one per server, claims events with *)
(* a lease and hands them one by one to procesarTenantCreado, which writes *)
(* the projection and an inbox row in the other database, and then marks   *)
(* them published.  The two databases share no transaction.                *)
(***************************************************************************)
EXTENDS Naturals, Sequences, FiniteSets, FiniteSetsExt

CONSTANTS Inquilinos,   \* pool of Tenant; each has one tenant.created
          Registros,    \* sign-ups that may be in flight together, all of one base code
          Relays,       \* servers that run a relay
          MaxIntentos,  \* MAX_INTENTOS of a sign-up
          Lote,         \* events of a claim
          MaxEnvios,    \* bound: requests to the internal endpoint that write
          MaxFallos     \* bound: failures and crashes

ASSUME AltaAssumption ==
  /\ MaxIntentos \in Nat \ {0} /\ Lote \in Nat \ {0}
  /\ MaxEnvios \in Nat /\ MaxFallos \in Nat
  /\ IsFiniteSet(Inquilinos)

VARIABLES codigo,   \* Tenant.codigo: 0 none, 1 base, n base-n
          reg,      \* per sign-up: the code chosen and the attempts left
          evento,   \* OutboxEvent of each tenant
          slug,     \* Tenant.slug in the administration database: 0 none
          inbox,    \* AdministrationInbox: the tenants whose event was consumed
          ajenos,   \* history: slugs and events that a request of another tenant used
          relay,    \* per relay: claimed events, and whether the first one is projected
          envios,   \* requests to the internal endpoint that wrote so far
          fallos    \* failures so far

varsAlta == <<codigo, reg, evento, slug, inbox, ajenos, relay, envios, fallos>>

-----------------------------------------------------------------------------
Codigos == 0 .. Cardinality(Inquilinos)
Slugs == 1 .. Cardinality(Inquilinos) + 1  \* the last one is of no sign-up
NoEvento == [publicado |-> FALSE, bloqueo |-> "no hay", disponible |-> FALSE]
SinRegistro == [codigo |-> 0, quedan |-> 0]

\* bloqueo: bloqueadoEn is null, within the lease, or older.
Evento == [publicado : BOOLEAN, bloqueo : {"nulo", "vigente", "vencido"}, disponible : BOOLEAN]

TypeOKAlta ==
  /\ codigo \in [Inquilinos -> Codigos]
  /\ \A t, u \in Inquilinos : codigo[t] = codigo[u] /\ codigo[t] # 0 => t = u
  /\ reg \in [Registros -> [codigo : Codigos, quedan : 0 .. MaxIntentos]]
  /\ evento \in [Inquilinos -> Evento \cup {NoEvento}]
  /\ \A t \in Inquilinos : codigo[t] = 0 <=> evento[t] = NoEvento
  /\ slug \in [Inquilinos -> Slugs \cup {0}]
  /\ \A t, u \in Inquilinos : slug[t] = slug[u] /\ slug[t] # 0 => t = u
  /\ inbox \subseteq {t \in Inquilinos : codigo[t] # 0}
  /\ ajenos \in [slugs : SUBSET Slugs, eventos : SUBSET Inquilinos]
  /\ relay \in [Relays -> [lote : Seq(Inquilinos), hecho : BOOLEAN]]
  /\ \A w \in Relays : Len(relay[w].lote) <= Lote
  /\ envios \in 0 .. MaxEnvios /\ fallos \in 0 .. MaxFallos

InitAlta ==
  /\ codigo = [t \in Inquilinos |-> 0]
  /\ reg = [p \in Registros |-> SinRegistro]
  /\ evento = [t \in Inquilinos |-> NoEvento]
  /\ slug = [t \in Inquilinos |-> 0]
  /\ inbox = {}
  /\ ajenos = [slugs |-> {}, eventos |-> {}]
  /\ relay = [w \in Relays |-> [lote |-> <<>>, hecho |-> FALSE]]
  /\ envios = 0 /\ fallos = 0

-----------------------------------------------------------------------------
(* registrar *)

Usados == {codigo[t] : t \in Inquilinos}

\* elegirCodigoLibre: base, base-2, base-3, ... whichever is free now.
Libres == (1 .. Cardinality(Inquilinos)) \ Usados

Elegir(p, quedan) ==
  reg' = [reg EXCEPT ![p] = IF Libres = {} THEN SinRegistro ELSE [codigo |-> Min(Libres), quedan |-> quedan]]

Empezar(p) ==
  /\ reg[p] = SinRegistro
  /\ Libres # {}
  /\ Elegir(p, MaxIntentos)
  /\ UNCHANGED <<codigo, evento, slug, inbox, ajenos, relay, envios, fallos>>

\* The tenant, its organization, company, first branch, owner and event.
Crear(p, t) ==
  /\ reg[p] # SinRegistro
  /\ codigo[t] = 0 /\ reg[p].codigo \notin Usados
  /\ codigo' = [codigo EXCEPT ![t] = reg[p].codigo]
  /\ evento' = [evento EXCEPT ![t] = [publicado |-> FALSE, bloqueo |-> "nulo",
                                      disponible |-> TRUE]]
  /\ reg' = [reg EXCEPT ![p] = SinRegistro]
  /\ UNCHANGED <<slug, inbox, ajenos, relay, envios, fallos>>

\* The unique code was taken in between: the next one, or the last attempt fails.
Reintentar(p) ==
  /\ reg[p] # SinRegistro
  /\ reg[p].codigo \in Usados
  /\ IF reg[p].quedan > 1 THEN Elegir(p, reg[p].quedan - 1) ELSE reg' = [reg EXCEPT ![p] = SinRegistro]
  /\ UNCHANGED <<codigo, evento, slug, inbox, ajenos, relay, envios, fallos>>

\* Anything else fails: the sign-up is rolled back.
Abandonar(p) ==
  /\ reg[p] # SinRegistro
  /\ reg' = [reg EXCEPT ![p] = SinRegistro]
  /\ UNCHANGED <<codigo, evento, slug, inbox, ajenos, relay, envios, fallos>>

-----------------------------------------------------------------------------
(* procesarTenantCreado: the projection and the inbox row are one transaction. *)

\* Whether tenant t may be written with slug s and the events E as consumed: the slug of
\* another tenant, or an event already consumed, is a unique violation.
Admite(t, s, E) == E \cap inbox = {} /\ \A u \in Inquilinos \ {t} : slug[u] # s

\* Either violation ends as a duplicate, with the upserts rolled back and no error.
Proyectar(t, s, E) ==
  IF Admite(t, s, E)
    THEN slug' = [slug EXCEPT ![t] = s] /\ inbox' = inbox \cup E
    ELSE UNCHANGED <<slug, inbox>>

\* POST eventos/tenant-creado, by a user of tenant t, who sends the slug and the id of the
\* event: of a sign-up (E), or one of no sign-up ({}).
Consumir(t, s, E) ==
  /\ envios < MaxEnvios
  /\ codigo[t] # 0
  /\ \A u \in E : codigo[u] # 0
  /\ Proyectar(t, s, E)
  /\ ajenos' = IF Admite(t, s, E)
                 THEN [slugs |-> ajenos.slugs \cup ({s} \ {codigo[t]}),
                       eventos |-> ajenos.eventos \cup (E \ {t})]
                 ELSE ajenos
  /\ envios' = IF Admite(t, s, E) THEN envios + 1 ELSE envios
  /\ UNCHANGED <<codigo, reg, evento, relay, fallos>>

-----------------------------------------------------------------------------
(* RelayTenantOutbox *)

\* Slip: a lease that ran out is not claimed again.
Reclamables_SinVencidos ==
  {t \in Inquilinos : /\ evento[t] # NoEvento /\ ~evento[t].publicado /\ evento[t].disponible
                      /\ evento[t].bloqueo = "nulo"}

Reclamables ==
  {t \in Inquilinos : /\ evento[t] # NoEvento /\ ~evento[t].publicado /\ evento[t].disponible
                      /\ evento[t].bloqueo \in {"nulo", "vencido"}}

Tomados == Min({Lote, Cardinality(Reclamables)})

\* A tick starts only when the one before is over (corriendo).
Reclamar(w) ==
  /\ relay[w].lote = <<>>
  /\ Reclamables # {}
  /\ \E lote \in [1 .. Tomados -> Reclamables] :
       /\ \A i, j \in 1 .. Tomados : lote[i] = lote[j] => i = j
       /\ relay' = [relay EXCEPT ![w] = [lote |-> lote, hecho |-> FALSE]]
       /\ evento' = [t \in Inquilinos |-> IF \E i \in 1 .. Tomados : lote[i] = t
                       THEN [evento[t] EXCEPT !.bloqueo = "vigente"] ELSE evento[t]]
  /\ UNCHANGED <<codigo, reg, slug, inbox, ajenos, envios, fallos>>

Siguiente(w) == relay' = [relay EXCEPT ![w] = [lote |-> Tail(@.lote), hecho |-> FALSE]]

Procesar(w) ==
  /\ relay[w].lote # <<>> /\ ~relay[w].hecho
  /\ LET t == Head(relay[w].lote) IN Proyectar(t, codigo[t], {t})
  /\ relay' = [relay EXCEPT ![w].hecho = TRUE]
  /\ UNCHANGED <<codigo, reg, evento, ajenos, envios, fallos>>

\* Slip: the event is marked before its projection.
MarcarPublicado_SinProyectar(w) ==
  /\ relay[w].lote # <<>>
  /\ evento' = [evento EXCEPT ![Head(relay[w].lote)].publicado = TRUE,
                              ![Head(relay[w].lote)].bloqueo = "nulo"]
  /\ Siguiente(w)
  /\ UNCHANGED <<codigo, reg, slug, inbox, ajenos, envios, fallos>>

MarcarPublicado(w) ==
  /\ relay[w].lote # <<>> /\ relay[w].hecho
  /\ evento' = [evento EXCEPT ![Head(relay[w].lote)].publicado = TRUE,
                              ![Head(relay[w].lote)].bloqueo = "nulo"]
  /\ Siguiente(w)
  /\ UNCHANGED <<codigo, reg, slug, inbox, ajenos, envios, fallos>>

\* Processing or marking fails: the lease is given back and the event waits, whoever
\* holds it by now.
Reprogramar(w) ==
  /\ fallos < MaxFallos
  /\ relay[w].lote # <<>>
  /\ evento' = [evento EXCEPT ![Head(relay[w].lote)].bloqueo = "nulo",
                              ![Head(relay[w].lote)].disponible = FALSE]
  /\ Siguiente(w)
  /\ fallos' = fallos + 1
  /\ UNCHANGED <<codigo, reg, slug, inbox, ajenos, envios>>

\* The server stops, or reprogramar itself fails and the tick gives the batch up: the
\* leases stay.
Caer(w) ==
  /\ fallos < MaxFallos
  /\ relay[w].lote # <<>>
  /\ relay' = [relay EXCEPT ![w] = [lote |-> <<>>, hecho |-> FALSE]]
  /\ fallos' = fallos + 1
  /\ UNCHANGED <<codigo, reg, evento, slug, inbox, ajenos, envios>>

\* Time: a lease of 2 minutes runs out, also while its holder is slow.
Vencer(t) ==
  /\ evento[t].bloqueo = "vigente"
  /\ evento' = [evento EXCEPT ![t].bloqueo = "vencido"]
  /\ UNCHANGED <<codigo, reg, slug, inbox, ajenos, relay, envios, fallos>>

\* Time: disponibleEn comes (2^intentos minutes, 60 at most).
Madurar(t) ==
  /\ evento[t] # NoEvento /\ ~evento[t].disponible
  /\ evento' = [evento EXCEPT ![t].disponible = TRUE]
  /\ UNCHANGED <<codigo, reg, slug, inbox, ajenos, relay, envios, fallos>>

-----------------------------------------------------------------------------
\* The event a request names: of one sign-up, or of none.
Envios == {{}} \cup {{t} : t \in Inquilinos}

Registro(p) == Empezar(p) \/ Reintentar(p) \/ Abandonar(p) \/ \E t \in Inquilinos : Crear(p, t)

TrabajoRelay(w) == Reclamar(w) \/ Procesar(w) \/ MarcarPublicado(w)

NextAlta ==
  \/ \E p \in Registros : Registro(p)
  \/ \E t \in Inquilinos, s \in Slugs, E \in Envios : Consumir(t, s, E)
  \/ \E t \in Inquilinos : Vencer(t) \/ Madurar(t)
  \/ \E w \in Relays : TrabajoRelay(w) \/ Reprogramar(w) \/ Caer(w)

\* setInterval calls tick again and again on every server, and time passes.
SpecAlta ==
  /\ InitAlta /\ [][NextAlta]_varsAlta
  /\ \A w \in Relays : WF_varsAlta(TrabajoRelay(w))
  /\ \A t \in Inquilinos : WF_varsAlta(Vencer(t)) /\ WF_varsAlta(Madurar(t))

-----------------------------------------------------------------------------
\* Another tenant used the slug, or the event, that tenant t needs.
Desplazado(t) == codigo[t] \in ajenos.slugs \/ t \in ajenos.eventos

faseDe(t) ==
  IF codigo[t] = 0 THEN "ausente"
  ELSE IF Desplazado(t) THEN "sin promesa"
  ELSE IF slug[t] = 0 THEN IF evento[t].publicado THEN "publicado sin efecto" ELSE "pendiente"
  ELSE IF evento[t].publicado THEN "publicado" ELSE "hecho"

EntregaUnica == INSTANCE EntregaUnica WITH Eventos <- Inquilinos,
                                           fase <- [t \in Inquilinos |-> faseDe(t)]

\* A tenant is projected only after it signed up, its event is published only after that,
\* and none of it is taken back: whichever relays hold the event, whatever its own users
\* send, and although the two databases share no transaction.  A tenant whose slug or
\* event another tenant sent to the internal endpoint has no such promise: its event is
\* published with its projection rolled back.
EntregaSegura == EntregaUnica!Segura

\* Besides, a tenant that signs up is projected, then its event is published, and neither
\* is left undone: although relays overlap, stop between the two databases, fail, or lose
\* the lease of an event they still hold.  Only so many failures happen (MaxFallos).
EntregaFiable == EntregaUnica!Spec

\* "`tenant.created` events are relayed by RelayTenantOutbox into the management inbox"
\* (README): an event that is published was consumed.  It is not so when a request of another
\* tenant took its slug: the unique violation passes for a duplicate of the event.
PublicadoEnInbox == \A t \in Inquilinos : evento[t].publicado => t \in inbox
=============================================================================

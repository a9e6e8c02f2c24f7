-------------------------- MODULE PlataformaProofs --------------------------
(***************************************************************************)
(* Theorems of Plataforma for any plans, users, invoices, warehouses,      *)
(* products and requests in flight, and of the sign-up (Alta) that creates *)
(* the tenant: InvAlta, and the refinement of EntregaUnica.                *)
(*                                                                         *)
(* Each part has an inductive invariant of its own (InvSus, InvAcc,        *)
(* InvFac, InvSuc, InvCat with InvPiezas): what is stored, and what the    *)
(* requests in flight read and have not written yet.  The limits of a plan *)
(* (Invitados, ConCupo) relate two parts: a step of Accesos or Catalogo    *)
(* reads the subscription.                                                 *)
(***************************************************************************)
EXTENDS Plataforma, Alta, Sumas, FiniteSetTheorems, TLAPS

-----------------------------------------------------------------------------
(* Suscripciones: one subscription, with the features of its version *)

\* Versions that were published; requests that hold a subscription while they work.
Publicadas == {v \in Versiones : versiones[v] \in {"ACTIVA", "RETIRADA"}}
EnMano == {"cambiar", "cambiando", "cancelar"}

\* Types of plans, subscriptions and requests.
TipoSus ==
  /\ versiones \in [Versiones -> {"AUSENTE", "BORRADOR", "ACTIVA", "RETIRADA"}]
  /\ rasgos \in [Versiones -> SUBSET Caracteristicas]
  /\ sub \in [Subs -> Sub \cup {NoSub}]
  /\ abiertos \in [Subs -> SUBSET Derecho]
  /\ gestion \in [Gestiones -> Gestion]
  /\ cruzadas \subseteq Subs /\ alteradas \subseteq Versiones /\ dobles \in BOOLEAN

\* Open entitlements are of a subscription that exists, one for each feature.
UnoPorRasgo ==
  \A s \in Subs : /\ sub[s] = NoSub => abiertos[s] = {}
                  /\ \A d, e \in abiertos[s] : d.rasgo = e.rasgo => d = e

\* Versions and subscriptions that a request or a subscription names.
Nombrada(q) ==
  /\ q.op = "asignar" => \/ versiones[q.version] = "BORRADOR"
                         \/ q.version \in alteradas \cap Publicadas
  /\ q.op \in {"publicar", "publicando"} => versiones[q.version] # "AUSENTE"
  /\ q.op = "publicando" => q.activas \subseteq Publicadas
  /\ q.op \in {"suscribir", "cambiar", "cambiando"} =>
       q.version \in Publicadas /\ (q.rasgos = rasgos[q.version] \/ q.version \in alteradas)
  /\ q.op \in EnMano => sub[q.sub] # NoSub

Nombradas ==
  /\ \A g \in Gestiones : Nombrada(gestion[g])
  /\ \A s \in Subs : sub[s] # NoSub => sub[s].version \in Publicadas

\* A subscription that was not crossed is in the hands of one request, and the entitlements
\* that it saw are those that are open.
EnUnaMano ==
  \A s \in Subs \ cruzadas :
    /\ \A g, h \in Gestiones :
         gestion[g].op \in EnMano /\ gestion[g].sub = s /\ gestion[h].op \in EnMano /\ gestion[h].sub = s
           => g = h
    /\ \A g \in Gestiones : gestion[g].op = "cambiando" /\ gestion[g].sub = s
                              => gestion[g].vistos = abiertos[s]

\* One subscription is being taken, while none is in force.
SinDobles ==
  dobles \/ /\ \A s, r \in Vigentes : s = r
            /\ \A g \in Gestiones : gestion[g].op = "suscribir" => Vigentes = {}
            /\ \A g, h \in Gestiones :
                 gestion[g].op = "suscribir" /\ gestion[h].op = "suscribir" => g = h

\* The open entitlements of s are the features of its version, unless a late assignment altered it.
DerechosDe(s) ==
  sub[s].version \in alteradas \/
    /\ {d.rasgo : d \in abiertos[s]} = rasgos[sub[s].version]
    /\ \A d \in abiertos[s] : d.version = sub[s].version

Ofrecidos == \A s \in Vigentes \ cruzadas : DerechosDe(s)

\* What every behaviour of plans and subscriptions keeps.
InvSus == TipoSus /\ UnoPorRasgo /\ Nombradas /\ EnUnaMano /\ SinDobles /\ Ofrecidos

\* What a request in flight holds.
LEMMA GestionForma ==
  ASSUME NEW q \in Gestion
  PROVE  /\ q.op \in {"ociosa", "asignar", "publicar", "publicando", "suscribir"} \cup EnMano
         /\ q.op \in {"asignar", "publicar", "publicando", "suscribir", "cambiar", "cambiando"} =>
              q.version \in Versiones
         /\ q.op = "asignar" => q.rasgo \in Caracteristicas
         /\ q.op = "publicando" => q.activas \in SUBSET Versiones
         /\ q.op \in {"suscribir", "cambiar", "cambiando"} => q.rasgos \in SUBSET Caracteristicas
         /\ q.op \in EnMano => q.sub \in Subs
         /\ q.op = "cambiando" => q.vistos \in SUBSET Derecho
         /\ q.op = "cancelar" => q.alFinal \in BOOLEAN
  BY DEF Gestion, Ociosa, EnMano

\* An idle management request.
LEMMA OciosaForma == Ociosa \in Gestion /\ Ociosa.op = "ociosa"
  BY DEF Gestion, Ociosa

\* An existing subscription names a version; the absent one is not active.
LEMMA SubForma ==
  /\ \A x \in Sub : x # NoSub /\ x.version \in Versiones
  /\ NoSub.estado # "ACTIVA"
  BY DEF Sub, NoSub

\* The greatest of a set that has one is in it.
LEMMA MaxEn ==
  ASSUME NEW T, NEW n \in T, \A m \in T : n >= m
  PROVE  Max(T) \in T /\ \A m \in T : Max(T) >= m
  BY DEF Max

\* The next change of plan has a number.
LEMMA TandaNat ==
  ASSUME TipoSus, NEW s \in Subs
  PROVE  Tanda(s) \in Nat
<1> DEFINE T == {0} \cup {d.tanda : d \in abiertos[s]}
<1>1. T \subseteq 0 .. MaxCambios /\ T # {}
  BY SuscripcionesAssumption DEF TipoSus, Derecho
<1>2. IsFiniteSet(0 .. MaxCambios)
  BY SuscripcionesAssumption, FS_Interval
<1> HIDE DEF T
<1>3. IsFiniteSet(T)
  BY <1>1, <1>2, FS_Subset
<1>4. \A x \in T : x \in Nat
  BY <1>1, SuscripcionesAssumption
<1>5. PICK n \in T : \A m \in T : n >= m
  BY <1>1, <1>3, <1>4, MaximoFinito
<1>6. Max(T) \in T
  BY <1>5, MaxEn
<1>7. Tanda(s) = Max(T) + 1
  BY DEF Tanda, T
<1>8. QED
  BY <1>4, <1>6, <1>7

\* The entitlements of a version: one for each of its features.
LEMMA DerechosForma ==
  ASSUME NEW v \in Versiones, NEW R \in SUBSET Caracteristicas, NEW n \in 0 .. MaxCambios
  PROVE  /\ Derechos(v, R, n) \in SUBSET Derecho
         /\ {d.rasgo : d \in Derechos(v, R, n)} = R
         /\ \A d \in Derechos(v, R, n) : d.version = v
         /\ \A d, e \in Derechos(v, R, n) : d.rasgo = e.rasgo => d = e
<1> DEFINE r(f) == [rasgo |-> f, version |-> v, tanda |-> n]
<1>1. \A f \in R : r(f) \in Derecho /\ r(f).rasgo = f /\ r(f).version = v
  BY DEF Derecho
<1>2. Derechos(v, R, n) = {r(f) : f \in R}
  BY DEF Derechos
<1> HIDE DEF r
<1>3. Derechos(v, R, n) \in SUBSET Derecho
  BY <1>1, <1>2
<1>4. {d.rasgo : d \in Derechos(v, R, n)} = R
  BY <1>1, <1>2
<1>5. \A d \in Derechos(v, R, n) : d.version = v
  BY <1>1, <1>2
<1>6. \A d, e \in Derechos(v, R, n) : d.rasgo = e.rasgo => d = e
  BY <1>1, <1>2
<1>7. QED
  BY <1>3, <1>4, <1>5, <1>6

\* A request that reads, goes on or gives up.
LEMMA SusPide ==
  ASSUME InvSus, UNCHANGED <<versiones, rasgos, sub, abiertos, alteradas>>,
         NEW g \in Gestiones, NEW x \in Gestion, gestion' = [gestion EXCEPT ![g] = x], Nombrada(x),
         cruzadas \subseteq cruzadas', cruzadas' \subseteq Subs,
         dobles' \in BOOLEAN, dobles => dobles',
         x.op \in EnMano => \/ x.sub \in cruzadas'
                            \/ \A h \in Gestiones \ {g} :
                                 ~(gestion[h].op \in EnMano /\ gestion[h].sub = x.sub),
         x.op = "cambiando" => x.sub \in cruzadas' \/ x.vistos = abiertos[x.sub],
         x.op = "suscribir" => \/ dobles'
                               \/ Vigentes = {} /\ \A h \in Gestiones : gestion[h].op # "suscribir"
  PROVE  InvSus'
<1> USE DEF InvSus
<1>1. TipoSus'
  BY DEF TipoSus
<1>2. \A h \in Gestiones : gestion'[h] = IF h = g THEN x ELSE gestion[h]
  BY DEF TipoSus
<1>3. UnoPorRasgo'
  BY DEF UnoPorRasgo
<1>4. Nombradas'
  BY <1>2 DEF Nombradas, Nombrada, Publicadas
<1>5. EnUnaMano'
  <2>1. SUFFICES ASSUME NEW s \in Subs \ cruzadas'
                 PROVE  /\ \A h, k \in Gestiones :
                             gestion'[h].op \in EnMano /\ gestion'[h].sub = s
                               /\ gestion'[k].op \in EnMano /\ gestion'[k].sub = s => h = k
                        /\ \A h \in Gestiones : gestion'[h].op = "cambiando" /\ gestion'[h].sub = s
                                                  => gestion'[h].vistos = abiertos[s]
    BY DEF EnUnaMano
  <2>2. s \in Subs \ cruzadas
    OBVIOUS
  <2>3. \A h, k \in Gestiones :
          gestion'[h].op \in EnMano /\ gestion'[h].sub = s
            /\ gestion'[k].op \in EnMano /\ gestion'[k].sub = s => h = k
    BY <1>2, <2>2 DEF EnUnaMano
  <2>4. \A h \in Gestiones : gestion'[h].op = "cambiando" /\ gestion'[h].sub = s
                               => gestion'[h].vistos = abiertos[s]
    BY <1>2, <2>2 DEF EnUnaMano
  <2>5. QED
    BY <2>3, <2>4
<1>6. SinDobles'
  BY <1>2 DEF SinDobles, Vigentes
<1>7. Ofrecidos'
  BY DEF Ofrecidos, Vigentes, DerechosDe
<1>8. QED
  BY <1>1, <1>3, <1>4, <1>5, <1>6, <1>7

\* The reads, and the writes that open and close no entitlement, keep the invariant.
LEMMA SusEmpieza ==
  ASSUME InvSus, NEW g \in Gestiones,
         \/ \E v \in Versiones : \/ PublicarLeer(g, v) \/ SuscribirLeer(g, v)
                                 \/ \E f \in Caracteristicas : AsignarLeer(g, v, f)
                                 \/ \E s \in Subs : CambiarLeer(g, s, v)
         \/ PublicarRetirar(g) \/ CambiarCerrar(g) \/ Abortar(g)
         \/ \E s \in Subs, alFinal \in BOOLEAN : CancelarLeer(g, s, alFinal)
  PROVE  InvSus'
<1>0. TipoSus /\ cruzadas \subseteq Subs /\ dobles \in BOOLEAN /\ gestion[g] \in Gestion
  BY DEF InvSus, TipoSus
<1>1. ASSUME NEW v \in Versiones, PublicarLeer(g, v) PROVE InvSus'
  <2>1. PICK x \in Gestion : /\ x.op = "publicar" /\ x.version = v
                             /\ gestion' = [gestion EXCEPT ![g] = x]
    BY <1>1 DEF PublicarLeer, Pide, Gestion
  <2>2. Nombrada(x) /\ x.op \notin EnMano
    BY <1>1, <2>1 DEF PublicarLeer, Nombrada, EnMano
  <2>3. UNCHANGED <<versiones, rasgos, sub, abiertos, alteradas>> /\ UNCHANGED <<cruzadas, dobles>>
    BY <1>1 DEF PublicarLeer
  <2>4. QED
    BY <1>0, <2>1, <2>2, <2>3, SusPide
<1>2. ASSUME NEW v \in Versiones, SuscribirLeer(g, v) PROVE InvSus'
  <2>1. rasgos[v] \in SUBSET Caracteristicas
    BY <1>0 DEF TipoSus
  <2>2. PICK x \in Gestion : /\ x.op = "suscribir" /\ x.version = v /\ x.rasgos = rasgos[v]
                             /\ gestion' = [gestion EXCEPT ![g] = x]
    BY <1>2, <2>1 DEF SuscribirLeer, Pide, Gestion
  <2>3. Nombrada(x) /\ x.op \notin EnMano
    BY <1>2, <2>2 DEF SuscribirLeer, Nombrada, EnMano, Publicadas
  <2>4. /\ UNCHANGED <<versiones, rasgos, sub, abiertos, alteradas>> /\ UNCHANGED cruzadas
        /\ dobles' = (dobles \/ EnCurso("suscribir")) /\ Vigentes = {}
    BY <1>2 DEF SuscribirLeer
  <2>5. dobles' \in BOOLEAN /\ (dobles => dobles')
    BY <1>0, <2>4 DEF EnCurso
  <2>6. dobles' \/ \A h \in Gestiones : gestion[h].op # "suscribir"
    BY <2>4 DEF EnCurso
  <2>7. QED
    BY <1>0, <2>2, <2>3, <2>4, <2>5, <2>6, SusPide
<1>3. ASSUME NEW v \in Versiones, NEW f \in Caracteristicas, AsignarLeer(g, v, f) PROVE InvSus'
  <2>1. PICK x \in Gestion : /\ x.op = "asignar" /\ x.version = v
                             /\ gestion' = [gestion EXCEPT ![g] = x]
    BY <1>3 DEF AsignarLeer, Pide, Gestion
  <2>2. Nombrada(x) /\ x.op \notin EnMano
    BY <1>3, <2>1 DEF AsignarLeer, Nombrada, EnMano
  <2>3. UNCHANGED <<versiones, rasgos, sub, abiertos, alteradas>> /\ UNCHANGED <<cruzadas, dobles>>
    BY <1>3 DEF AsignarLeer
  <2>4. QED
    BY <1>0, <2>1, <2>2, <2>3, SusPide
<1>4. ASSUME NEW v \in Versiones, NEW s \in Subs, CambiarLeer(g, s, v) PROVE InvSus'
  <2>1. rasgos[v] \in SUBSET Caracteristicas
    BY <1>0 DEF TipoSus
  <2>2. PICK x \in Gestion : /\ x.op = "cambiar" /\ x.version = v /\ x.rasgos = rasgos[v] /\ x.sub = s
                             /\ gestion' = [gestion EXCEPT ![g] = x]
    BY <1>4, <2>1 DEF CambiarLeer, Pide, Gestion
  <2>3. sub[s] # NoSub
    BY <1>4, SubForma DEF CambiarLeer, Vigentes
  <2>4. Nombrada(x)
    BY <1>4, <2>2, <2>3 DEF CambiarLeer, Nombrada, EnMano, Publicadas
  <2>5. /\ UNCHANGED <<versiones, rasgos, sub, abiertos, alteradas>> /\ UNCHANGED dobles
        /\ cruzadas' = cruzadas \cup (IF EnManos(s) THEN {s} ELSE {})
    BY <1>4 DEF CambiarLeer, Cruzar
  <2>6. /\ cruzadas \subseteq cruzadas' /\ cruzadas' \subseteq Subs
        /\ s \in cruzadas' \/ \A h \in Gestiones : ~(gestion[h].op \in EnMano /\ gestion[h].sub = s)
    BY <1>0, <2>5 DEF EnManos, EnMano
  <2>7. QED
    BY <1>0, <2>2, <2>4, <2>5, <2>6, SusPide
<1>5. ASSUME PublicarRetirar(g) PROVE InvSus'
  <2>1. gestion[g].op = "publicar" /\ gestion[g].version \in Versiones
    BY <1>0, <1>5, GestionForma DEF PublicarRetirar
  <2>2. PICK x \in Gestion : /\ x.op = "publicando" /\ x.version = gestion[g].version
                             /\ x.activas = {v \in Versiones : versiones[v] = "ACTIVA"}
                             /\ gestion' = [gestion EXCEPT ![g] = x]
    BY <1>5, <2>1 DEF PublicarRetirar, Sigue, Gestion
  <2>3. Nombrada(gestion[g])
    BY DEF InvSus, Nombradas
  <2>4. Nombrada(x) /\ x.op \notin EnMano
    BY <2>1, <2>2, <2>3 DEF Nombrada, EnMano, Publicadas
  <2>5. UNCHANGED <<versiones, rasgos, sub, abiertos, alteradas>> /\ UNCHANGED <<cruzadas, dobles>>
    BY <1>5 DEF PublicarRetirar
  <2>6. QED
    BY <1>0, <2>2, <2>4, <2>5, SusPide
<1>6. ASSUME CambiarCerrar(g) PROVE InvSus'
  <2>1. /\ gestion[g].op = "cambiar" /\ gestion[g].version \in Versiones /\ gestion[g].sub \in Subs
        /\ gestion[g].rasgos \in SUBSET Caracteristicas
    BY <1>0, <1>6, GestionForma DEF CambiarCerrar, EnMano
  <2>2. abiertos[gestion[g].sub] \in SUBSET Derecho
    BY <1>0, <2>1 DEF TipoSus
  <2>3. PICK x \in Gestion : /\ x.op = "cambiando" /\ x.version = gestion[g].version
                             /\ x.sub = gestion[g].sub /\ x.rasgos = gestion[g].rasgos
                             /\ x.vistos = abiertos[x.sub]
                             /\ gestion' = [gestion EXCEPT ![g] = x]
    BY <1>6, <2>1, <2>2 DEF CambiarCerrar, Sigue, Gestion
  <2>4. Nombrada(gestion[g])
    BY DEF InvSus, Nombradas
  <2>5. Nombrada(x)
    BY <2>1, <2>3, <2>4 DEF Nombrada, EnMano
  <2>6. UNCHANGED <<versiones, rasgos, sub, abiertos, alteradas>> /\ UNCHANGED <<cruzadas, dobles>>
    BY <1>6 DEF CambiarCerrar
  <2>7. x.sub \in cruzadas \/ \A h \in Gestiones \ {g} :
                                ~(gestion[h].op \in EnMano /\ gestion[h].sub = x.sub)
    BY <2>1, <2>3 DEF InvSus, EnUnaMano, EnMano
  <2>8. QED
    BY <1>0, <2>3, <2>5, <2>6, <2>7, SusPide
<1>7. ASSUME Abortar(g) PROVE InvSus'
  <2>1. Nombrada(Ociosa) /\ Ociosa.op \notin EnMano
    BY OciosaForma DEF Nombrada, EnMano
  <2>2. /\ UNCHANGED <<versiones, rasgos, sub, abiertos, alteradas>> /\ UNCHANGED <<cruzadas, dobles>>
        /\ gestion' = [gestion EXCEPT ![g] = Ociosa]
    BY <1>7 DEF Abortar, Termina
  <2>3. QED
    BY <1>0, <2>1, <2>2, OciosaForma, SusPide
<1>8. ASSUME NEW s \in Subs, NEW alFinal \in BOOLEAN, CancelarLeer(g, s, alFinal) PROVE InvSus'
  <2>1. PICK x \in Gestion : /\ x.op = "cancelar" /\ x.sub = s
                             /\ gestion' = [gestion EXCEPT ![g] = x]
    BY <1>8 DEF CancelarLeer, Pide, Gestion
  <2>2. sub[s] # NoSub
    BY <1>8, SubForma DEF CancelarLeer, Vigentes
  <2>3. Nombrada(x)
    BY <2>1, <2>2 DEF Nombrada, EnMano
  <2>4. /\ UNCHANGED <<versiones, rasgos, sub, abiertos, alteradas>> /\ UNCHANGED dobles
        /\ cruzadas' = cruzadas \cup (IF EnManos(s) THEN {s} ELSE {})
    BY <1>8 DEF CancelarLeer, Cruzar
  <2>5. /\ cruzadas \subseteq cruzadas' /\ cruzadas' \subseteq Subs
        /\ s \in cruzadas' \/ \A h \in Gestiones : ~(gestion[h].op \in EnMano /\ gestion[h].sub = s)
    BY <1>0, <2>4 DEF EnManos, EnMano
  <2>6. QED
    BY <1>0, <2>1, <2>3, <2>4, <2>5, SusPide
<1>9. QED
  BY <1>1, <1>2, <1>3, <1>4, <1>5, <1>6, <1>7, <1>8

\* A version that is created has no request and no subscription yet.
LEMMA SusCrea ==
  ASSUME InvSus, NEW v \in Versiones, CrearVersion(v)
  PROVE  InvSus'
<1> USE DEF InvSus, CrearVersion
<1>1. TipoSus'
  BY DEF TipoSus
<1>2. /\ \A w \in Versiones : versiones'[w] = IF w = v THEN "BORRADOR" ELSE versiones[w]
      /\ versiones[v] = "AUSENTE" /\ v \notin Publicadas
  BY DEF TipoSus, Publicadas
<1>3. Publicadas' = Publicadas
  BY <1>2 DEF Publicadas
<1>4. Nombradas'
  <2>1. ASSUME NEW g \in Gestiones PROVE Nombrada(gestion[g])'
    <3>1. Nombrada(gestion[g]) /\ gestion[g] \in Gestion
      BY DEF Nombradas, TipoSus
    <3>2. gestion[g].op \in {"asignar", "publicar", "publicando"} => gestion[g].version \in Versiones
      BY <3>1, GestionForma
    <3>3. QED
      BY <1>2, <1>3, <3>1, <3>2 DEF Nombrada
  <2>2. QED
    BY <1>3, <2>1 DEF Nombradas
<1>5. UnoPorRasgo' /\ EnUnaMano' /\ SinDobles' /\ Ofrecidos'
  BY DEF UnoPorRasgo, EnUnaMano, SinDobles, Ofrecidos, Vigentes, DerechosDe
<1>6. QED
  BY <1>1, <1>4, <1>5

\* A feature is added to a version: a draft, or one that was published meanwhile.
LEMMA SusAsigna ==
  ASSUME InvSus, NEW g \in Gestiones, AsignarAplicar(g)
  PROVE  InvSus'
<1> USE DEF InvSus
<1>0. PICK v \in Versiones : /\ v = gestion[g].version /\ gestion[g].op = "asignar"
                             /\ rasgos' = [rasgos EXCEPT ![v] = @ \cup {gestion[g].rasgo}]
                             /\ gestion[g].rasgo \in Caracteristicas
  BY GestionForma DEF AsignarAplicar, TipoSus
<1>1. /\ UNCHANGED <<versiones, sub, abiertos>> /\ UNCHANGED <<cruzadas, alteradas, dobles>>
      /\ gestion' = [gestion EXCEPT ![g] = Ociosa]
  BY DEF AsignarAplicar, Termina
<1>2. TipoSus'
  BY <1>0, <1>1, OciosaForma DEF TipoSus
<1>3. \A h \in Gestiones : gestion'[h] = IF h = g THEN Ociosa ELSE gestion[h]
  BY <1>1 DEF TipoSus
<1>4. \A w \in Versiones : w # v => rasgos'[w] = rasgos[w]
  BY <1>0 DEF TipoSus
<1>5. v \in alteradas \/ v \notin Publicadas
  BY <1>0 DEF Nombradas, Nombrada, Publicadas
<1>6. Publicadas' = Publicadas
  BY <1>1 DEF Publicadas
<1>7. \A w \in Publicadas : w \in alteradas \/ rasgos'[w] = rasgos[w]
  BY <1>4, <1>5 DEF Publicadas
<1>8. Nombradas'
  <2>1. ASSUME NEW h \in Gestiones PROVE Nombrada(gestion[h])'
    <3>1. CASE h = g
      BY <1>3, <3>1, OciosaForma DEF Nombrada, EnMano
    <3>2. CASE h # g
      BY <1>1, <1>3, <1>6, <1>7, <3>2 DEF Nombradas, Nombrada
    <3>3. QED
      BY <3>1, <3>2
  <2>2. QED
    BY <1>1, <1>6, <2>1 DEF Nombradas
<1>9. UnoPorRasgo'
  BY <1>1 DEF UnoPorRasgo
<1>10. EnUnaMano'
  BY <1>1, <1>3, OciosaForma DEF EnUnaMano, EnMano
<1>11. SinDobles'
  BY <1>1, <1>3, OciosaForma DEF SinDobles, Vigentes
<1>12. Ofrecidos'
  <2>1. ASSUME NEW s \in Vigentes \ cruzadas PROVE DerechosDe(s)'
    <3>1. s \in Subs /\ sub[s] # NoSub /\ DerechosDe(s)
      BY SubForma DEF Vigentes, Ofrecidos
    <3>2. sub[s].version \in Publicadas
      BY <3>1 DEF Nombradas
    <3>3. QED
      BY <1>1, <1>7, <3>1, <3>2 DEF DerechosDe
  <2>2. QED
    BY <1>1, <2>1 DEF Ofrecidos, Vigentes
<1>13. QED
  BY <1>2, <1>8, <1>9, <1>10, <1>11, <1>12

\* A version is published: one that a request is editing is noted as altered.
LEMMA SusPublica ==
  ASSUME InvSus, NEW g \in Gestiones, PublicarAplicar(g)
  PROVE  InvSus'
<1> USE DEF InvSus
<1>0. PICK v \in Versiones, A \in SUBSET Versiones :
        /\ v = gestion[g].version /\ A = gestion[g].activas /\ gestion[g].op = "publicando"
        /\ versiones' = [w \in Versiones |-> IF w = v THEN "ACTIVA"
                                             ELSE IF w \in A THEN "RETIRADA" ELSE versiones[w]]
  BY GestionForma DEF PublicarAplicar, TipoSus
<1>1. /\ UNCHANGED <<rasgos, sub, abiertos>> /\ UNCHANGED <<cruzadas, dobles>>
      /\ gestion' = [gestion EXCEPT ![g] = Ociosa]
  BY DEF PublicarAplicar, Termina
<1>2. alteradas' = alteradas \cup {w \in {v} : SeEdita(w)}
  BY <1>0 DEF PublicarAplicar
<1>3. TipoSus'
  BY <1>0, <1>1, <1>2, OciosaForma DEF TipoSus
<1>4. \A h \in Gestiones : gestion'[h] = IF h = g THEN Ociosa ELSE gestion[h]
  BY <1>1 DEF TipoSus
<1>5. A \subseteq Publicadas
  BY <1>0 DEF Nombradas, Nombrada
<1>6. Publicadas \subseteq Publicadas' /\ v \in Publicadas'
  BY <1>0 DEF Publicadas
<1>7. \A w \in Versiones : versiones[w] = "BORRADOR" => w = v \/ versiones'[w] = "BORRADOR"
  BY <1>0, <1>5 DEF Publicadas
<1>8. \A w \in Versiones : versiones[w] # "AUSENTE" => versiones'[w] # "AUSENTE"
  BY <1>0
<1>9. Nombradas'
  <2>1. ASSUME NEW h \in Gestiones PROVE Nombrada(gestion[h])'
    <3>1. CASE h = g
      BY <1>4, <3>1, OciosaForma DEF Nombrada, EnMano
    <3>2. CASE h # g
      <4>1. Nombrada(gestion[h]) /\ gestion[h] \in Gestion /\ gestion'[h] = gestion[h]
        BY <1>4, <3>2 DEF Nombradas, TipoSus
      <4>2. gestion[h].op \in {"asignar", "publicar", "publicando"} => gestion[h].version \in Versiones
        BY <4>1, GestionForma
      <4>3. gestion[h].op = "asignar" /\ gestion[h].version = v => v \in alteradas'
        BY <1>2 DEF SeEdita
      <4>4. gestion[h].op = "asignar" => \/ versiones'[gestion[h].version] = "BORRADOR"
                                         \/ gestion[h].version \in alteradas' \cap Publicadas'
        BY <1>2, <1>6, <1>7, <4>1, <4>2, <4>3 DEF Nombrada
      <4>5. QED
        BY <1>1, <1>2, <1>6, <1>8, <4>1, <4>2, <4>4 DEF Nombrada
    <3>3. QED
      BY <3>1, <3>2
  <2>2. QED
    BY <1>1, <1>6, <2>1 DEF Nombradas
<1>10. UnoPorRasgo'
  BY <1>1 DEF UnoPorRasgo
<1>11. EnUnaMano'
  BY <1>1, <1>4, OciosaForma DEF EnUnaMano, EnMano
<1>12. SinDobles'
  BY <1>1, <1>4, OciosaForma DEF SinDobles, Vigentes
<1>13. Ofrecidos'
  BY <1>1, <1>2 DEF Ofrecidos, Vigentes, DerechosDe
<1>14. QED
  BY <1>3, <1>9, <1>10, <1>11, <1>12, <1>13

\* A subscription is taken with the features that its version had when it was read.
LEMMA SusSuscribe ==
  ASSUME InvSus, NEW g \in Gestiones, NEW s \in Subs, SuscribirAplicar(g, s)
  PROVE  InvSus'
<1> USE DEF InvSus
<1>0. PICK v \in Versiones, R \in SUBSET Caracteristicas :
        /\ v = gestion[g].version /\ R = gestion[g].rasgos /\ gestion[g].op = "suscribir"
        /\ sub' = [sub EXCEPT ![s] = [estado |-> "ACTIVA", version |-> v]]
        /\ abiertos' = [abiertos EXCEPT ![s] = Derechos(v, R, 0)]
  BY GestionForma DEF SuscribirAplicar, TipoSus
<1>1. /\ UNCHANGED <<versiones, rasgos>> /\ UNCHANGED <<cruzadas, alteradas, dobles>>
      /\ gestion' = [gestion EXCEPT ![g] = Ociosa] /\ sub[s] = NoSub
  BY DEF SuscribirAplicar, Termina
<1>2. /\ Derechos(v, R, 0) \in SUBSET Derecho
      /\ {d.rasgo : d \in Derechos(v, R, 0)} = R
      /\ \A d \in Derechos(v, R, 0) : d.version = v
      /\ \A d, e \in Derechos(v, R, 0) : d.rasgo = e.rasgo => d = e
  <2>1. 0 \in 0 .. MaxCambios
    BY SuscripcionesAssumption
  <2>2. QED
    BY <2>1, DerechosForma
<1>3. PICK x \in Sub : x = [estado |-> "ACTIVA", version |-> v] /\ x.estado = "ACTIVA" /\ x.version = v
  <2>1. [estado |-> "ACTIVA", version |-> v] \in Sub
    BY DEF Sub
  <2>2. QED
    BY <2>1
<1>4. x # NoSub
  BY SubForma
<1>5. TipoSus'
  BY <1>0, <1>1, <1>2, <1>3, OciosaForma DEF TipoSus
<1>6. /\ \A h \in Gestiones : gestion'[h] = IF h = g THEN Ociosa ELSE gestion[h]
      /\ \A r \in Subs : sub'[r] = IF r = s THEN x ELSE sub[r]
      /\ \A r \in Subs : abiertos'[r] = IF r = s THEN Derechos(v, R, 0) ELSE abiertos[r]
  BY <1>0, <1>1, <1>3 DEF TipoSus
<1>7. v \in Publicadas /\ (R = rasgos[v] \/ v \in alteradas)
  BY <1>0 DEF Nombradas, Nombrada
<1>8. Publicadas' = Publicadas
  BY <1>1 DEF Publicadas
<1>9. UnoPorRasgo'
  BY <1>2, <1>4, <1>6 DEF UnoPorRasgo
<1>10. Nombradas'
  <2>1. ASSUME NEW h \in Gestiones PROVE Nombrada(gestion[h])'
    <3>1. CASE h = g
      BY <1>6, <3>1, OciosaForma DEF Nombrada, EnMano
    <3>2. CASE h # g
      <4>1. Nombrada(gestion[h]) /\ gestion[h] \in Gestion /\ gestion'[h] = gestion[h]
        BY <1>6, <3>2 DEF Nombradas, TipoSus
      <4>2. gestion[h].op \in EnMano => sub'[gestion[h].sub] # NoSub
        BY <1>4, <1>6, <4>1, GestionForma DEF Nombrada
      <4>3. QED
        BY <1>1, <1>8, <4>1, <4>2 DEF Nombrada
    <3>3. QED
      BY <3>1, <3>2
  <2>2. QED
    BY <1>3, <1>6, <1>7, <1>8, <2>1 DEF Nombradas
<1>11. EnUnaMano'
  <2>1. ASSUME NEW h \in Gestiones, gestion'[h].op \in EnMano
        PROVE  gestion'[h] = gestion[h] /\ gestion[h].sub # s
    BY <1>1, <1>6, <2>1, OciosaForma DEF EnMano, Nombradas, Nombrada
  <2>2. "cambiando" \in EnMano
    BY DEF EnMano
  <2>3. QED
    BY <1>1, <1>6, <2>1, <2>2 DEF EnUnaMano
<1>12. SinDobles'
  <2>1. dobles \/ Vigentes' = {s}
    BY <1>0, <1>3, <1>6 DEF SinDobles, Vigentes
  <2>2. dobles \/ \A h \in Gestiones : gestion'[h].op # "suscribir"
    BY <1>0, <1>6, OciosaForma DEF SinDobles
  <2>3. QED
    BY <1>1, <2>1, <2>2 DEF SinDobles
<1>13. Ofrecidos'
  <2>1. ASSUME NEW r \in Subs \ cruzadas, sub'[r].estado = "ACTIVA" PROVE DerechosDe(r)'
    <3>1. CASE r = s
      BY <1>1, <1>2, <1>3, <1>6, <1>7, <3>1 DEF DerechosDe
    <3>2. CASE r # s
      BY <1>1, <1>6, <2>1, <3>2 DEF DerechosDe, Ofrecidos, Vigentes
    <3>3. QED
      BY <3>1, <3>2
  <2>2. QED
    BY <1>1, <2>1 DEF Ofrecidos, Vigentes
<1>14. QED
  BY <1>5, <1>9, <1>10, <1>11, <1>12, <1>13

\* A change of plan: what stays open is only what another change opened.
LEMMA SusCambia ==
  ASSUME InvSus, NEW g \in Gestiones, CambiarAplicar(g)
  PROVE  InvSus'
<1> USE DEF InvSus
<1>0. PICK s \in Subs, v \in Versiones, R \in SUBSET Caracteristicas, V \in SUBSET Derecho :
        /\ s = gestion[g].sub /\ v = gestion[g].version /\ R = gestion[g].rasgos
        /\ V = gestion[g].vistos /\ gestion[g].op = "cambiando"
  BY GestionForma DEF CambiarAplicar, TipoSus, EnMano
<1>1. PICK n \in 0 .. MaxCambios :
        /\ \A d \in abiertos[s] \ V : d.rasgo \notin R
        /\ sub' = [sub EXCEPT ![s].version = v]
        /\ abiertos' = [abiertos EXCEPT ![s] = (abiertos[s] \ V) \cup Derechos(v, R, n)]
  <2>1. Tanda(s) \in 0 .. MaxCambios
    BY <1>0, TandaNat, SuscripcionesAssumption DEF CambiarAplicar
  <2>2. QED
    BY <1>0, <2>1 DEF CambiarAplicar
<1>2. /\ UNCHANGED <<versiones, rasgos>> /\ UNCHANGED <<cruzadas, alteradas, dobles>>
      /\ gestion' = [gestion EXCEPT ![g] = Ociosa]
  BY DEF CambiarAplicar, Termina
<1>3. /\ Derechos(v, R, n) \in SUBSET Derecho
      /\ {d.rasgo : d \in Derechos(v, R, n)} = R
      /\ \A d \in Derechos(v, R, n) : d.version = v
      /\ \A d, e \in Derechos(v, R, n) : d.rasgo = e.rasgo => d = e
  BY DerechosForma
<1>4. sub[s] \in Sub /\ "cambiando" \in EnMano
  BY <1>0 DEF Nombradas, Nombrada, EnMano, TipoSus
<1>5. PICK x \in Sub : /\ x.version = v /\ x.estado = sub[s].estado
                       /\ sub' = [sub EXCEPT ![s] = x]
  <2>1. PICK e \in {"ACTIVA", "PENDIENTE_CANCELACION", "CANCELADA"}, w \in Versiones :
          sub[s] = [estado |-> e, version |-> w]
    BY <1>4 DEF Sub
  <2>2. [sub[s] EXCEPT !.version = v] = [estado |-> e, version |-> v]
    BY <2>1
  <2>3. QED
    BY <1>1, <2>1, <2>2 DEF Sub
<1>6. TipoSus'
  BY <1>1, <1>2, <1>3, <1>5, OciosaForma DEF TipoSus
<1>7. /\ \A h \in Gestiones : gestion'[h] = IF h = g THEN Ociosa ELSE gestion[h]
      /\ \A r \in Subs : sub'[r] = IF r = s THEN x ELSE sub[r]
      /\ \A r \in Subs : abiertos'[r] = IF r = s THEN (abiertos[s] \ V) \cup Derechos(v, R, n)
                                                 ELSE abiertos[r]
  BY <1>1, <1>2, <1>5 DEF TipoSus
<1>8. x # NoSub
  BY SubForma
<1>9. v \in Publicadas /\ (R = rasgos[v] \/ v \in alteradas)
  BY <1>0 DEF Nombradas, Nombrada
<1>10. Publicadas' = Publicadas
  BY <1>2 DEF Publicadas
<1>11. Vigentes' = Vigentes
  BY <1>5, <1>7 DEF Vigentes
<1>12. UnoPorRasgo'
  <2>1. \A d, e \in abiertos'[s] : d.rasgo = e.rasgo => d = e
    <3>1. \A d, e \in abiertos[s] : d.rasgo = e.rasgo => d = e
      BY DEF UnoPorRasgo
    <3>2. \A d \in Derechos(v, R, n) : d.rasgo \in R
      BY <1>3
    <3>3. QED
      BY <1>1, <1>3, <1>7, <3>1, <3>2
  <2>2. QED
    BY <1>7, <1>8, <2>1 DEF UnoPorRasgo
<1>13. Nombradas'
  <2>1. ASSUME NEW h \in Gestiones PROVE Nombrada(gestion[h])'
    <3>1. CASE h = g
      BY <1>7, <3>1, OciosaForma DEF Nombrada, EnMano
    <3>2. CASE h # g
      <4>1. Nombrada(gestion[h]) /\ gestion[h] \in Gestion /\ gestion'[h] = gestion[h]
        BY <1>7, <3>2 DEF Nombradas, TipoSus
      <4>2. gestion[h].op \in EnMano => sub'[gestion[h].sub] # NoSub
        BY <1>7, <1>8, <4>1, GestionForma DEF Nombrada
      <4>3. QED
        BY <1>2, <1>10, <4>1, <4>2 DEF Nombrada
    <3>3. QED
      BY <3>1, <3>2
  <2>2. QED
    BY <1>5, <1>7, <1>9, <1>10, <2>1 DEF Nombradas
<1>14. EnUnaMano'
  <2>1. ASSUME NEW h \in Gestiones, gestion'[h].op \in EnMano
        PROVE  h # g /\ gestion'[h] = gestion[h]
    BY <1>7, <2>1, OciosaForma DEF EnMano
  <2>2. s \in cruzadas \/ \A h \in Gestiones : gestion'[h].op \in EnMano => gestion[h].sub # s
    BY <1>0, <1>4, <2>1 DEF EnUnaMano
  <2>3. QED
    BY <1>2, <1>4, <1>7, <2>1, <2>2 DEF EnUnaMano
<1>15. SinDobles'
  BY <1>2, <1>7, <1>11, OciosaForma DEF SinDobles
<1>16. Ofrecidos'
  <2>1. ASSUME NEW r \in Vigentes \ cruzadas PROVE DerechosDe(r)'
    <3>1. CASE r = s
      <4>1. V = abiertos[s]
        BY <1>0, <3>1 DEF EnUnaMano
      <4>2. abiertos'[s] = Derechos(v, R, n)
        BY <1>7, <4>1
      <4>3. QED
        BY <1>2, <1>3, <1>5, <1>7, <1>9, <3>1, <4>2 DEF DerechosDe
    <3>2. CASE r # s
      BY <1>2, <1>7, <2>1, <3>2 DEF DerechosDe, Ofrecidos, Vigentes
    <3>3. QED
      BY <3>1, <3>2
  <2>2. QED
    BY <1>2, <1>11, <2>1 DEF Ofrecidos
<1>17. QED
  BY <1>6, <1>12, <1>13, <1>14, <1>15, <1>16

\* A cancellation ends the entitlements at once, or leaves the subscription to end later.
LEMMA SusCancela ==
  ASSUME InvSus, NEW g \in Gestiones, CancelarAplicar(g)
  PROVE  InvSus'
<1> USE DEF InvSus
<1>0. PICK s \in Subs : s = gestion[g].sub /\ gestion[g].op = "cancelar"
  BY GestionForma DEF CancelarAplicar, TipoSus, EnMano
<1>1. PICK e \in {"PENDIENTE_CANCELACION", "CANCELADA"} :
        /\ sub' = [sub EXCEPT ![s].estado = e]
        /\ abiertos' = abiertos \/ abiertos' = [abiertos EXCEPT ![s] = {}]
  BY <1>0 DEF CancelarAplicar
<1>2. /\ UNCHANGED <<versiones, rasgos>> /\ UNCHANGED <<cruzadas, alteradas, dobles>>
      /\ gestion' = [gestion EXCEPT ![g] = Ociosa]
  BY DEF CancelarAplicar, Termina
<1>3. sub[s] \in Sub /\ sub[s] # NoSub /\ "cancelar" \in EnMano /\ "cambiando" \in EnMano
  BY <1>0 DEF Nombradas, Nombrada, EnMano, TipoSus
<1>4. PICK x \in Sub : /\ x.version = sub[s].version /\ x.estado # "ACTIVA"
                       /\ sub' = [sub EXCEPT ![s] = x]
  <2>1. PICK d \in {"ACTIVA", "PENDIENTE_CANCELACION", "CANCELADA"}, w \in Versiones :
          sub[s] = [estado |-> d, version |-> w]
    BY <1>3 DEF Sub
  <2>2. [sub[s] EXCEPT !.estado = e] = [estado |-> e, version |-> w]
    BY <2>1
  <2>3. QED
    BY <1>1, <2>1, <2>2 DEF Sub
<1>5. TipoSus'
  BY <1>1, <1>2, <1>4, OciosaForma DEF TipoSus
<1>6. /\ \A h \in Gestiones : gestion'[h] = IF h = g THEN Ociosa ELSE gestion[h]
      /\ \A r \in Subs : sub'[r] = IF r = s THEN x ELSE sub[r]
      /\ \A r \in Subs : abiertos'[r] = abiertos[r] \/ (r = s /\ abiertos'[r] = {})
  <2>1. /\ \A h \in Gestiones : gestion'[h] = IF h = g THEN Ociosa ELSE gestion[h]
        /\ \A r \in Subs : sub'[r] = IF r = s THEN x ELSE sub[r]
    BY <1>2, <1>4 DEF TipoSus
  <2>2. CASE abiertos' = abiertos
    BY <2>1, <2>2
  <2>3. CASE abiertos' = [abiertos EXCEPT ![s] = {}]
    <3>1. \A r \in Subs : abiertos'[r] = IF r = s THEN {} ELSE abiertos[r]
      BY <2>3 DEF TipoSus
    <3>2. QED
      BY <2>1, <3>1
  <2>4. QED
    BY <1>1, <2>2, <2>3
<1>7. x # NoSub
  BY SubForma
<1>8. Publicadas' = Publicadas
  BY <1>2 DEF Publicadas
<1>9. Vigentes' = Vigentes \ {s}
  BY <1>4, <1>6 DEF Vigentes
<1>10. UnoPorRasgo'
  BY <1>3, <1>6, <1>7 DEF UnoPorRasgo
<1>11. Nombradas'
  <2>1. ASSUME NEW h \in Gestiones PROVE Nombrada(gestion[h])'
    <3>1. CASE h = g
      BY <1>6, <3>1, OciosaForma DEF Nombrada, EnMano
    <3>2. CASE h # g
      <4>1. Nombrada(gestion[h]) /\ gestion[h] \in Gestion /\ gestion'[h] = gestion[h]
        BY <1>6, <3>2 DEF Nombradas, TipoSus
      <4>2. gestion[h].op \in EnMano => sub'[gestion[h].sub] # NoSub
        BY <1>6, <1>7, <4>1, GestionForma DEF Nombrada
      <4>3. QED
        BY <1>2, <1>8, <4>1, <4>2 DEF Nombrada
    <3>3. QED
      BY <3>1, <3>2
  <2>2. QED
    BY <1>3, <1>4, <1>6, <1>8, <2>1 DEF Nombradas
<1>12. EnUnaMano'
  <2>1. ASSUME NEW h \in Gestiones, gestion'[h].op \in EnMano
        PROVE  h # g /\ gestion'[h] = gestion[h]
    BY <1>6, <2>1, OciosaForma DEF EnMano
  <2>2. s \in cruzadas \/ \A h \in Gestiones : gestion'[h].op \in EnMano => gestion[h].sub # s
    BY <1>0, <1>3, <2>1 DEF EnUnaMano
  <2>3. QED
    BY <1>2, <1>3, <1>6, <2>1, <2>2 DEF EnUnaMano
<1>13. SinDobles'
  BY <1>2, <1>6, <1>9, OciosaForma DEF SinDobles
<1>14. Ofrecidos'
  BY <1>2, <1>6, <1>9 DEF Ofrecidos, DerechosDe, Vigentes
<1>15. QED
  BY <1>5, <1>10, <1>11, <1>12, <1>13, <1>14

\* Every step of plans and subscriptions keeps the invariant.
LEMMA SusPaso == InvSus /\ [NextSus]_varsSus => InvSus'
<1>1. ASSUME InvSus, UNCHANGED varsSus PROVE InvSus'
  BY <1>1 DEF InvSus, varsSus, TipoSus, UnoPorRasgo, Nombradas, Nombrada, Publicadas, EnUnaMano,
              SinDobles, Ofrecidos, DerechosDe, Vigentes
<1>2. ASSUME InvSus, NextSus PROVE InvSus'
  BY <1>2, SusCrea, SusEmpieza, SusAsigna, SusPublica, SusSuscribe, SusCambia, SusCancela DEF NextSus
<1>3. QED
  BY <1>1, <1>2

\* A tenant without plans satisfies it.
LEMMA SusInit == InitSus => InvSus
<1>1. SUFFICES ASSUME InitSus PROVE InvSus
  OBVIOUS
<1>2. TipoSus
  BY <1>1, OciosaForma DEF InitSus, TipoSus
<1>3. Vigentes = {} /\ \A g \in Gestiones : gestion[g] = Ociosa
  BY <1>1, SubForma DEF InitSus, Vigentes
<1>4. Nombradas /\ EnUnaMano
  BY <1>1, <1>3, OciosaForma DEF InitSus, Nombradas, Nombrada, EnUnaMano, EnMano
<1>5. SinDobles /\ Ofrecidos /\ UnoPorRasgo
  BY <1>1, <1>3, OciosaForma DEF InitSus, SinDobles, Ofrecidos, UnoPorRasgo
<1>6. QED
  BY <1>2, <1>4, <1>5 DEF InvSus

\* And it gives the types and DerechosDelPlan.
LEMMA SusFinal == InvSus => TypeOKSus /\ DerechosDelPlan
<1>1. SUFFICES ASSUME InvSus PROVE TypeOKSus /\ DerechosDelPlan
  OBVIOUS
<1>2. TypeOKSus
  BY <1>1 DEF InvSus, TipoSus, UnoPorRasgo, TypeOKSus
<1>3. UnaVigente
  <2>1. CASE dobles
    BY <2>1 DEF UnaVigente
  <2>2. CASE Vigentes = {}
    BY <2>2, FS_EmptySet DEF UnaVigente
  <2>3. CASE ~dobles /\ Vigentes # {}
    <3>1. PICK s \in Vigentes : Vigentes = {s}
      BY <1>1, <2>3 DEF InvSus, SinDobles
    <3>2. QED
      BY <3>1, FS_Singleton DEF UnaVigente
  <2>4. QED
    BY <2>1, <2>2, <2>3
<1>4. QED
  BY <1>1, <1>2, <1>3 DEF InvSus, Ofrecidos, DerechosDe, DerechosDelPlan

-----------------------------------------------------------------------------
(* Accesos: members, and the sets of roles and permissions that are replaced *)

\* Types of members, roles and requests.
TipoAcc ==
  /\ miembro \in [Usuarios -> Miembro \cup {NoMiembro}]
  /\ roles \in [Usuarios -> SUBSET Roles]
  /\ permisos \in [Roles -> SUBSET Permisos]
  /\ peticion \in [Peticiones -> Peticion]
  /\ reemplazado \subseteq Usuarios \cup Roles
  /\ reactivados \in 0 .. MaxReactivaciones

\* No member goes back to the state of an invitation.
Invitada ==
  /\ \A u \in Usuarios : miembro[u].vinculado => miembro[u].estado # "INVITADA"
  /\ \A q \in Peticiones :
       /\ peticion[q].op \in {"ingresar", "asignar"} => miembro[peticion[q].usuario] # NoMiembro
       /\ peticion[q].op = "ingresar" /\ peticion[q].leido.estado # "INVITADA"
            => miembro[peticion[q].usuario].estado # "INVITADA"

\* The set of a member or a role that was not replaced by two requests is being replaced by
\* one at most, which saw what it has.
Reemplazando ==
  /\ \A q \in Peticiones :
       /\ peticion[q].op = "asignar" /\ peticion[q].usuario \notin reemplazado
            => peticion[q].vistos = roles[peticion[q].usuario]
       /\ peticion[q].op = "permitir" /\ peticion[q].rol \notin reemplazado
            => peticion[q].vistos = permisos[peticion[q].rol]
  /\ \A p, q \in Peticiones :
       /\ peticion[p].op = "asignar" /\ peticion[q].op = "asignar"
            /\ peticion[p].usuario = peticion[q].usuario
            => p = q \/ peticion[p].usuario \in reemplazado
       /\ peticion[p].op = "permitir" /\ peticion[q].op = "permitir"
            /\ peticion[p].rol = peticion[q].rol
            => p = q \/ peticion[p].rol \in reemplazado

\* Members and the invitations that were counted.
Invitando == {q \in Peticiones : peticion[q].op = "invitar"}
Invitados ==
  Cardinality(Vivos) + Cardinality(Invitando) <= MayorLimite - 1 + Cardinality(Peticiones) + reactivados

\* The limit of users (Invitados) comes apart: it needs the subscription.
InvAcc == TipoAcc /\ Invitada /\ Reemplazando

\* What a request in flight holds.
LEMMA PeticionForma ==
  ASSUME NEW p \in Peticion
  PROVE  /\ p.op \in {"quieta", "invitar", "ingresar", "asignar", "permitir"}
         /\ p.op \in {"invitar", "ingresar", "asignar"} => p.usuario \in Usuarios
         /\ p.op \in {"invitar", "asignar"} => p.roles \in SUBSET Roles
         /\ p.op = "ingresar" => p.leido \in Miembro
         /\ p.op = "asignar" => p.vistos \in SUBSET Roles
         /\ p.op = "permitir" => /\ p.rol \in Roles /\ p.permisos \in SUBSET Permisos
                                 /\ p.vistos \in SUBSET Permisos
  BY DEF Peticion, Quieta

\* An idle request about members or roles.
LEMMA QuietaForma == Quieta \in Peticion /\ Quieta.op = "quieta"
  BY DEF Peticion, Quieta

\* An existing member; the absent one has no user.
LEMMA MiembroForma ==
  /\ \A m \in Miembro : /\ m # NoMiembro /\ m.vinculado \in BOOLEAN
                        /\ m.estado \in {"INVITADA", "ACTIVA", "SUSPENDIDA", "REVOCADA"}
  /\ NoMiembro.estado = "AUSENTE" /\ NoMiembro.vinculado = FALSE
  BY DEF Miembro, NoMiembro

\* What Invitada and Reemplazando say of one request.
Cumple(p) ==
  /\ p.op \in {"ingresar", "asignar"} => miembro[p.usuario] # NoMiembro
  /\ p.op = "ingresar" /\ p.leido.estado # "INVITADA" => miembro[p.usuario].estado # "INVITADA"
  /\ p.op = "asignar" /\ p.usuario \notin reemplazado => p.vistos = roles[p.usuario]
  /\ p.op = "permitir" /\ p.rol \notin reemplazado => p.vistos = permisos[p.rol]

\* Two requests that replace the same set.
Choca(p, q) ==
  \/ p.op = "asignar" /\ q.op = "asignar" /\ p.usuario = q.usuario /\ p.usuario \notin reemplazado
  \/ p.op = "permitir" /\ q.op = "permitir" /\ p.rol = q.rol /\ p.rol \notin reemplazado

\* The invariant, request by request.
LEMMA AccPorPeticion ==
  (Invitada /\ Reemplazando) <=>
    /\ \A u \in Usuarios : miembro[u].vinculado => miembro[u].estado # "INVITADA"
    /\ \A q \in Peticiones : Cumple(peticion[q])
    /\ \A p, q \in Peticiones : Choca(peticion[p], peticion[q]) => p = q
  BY DEF Invitada, Reemplazando, Cumple, Choca

\* A request begins, or ends, and writes nothing else.
LEMMA AccPide ==
  ASSUME InvAcc, UNCHANGED <<miembro, roles, permisos, reactivados>>,
         reemplazado \subseteq reemplazado', reemplazado' \subseteq Usuarios \cup Roles,
         NEW q \in Peticiones, NEW x \in Peticion, peticion' = [peticion EXCEPT ![q] = x],
         Cumple(x),
         \A p \in Peticiones \ {q} :
           /\ x.op = "asignar" /\ peticion[p].op = "asignar" /\ x.usuario = peticion[p].usuario
                => x.usuario \in reemplazado'
           /\ x.op = "permitir" /\ peticion[p].op = "permitir" /\ x.rol = peticion[p].rol
                => x.rol \in reemplazado'
  PROVE  InvAcc'
<1>1. TipoAcc'
  BY DEF InvAcc, TipoAcc
<1>2. \A p \in Peticiones : peticion'[p] = IF p = q THEN x ELSE peticion[p]
  BY DEF InvAcc, TipoAcc
<1>3. /\ \A u \in Usuarios : miembro[u].vinculado => miembro[u].estado # "INVITADA"
      /\ \A p \in Peticiones : Cumple(peticion[p])
      /\ \A p, r \in Peticiones : Choca(peticion[p], peticion[r]) => p = r
  BY AccPorPeticion DEF InvAcc
<1>4. \A p \in Peticiones : Cumple(peticion[p])'
  BY <1>2, <1>3 DEF Cumple
<1>5. \A p, r \in Peticiones : Choca(peticion[p], peticion[r])' => p = r
  BY <1>2, <1>3 DEF Choca
<1>6. (Invitada /\ Reemplazando)'
  BY <1>3, <1>4, <1>5 DEF Invitada, Reemplazando, Cumple, Choca
<1>7. QED
  BY <1>1, <1>6 DEF InvAcc

\* A request that writes ends, and the members, roles and permissions that the others
\* hold are as they saw them.
LEMMA AccTermina ==
  ASSUME InvAcc, NEW q \in Peticiones, peticion' = [peticion EXCEPT ![q] = Quieta] \/ peticion' = peticion,
         reemplazado' = reemplazado, TipoAcc',
         \A u \in Usuarios : miembro'[u].vinculado => miembro'[u].estado # "INVITADA",
         \A u \in Usuarios : miembro[u] # NoMiembro =>
           /\ miembro'[u] # NoMiembro
           /\ miembro[u].estado # "INVITADA" => miembro'[u].estado # "INVITADA",
         \A p \in Peticiones : peticion'[p].op = "asignar" /\ peticion[p].usuario \notin reemplazado
                                 => roles'[peticion[p].usuario] = roles[peticion[p].usuario],
         \A p \in Peticiones : peticion'[p].op = "permitir" /\ peticion[p].rol \notin reemplazado
                                 => permisos'[peticion[p].rol] = permisos[peticion[p].rol]
  PROVE  InvAcc'
<1>2. \A p \in Peticiones : peticion'[p] = peticion[p] \/ peticion'[p] = Quieta
  BY DEF InvAcc, TipoAcc
<1>3. /\ \A p \in Peticiones : Cumple(peticion[p]) /\ peticion[p] \in Peticion
      /\ \A p, r \in Peticiones : Choca(peticion[p], peticion[r]) => p = r
  BY AccPorPeticion DEF InvAcc, TipoAcc
<1>4. ASSUME NEW p \in Peticiones PROVE Cumple(peticion[p])'
  <2>1. CASE peticion'[p] = Quieta
    BY <2>1, QuietaForma DEF Cumple
  <2>2. CASE peticion'[p] = peticion[p]
    BY <1>3, <2>2, PeticionForma DEF Cumple
  <2>3. QED
    BY <1>2, <2>1, <2>2
<1>5. \A p, r \in Peticiones : Choca(peticion[p], peticion[r])' => p = r
  BY <1>2, <1>3, QuietaForma DEF Choca
<1>6. (Invitada /\ Reemplazando)'
  BY <1>4, <1>5 DEF Invitada, Reemplazando, Cumple, Choca
<1>7. QED
  BY <1>6 DEF InvAcc

\* The reads keep it: each notes what it saw of the set it will replace.
LEMMA AccEmpieza ==
  ASSUME InvAcc, NEW q \in Peticiones,
         \/ Rechazar(q)
         \/ \E r \in Roles, P \in SUBSET Permisos : AsignarPermisosLeer(q, r, P)
         \/ \E u \in Usuarios : \/ IngresarLeer(q, u)
                                \/ \E R \in SUBSET Roles : InvitarContar(q, u, R) \/ AsignarRolesLeer(q, u, R)
  PROVE  InvAcc'
<1>0. TipoAcc /\ reemplazado \subseteq Usuarios \cup Roles
  BY DEF InvAcc, TipoAcc
<1>1. ASSUME Rechazar(q) PROVE InvAcc'
  <2>1. Cumple(Quieta) /\ UNCHANGED <<miembro, roles, permisos, reactivados>> /\ UNCHANGED reemplazado
    BY <1>1, QuietaForma DEF Cumple, Rechazar
  <2>2. peticion' = [peticion EXCEPT ![q] = Quieta]
    BY <1>1 DEF Rechazar, Responde
  <2>3. QED
    BY <1>0, <2>1, <2>2, QuietaForma, AccPide
<1>2. ASSUME NEW r \in Roles, NEW P \in SUBSET Permisos, AsignarPermisosLeer(q, r, P) PROVE InvAcc'
  <2>1. permisos[r] \in SUBSET Permisos
    BY <1>0 DEF TipoAcc
  <2>2. PICK x \in Peticion : /\ x.op = "permitir" /\ x.rol = r /\ x.vistos = permisos[r]
                              /\ peticion' = [peticion EXCEPT ![q] = x]
    BY <1>2, <2>1 DEF AsignarPermisosLeer, Consulta, Peticion
  <2>3. Cumple(x)
    BY <2>2 DEF Cumple
  <2>4. /\ UNCHANGED <<miembro, roles, permisos, reactivados>>
        /\ reemplazado' = IF SeReemplaza(r) THEN reemplazado \cup {r} ELSE reemplazado
    BY <1>2 DEF AsignarPermisosLeer, Reemplaza
  <2>5. \A p \in Peticiones : peticion[p].op = "permitir" /\ r = peticion[p].rol => r \in reemplazado'
    BY <2>4 DEF SeReemplaza
  <2>6. reemplazado \subseteq reemplazado' /\ reemplazado' \subseteq Usuarios \cup Roles
    BY <1>0, <2>4
  <2>7. QED
    BY <2>2, <2>3, <2>4, <2>5, <2>6, AccPide
<1>3. ASSUME NEW u \in Usuarios, IngresarLeer(q, u) PROVE InvAcc'
  <2>1. miembro[u] \in Miembro
    BY <1>0, <1>3 DEF TipoAcc, IngresarLeer
  <2>2. PICK x \in Peticion : /\ x.op = "ingresar" /\ x.usuario = u /\ x.leido = miembro[u]
                              /\ peticion' = [peticion EXCEPT ![q] = x]
    BY <1>3, <2>1 DEF IngresarLeer, Consulta, Peticion
  <2>3. Cumple(x)
    BY <1>3, <2>2 DEF Cumple, IngresarLeer
  <2>4. UNCHANGED <<miembro, roles, permisos, reactivados>> /\ UNCHANGED reemplazado
    BY <1>3 DEF IngresarLeer
  <2>5. QED
    BY <1>0, <2>2, <2>3, <2>4, AccPide
<1>4. ASSUME NEW u \in Usuarios, NEW R \in SUBSET Roles, InvitarContar(q, u, R) PROVE InvAcc'
  <2>1. PICK x \in Peticion : x.op = "invitar" /\ peticion' = [peticion EXCEPT ![q] = x]
    BY <1>4 DEF InvitarContar, Consulta, Peticion
  <2>2. Cumple(x)
    BY <2>1 DEF Cumple
  <2>3. UNCHANGED <<miembro, roles, permisos, reactivados>> /\ UNCHANGED reemplazado
    BY <1>4 DEF InvitarContar
  <2>4. QED
    BY <1>0, <2>1, <2>2, <2>3, AccPide
<1>5. ASSUME NEW u \in Usuarios, NEW R \in SUBSET Roles, AsignarRolesLeer(q, u, R) PROVE InvAcc'
  <2>1. roles[u] \in SUBSET Roles
    BY <1>0 DEF TipoAcc
  <2>2. PICK x \in Peticion : /\ x.op = "asignar" /\ x.usuario = u /\ x.vistos = roles[u]
                              /\ peticion' = [peticion EXCEPT ![q] = x]
    BY <1>5, <2>1 DEF AsignarRolesLeer, Consulta, Peticion
  <2>3. Cumple(x)
    BY <1>5, <2>2 DEF Cumple, AsignarRolesLeer
  <2>4. /\ UNCHANGED <<miembro, roles, permisos, reactivados>>
        /\ reemplazado' = IF SeReemplaza(u) THEN reemplazado \cup {u} ELSE reemplazado
    BY <1>5 DEF AsignarRolesLeer, Reemplaza
  <2>5. \A p \in Peticiones : peticion[p].op = "asignar" /\ u = peticion[p].usuario => u \in reemplazado'
    BY <2>4 DEF SeReemplaza
  <2>6. reemplazado \subseteq reemplazado' /\ reemplazado' \subseteq Usuarios \cup Roles
    BY <1>0, <2>4
  <2>7. QED
    BY <2>2, <2>3, <2>4, <2>5, <2>6, AccPide
<1>6. QED
  BY <1>1, <1>2, <1>3, <1>4, <1>5

\* A member is invited, or its state changes.
LEMMA AccMiembro ==
  ASSUME InvAcc, NEW q \in Peticiones,
         InvitarCrear(q) \/ IngresarAplicar(q) \/
           (\E u \in Usuarios, e \in {"ACTIVA", "SUSPENDIDA", "REVOCADA"} : CambiarEstado(u, e))
  PROVE  InvAcc'
<1>0. /\ TipoAcc /\ peticion[q] \in Peticion /\ Cumple(peticion[q])
      /\ \A u \in Usuarios : miembro[u].vinculado => miembro[u].estado # "INVITADA"
      /\ \A u \in Usuarios : miembro[u] \in Miembro \cup {NoMiembro}
      /\ \A p \in Peticiones : Cumple(peticion[p]) /\ peticion[p] \in Peticion
  BY AccPorPeticion DEF InvAcc, TipoAcc
<1>1. CASE InvitarCrear(q)
  <2>1. PICK u \in Usuarios : u = peticion[q].usuario
    BY <1>0, <1>1, PeticionForma DEF InvitarCrear
  <2>2. PICK m \in Miembro : m = [estado |-> "INVITADA", vinculado |-> FALSE] /\ m.vinculado = FALSE
    <3>1. [estado |-> "INVITADA", vinculado |-> FALSE] \in Miembro
      BY DEF Miembro
    <3>2. QED
      BY <3>1
  <2>3. /\ miembro[u] = NoMiembro /\ miembro' = [miembro EXCEPT ![u] = m]
        /\ roles' = [roles EXCEPT ![u] = peticion[q].roles] /\ peticion[q].roles \in SUBSET Roles
        /\ UNCHANGED <<permisos, reemplazado, reactivados>>
        /\ peticion' = [peticion EXCEPT ![q] = Quieta]
    BY <1>0, <1>1, <2>1, <2>2, PeticionForma DEF InvitarCrear, Responde
  <2>4. TipoAcc'
    BY <1>0, <2>3, QuietaForma DEF TipoAcc
  <2>5. /\ \A w \in Usuarios : miembro'[w] = IF w = u THEN m ELSE miembro[w]
        /\ \A w \in Usuarios \ {u} : roles'[w] = roles[w]
        /\ \A p \in Peticiones : peticion'[p] = IF p = q THEN Quieta ELSE peticion[p]
    BY <1>0, <2>3 DEF TipoAcc
  <2>6. \A p \in Peticiones : peticion'[p].op = "asignar" => roles'[peticion[p].usuario] = roles[peticion[p].usuario]
    BY <1>0, <2>3, <2>5, PeticionForma, QuietaForma DEF Cumple
  <2>7. \A w \in Usuarios : miembro'[w].vinculado => miembro'[w].estado # "INVITADA"
    BY <1>0, <2>2, <2>5
  <2>8. \A w \in Usuarios : miembro[w] # NoMiembro =>
           miembro'[w] # NoMiembro /\ (miembro[w].estado # "INVITADA" => miembro'[w].estado # "INVITADA")
    BY <2>3, <2>5
  <2>9. QED
    BY <2>3, <2>4, <2>6, <2>7, <2>8, AccTermina
<1>2. ASSUME NEW u \in Usuarios, NEW m \in Miembro, miembro[u] # NoMiembro,
             miembro' = [miembro EXCEPT ![u] = m], m.vinculado => m.estado # "INVITADA",
             miembro[u].estado # "INVITADA" => m.estado # "INVITADA", Fijar(u, m),
             UNCHANGED <<roles, permisos, reemplazado>>,
             peticion' = [peticion EXCEPT ![q] = Quieta] \/ peticion' = peticion
      PROVE  InvAcc'
  <2>1. reactivados' \in 0 .. MaxReactivaciones
    BY <1>0, <1>2, AccesosAssumption DEF Fijar, TipoAcc
  <2>2. TipoAcc'
    BY <1>0, <1>2, <2>1, QuietaForma DEF TipoAcc
  <2>3. \A w \in Usuarios : miembro'[w] = IF w = u THEN m ELSE miembro[w]
    BY <1>0, <1>2 DEF TipoAcc
  <2>4. \A w \in Usuarios : miembro'[w].vinculado => miembro'[w].estado # "INVITADA"
    BY <1>0, <1>2, <2>3
  <2>5. \A w \in Usuarios : miembro[w] # NoMiembro =>
           miembro'[w] # NoMiembro /\ (miembro[w].estado # "INVITADA" => miembro'[w].estado # "INVITADA")
    BY <1>2, <2>3, MiembroForma
  <2>6. QED
    BY <1>2, <2>2, <2>4, <2>5, AccTermina
<1>3. CASE IngresarAplicar(q)
  <2>1. PICK u \in Usuarios : u = peticion[q].usuario /\ miembro[u] \in Miembro
    BY <1>0, <1>3, PeticionForma DEF IngresarAplicar, Cumple
  <2>2. PICK e \in {"ACTIVA", "SUSPENDIDA", "REVOCADA"} :
          /\ Fijar(u, [estado |-> e, vinculado |-> TRUE])
          /\ UNCHANGED <<roles, permisos, reemplazado>>
          /\ peticion' = [peticion EXCEPT ![q] = Quieta]
    <3>1. peticion[q].leido.estado # "INVITADA" => miembro[u].estado \in {"ACTIVA", "SUSPENDIDA", "REVOCADA"}
      BY <1>0, <1>3, <2>1, MiembroForma DEF IngresarAplicar, Cumple
    <3>2. QED
      BY <1>3, <2>1, <3>1 DEF IngresarAplicar, Responde
  <2>3. PICK m \in Miembro : m = [estado |-> e, vinculado |-> TRUE] /\ m.estado = e
    <3>1. [estado |-> e, vinculado |-> TRUE] \in Miembro
      BY DEF Miembro
    <3>2. QED
      BY <3>1
  <2>4. miembro' = [miembro EXCEPT ![u] = m] /\ Fijar(u, m)
    BY <2>2, <2>3 DEF Fijar
  <2>5. m.estado # "INVITADA" /\ miembro[u] # NoMiembro
    BY <2>1, <2>3, MiembroForma
  <2>6. QED
    BY <1>2, <2>2, <2>4, <2>5
<1>4. ASSUME NEW u \in Usuarios, NEW e \in {"ACTIVA", "SUSPENDIDA", "REVOCADA"}, CambiarEstado(u, e)
      PROVE  InvAcc'
  <2>1. miembro[u] \in Miembro /\ miembro[u] # NoMiembro
    BY <1>0, <1>4 DEF CambiarEstado
  <2>2. PICK m \in Miembro : m = [miembro[u] EXCEPT !.estado = e] /\ m.estado = e
    <3>1. PICK d \in {"INVITADA", "ACTIVA", "SUSPENDIDA", "REVOCADA"}, b \in BOOLEAN :
            miembro[u] = [estado |-> d, vinculado |-> b]
      BY <2>1 DEF Miembro
    <3>2. [miembro[u] EXCEPT !.estado = e] = [estado |-> e, vinculado |-> b]
      BY <3>1
    <3>3. [estado |-> e, vinculado |-> b] \in Miembro
      BY DEF Miembro
    <3>4. QED
      BY <3>2, <3>3
  <2>3. /\ miembro' = [miembro EXCEPT ![u] = m] /\ Fijar(u, m)
        /\ UNCHANGED <<roles, permisos, reemplazado>> /\ peticion' = peticion
    BY <1>4, <2>2 DEF CambiarEstado, Fijar
  <2>4. m.estado # "INVITADA"
    BY <2>2
  <2>5. QED
    BY <1>2, <2>1, <2>3, <2>4
<1>5. QED
  BY <1>1, <1>3, <1>4

\* A set is replaced: that of a member or a role which nobody else is replacing.
LEMMA AccReemplaza ==
  ASSUME InvAcc, NEW q \in Peticiones, AsignarRolesAplicar(q) \/ AsignarPermisosAplicar(q)
  PROVE  InvAcc'
<1>0. /\ TipoAcc /\ peticion[q] \in Peticion
      /\ \A u \in Usuarios : miembro[u].vinculado => miembro[u].estado # "INVITADA"
      /\ \A p, r \in Peticiones : Choca(peticion[p], peticion[r]) => p = r
  BY AccPorPeticion DEF InvAcc, TipoAcc
<1>1. /\ UNCHANGED <<miembro, reactivados>> /\ UNCHANGED reemplazado
      /\ peticion' = [peticion EXCEPT ![q] = Quieta]
  BY DEF AsignarRolesAplicar, AsignarPermisosAplicar, Responde
<1>2. \A p \in Peticiones : peticion'[p] = IF p = q THEN Quieta ELSE peticion[p]
  BY <1>0, <1>1 DEF TipoAcc
<1>3. CASE AsignarRolesAplicar(q)
  <2>1. PICK u \in Usuarios, R \in SUBSET Roles :
          /\ u = peticion[q].usuario /\ peticion[q].op = "asignar"
          /\ roles' = [roles EXCEPT ![u] = R] /\ UNCHANGED permisos
    <3>1. /\ peticion[q].op = "asignar" /\ peticion[q].usuario \in Usuarios
          /\ peticion[q].roles \in SUBSET Roles
      BY <1>0, <1>3, PeticionForma DEF AsignarRolesAplicar
    <3>2. Reemplazo(roles[peticion[q].usuario], peticion[q].vistos, peticion[q].roles) \in SUBSET Roles
      BY <1>0, <3>1 DEF Reemplazo, TipoAcc
    <3>3. QED
      BY <1>3, <3>1, <3>2 DEF AsignarRolesAplicar
  <2>2. TipoAcc'
    BY <1>0, <1>1, <2>1, QuietaForma DEF TipoAcc
  <2>3. \A p \in Peticiones : peticion'[p].op = "asignar" /\ peticion[p].usuario \notin reemplazado
                                => roles'[peticion[p].usuario] = roles[peticion[p].usuario]
    BY <1>0, <1>2, <2>1, QuietaForma DEF Choca, TipoAcc
  <2>4. QED
    BY <1>0, <1>1, <2>1, <2>2, <2>3, AccTermina
<1>4. CASE AsignarPermisosAplicar(q)
  <2>1. PICK u \in Roles, R \in SUBSET Permisos :
          /\ u = peticion[q].rol /\ peticion[q].op = "permitir"
          /\ permisos' = [permisos EXCEPT ![u] = R] /\ UNCHANGED roles
    <3>1. /\ peticion[q].op = "permitir" /\ peticion[q].rol \in Roles
          /\ peticion[q].permisos \in SUBSET Permisos
      BY <1>0, <1>4, PeticionForma DEF AsignarPermisosAplicar
    <3>2. Reemplazo(permisos[peticion[q].rol], peticion[q].vistos, peticion[q].permisos) \in SUBSET Permisos
      BY <1>0, <3>1 DEF Reemplazo, TipoAcc
    <3>3. QED
      BY <1>4, <3>1, <3>2 DEF AsignarPermisosAplicar
  <2>2. TipoAcc'
    BY <1>0, <1>1, <2>1, QuietaForma DEF TipoAcc
  <2>3. \A p \in Peticiones : peticion'[p].op = "permitir" /\ peticion[p].rol \notin reemplazado
                                => permisos'[peticion[p].rol] = permisos[peticion[p].rol]
    BY <1>0, <1>2, <2>1, QuietaForma DEF Choca, TipoAcc
  <2>4. QED
    BY <1>0, <1>1, <2>1, <2>2, <2>3, AccTermina
<1>5. QED
  BY <1>3, <1>4

\* Every step about members, roles and permissions keeps it.
LEMMA AccPaso == InvAcc /\ [NextAcc]_varsAcc => InvAcc'
<1>1. ASSUME InvAcc, UNCHANGED varsAcc PROVE InvAcc'
  BY <1>1 DEF InvAcc, varsAcc, TipoAcc, Invitada, Reemplazando
<1>2. ASSUME InvAcc, NextAcc PROVE InvAcc'
  <2>1. Peticiones # {}
    BY AccesosAssumption
  <2>2. QED
    BY <1>2, <2>1, AccEmpieza, AccMiembro, AccReemplaza DEF NextAcc
<1>3. QED
  BY <1>1, <1>2

\* A tenant without members satisfies it.
LEMMA AccInit == InitAcc => InvAcc
<1>1. SUFFICES ASSUME InitAcc PROVE InvAcc
  OBVIOUS
<1>2. TipoAcc
  BY <1>1, QuietaForma, AccesosAssumption DEF InitAcc, TipoAcc
<1>3. Invitada /\ Reemplazando
  BY <1>1, QuietaForma, MiembroForma DEF InitAcc, Invitada, Reemplazando
<1>4. QED
  BY <1>2, <1>3 DEF InvAcc

\* A step of a request leaves the set it was asked for, unless two replaced it at once.
Completo ==
  /\ \A u \in Usuarios \ reemplazado : roles'[u] # roles[u] =>
       \E q \in Peticiones : peticion[q].op \in {"invitar", "asignar"} /\ roles'[u] = peticion[q].roles
  /\ \A r \in Roles \ reemplazado : permisos'[r] # permisos[r] =>
       \E q \in Peticiones : peticion[q].op = "permitir" /\ permisos'[r] = peticion[q].permisos

\* A step that replaces a set of roles or permissions leaves the set asked for, and what
\* others added in between.
LEMMA AccCompleto == InvAcc /\ [NextAcc]_varsAcc => Completo
<1>1. SUFFICES ASSUME InvAcc, [NextAcc]_varsAcc PROVE Completo
  OBVIOUS
<1>2. CASE UNCHANGED <<roles, permisos>>
  BY <1>2 DEF Completo
<1>3. ASSUME NEW q \in Peticiones, InvitarCrear(q) PROVE Completo
  <2>1. /\ peticion[q].op = "invitar" /\ UNCHANGED permisos
        /\ roles' = [roles EXCEPT ![peticion[q].usuario] = peticion[q].roles]
    BY <1>3 DEF InvitarCrear
  <2>2. \A u \in Usuarios : roles'[u] # roles[u] => roles'[u] = peticion[q].roles
    BY <1>1, <2>1 DEF InvAcc, TipoAcc
  <2>3. QED
    BY <2>1, <2>2 DEF Completo
<1>4. ASSUME NEW q \in Peticiones, AsignarRolesAplicar(q) PROVE Completo
  <2>1. PICK u \in Usuarios : u = peticion[q].usuario /\ peticion[q].op = "asignar"
    BY <1>1, <1>4, PeticionForma DEF AsignarRolesAplicar, InvAcc, TipoAcc
  <2>2. /\ UNCHANGED permisos
        /\ roles' = [roles EXCEPT ![u] = Reemplazo(@, peticion[q].vistos, peticion[q].roles)]
    BY <1>4, <2>1 DEF AsignarRolesAplicar
  <2>3. \A w \in Usuarios : roles'[w] # roles[w] =>
          w = u /\ roles'[w] = Reemplazo(roles[u], peticion[q].vistos, peticion[q].roles)
    BY <1>1, <2>2 DEF InvAcc, TipoAcc
  <2>4. u \notin reemplazado => peticion[q].vistos = roles[u]
    BY <1>1, <2>1 DEF InvAcc, Reemplazando
  <2>5. QED
    BY <2>1, <2>2, <2>3, <2>4 DEF Completo, Reemplazo
<1>5. ASSUME NEW q \in Peticiones, AsignarPermisosAplicar(q) PROVE Completo
  <2>1. PICK u \in Roles : u = peticion[q].rol /\ peticion[q].op = "permitir"
    BY <1>1, <1>5, PeticionForma DEF AsignarPermisosAplicar, InvAcc, TipoAcc
  <2>2. /\ UNCHANGED roles
        /\ permisos' = [permisos EXCEPT ![u] = Reemplazo(@, peticion[q].vistos, peticion[q].permisos)]
    BY <1>5, <2>1 DEF AsignarPermisosAplicar
  <2>3. \A w \in Roles : permisos'[w] # permisos[w] =>
          w = u /\ permisos'[w] = Reemplazo(permisos[u], peticion[q].vistos, peticion[q].permisos)
    BY <1>1, <2>2 DEF InvAcc, TipoAcc
  <2>4. u \notin reemplazado => peticion[q].vistos = permisos[u]
    BY <1>1, <2>1 DEF InvAcc, Reemplazando
  <2>5. QED
    BY <2>1, <2>2, <2>3, <2>4 DEF Completo, Reemplazo
<1>6. QED
  BY <1>1, <1>2, <1>3, <1>4, <1>5
     DEF NextAcc, varsAcc, IngresarAplicar, Rechazar, AsignarPermisosLeer, CambiarEstado, IngresarLeer,
         InvitarContar, AsignarRolesLeer

-----------------------------------------------------------------------------
(* Facturacion: invoices and the payments that cover them *)

\* Types of invoices, payments and requests.
TipoFac ==
  /\ factura \in [Facturas -> Factura \cup {NoFactura}]
  /\ abono \in [Abonos -> [factura : Facturas, monto : Montos] \cup {NoAbono}]
  /\ cobro \in [Cobros -> Cobro]
  /\ leidas \subseteq Facturas

\* Numbers given are distinct and within the count; one that was read is at most the next.
Numerada ==
  /\ \A f, h \in Emitidas : factura[f].numero = factura[h].numero => f = h
  /\ \A f \in Emitidas : factura[f].numero <= Cardinality(Emitidas)
  /\ \A c \in Cobros : cobro[c].op = "facturar" => cobro[c].numero <= Cardinality(Emitidas) + 1

\* Payments, recorded or in flight, are of invoices that exist.
ReferidasFac ==
  /\ \A a \in Abonos : abono[a] # NoAbono => abono[a].factura \in Emitidas
  /\ \A c \in Cobros : cobro[c].op = "pagar" => cobro[c].factura \in Emitidas

\* What a payment in flight read is covered by the payments recorded, and is still so
\* while no other had read the same invoice.
CobroCubierto ==
  /\ \A c \in Cobros, f \in Emitidas : cobro[c].op = "pagar" /\ cobro[c].factura = f =>
       /\ cobro[c].pagado <= PagadoDe(f)
       /\ f \notin leidas => cobro[c].pagado = factura[f].pagado
  /\ \A c, d \in Cobros :
       cobro[c].op = "pagar" /\ cobro[d].op = "pagar" /\ cobro[c].factura = cobro[d].factura
         => c = d \/ cobro[c].factura \in leidas

\* PagadaCubierta is one of its parts.
InvFac == TipoFac /\ Numerada /\ ReferidasFac /\ CobroCubierto /\ PagadaCubierta

\* What payment a gives to invoice f.
PagoDe(a, f) == IF abono[a].factura = f THEN abono[a].monto ELSE 0

\* Payments are naturals.
LEMMA PagadoForma ==
  ASSUME TipoFac, NEW f
  PROVE  /\ \A a \in Abonos : PagoDe(a, f) \in Nat
         /\ PagadoDe(f) = SumFunctionOnSet([a \in Abonos |-> PagoDe(a, f)], Abonos)
         /\ PagadoDe(f) \in Nat
<1>1. ASSUME NEW a \in Abonos PROVE PagoDe(a, f) \in Nat
  <2>1. abono[a] \in [factura : Facturas, monto : Montos] \cup {NoAbono}
    BY DEF TipoFac
  <2>2. abono[a].monto \in Nat
    <3>1. CASE abono[a] = NoAbono
      BY <3>1 DEF NoAbono
    <3>2. CASE abono[a] \in [factura : Facturas, monto : Montos]
      BY <3>2, FacturacionAssumption
    <3>3. QED
      BY <2>1, <3>1, <3>2
  <2>3. QED
    BY <2>2 DEF PagoDe
<1> DEFINE x == [a \in Abonos |-> PagoDe(a, f)]
<1>2. PagadoDe(f) = SumFunctionOnSet(x, Abonos)
  BY DEF PagadoDe, PagoDe
<1>3. \A a \in Abonos : x[a] \in Nat
  BY <1>1
<1>4. SumFunctionOnSet(x, Abonos) \in Nat
  <2> HIDE DEF x
  <2>1. QED
    BY <1>3, FacturacionAssumption, SumaNatural
<1>5. QED
  BY <1>1, <1>2, <1>4

\* A payment adds to its invoice and to no other.
LEMMA PagadoCambia ==
  ASSUME TipoFac, NEW a \in Abonos, abono[a] = NoAbono, NEW f \in Facturas, NEW m \in Montos,
         abono' = [abono EXCEPT ![a] = [factura |-> f, monto |-> m]], NEW g
  PROVE  PagadoDe(g)' = IF g = f THEN PagadoDe(g) + m ELSE PagadoDe(g)
<1> DEFINE x == [b \in Abonos |-> PagoDe(b, g)]
           y == [b \in Abonos |-> IF b = a THEN (IF g = f THEN m ELSE 0) ELSE PagoDe(b, g)]
<1>0. m \in Nat
  BY FacturacionAssumption
<1>1. PagadoDe(g)' = SumFunctionOnSet(y, Abonos)
  <2>1. \A b \in Abonos : y[b] = IF abono'[b].factura = g THEN abono'[b].monto ELSE 0
    BY DEF PagoDe, TipoFac
  <2>2. y = [b \in Abonos |-> IF abono'[b].factura = g THEN abono'[b].monto ELSE 0]
    BY <2>1
  <2> HIDE DEF y
  <2>3. QED
    BY <2>2 DEF PagadoDe
<1>2. PagadoDe(g) = SumFunctionOnSet(x, Abonos) /\ PagadoDe(g) \in Nat
  BY PagadoForma
<1>3. \A b \in Abonos : x[b] \in Int
  <2>1. \A b \in Abonos : PagoDe(b, g) \in Nat
    BY PagadoForma
  <2>2. QED
    BY <2>1
<1>4. /\ x[a] = 0 /\ y[a] = (IF g = f THEN m ELSE 0) /\ y[a] \in Int
      /\ \A b \in Abonos \ {a} : y[b] = x[b]
  BY <1>0 DEF PagoDe, NoAbono
<1> HIDE DEF x, y
<1>5. SumFunctionOnSet(y, Abonos) = SumFunctionOnSet(x, Abonos) - x[a] + y[a]
  BY <1>3, <1>4, FacturacionAssumption, SumaCambia
<1>6. QED
  BY <1>0, <1>1, <1>2, <1>4, <1>5

\* The payments of an invoice depend on the payments only.
LEMMA PagadoIgual ==
  ASSUME UNCHANGED abono, NEW f
  PROVE  PagadoDe(f)' = PagadoDe(f)
BY DEF PagadoDe

\* Nothing was paid of an invoice that was not issued.
LEMMA PagadoNulo ==
  ASSUME TipoFac, ReferidasFac, NEW f \in Facturas, f \notin Emitidas
  PROVE  PagadoDe(f) = 0
<1> DEFINE x == [a \in Abonos |-> PagoDe(a, f)]
<1>1. \A a \in Abonos : x[a] = 0
  BY DEF PagoDe, ReferidasFac, NoAbono
<1>2. PagadoDe(f) = SumFunctionOnSet(x, Abonos)
  BY PagadoForma
<1> HIDE DEF x
<1>3. QED
  BY <1>1, <1>2, FacturacionAssumption, SumaCero

\* What a request in flight holds.
LEMMA CobroForma ==
  ASSUME NEW x \in Cobro
  PROVE  /\ x.op = "facturar" => x.numero \in Nat \ {0}
         /\ x.op = "pagar" => /\ x.factura \in Facturas /\ x.abono \in Abonos /\ x.monto \in Montos
                              /\ x.pagado \in 0 .. Total
         /\ Inactivo \in Cobro /\ Inactivo.op = "inactivo"
  BY DEF Cobro, Inactivo

\* An existing invoice has a number and has been paid between nothing and its total.
LEMMA FacturaForma ==
  /\ \A x \in Factura : x # NoFactura /\ x.numero \in Nat \ {0} /\ x.pagado \in 0 .. Total
  /\ NoFactura.numero = 0
  BY DEF Factura, NoFactura

\* Invoices stay, and their count is that of a finite set.
LEMMA EmitidasForma ==
  ASSUME TipoFac
  PROVE  /\ \A f \in Emitidas : f \in Facturas /\ factura[f] \in Factura
         /\ IsFiniteSet(Emitidas) /\ Cardinality(Emitidas) \in Nat
<1>1. \A f \in Emitidas : f \in Facturas /\ factura[f] \in Factura
  BY DEF TipoFac, Emitidas
<1>2. IsFiniteSet(Emitidas)
  BY FacturacionAssumption, FS_Subset DEF Emitidas
<1>3. QED
  BY <1>1, <1>2, FS_CardinalityType

\* A request that reads or gives up keeps the invoices and the payments.
LEMMA FacCobro ==
  ASSUME InvFac, UNCHANGED <<factura, abono>>, NEW c \in Cobros, NEW x \in Cobro,
         cobro' = [cobro EXCEPT ![c] = x], leidas \subseteq leidas', leidas' \subseteq Facturas,
         x.op = "facturar" => x.numero <= Cardinality(Emitidas) + 1,
         x.op = "pagar" => /\ x.factura \in Emitidas
                           /\ x.pagado = factura[x.factura].pagado
                           /\ \A d \in Cobros : cobro[d].op = "pagar" /\ cobro[d].factura = x.factura
                                                  => x.factura \in leidas'
  PROVE  InvFac'
<1> USE DEF InvFac
<1>1. TipoFac'
  BY DEF TipoFac
<1>2. Emitidas' = Emitidas /\ \A f : PagadoDe(f)' = PagadoDe(f)
  BY PagadoIgual DEF Emitidas
<1>3. \A d \in Cobros : cobro'[d] = IF d = c THEN x ELSE cobro[d]
  BY DEF TipoFac
<1>4. Numerada'
  BY <1>2, <1>3 DEF Numerada
<1>5. ReferidasFac'
  BY <1>2, <1>3 DEF ReferidasFac
<1>6. CobroCubierto'
  <2>1. x.op = "pagar" => x.pagado <= PagadoDe(x.factura)
    BY DEF PagadaCubierta
  <2>2. QED
    BY <1>2, <1>3, <2>1 DEF CobroCubierto
<1>7. PagadaCubierta'
  BY <1>2 DEF PagadaCubierta
<1>8. QED
  BY <1>1, <1>4, <1>5, <1>6, <1>7

\* The new invoice has a number of its own and nothing paid.
LEMMA FacFacturar ==
  ASSUME InvFac, NEW c \in Cobros, NEW f \in Facturas, FacturarAplicar(c, f)
  PROVE  InvFac'
<1> USE DEF InvFac
<1>0. cobro[c] \in Cobro /\ cobro[c].op = "facturar"
  BY DEF FacturarAplicar, TipoFac
<1>1. PICK n \in Nat \ {0} : n = cobro[c].numero
  BY <1>0, CobroForma
<1>2. [numero |-> n, pagado |-> 0, estado |-> "ABIERTA"] \in Factura
  BY <1>1, FacturacionAssumption DEF Factura
<1>3. PICK x \in Factura : /\ x.numero = n /\ x.pagado = 0 /\ x.estado = "ABIERTA"
                           /\ factura' = [factura EXCEPT ![f] = x]
  BY <1>1, <1>2 DEF FacturarAplicar
<1>4. /\ factura[f] = NoFactura /\ f \notin Emitidas /\ UNCHANGED <<abono, leidas>>
      /\ \A h \in Facturas : factura'[h] = IF h = f THEN x ELSE factura[h]
      /\ \A h \in Facturas : factura[h].numero # n
  BY <1>1, <1>3 DEF FacturarAplicar, TipoFac, Emitidas
<1>5. Emitidas' = Emitidas \cup {f}
  BY <1>3, <1>4, FacturaForma DEF Emitidas
<1>6. IsFiniteSet(Emitidas) /\ Cardinality(Emitidas) \in Nat
  BY EmitidasForma
<1>7. Cardinality(Emitidas') = Cardinality(Emitidas) + 1
  BY <1>4, <1>5, <1>6, FS_AddElement
<1>8. \A d \in Cobros : cobro'[d] = IF d = c THEN Inactivo ELSE cobro[d]
  BY DEF FacturarAplicar, Acaba, TipoFac
<1>9. TipoFac'
  <2>1. cobro' \in [Cobros -> Cobro]
    BY <1>0, CobroForma DEF FacturarAplicar, Acaba, TipoFac
  <2>2. QED
    BY <1>3, <1>4, <2>1 DEF TipoFac
<1>10. \A g : PagadoDe(g)' = PagadoDe(g)
  BY <1>4, PagadoIgual
<1>11. n <= Cardinality(Emitidas) + 1
  BY <1>0, <1>1 DEF Numerada
<1>12. Numerada'
  <2>1. \A d \in Cobros : cobro'[d].op = "facturar" =>
          cobro[d].op = "facturar" /\ cobro'[d].numero = cobro[d].numero /\ cobro[d].numero \in Nat
    BY <1>8, CobroForma DEF TipoFac, Inactivo
  <2>2. \A d \in Cobros : cobro'[d].op = "facturar" => cobro'[d].numero <= Cardinality(Emitidas') + 1
    BY <1>6, <1>7, <2>1 DEF Numerada
  <2>3. \A h \in Emitidas' : h \in Facturas /\ (h = f \/ h \in Emitidas)
    BY <1>5, EmitidasForma
  <2>4. \A h \in Emitidas : factura[h].numero \in Nat
    BY EmitidasForma, FacturaForma
  <2>5. \A h \in Emitidas' : factura'[h].numero <= Cardinality(Emitidas')
    BY <1>3, <1>4, <1>6, <1>7, <1>11, <2>3, <2>4 DEF Numerada
  <2>6. \A h, k \in Emitidas' : factura'[h].numero = factura'[k].numero => h = k
    BY <1>3, <1>4, <2>3 DEF Numerada
  <2>7. QED
    BY <2>2, <2>5, <2>6 DEF Numerada
<1>13. ReferidasFac'
  BY <1>4, <1>5, <1>8 DEF ReferidasFac, Inactivo
<1>14. CobroCubierto'
  <2>1. \A d \in Cobros : cobro'[d].op = "pagar" =>
          cobro'[d] = cobro[d] /\ cobro[d].factura \in Emitidas
    BY <1>8 DEF ReferidasFac, Inactivo
  <2>2. \A h \in Emitidas : factura'[h] = factura[h]
    BY <1>4, EmitidasForma
  <2>3. QED
    BY <1>4, <1>10, <2>1, <2>2 DEF CobroCubierto
<1>15. PagadaCubierta'
  <2>1. PagadoDe(f)' = 0
    BY <1>4, <1>10, PagadoNulo
  <2>2. \A h \in Emitidas : factura'[h] = factura[h]
    BY <1>4, EmitidasForma
  <2>3. QED
    BY <1>3, <1>4, <1>5, <1>10, <2>1, <2>2 DEF PagadaCubierta
<1>16. QED
  BY <1>9, <1>12, <1>13, <1>14, <1>15

\* The sum written back is of what was read, which the payments recorded cover.
LEMMA FacPagar ==
  ASSUME InvFac, NEW c \in Cobros, PagarAplicar(c)
  PROVE  InvFac'
<1> USE DEF InvFac
<1>0. cobro[c] \in Cobro /\ cobro[c].op = "pagar"
  BY DEF PagarAplicar, TipoFac
<1>1. PICK f \in Facturas, a \in Abonos, m \in Montos, p \in 0 .. Total :
        f = cobro[c].factura /\ a = cobro[c].abono /\ m = cobro[c].monto /\ p = cobro[c].pagado
  BY <1>0, CobroForma
<1>2. m \in Nat /\ p \in Nat /\ Total \in Nat
  BY <1>1, FacturacionAssumption
<1>3. /\ abono[a] = NoAbono /\ p + m <= Total /\ UNCHANGED leidas
      /\ abono' = [abono EXCEPT ![a] = [factura |-> f, monto |-> m]]
      /\ factura' = [factura EXCEPT ![f].pagado = p + m,
                                    ![f].estado = IF p + m >= Total THEN "PAGADA" ELSE "ABIERTA"]
  BY <1>1 DEF PagarAplicar
<1>4. f \in Emitidas /\ factura[f] \in Factura
  BY <1>0, <1>1, EmitidasForma DEF ReferidasFac
<1>5. /\ factura'[f] \in Factura /\ factura'[f].numero = factura[f].numero
      /\ factura'[f].pagado = p + m
      /\ factura'[f].estado = IF p + m >= Total THEN "PAGADA" ELSE "ABIERTA"
      /\ \A h \in Facturas \ {f} : factura'[h] = factura[h]
      /\ factura' \in [Facturas -> Factura \cup {NoFactura}]
  <2>1. PICK e \in {"ABIERTA", "PAGADA"} : e = IF p + m >= Total THEN "PAGADA" ELSE "ABIERTA"
    OBVIOUS
  <2>2. /\ factura'[f] = [factura[f] EXCEPT !.pagado = p + m, !.estado = e]
        /\ \A h \in Facturas \ {f} : factura'[h] = factura[h]
        /\ DOMAIN factura' = Facturas /\ factura' = [h \in Facturas |-> factura'[h]]
    BY <1>3, <2>1 DEF TipoFac
  <2>3. p + m \in 0 .. Total
    BY <1>2, <1>3
  <2>4. /\ factura'[f] \in Factura /\ factura'[f].numero = factura[f].numero
        /\ factura'[f].pagado = p + m /\ factura'[f].estado = e
    BY <1>4, <2>2, <2>3 DEF Factura
  <2>5. \A h \in Facturas : factura'[h] \in Factura \cup {NoFactura}
    BY <2>2, <2>4 DEF TipoFac
  <2>6. QED
    BY <2>1, <2>2, <2>4, <2>5
<1>6. Emitidas' = Emitidas
  BY <1>4, <1>5, FacturaForma DEF Emitidas
<1>7. \A d \in Cobros : cobro'[d] = IF d = c THEN Inactivo ELSE cobro[d]
  BY DEF PagarAplicar, Acaba, TipoFac
<1>8. TipoFac'
  <2>1. cobro' \in [Cobros -> Cobro]
    BY <1>0, CobroForma DEF PagarAplicar, Acaba, TipoFac
  <2>2. abono' \in [Abonos -> [factura : Facturas, monto : Montos] \cup {NoAbono}]
    BY <1>3 DEF TipoFac
  <2>3. QED
    BY <1>3, <1>5, <2>1, <2>2 DEF TipoFac
<1>9. Numerada'
  <2>1. \A h \in Emitidas : h \in Facturas /\ factura'[h].numero = factura[h].numero
    BY <1>5, EmitidasForma
  <2>2. QED
    BY <1>6, <1>7, <2>1 DEF Numerada, Inactivo
<1>10. ReferidasFac'
  <2>1. \A b \in Abonos : abono'[b] = IF b = a THEN [factura |-> f, monto |-> m] ELSE abono[b]
    BY <1>3 DEF TipoFac
  <2>2. QED
    BY <1>4, <1>6, <1>7, <2>1 DEF ReferidasFac, Inactivo
<1>11. \A g : PagadoDe(g)' = IF g = f THEN PagadoDe(g) + m ELSE PagadoDe(g)
  BY <1>3, PagadoCambia
<1>12. \A g : PagadoDe(g) \in Nat
  BY PagadoForma
<1>13. p <= PagadoDe(f)
  BY <1>0, <1>1, <1>4 DEF CobroCubierto
<1>14. CobroCubierto'
  <2>1. \A d \in Cobros : cobro'[d].op = "pagar" =>
          /\ d # c /\ cobro'[d] = cobro[d] /\ cobro[d].op = "pagar"
          /\ cobro[d].factura \in Facturas /\ cobro[d].pagado \in Nat
    BY <1>7, CobroForma DEF TipoFac, Inactivo
  <2>2. ASSUME NEW d \in Cobros, NEW g \in Emitidas, cobro'[d].op = "pagar", cobro'[d].factura = g
        PROVE  /\ cobro'[d].pagado <= PagadoDe(g)'
               /\ g \notin leidas => cobro'[d].pagado = factura'[g].pagado
    <3>1. /\ cobro'[d].pagado \in Nat /\ cobro'[d].pagado <= PagadoDe(g)
          /\ g \notin leidas => cobro'[d].pagado = factura[g].pagado
      BY <2>1, <2>2 DEF CobroCubierto
    <3>2. PagadoDe(g)' \in Nat /\ PagadoDe(g) <= PagadoDe(g)'
      BY <1>2, <1>11, <1>12
    <3>3. PagadoDe(g) \in Nat
      BY <1>12
    <3>4. g \notin leidas => g # f
      BY <1>0, <1>1, <2>1, <2>2 DEF CobroCubierto
    <3>5. g # f => factura'[g] = factura[g]
      BY <1>5, EmitidasForma
    <3>6. QED
      BY <3>1, <3>2, <3>3, <3>4, <3>5
  <2>3. \A d, e \in Cobros :
          cobro'[d].op = "pagar" /\ cobro'[e].op = "pagar" /\ cobro'[d].factura = cobro'[e].factura
            => d = e \/ cobro'[d].factura \in leidas
    BY <2>1 DEF CobroCubierto
  <2>4. QED
    BY <1>3, <1>6, <2>2, <2>3 DEF CobroCubierto
<1>15. PagadaCubierta'
  <2>1. ASSUME NEW h \in Emitidas
        PROVE  /\ factura'[h].pagado <= PagadoDe(h)'
               /\ factura'[h].estado = "PAGADA" => PagadoDe(h)' >= Total
               /\ h \notin leidas => factura'[h].pagado = PagadoDe(h)'
    <3>1. CASE h = f
      <4>1. f \notin leidas => p = PagadoDe(f)
        BY <1>0, <1>1, <1>4 DEF CobroCubierto, PagadaCubierta
      <4>2. PagadoDe(h)' = PagadoDe(f) + m
        BY <1>11, <3>1
      <4>3. PagadoDe(f) \in Nat
        BY <1>12
      <4>4. QED
        BY <1>2, <1>5, <1>13, <3>1, <4>1, <4>2, <4>3
    <3>2. CASE h # f
      <4>1. factura'[h] = factura[h] /\ PagadoDe(h)' = PagadoDe(h)
        BY <1>5, <1>11, <3>2, EmitidasForma
      <4>2. QED
        BY <4>1 DEF PagadaCubierta
    <3>3. QED
      BY <3>1, <3>2
  <2>2. QED
    BY <1>3, <1>6, <2>1 DEF PagadaCubierta
<1>16. QED
  BY <1>8, <1>9, <1>10, <1>14, <1>15

\* Every step about invoices and their payments keeps the invariant.
LEMMA FacPaso == InvFac /\ [NextFac]_varsFac => InvFac'
<1> SUFFICES ASSUME InvFac, [NextFac]_varsFac PROVE InvFac'
  OBVIOUS
<1>1. ASSUME NEW c \in Cobros, FacturarLeer(c) PROVE InvFac'
  <2>1. Cardinality(Emitidas) + 1 \in Nat \ {0}
    BY EmitidasForma DEF InvFac
  <2>2. PICK x \in Cobro : x.op = "facturar" /\ x.numero = Cardinality(Emitidas) + 1
                           /\ cobro' = [cobro EXCEPT ![c] = x]
    BY <1>1, <2>1 DEF FacturarLeer, Inicia, Cobro
  <2>3. UNCHANGED <<factura, abono>> /\ leidas \subseteq leidas' /\ leidas' \subseteq Facturas
    BY <1>1 DEF FacturarLeer, InvFac, TipoFac
  <2>4. x.op # "pagar" /\ x.numero <= Cardinality(Emitidas) + 1
    BY <2>1, <2>2
  <2>5. QED
    BY <2>2, <2>3, <2>4, FacCobro
<1>2. ASSUME NEW c \in Cobros, NEW f \in Facturas, NEW a \in Abonos, NEW m \in Montos,
             PagarLeer(c, f, a, m)
      PROVE  InvFac'
  <2>1. f \in Emitidas /\ factura[f].pagado \in 0 .. Total
    BY <1>2, EmitidasForma, FacturaForma DEF PagarLeer, InvFac
  <2>2. PICK x \in Cobro : /\ x.op = "pagar" /\ x.factura = f /\ x.pagado = factura[f].pagado
                           /\ cobro' = [cobro EXCEPT ![c] = x]
    BY <1>2, <2>1 DEF PagarLeer, Inicia, Cobro
  <2>3. /\ UNCHANGED <<factura, abono>> /\ leidas \subseteq leidas' /\ leidas' \subseteq Facturas
        /\ \A d \in Cobros : cobro[d].op = "pagar" /\ cobro[d].factura = f => f \in leidas'
    BY <1>2 DEF PagarLeer, InvFac, TipoFac
  <2>4. QED
    BY <2>1, <2>2, <2>3, FacCobro
<1>3. ASSUME NEW c \in Cobros, NEW f \in Facturas, FacturarAplicar(c, f) PROVE InvFac'
  BY <1>3, FacFacturar
<1>4. ASSUME NEW c \in Cobros, PagarAplicar(c) PROVE InvFac'
  BY <1>4, FacPagar
<1>5. ASSUME NEW c \in Cobros, Deshacer(c) PROVE InvFac'
  <2>1. Inactivo \in Cobro /\ Inactivo.op = "inactivo"
    BY DEF Cobro, Inactivo
  <2>2. /\ cobro' = [cobro EXCEPT ![c] = Inactivo] /\ UNCHANGED <<factura, abono, leidas>>
        /\ leidas \subseteq Facturas
    BY <1>5 DEF Deshacer, Acaba, InvFac, TipoFac
  <2>3. QED
    BY <2>1, <2>2, FacCobro
<1>6. CASE UNCHANGED varsFac
  <2>1. UNCHANGED <<factura, abono, cobro, leidas>>
    BY <1>6 DEF varsFac
  <2>2. \A f : PagadoDe(f)' = PagadoDe(f)
    BY <2>1, PagadoIgual
  <2>3. QED
    BY <2>1, <2>2 DEF InvFac, TipoFac, Numerada, ReferidasFac, CobroCubierto, PagadaCubierta, Emitidas
<1>7. QED
  BY <1>1, <1>2, <1>3, <1>4, <1>5, <1>6 DEF NextFac

\* A tenant without invoices satisfies it.
LEMMA FacInit == InitFac => InvFac
<1> SUFFICES ASSUME InitFac PROVE InvFac
  OBVIOUS
<1>1. TipoFac /\ Emitidas = {}
  BY DEF InitFac, TipoFac, Emitidas, Cobro
<1>2. QED
  BY <1>1 DEF InitFac, InvFac, Numerada, ReferidasFac, CobroCubierto, PagadaCubierta, Inactivo

\* And it gives the types.
LEMMA FacFinal == InvFac => TypeOKFac
<1> SUFFICES ASSUME InvFac PROVE TypeOKFac
  OBVIOUS
<1>1. abono \in [Abonos -> [factura : Emitidas, monto : Montos] \cup {NoAbono}]
  BY DEF InvFac, TipoFac, ReferidasFac
<1>2. QED
  BY <1>1 DEF InvFac, TipoFac, Numerada, TypeOKFac

-----------------------------------------------------------------------------
(* Sucursales: one default warehouse *)

\* Types of warehouses, registers and requests, which name warehouses that exist.
TipoSuc ==
  /\ almacen \in [Almacenes -> Almacen \cup {NoAlmacen}]
  /\ caja \in [Cajas -> Existentes \cup {"AUSENTE", "ninguno"}]
  /\ tramite \in [Tramites -> Tramite]
  /\ \A t \in Tramites : tramite[t].op # "libre" => tramite[t].almacen \in Existentes

\* One default, as soon as there is a warehouse.
UnPredeterminado ==
  /\ \A w, x \in Almacenes : almacen[w].predeterminado /\ almacen[x].predeterminado => w = x
  /\ Existentes # {} => \E w \in Almacenes : almacen[w].predeterminado

InvSuc == TipoSuc /\ UnPredeterminado

\* What a request in flight holds.
LEMMA TramiteForma ==
  ASSUME NEW x \in Tramite
  PROVE  /\ x.op \in {"libre", "marcar", "marcando", "enlazar"}
         /\ x.op # "libre" => x.almacen \in Almacenes
         /\ x.op = "libre" => x = Libre
         /\ x.op = "enlazar" => x.caja \in Cajas
         /\ x.op = "marcando" => x.vistos \in SUBSET Almacenes
         /\ Libre \in Tramite /\ Libre.op = "libre"
  BY DEF Tramite, Libre

\* A warehouse is not the mark of a missing one.
LEMMA AlmacenForma ==
  /\ \A w \in Almacen : w # NoAlmacen /\ w.predeterminado \in BOOLEAN
  /\ ~NoAlmacen.predeterminado
  BY DEF Almacen, NoAlmacen

\* Unsetting the default of a missing warehouse leaves it missing.
LEMMA NoAlmacenFijo == [NoAlmacen EXCEPT !.predeterminado = FALSE] = NoAlmacen
<1>1. NoAlmacen \in [estado : {"AUSENTE"}, predeterminado : {FALSE}]
  BY DEF NoAlmacen
<1>2. QED
  BY <1>1

\* The warehouses that registers and requests name stay while no warehouse disappears.
LEMMA SucSigue ==
  ASSUME InvSuc, \A x \in Almacenes : almacen[x] # NoAlmacen => almacen'[x] # NoAlmacen,
         almacen' \in [Almacenes -> Almacen \cup {NoAlmacen}],
         UNCHANGED caja, tramite' \in [Tramites -> Tramite],
         \A t \in Tramites : tramite'[t] = tramite[t] \/ tramite'[t] = Libre
  PROVE  TipoSuc'
<1>1. Existentes \subseteq Existentes'
  BY DEF Existentes
<1>2. caja' \in [Cajas -> Existentes' \cup {"AUSENTE", "ninguno"}]
  BY <1>1 DEF InvSuc, TipoSuc
<1>3. \A t \in Tramites : tramite'[t].op # "libre" => tramite'[t].almacen \in Existentes'
  BY <1>1 DEF InvSuc, TipoSuc, Libre
<1>4. QED
  BY <1>2, <1>3 DEF TipoSuc

\* A step that leaves the warehouses alone and begins at most one request.
LEMMA SucTramite ==
  ASSUME InvSuc, almacen' = almacen, NEW t \in Tramites, NEW x \in Tramite,
         tramite' = [tramite EXCEPT ![t] = x], x.op # "libre" => x.almacen \in Existentes,
         caja' \in [Cajas -> Existentes \cup {"AUSENTE", "ninguno"}]
  PROVE  InvSuc'
<1>0. Existentes' = Existentes
  BY DEF Existentes
<1>1. TipoSuc'
  BY <1>0 DEF InvSuc, TipoSuc
<1>2. UnPredeterminado'
  BY DEF InvSuc, UnPredeterminado, Existentes
<1>3. QED
  BY <1>1, <1>2 DEF InvSuc

\* The first warehouse is created as the default one.
LEMMA SucCrear ==
  ASSUME InvSuc, NEW w \in Almacenes, CrearAlmacen(w)
  PROVE  InvSuc'
<1> DEFINE nuevo == [estado |-> "ACTIVO", predeterminado |-> Existentes = {}]
<1>1. nuevo \in Almacen /\ nuevo.predeterminado = (Existentes = {})
  BY DEF Almacen
<1>2. /\ almacen[w] = NoAlmacen /\ almacen'[w] = nuevo
      /\ \A x \in Almacenes \ {w} : almacen'[x] = almacen[x]
  BY DEF CrearAlmacen, InvSuc, TipoSuc
<1> HIDE DEF nuevo
<1>3. nuevo # NoAlmacen
  BY <1>1, AlmacenForma
<1>4. TipoSuc'
  <2>1. almacen' \in [Almacenes -> Almacen \cup {NoAlmacen}] /\ tramite' \in [Tramites -> Tramite]
        /\ UNCHANGED <<caja, tramite>>
    BY <1>1, <1>2 DEF CrearAlmacen, InvSuc, TipoSuc
  <2>2. QED
    BY <1>2, <1>3, <2>1, SucSigue
<1>5. UnPredeterminado'
  <2>1. CASE Existentes = {}
    <3>1. \A x \in Almacenes : almacen[x] = NoAlmacen
      BY <2>1 DEF Existentes
    <3>2. QED
      BY <1>1, <1>2, <2>1, <3>1, AlmacenForma DEF UnPredeterminado
  <2>2. CASE Existentes # {}
    BY <1>1, <1>2, <2>2, AlmacenForma DEF InvSuc, UnPredeterminado
  <2>3. QED
    BY <2>1, <2>2
<1>6. QED
  BY <1>4, <1>5 DEF InvSuc

\* Archiving or restoring a warehouse does not touch the default.
LEMMA SucEstado ==
  ASSUME InvSuc, NEW w \in Almacenes, NEW e \in {"ACTIVO", "ARCHIVADO"}, CambiarEstadoAlmacen(w, e)
  PROVE  InvSuc'
<1>1. almacen[w] \in Almacen
  BY DEF CambiarEstadoAlmacen, Existentes, InvSuc, TipoSuc
<1>2. /\ almacen'[w] \in Almacen /\ almacen'[w].predeterminado = almacen[w].predeterminado
      /\ \A x \in Almacenes \ {w} : almacen'[x] = almacen[x]
  BY <1>1 DEF CambiarEstadoAlmacen, Almacen, InvSuc, TipoSuc
<1>3. TipoSuc'
  <2>1. almacen' \in [Almacenes -> Almacen \cup {NoAlmacen}] /\ tramite' \in [Tramites -> Tramite]
        /\ UNCHANGED <<caja, tramite>>
    BY <1>2 DEF CambiarEstadoAlmacen, InvSuc, TipoSuc
  <2>2. QED
    BY <1>2, <2>1, SucSigue, AlmacenForma
<1>4. \A x \in Almacenes : /\ almacen'[x].predeterminado = almacen[x].predeterminado
                           /\ almacen'[x] = NoAlmacen <=> almacen[x] = NoAlmacen
  BY <1>1, <1>2, AlmacenForma
<1>5. UnPredeterminado'
  BY <1>4 DEF InvSuc, UnPredeterminado, Existentes
<1>6. QED
  BY <1>3, <1>5 DEF InvSuc

\* With the index no default is left but the new one.
LEMMA SucMarcar ==
  ASSUME InvSuc, NEW t \in Tramites, MarcarAplicar(t)
  PROVE  InvSuc'
<1>1. PICK w \in Almacenes, V \in SUBSET Almacenes : w = tramite[t].almacen /\ V = tramite[t].vistos
  BY TramiteForma DEF MarcarAplicar, InvSuc, TipoSuc
<1>2. almacen[w] \in Almacen
  BY <1>1 DEF MarcarAplicar, InvSuc, TipoSuc, Existentes
<1>3. \A x \in Almacenes : almacen[x].predeterminado => x \in V \cup {w}
  BY <1>1 DEF MarcarAplicar, Predeterminados
<1>4. \A x \in Almacenes : almacen'[x] =
        IF x = w THEN [almacen[x] EXCEPT !.predeterminado = TRUE]
        ELSE IF x \in V THEN [almacen[x] EXCEPT !.predeterminado = FALSE] ELSE almacen[x]
  BY <1>1 DEF MarcarAplicar
<1>5. almacen'[w] \in Almacen /\ almacen'[w].predeterminado
  BY <1>2, <1>4 DEF Almacen
<1>6. \A x \in Almacenes \ {w} :
        /\ almacen'[x] \in Almacen \cup {NoAlmacen}
        /\ almacen[x] # NoAlmacen => almacen'[x] # NoAlmacen
        /\ ~almacen'[x].predeterminado
  <2>1. SUFFICES ASSUME NEW x \in Almacenes \ {w}
                 PROVE  /\ almacen'[x] \in Almacen \cup {NoAlmacen}
                        /\ almacen[x] # NoAlmacen => almacen'[x] # NoAlmacen
                        /\ ~almacen'[x].predeterminado
    OBVIOUS
  <2>2. almacen[x] \in Almacen \cup {NoAlmacen}
    BY DEF InvSuc, TipoSuc
  <2>3. CASE x \notin V
    BY <1>3, <1>4, <2>2, <2>3
  <2>4. CASE x \in V
    <3>1. almacen'[x] = [almacen[x] EXCEPT !.predeterminado = FALSE]
      BY <1>4, <2>4
    <3>2. CASE almacen[x] = NoAlmacen
      BY <3>1, <3>2, NoAlmacenFijo, AlmacenForma
    <3>3. CASE almacen[x] \in Almacen
      <4>1. almacen'[x] \in Almacen /\ ~almacen'[x].predeterminado
        BY <3>1, <3>3 DEF Almacen
      <4>2. QED
        BY <4>1, AlmacenForma
    <3>4. QED
      BY <2>2, <3>2, <3>3
  <2>5. QED
    BY <2>3, <2>4
<1>7. TipoSuc'
  <2>1. almacen' \in [Almacenes -> Almacen \cup {NoAlmacen}]
    BY <1>5, <1>6 DEF MarcarAplicar
  <2>2. \A x \in Almacenes : almacen[x] # NoAlmacen => almacen'[x] # NoAlmacen
    BY <1>5, <1>6, AlmacenForma
  <2>3. tramite' \in [Tramites -> Tramite]
    BY TramiteForma DEF MarcarAplicar, Despacha, InvSuc, TipoSuc
  <2>4. UNCHANGED caja /\ \A u \in Tramites : tramite'[u] = tramite[u] \/ tramite'[u] = Libre
    BY DEF MarcarAplicar, Despacha, InvSuc, TipoSuc
  <2>5. QED
    BY <2>1, <2>2, <2>3, <2>4, SucSigue
<1>8. UnPredeterminado'
  BY <1>5, <1>6 DEF UnPredeterminado
<1>9. QED
  BY <1>7, <1>8 DEF InvSuc

\* A request of the branch begins or ends.
LEMMA SucPide ==
  ASSUME InvSuc, NEW t \in Tramites,
         \/ MarcarVer(t) \/ EnlazarAplicar(t) \/ Desistir(t)
         \/ \E w \in Almacenes : MarcarLeer(t, w) \/ \E c \in Cajas : EnlazarLeer(t, c, w)
  PROVE  InvSuc'
<1>0. /\ caja \in [Cajas -> Existentes \cup {"AUSENTE", "ninguno"}]
      /\ tramite[t] \in Tramite /\ (tramite[t].op # "libre" => tramite[t].almacen \in Existentes)
      /\ Existentes \subseteq Almacenes /\ Libre \in Tramite /\ Libre.op = "libre"
  BY TramiteForma DEF InvSuc, TipoSuc, Existentes
<1>1. ASSUME NEW w \in Almacenes, MarcarLeer(t, w)
      PROVE  InvSuc'
  <2>1. PICK x \in Tramite : x.almacen = w /\ tramite' = [tramite EXCEPT ![t] = x]
    BY <1>1 DEF MarcarLeer, Tramita, Tramite
  <2>2. w \in Existentes /\ UNCHANGED <<almacen, caja>>
    BY <1>1 DEF MarcarLeer, Activos, NoAlmacen, Existentes
  <2>3. QED
    BY <1>0, <2>1, <2>2, SucTramite
<1>2. CASE MarcarVer(t)
  <2>1. PICK w \in Existentes : w = tramite[t].almacen
    BY <1>0, <1>2 DEF MarcarVer
  <2>2. PICK x : x = [op |-> "marcando", almacen |-> w, vistos |-> Predeterminados \ {w}]
    OBVIOUS
  <2>3. x \in Tramite /\ x.almacen = w
    BY <1>0, <2>1, <2>2 DEF Tramite, Predeterminados
  <2>4. UNCHANGED <<almacen, caja>> /\ tramite' = [tramite EXCEPT ![t] = x]
    BY <1>2, <2>1, <2>2 DEF MarcarVer
  <2>5. QED
    BY <1>0, <2>1, <2>3, <2>4, SucTramite
<1>3. ASSUME NEW w \in Almacenes, NEW c \in Cajas, EnlazarLeer(t, c, w)
      PROVE  InvSuc'
  <2>1. PICK x \in Tramite : x.almacen = w /\ tramite' = [tramite EXCEPT ![t] = x]
    BY <1>3 DEF EnlazarLeer, Tramita, Tramite
  <2>2. w \in Existentes /\ UNCHANGED <<almacen, caja>>
    BY <1>3 DEF EnlazarLeer, Activos, NoAlmacen, Existentes
  <2>3. QED
    BY <1>0, <2>1, <2>2, SucTramite
<1>4. CASE EnlazarAplicar(t)
  <2>1. tramite[t].almacen \in Existentes /\ tramite[t].caja \in Cajas
    BY <1>0, <1>4, TramiteForma DEF EnlazarAplicar
  <2>2. UNCHANGED almacen /\ tramite' = [tramite EXCEPT ![t] = Libre]
        /\ caja' = [caja EXCEPT ![tramite[t].caja] = tramite[t].almacen]
    BY <1>4 DEF EnlazarAplicar, Despacha
  <2>3. caja' \in [Cajas -> Existentes \cup {"AUSENTE", "ninguno"}]
    BY <1>0, <2>1, <2>2
  <2>4. QED
    BY <1>0, <2>2, <2>3, SucTramite
<1>5. CASE Desistir(t)
  BY <1>0, <1>5, SucTramite DEF Desistir, Despacha
<1>6. QED
  BY <1>1, <1>2, <1>3, <1>4, <1>5

\* The invariant is inductive.
LEMMA SucPaso == InvSuc /\ [NextSuc]_varsSuc => InvSuc'
<1> SUFFICES ASSUME InvSuc, [NextSuc]_varsSuc
             PROVE  InvSuc'
  OBVIOUS
<1>1. ASSUME NEW w \in Almacenes, CrearAlmacen(w)
      PROVE  InvSuc'
  BY <1>1, SucCrear
<1>2. ASSUME NEW w \in Almacenes, NEW e \in {"ACTIVO", "ARCHIVADO"}, CambiarEstadoAlmacen(w, e)
      PROVE  InvSuc'
  BY <1>2, SucEstado
<1>3. ASSUME NEW t \in Tramites, MarcarAplicar(t)
      PROVE  InvSuc'
  BY <1>3, SucMarcar
<1>4. ASSUME NEW c \in Cajas, Desenlazar(c)
      PROVE  InvSuc'
  <2>1. UNCHANGED <<almacen, tramite>> /\ caja' = [caja EXCEPT ![c] = "ninguno"]
    BY <1>4 DEF Desenlazar
  <2>2. Existentes' = Existentes
    BY <2>1 DEF Existentes
  <2>3. QED
    BY <2>1, <2>2 DEF InvSuc, TipoSuc, UnPredeterminado
<1>5. CASE UNCHANGED varsSuc
  BY <1>5 DEF varsSuc, InvSuc, TipoSuc, UnPredeterminado, Existentes
<1>6. QED
  BY <1>1, <1>2, <1>3, <1>4, <1>5, SucPide DEF NextSuc

\* A tenant without warehouses satisfies the invariant of warehouses.
LEMMA SucInit == InitSuc => InvSuc
<1>1. SUFFICES ASSUME InitSuc PROVE InvSuc
  OBVIOUS
<1>2. Existentes = {} /\ Libre \in Tramite /\ Libre.op = "libre"
  BY <1>1 DEF InitSuc, Existentes, Tramite, Libre
<1>3. TipoSuc
  BY <1>1, <1>2 DEF InitSuc, TipoSuc
<1>4. UnPredeterminado
  BY <1>1, <1>2, AlmacenForma DEF InitSuc, UnPredeterminado
<1>5. QED
  BY <1>3, <1>4 DEF InvSuc

\* Every part of the property follows.
LEMMA SucFinal == InvSuc => ConPredeterminado /\ TypeOKSuc
<1> SUFFICES ASSUME InvSuc
             PROVE  ConPredeterminado /\ TypeOKSuc
  OBVIOUS
<1>1. ASSUME Existentes # {}
      PROVE  Cardinality(Predeterminados) = 1
  <2>1. PICK w \in Almacenes : Predeterminados = {w}
    BY <1>1 DEF InvSuc, UnPredeterminado, Predeterminados
  <2>2. QED
    BY <2>1, FS_Singleton
<1>2. ASSUME NEW c \in Cajas, NEW w \in Almacenes, NEW x \in Almacenes,
             PuedeDespachar(c, w), PuedeDespachar(c, x)
      PROVE  w = x
  BY <1>2 DEF PuedeDespachar, Predeterminados, InvSuc, UnPredeterminado
<1>3. TypeOKSuc
  BY TramiteForma DEF InvSuc, TipoSuc, TypeOKSuc
<1>4. QED
  BY <1>1, <1>2, <1>3 DEF ConPredeterminado

-----------------------------------------------------------------------------
(* Catalogo: the control of stock *)

\* Types of variants, pieces, lines and requests.
TipoCat ==
  /\ variante \in [Variantes -> Variante \cup {NoVariante}]
  /\ piezas \in [Variantes -> Nat]
  /\ transito \in [Variantes -> Nat]
  /\ linea \in [Lineas -> Linea \cup {NoLinea}]
  /\ trabajo \in [Trabajos -> Trabajo]

\* A request is about a variant or a line that is there.
Refiere(q) ==
  /\ q.op \in {"apagar", "archivar"} => variante[q.variante] # NoVariante
  /\ q.op = "devolver" => linea[q.linea] # NoLinea

Referidos == \A t \in Trabajos : Refiere(trabajo[t])

\* The request will turn v off; it will put pieces of v in.
Apaga(q, v) ==
  \/ q.op = "apagar" /\ q.variante = v
  \/ q.op = "servicio" /\ variante[v].producto = q.producto
Suma(q, v) ==
  /\ q.variante = v
  /\ \/ q.op = "entrar"
     \/ q.op = "devolver" /\ q.control

\* A variant without control, or about to lose it, has no pieces, and nobody is bringing any in.
LimpiaEn(v) ==
  /\ ~variante[v].control => piezas[v] = 0
  /\ \A t \in Trabajos : Apaga(trabajo[t], v) => piezas[v] = 0
  /\ \A t, u \in Trabajos : Suma(trabajo[t], v) => variante[v].control /\ ~Apaga(trabajo[u], v)

Limpia == \A v \in Variantes \ (cruzados \cup llegadas) : LimpiaEn(v)

\* What every behaviour of the catalogue keeps.
InvCat == TipoCat /\ Referidos /\ Limpia

\* What a catalogue or stock request in flight names, by its kind.
LEMMA TrabajoForma ==
  ASSUME NEW x \in Trabajo
  PROVE  /\ x.op \in {"apagar", "archivar", "entrar", "transferir", "vender", "devolver"} =>
              x.variante \in Variantes
         /\ x.op = "servicio" => x.producto \in Productos
         /\ x.op \in {"vender", "devolver"} => x.linea \in Lineas /\ x.control \in BOOLEAN
         /\ x.op = "devolver" => x.restock \in BOOLEAN
         /\ Parado \in Trabajo /\ Parado.op = "parado"
  BY DEF Trabajo, Parado, Mueve

\* An idle request of the catalogue.
LEMMA ParadoForma == Parado \in Trabajo /\ Parado.op = "parado"
  BY DEF Trabajo, Parado

\* A variant is being turned off when some request in flight is about to do it.
LEMMA ApagaEnVuelo ==
  ASSUME NEW v \in Variantes
  PROVE  v \in Apagandose <=> \E t \in Trabajos : Apaga(trabajo[t], v)
<1>1. ASSUME NEW t \in Trabajos
      PROVE  v \in Alcance(trabajo[t]) <=> Apaga(trabajo[t], v)
  BY DEF Alcance, Apaga, De
<1>2. QED
  BY <1>1 DEF Apagandose

\* A request in flight that will add pieces counts as a movement of its variant.
LEMMA SumaEnVuelo ==
  ASSUME NEW v \in Variantes, NEW t \in Trabajos, Suma(trabajo[t], v)
  PROVE  v \in Moviendose
  BY DEF Suma, Moviendose, Mueve

\* An existing variant; the absent one has no control.
LEMMA VarianteForma ==
  /\ \A x \in Variante : x # NoVariante /\ x.control \in BOOLEAN
  /\ NoVariante.control = FALSE /\ [NoVariante EXCEPT !.control = FALSE] = NoVariante
<1>1. NoVariante \in [producto : {"ninguno"}, activa : {FALSE}, control : {FALSE}]
  BY DEF NoVariante
<1>2. [NoVariante EXCEPT !.control = FALSE] = NoVariante
  BY <1>1
<1>3. \A x \in Variante : x # NoVariante /\ x.control \in BOOLEAN
  BY CatalogoAssumption DEF CatalogoAssumption, Variante, NoVariante
<1>4. QED
  BY <1>1, <1>2, <1>3

\* An existing sale line is not the absent one.
LEMMA LineaForma == \A x \in Linea : x # NoLinea
  BY CatalogoAssumption DEF CatalogoAssumption, Linea, NoLinea

\* A request begins, or ends without writing.
LEMMA CatTrabajo ==
  ASSUME InvCat, UNCHANGED <<variante, piezas, transito, linea>>,
         cruzados \subseteq cruzados', llegadas \subseteq llegadas',
         NEW t \in Trabajos, NEW x \in Trabajo, trabajo' = [trabajo EXCEPT ![t] = x], Refiere(x),
         \A v \in Variantes \ (cruzados' \cup llegadas') :
           /\ Apaga(x, v) => piezas[v] = 0 /\ \A u \in Trabajos : ~Suma(trabajo[u], v)
           /\ Suma(x, v) => variante[v].control /\ \A u \in Trabajos : ~Apaga(trabajo[u], v)
  PROVE  InvCat'
<1>1. TipoCat'
  BY DEF InvCat, TipoCat
<1>2. \A u \in Trabajos : trabajo'[u] = IF u = t THEN x ELSE trabajo[u]
  BY DEF InvCat, TipoCat
<1>3. Referidos'
  BY <1>2 DEF InvCat, Referidos, Refiere
<1>4. ASSUME NEW v \in Variantes \ (cruzados' \cup llegadas')
      PROVE  LimpiaEn(v)'
  <2>1. LimpiaEn(v)
    BY DEF InvCat, Limpia
  <2>2. \A u \in Trabajos : /\ Apaga(trabajo[u], v)' <=> IF u = t THEN Apaga(x, v) ELSE Apaga(trabajo[u], v)
                            /\ Suma(trabajo[u], v)' <=> IF u = t THEN Suma(x, v) ELSE Suma(trabajo[u], v)
    BY <1>2 DEF Apaga, Suma
  <2>3. ~(Apaga(x, v) /\ Suma(x, v))
    BY DEF Apaga, Suma
  <2>4. variante'[v] = variante[v] /\ piezas'[v] = piezas[v]
    OBVIOUS
  <2>5. QED
    BY <2>1, <2>2, <2>3, <2>4 DEF LimpiaEn
<1>5. QED
  BY <1>1, <1>3, <1>4 DEF InvCat, Limpia

\* A movement: only a variant that nobody turns off gets pieces.
LEMMA CatMueve ==
  ASSUME InvCat, variante' = variante,
         piezas' \in [Variantes -> Nat], transito' \in [Variantes -> Nat],
         linea' \in [Lineas -> Linea \cup {NoLinea}],
         \A l \in Lineas : linea[l] # NoLinea => linea'[l] # NoLinea,
         cruzados \subseteq cruzados', llegadas \subseteq llegadas',
         trabajo' \in [Trabajos -> Trabajo],
         \A u \in Trabajos : trabajo'[u] \in {trabajo[u], Parado},
         \A v \in Variantes \ (cruzados' \cup llegadas') :
           \/ piezas[v] = 0 => piezas'[v] = 0
           \/ variante[v].control /\ \A u \in Trabajos : ~Apaga(trabajo[u], v)
  PROVE  InvCat'
<1>1. TipoCat'
  BY DEF InvCat, TipoCat
<1>2. Referidos'
  <2>1. SUFFICES ASSUME NEW u \in Trabajos
                 PROVE  Refiere(trabajo[u])'
    BY DEF Referidos
  <2>2. CASE trabajo'[u] = Parado
    BY <2>2 DEF Refiere, Parado
  <2>3. CASE trabajo'[u] = trabajo[u]
    BY <2>3, TrabajoForma DEF InvCat, TipoCat, Referidos, Refiere
  <2>4. QED
    BY <2>2, <2>3
<1>3. ASSUME NEW v \in Variantes \ (cruzados' \cup llegadas')
      PROVE  LimpiaEn(v)'
  <2>1. LimpiaEn(v)
    BY DEF InvCat, Limpia
  <2>2. \A u \in Trabajos : /\ Apaga(trabajo[u], v)' => Apaga(trabajo[u], v)
                            /\ Suma(trabajo[u], v)' => Suma(trabajo[u], v)
    BY DEF Apaga, Suma, Parado
  <2>3. variante'[v] = variante[v]
    OBVIOUS
  <2>4. QED
    BY <2>1, <2>2, <2>3 DEF LimpiaEn
<1>4. QED
  BY <1>1, <1>2, <1>3 DEF InvCat, Limpia

\* The variants change: none gets pieces, and none loses the control but those without any.
LEMMA CatVariantes ==
  ASSUME InvCat, UNCHANGED <<transito, linea>>,
         variante' \in [Variantes -> Variante \cup {NoVariante}],
         piezas' \in [Variantes -> Nat],
         \A v \in Variantes : variante[v] # NoVariante => variante'[v] # NoVariante,
         cruzados \subseteq cruzados', llegadas \subseteq llegadas',
         trabajo' \in [Trabajos -> Trabajo],
         \A u \in Trabajos : trabajo'[u] \in {trabajo[u], Parado},
         \A v \in Variantes \ (cruzados' \cup llegadas') :
           /\ ~variante'[v].control => piezas'[v] = 0 /\ \A u \in Trabajos : ~Suma(trabajo[u], v)
           /\ \A u \in Trabajos : Apaga(trabajo[u], v)' => Apaga(trabajo[u], v) /\ piezas'[v] = 0
  PROVE  InvCat'
<1>1. TipoCat'
  BY DEF InvCat, TipoCat
<1>2. Referidos'
  <2>1. SUFFICES ASSUME NEW u \in Trabajos
                 PROVE  Refiere(trabajo[u])'
    BY DEF Referidos
  <2>2. CASE trabajo'[u] = Parado
    BY <2>2 DEF Refiere, Parado
  <2>3. CASE trabajo'[u] = trabajo[u]
    BY <2>3, TrabajoForma DEF InvCat, TipoCat, Referidos, Refiere
  <2>4. QED
    BY <2>2, <2>3
<1>3. ASSUME NEW v \in Variantes \ (cruzados' \cup llegadas')
      PROVE  LimpiaEn(v)'
  <2>1. LimpiaEn(v)
    BY DEF InvCat, Limpia
  <2>2. \A u \in Trabajos : Suma(trabajo[u], v)' => Suma(trabajo[u], v)
    BY DEF Suma, Parado
  <2>3. QED
    BY <2>1, <2>2 DEF LimpiaEn
<1>4. QED
  BY <1>1, <1>2, <1>3 DEF InvCat, Limpia

\* Ending a request leaves every other one as it was.
LEMMA CatAcude ==
  ASSUME InvCat, NEW t \in Trabajos, Acude(t)
  PROVE  /\ trabajo' \in [Trabajos -> Trabajo]
         /\ \A u \in Trabajos : trabajo'[u] \in {trabajo[u], Parado}
  BY TrabajoForma DEF InvCat, TipoCat, Acude

\* The request is about a variant that nobody turns off, when it puts a piece in.
LEMMA CatSuma ==
  ASSUME InvCat, NEW t \in Trabajos, NEW v \in Variantes \ (cruzados \cup llegadas),
         Suma(trabajo[t], v)
  PROVE  variante[v].control /\ \A u \in Trabajos : ~Apaga(trabajo[u], v)
  BY DEF InvCat, Limpia, LimpiaEn

\* A variant with pieces that no movement has crossed has control, and nobody is turning it
\* off.
LEMMA CatConPiezas ==
  ASSUME InvCat, NEW v \in Variantes \ (cruzados \cup llegadas), piezas[v] # 0
  PROVE  variante[v].control /\ \A u \in Trabajos : ~Apaga(trabajo[u], v)
  BY DEF InvCat, Limpia, LimpiaEn

\* A new variant, alone or with its product, keeps the invariant.
LEMMA CatNueva ==
  ASSUME InvCat, NEW v \in Variantes, NEW p \in Productos, NEW c \in BOOLEAN, NEW n \in 0 .. MaxPiezas,
         Nueva(v, p, c, n), UNCHANGED <<transito, linea, llegadas>>,
         trabajo' \in [Trabajos -> Trabajo],
         \A u \in Trabajos : trabajo'[u] \in {trabajo[u], Parado}
  PROVE  InvCat'
<1> DEFINE nueva == [producto |-> p, activa |-> TRUE, control |-> c]
<1>a. nueva \in Variante /\ nueva.producto = p /\ nueva.control = c
  BY DEF Variante
<1>1. PICK x \in Variante : /\ x = nueva
                            /\ x.producto = p /\ x.control = c /\ x # NoVariante
  BY <1>a, VarianteForma
<1>2. /\ variante' = [variante EXCEPT ![v] = x] /\ piezas' = [piezas EXCEPT ![v] = n]
      /\ n \in Nat /\ variante[v] = NoVariante /\ (~c => n = 0)
  BY <1>1, CatalogoAssumption DEF CatalogoAssumption, Nueva
<1>3. \A w \in Variantes : /\ variante'[w] = IF w = v THEN x ELSE variante[w]
                           /\ piezas'[w] = IF w = v THEN n ELSE piezas[w]
  BY <1>2 DEF InvCat, TipoCat
<1>4. variante' \in [Variantes -> Variante \cup {NoVariante}] /\ piezas' \in [Variantes -> Nat]
  BY <1>1, <1>2 DEF InvCat, TipoCat
<1>5. ASSUME NEW w \in Variantes \ (cruzados' \cup llegadas')
      PROVE  /\ ~variante'[w].control => piezas'[w] = 0 /\ \A u \in Trabajos : ~Suma(trabajo[u], w)
             /\ \A u \in Trabajos : Apaga(trabajo[u], w)' => Apaga(trabajo[u], w) /\ piezas'[w] = 0
  <2>1. w \notin cruzados \cup llegadas
    BY DEF Nueva, Cruza
  <2>2. LimpiaEn(w)
    BY <2>1 DEF InvCat, Limpia
  <2>3. CASE w # v
    BY <1>3, <2>2, <2>3 DEF LimpiaEn, Apaga, Suma, Parado
  <2>4. CASE w = v
    <3>1. \A u \in Trabajos : ~Suma(trabajo[u], w)
      BY <1>2, <2>2, <2>4 DEF LimpiaEn, NoVariante
    <3>2. \A u \in Trabajos : ~(trabajo[u].op = "servicio" /\ trabajo[u].producto = p)
      BY <2>4 DEF Nueva, Cruza
    <3>3. \A u \in Trabajos : ~Apaga(trabajo[u], w)'
      BY <1>1, <1>2, <1>3, <2>4, <3>2, TrabajoForma DEF Apaga, Parado, InvCat, TipoCat, Referidos, Refiere
    <3>4. QED
      BY <1>1, <1>2, <1>3, <2>4, <3>1, <3>3
  <2>5. QED
    BY <2>3, <2>4
<1>6. \A w \in Variantes : variante[w] # NoVariante => variante'[w] # NoVariante
  BY <1>1, <1>3
<1>7. cruzados \subseteq cruzados'
  BY DEF Nueva, Cruza
<1>8. QED
  BY <1>4, <1>5, <1>6, <1>7, CatVariantes

\* The variants turned off had no pieces when they were read, and no movement came in between.
LEMMA CatApagar ==
  ASSUME InvCat, NEW t \in Trabajos, ApagarAplicar(t)
  PROVE  InvCat'
<1>1. \A v \in Variantes : v \in Alcance(trabajo[t]) => Apaga(trabajo[t], v)
  BY DEF Alcance, Apaga, De
<1>2. \A v \in Variantes : variante'[v] = IF v \in Alcance(trabajo[t])
                                          THEN [variante[v] EXCEPT !.control = FALSE] ELSE variante[v]
  BY DEF ApagarAplicar
<1>3. ASSUME NEW v \in Variantes
      PROVE  /\ variante'[v] \in Variante \cup {NoVariante}
             /\ variante[v] # NoVariante => variante'[v] # NoVariante
             /\ variante'[v].producto = variante[v].producto
             /\ v \notin Alcance(trabajo[t]) => variante'[v].control = variante[v].control
  <2>1. CASE variante[v] = NoVariante
    BY <1>2, <2>1, VarianteForma
  <2>2. CASE variante[v] \in Variante
    <3>1. variante'[v] \in Variante /\ variante'[v].producto = variante[v].producto
      BY <1>2, <2>2 DEF Variante
    <3>2. variante'[v] # NoVariante
      BY <3>1, VarianteForma
    <3>3. QED
      BY <1>2, <3>1, <3>2
  <2>3. QED
    BY <2>1, <2>2 DEF InvCat, TipoCat
<1>4. variante' \in [Variantes -> Variante \cup {NoVariante}]
  BY <1>3 DEF ApagarAplicar
<1>5. ASSUME NEW v \in Variantes \ (cruzados' \cup llegadas')
      PROVE  /\ ~variante'[v].control => piezas'[v] = 0 /\ \A u \in Trabajos : ~Suma(trabajo[u], v)
             /\ \A u \in Trabajos : Apaga(trabajo[u], v)' => Apaga(trabajo[u], v) /\ piezas'[v] = 0
  <2>1. LimpiaEn(v) /\ piezas' = piezas
    BY DEF InvCat, Limpia, ApagarAplicar
  <2>2. ~variante'[v].control => ~variante[v].control \/ Apaga(trabajo[t], v)
    BY <1>1, <1>3
  <2>3. \A u \in Trabajos : Apaga(trabajo[u], v)' => Apaga(trabajo[u], v)
    BY <1>3, CatAcude DEF ApagarAplicar, Apaga, Parado
  <2>4. QED
    BY <2>1, <2>2, <2>3 DEF LimpiaEn
<1>6. QED
  BY <1>3, <1>4, <1>5, CatVariantes, CatAcude DEF ApagarAplicar, InvCat, TipoCat

\* The reads keep it.
LEMMA CatEmpieza ==
  ASSUME InvCat, NEW t \in Trabajos,
         \/ CrearProductoContar(t) \/ Renunciar(t)
         \/ \E p \in Productos : ConvertirLeer(t, p)
         \/ \E l \in Lineas, s \in BOOLEAN : DevolverLeer(t, l, s)
         \/ \E v \in Variantes :
              \/ ArchivarVarianteLeer(t, v) \/ ApagarLeer(t, v)
              \/ \E que \in Mueve : MoverLeer(t, v, que)
              \/ \E l \in Lineas, c \in Cajas : VenderLeer(t, l, v, c)
  PROVE  InvCat'
<1>1. CASE CrearProductoContar(t) \/ Renunciar(t)
  <2>1. PICK x \in {[op |-> "crear"], Parado} : trabajo' = [trabajo EXCEPT ![t] = x]
    BY <1>1 DEF CrearProductoContar, Renunciar, Emprende, Acude
  <2>2. x \in Trabajo /\ x.op \in {"crear", "parado"}
    BY DEF Trabajo, Parado
  <2>3. Refiere(x) /\ \A v \in Variantes : ~Apaga(x, v) /\ ~Suma(x, v)
    BY <2>2 DEF Refiere, Apaga, Suma
  <2>4. UNCHANGED <<variante, piezas, transito, linea, cruzados, llegadas>>
    BY <1>1 DEF CrearProductoContar, Renunciar, historia
  <2>5. QED
    BY <2>1, <2>2, <2>3, <2>4, CatTrabajo
<1>2. ASSUME NEW p \in Productos, ConvertirLeer(t, p)
      PROVE  InvCat'
  <2> DEFINE r == [op |-> "servicio", producto |-> p]
  <2>r. r \in Trabajo /\ r.op = "servicio" /\ r.producto = p
    BY DEF Trabajo
  <2>1. PICK x : /\ x = r
                 /\ x \in Trabajo /\ x.op = "servicio" /\ x.producto = p
    BY <2>r
  <2>2. Refiere(x) /\ \A v \in Variantes : ~Suma(x, v) /\ (Apaga(x, v) => v \in De(p))
    BY <2>1 DEF Refiere, Apaga, Suma, De
  <2>3. /\ trabajo' = [trabajo EXCEPT ![t] = x]
        /\ UNCHANGED <<variante, piezas, transito, linea, llegadas>>
        /\ cruzados' = cruzados \cup (De(p) \cap Moviendose)
        /\ \A v \in De(p) : piezas[v] = 0
    BY <1>2, <2>1 DEF ConvertirLeer, Emprende, Cruza, SinPiezas
  <2>4. \A v \in Variantes \ (cruzados' \cup llegadas') :
           Apaga(x, v) => piezas[v] = 0 /\ \A u \in Trabajos : ~Suma(trabajo[u], v)
    BY <2>2, <2>3, SumaEnVuelo
  <2>5. QED
    BY <2>1, <2>2, <2>3, <2>4, CatTrabajo
<1>3. ASSUME NEW v \in Variantes, ApagarLeer(t, v)
      PROVE  InvCat'
  <2> DEFINE r == [op |-> "apagar", variante |-> v]
  <2>r. r \in Trabajo /\ r.op = "apagar" /\ r.variante = v
    BY DEF Trabajo
  <2>1. PICK x : /\ x = r
                 /\ x \in Trabajo /\ x.op = "apagar" /\ x.variante = v
    BY <2>r
  <2>2. Refiere(x) /\ \A w \in Variantes : ~Suma(x, w) /\ (Apaga(x, w) => w = v)
    BY <1>3, <2>1 DEF Refiere, Apaga, Suma, ApagarLeer
  <2>3. /\ trabajo' = [trabajo EXCEPT ![t] = x]
        /\ UNCHANGED <<variante, piezas, transito, linea, llegadas>>
        /\ cruzados' = cruzados \cup ({v} \cap Moviendose)
        /\ piezas[v] = 0
    BY <1>3, <2>1 DEF ApagarLeer, Emprende, Cruza, SinPiezas
  <2>4. \A w \in Variantes \ (cruzados' \cup llegadas') :
           Apaga(x, w) => piezas[w] = 0 /\ \A u \in Trabajos : ~Suma(trabajo[u], w)
    BY <2>2, <2>3, SumaEnVuelo
  <2>5. QED
    BY <2>1, <2>2, <2>3, <2>4, CatTrabajo
<1>4. ASSUME NEW v \in Variantes, ArchivarVarianteLeer(t, v)
      PROVE  InvCat'
  <2> DEFINE r == [op |-> "archivar", variante |-> v]
  <2>r. r \in Trabajo /\ r.op = "archivar" /\ r.variante = v
    BY DEF Trabajo
  <2>1. PICK x : /\ x = r
                 /\ x \in Trabajo /\ x.op = "archivar" /\ x.variante = v
    BY <2>r
  <2>2. Refiere(x) /\ \A w \in Variantes : ~Suma(x, w) /\ ~Apaga(x, w)
    BY <1>4, <2>1 DEF Refiere, Apaga, Suma, ArchivarVarianteLeer
  <2>3. /\ trabajo' = [trabajo EXCEPT ![t] = x]
        /\ UNCHANGED <<variante, piezas, transito, linea, cruzados, llegadas>>
    BY <1>4, <2>1 DEF ArchivarVarianteLeer, Emprende, historia
  <2>4. QED
    BY <2>1, <2>2, <2>3, CatTrabajo
<1>5. ASSUME NEW v \in Variantes, NEW que \in Mueve, MoverLeer(t, v, que)
      PROVE  InvCat'
  <2> DEFINE r == [op |-> que, variante |-> v]
  <2>r. r \in Trabajo /\ r.op \in {"entrar", "transferir"} /\ r.variante = v
    BY DEF Trabajo, Mueve
  <2>1. PICK x : /\ x = r
                 /\ x \in Trabajo /\ x.op \in {"entrar", "transferir"} /\ x.variante = v
    BY <2>r
  <2>2. Refiere(x) /\ \A w \in Variantes : ~Apaga(x, w) /\ (Suma(x, w) => w = v)
    BY <2>1 DEF Refiere, Apaga, Suma
  <2>3. /\ trabajo' = [trabajo EXCEPT ![t] = x]
        /\ UNCHANGED <<variante, piezas, transito, linea, llegadas>>
        /\ cruzados' = cruzados \cup ({v} \cap Apagandose)
        /\ variante[v].control
    BY <1>5, <2>1 DEF MoverLeer, Emprende, Cruza, Controladas
  <2>4. \A w \in Variantes \ (cruzados' \cup llegadas') :
           Suma(x, w) => variante[w].control /\ \A u \in Trabajos : ~Apaga(trabajo[u], w)
    BY <2>2, <2>3, ApagaEnVuelo
  <2>5. QED
    BY <2>1, <2>2, <2>3, <2>4, CatTrabajo
<1>6. ASSUME NEW v \in Variantes, NEW l \in Lineas, NEW c \in Cajas, VenderLeer(t, l, v, c)
      PROVE  InvCat'
  <2>1. variante[v] \in Variante \cup {NoVariante}
    BY DEF InvCat, TipoCat
  <2>2. variante[v].control \in BOOLEAN
    BY <2>1, VarianteForma
  <2> DEFINE r == [op |-> "vender", linea |-> l, variante |-> v, control |-> variante[v].control]
  <2>r. r \in Trabajo /\ r.op = "vender"
    BY <2>2 DEF Trabajo
  <2>3. PICK x : /\ x = r
                 /\ x \in Trabajo /\ x.op = "vender"
    BY <2>r
  <2>4. Refiere(x) /\ \A w \in Variantes : ~Suma(x, w) /\ ~Apaga(x, w)
    BY <2>3 DEF Refiere, Apaga, Suma
  <2>5. /\ trabajo' = [trabajo EXCEPT ![t] = x]
        /\ UNCHANGED <<variante, piezas, transito, linea, llegadas>>
        /\ cruzados \subseteq cruzados'
    BY <1>6, <2>3 DEF VenderLeer, Emprende, Cruza
  <2>6. QED
    BY <2>3, <2>4, <2>5, CatTrabajo
<1>7. ASSUME NEW l \in Lineas, NEW s \in BOOLEAN, DevolverLeer(t, l, s)
      PROVE  InvCat'
  <2>1. PICK v \in Variantes : v = linea[l].variante /\ linea[l] # NoLinea
    BY <1>7 DEF DevolverLeer, InvCat, TipoCat, Linea
  <2>2. variante[v] \in Variante \cup {NoVariante}
    BY DEF InvCat, TipoCat
  <2>3. variante[v].control \in BOOLEAN
    BY <2>2, VarianteForma
  <2> DEFINE r == [op |-> "devolver", linea |-> l, variante |-> v, control |-> variante[v].control,
                   restock |-> s]
  <2>r. r \in Trabajo /\ r.op = "devolver" /\ r.linea = l /\ r.variante = v /\ r.control = variante[v].control
    BY <2>3 DEF Trabajo
  <2>4. PICK x : /\ x = r
                 /\ x \in Trabajo /\ x.op = "devolver" /\ x.linea = l /\ x.variante = v
                 /\ x.control = variante[v].control
    BY <2>r
  <2>5. Refiere(x) /\ \A w \in Variantes : ~Apaga(x, w) /\ (Suma(x, w) => w = v /\ variante[v].control)
    BY <2>1, <2>4 DEF Refiere, Apaga, Suma
  <2>6. /\ trabajo' = [trabajo EXCEPT ![t] = x]
        /\ UNCHANGED <<variante, piezas, transito, linea, llegadas>>
        /\ cruzados' = cruzados \cup ({v} \cap Apagandose)
    BY <1>7, <2>1, <2>4 DEF DevolverLeer, Emprende, Cruza
  <2>7. \A w \in Variantes \ (cruzados' \cup llegadas') :
           Suma(x, w) => variante[w].control /\ \A u \in Trabajos : ~Apaga(trabajo[u], w)
    BY <2>5, <2>6, ApagaEnVuelo
  <2>8. QED
    BY <2>4, <2>5, <2>6, <2>7, CatTrabajo
<1>8. QED
  BY <1>1, <1>2, <1>3, <1>4, <1>5, <1>6, <1>7

\* A movement of a variant without control is one that crossed the change.
LEMMA CatMovimiento ==
  ASSUME InvCat, NEW t \in Trabajos,
         EntrarAplicar(t) \/ TransferirAplicar(t) \/ VenderAplicar(t) \/ DevolverAplicar(t)
  PROVE  InvCat'
<1>1. trabajo[t] \in Trabajo
  BY DEF InvCat, TipoCat
<1>2. PICK v \in Variantes : v = trabajo[t].variante
  BY <1>1, TrabajoForma DEF EntrarAplicar, TransferirAplicar, VenderAplicar, DevolverAplicar
<1>3. piezas[v] \in Nat /\ transito[v] \in Nat
  BY DEF InvCat, TipoCat
<1>4. UNCHANGED <<variante, cruzados, llegadas>>
  BY DEF EntrarAplicar, TransferirAplicar, VenderAplicar, DevolverAplicar, historia
<1>5. /\ trabajo' \in [Trabajos -> Trabajo]
      /\ \A u \in Trabajos : trabajo'[u] \in {trabajo[u], Parado}
  BY CatAcude DEF EntrarAplicar, TransferirAplicar, VenderAplicar, DevolverAplicar
<1>6. CASE EntrarAplicar(t)
  <2>a. piezas' = [piezas EXCEPT ![v] = @ + 1] /\ UNCHANGED <<transito, linea>>
    BY <1>2, <1>6 DEF EntrarAplicar
  <2>b. trabajo[t].op = "entrar"
    BY <1>6 DEF EntrarAplicar
  <2>c. Suma(trabajo[t], v)
    BY <1>2, <2>b DEF Suma
  <2>1. /\ piezas' = [piezas EXCEPT ![v] = @ + 1] /\ UNCHANGED <<transito, linea>>
        /\ Suma(trabajo[t], v)
    BY <2>a, <2>c
  <2>2. piezas' \in [Variantes -> Nat] /\ \A w \in Variantes : w # v => piezas'[w] = piezas[w]
    BY <1>3, <2>1 DEF InvCat, TipoCat
  <2>3. v \notin cruzados \cup llegadas =>
          variante[v].control /\ \A u \in Trabajos : ~Apaga(trabajo[u], v)
    BY <2>1, CatSuma
  <2>4. linea' \in [Lineas -> Linea \cup {NoLinea}] /\ transito' \in [Variantes -> Nat]
    BY <2>1 DEF InvCat, TipoCat
  <2>5. QED
    BY <1>4, <1>5, <2>1, <2>2, <2>3, <2>4, CatMueve
<1>7. CASE TransferirAplicar(t)
  <2>1. /\ piezas' = [piezas EXCEPT ![v] = @ - 1] /\ piezas[v] > 0
        /\ transito' = [transito EXCEPT ![v] = @ + 1] /\ UNCHANGED linea
    BY <1>2, <1>7 DEF TransferirAplicar
  <2>2. /\ piezas' \in [Variantes -> Nat] /\ transito' \in [Variantes -> Nat]
        /\ \A w \in Variantes : piezas[w] = 0 => piezas'[w] = 0
    BY <1>3, <2>1 DEF InvCat, TipoCat
  <2>3. linea' \in [Lineas -> Linea \cup {NoLinea}]
    BY <2>1 DEF InvCat, TipoCat
  <2>4. QED
    BY <1>4, <1>5, <2>1, <2>2, <2>3, CatMueve
<1>8. CASE VenderAplicar(t)
  <2>1. PICK l \in Lineas, k \in BOOLEAN : l = trabajo[t].linea /\ k = trabajo[t].control
    BY <1>1, <1>8, TrabajoForma DEF VenderAplicar
  <2>2. /\ piezas' = [piezas EXCEPT ![v] = IF k THEN @ - 1 ELSE @] /\ (k => piezas[v] > 0)
        /\ linea' = [linea EXCEPT ![l] = [variante |-> v, control |-> k, devuelta |-> FALSE, reingreso |-> FALSE]]
        /\ UNCHANGED transito
    BY <1>2, <1>8, <2>1 DEF VenderAplicar
  <2>3. piezas' \in [Variantes -> Nat] /\ \A w \in Variantes : piezas[w] = 0 => piezas'[w] = 0
    BY <1>3, <2>2 DEF InvCat, TipoCat
  <2>y. [variante |-> v, control |-> k, devuelta |-> FALSE, reingreso |-> FALSE] \in Linea
    BY DEF Linea
  <2>4. PICK y \in Linea : y = [variante |-> v, control |-> k, devuelta |-> FALSE, reingreso |-> FALSE] /\ y # NoLinea
    BY <2>y, LineaForma
  <2>5. /\ linea' \in [Lineas -> Linea \cup {NoLinea}]
        /\ \A m \in Lineas : linea[m] # NoLinea => linea'[m] # NoLinea
    BY <2>2, <2>4 DEF InvCat, TipoCat
  <2>6. transito' \in [Variantes -> Nat]
    BY <2>2 DEF InvCat, TipoCat
  <2>7. QED
    BY <1>4, <1>5, <2>3, <2>5, <2>6, CatMueve
<1>9. CASE DevolverAplicar(t)
  <2>1. PICK l \in Lineas, k \in BOOLEAN, s \in BOOLEAN :
          l = trabajo[t].linea /\ k = trabajo[t].control /\ s = trabajo[t].restock
    BY <1>1, <1>9, TrabajoForma DEF DevolverAplicar
  <2>2. /\ piezas' = [piezas EXCEPT ![v] = IF s /\ k THEN @ + 1 ELSE @]
        /\ linea' = [linea EXCEPT ![l].devuelta = TRUE, ![l].reingreso = s] /\ UNCHANGED transito
        /\ linea[l] # NoLinea /\ (k => Suma(trabajo[t], v))
    BY <1>2, <1>9, <2>1 DEF DevolverAplicar, Devuelve, InvCat, Referidos, Refiere, Suma
  <2>3. piezas' \in [Variantes -> Nat] /\ \A w \in Variantes : w # v \/ ~k => piezas'[w] = piezas[w]
    BY <1>3, <2>2 DEF InvCat, TipoCat
  <2>4. k /\ v \notin cruzados \cup llegadas =>
          variante[v].control /\ \A u \in Trabajos : ~Apaga(trabajo[u], v)
    BY <2>2, CatSuma
  <2>5. linea[l] \in Linea
    BY <2>2 DEF InvCat, TipoCat
  <2>y. [linea[l] EXCEPT !.devuelta = TRUE, !.reingreso = s] \in Linea
    BY <2>5 DEF Linea
  <2>6. PICK y \in Linea : y = [linea[l] EXCEPT !.devuelta = TRUE, !.reingreso = s] /\ y # NoLinea
    BY <2>y, LineaForma
  <2>z. linea' = [linea EXCEPT ![l] = y]
    BY <2>2, <2>6 DEF InvCat, TipoCat
  <2>7. /\ linea' \in [Lineas -> Linea \cup {NoLinea}]
        /\ \A m \in Lineas : linea[m] # NoLinea => linea'[m] # NoLinea
    BY <2>z, <2>6 DEF InvCat, TipoCat
  <2>8. transito' \in [Variantes -> Nat]
    BY <2>2 DEF InvCat, TipoCat
  <2>9. QED
    BY <1>4, <1>5, <2>3, <2>4, <2>7, <2>8, CatMueve
<1>10. QED
  BY <1>6, <1>7, <1>8, <1>9

\* Receiving a transfer moves pieces of a variant that had control when they left.
LEMMA CatRecibir ==
  ASSUME InvCat, NEW v \in Variantes, RecibirTransferencia(v)
  PROVE  InvCat'
<1>1. piezas[v] \in Nat /\ transito[v] \in Nat
  BY DEF InvCat, TipoCat
<1>2. /\ piezas' \in [Variantes -> Nat] /\ transito' \in [Variantes -> Nat]
      /\ \A w \in Variantes : w # v => piezas'[w] = piezas[w]
  BY <1>1 DEF RecibirTransferencia, InvCat, TipoCat
<1>3. v \notin cruzados' \cup llegadas' =>
        variante[v].control /\ \A u \in Trabajos : ~Apaga(trabajo[u], v)
  BY ApagaEnVuelo DEF RecibirTransferencia, Cruza, Controladas
<1>4. /\ UNCHANGED <<variante, linea, trabajo>>
      /\ cruzados \subseteq cruzados' /\ llegadas \subseteq llegadas'
  BY DEF RecibirTransferencia, Cruza
<1>5. linea' \in [Lineas -> Linea \cup {NoLinea}] /\ trabajo' \in [Trabajos -> Trabajo]
  BY <1>4 DEF InvCat, TipoCat
<1>6. QED
  BY <1>2, <1>3, <1>4, <1>5, CatMueve

\* A count gives pieces to a variant with control, to one that it notes, or to none.
LEMMA CatContar ==
  ASSUME InvCat, NEW v \in Variantes, NEW d \in Int, ContabilizarConteo(v, d)
  PROVE  InvCat'
<1>1. piezas[v] \in Nat /\ piezas[v] + d \in Nat
  BY DEF InvCat, TipoCat, ContabilizarConteo
<1>2. /\ piezas' \in [Variantes -> Nat] /\ piezas'[v] = piezas[v] + d
      /\ \A w \in Variantes : w # v => piezas'[w] = piezas[w]
  BY <1>1 DEF ContabilizarConteo, InvCat, TipoCat
<1>3. v \notin cruzados' \cup llegadas' =>
        \/ variante[v].control /\ \A u \in Trabajos : ~Apaga(trabajo[u], v)
        \/ piezas[v] = 0 => piezas'[v] = 0
  <2>1. CASE d > 0
    BY <2>1, ApagaEnVuelo DEF ContabilizarConteo, Cruza, Controladas
  <2>2. CASE ~(d > 0)
    BY <1>1, <1>2, <2>2
  <2>3. QED
    BY <2>1, <2>2
<1>4. /\ UNCHANGED <<variante, linea, trabajo, transito>>
      /\ cruzados \subseteq cruzados' /\ llegadas \subseteq llegadas'
  BY DEF ContabilizarConteo, Cruza
<1>5. /\ linea' \in [Lineas -> Linea \cup {NoLinea}] /\ trabajo' \in [Trabajos -> Trabajo]
      /\ transito' \in [Variantes -> Nat]
  BY <1>4 DEF InvCat, TipoCat
<1>6. QED
  BY <1>2, <1>3, <1>4, <1>5, CatMueve

\* Archiving a variant or turning its control on.
LEMMA CatCambia ==
  ASSUME InvCat, NEW v \in Variantes, variante[v] # NoVariante,
         \/ variante' = [variante EXCEPT ![v].activa = FALSE]
         \/ variante' = [variante EXCEPT ![v].control = TRUE],
         UNCHANGED <<piezas, transito, linea, cruzados, llegadas>>,
         trabajo' \in [Trabajos -> Trabajo],
         \A u \in Trabajos : trabajo'[u] \in {trabajo[u], Parado}
  PROVE  InvCat'
<1>1. variante[v] \in Variante
  BY DEF InvCat, TipoCat
<1>2. PICK x \in Variante : /\ variante' = [variante EXCEPT ![v] = x]
                            /\ x.producto = variante[v].producto
                            /\ variante[v].control => x.control
  BY <1>1 DEF Variante, InvCat, TipoCat
<1>3. x # NoVariante
  BY VarianteForma
<1>4. /\ variante' \in [Variantes -> Variante \cup {NoVariante}]
      /\ \A w \in Variantes : /\ variante[w] # NoVariante => variante'[w] # NoVariante
                              /\ variante'[w].producto = variante[w].producto
                              /\ variante[w].control => variante'[w].control
  BY <1>2, <1>3 DEF InvCat, TipoCat
<1>5. ASSUME NEW w \in Variantes \ (cruzados' \cup llegadas')
      PROVE  /\ ~variante'[w].control => piezas'[w] = 0 /\ \A u \in Trabajos : ~Suma(trabajo[u], w)
             /\ \A u \in Trabajos : Apaga(trabajo[u], w)' => Apaga(trabajo[u], w) /\ piezas'[w] = 0
  <2>1. LimpiaEn(w)
    BY DEF InvCat, Limpia
  <2>2. \A u \in Trabajos : Apaga(trabajo[u], w)' => Apaga(trabajo[u], w)
    BY <1>4 DEF Apaga, Parado
  <2>3. QED
    BY <1>4, <2>1, <2>2 DEF LimpiaEn
<1>6. piezas' \in [Variantes -> Nat]
  BY DEF InvCat, TipoCat
<1>7. QED
  BY <1>4, <1>5, <1>6, CatVariantes

\* Every step of the catalogue and of the stock keeps it.
LEMMA CatPaso == InvCat /\ [NextCat]_varsCat => InvCat'
<1> SUFFICES ASSUME InvCat, [NextCat]_varsCat
             PROVE  InvCat'
  OBVIOUS
<1>1. ASSUME NEW t \in Trabajos,
             EntrarAplicar(t) \/ TransferirAplicar(t) \/ VenderAplicar(t) \/ DevolverAplicar(t)
      PROVE  InvCat'
  BY <1>1, CatMovimiento
<1>2. ASSUME NEW t \in Trabajos, ApagarAplicar(t)
      PROVE  InvCat'
  BY <1>2, CatApagar
<1>3. ASSUME NEW t \in Trabajos, ArchivarVarianteAplicar(t)
      PROVE  InvCat'
  <2>1. trabajo[t].variante \in Variantes /\ variante[trabajo[t].variante] # NoVariante
    BY <1>3, TrabajoForma DEF ArchivarVarianteAplicar, InvCat, TipoCat, Referidos, Refiere
  <2>2. QED
    BY <1>3, <2>1, CatCambia, CatAcude DEF ArchivarVarianteAplicar, historia
<1>4. ASSUME NEW v \in Variantes, Encender(v)
      PROVE  InvCat'
  <2>1. trabajo' \in [Trabajos -> Trabajo] /\ trabajo' = trabajo
    BY <1>4 DEF Encender, InvCat, TipoCat
  <2>2. QED
    BY <1>4, <2>1, CatCambia DEF Encender
<1>5. ASSUME NEW v \in Variantes, NEW p \in Productos, NEW k \in BOOLEAN, NEW n \in 0 .. MaxPiezas,
             AgregarVariante(v, p, k, n) \/ \E t \in Trabajos : CrearProducto(t, p, v, k, n)
      PROVE  InvCat'
  <2>1. CASE AgregarVariante(v, p, k, n)
    <3>1. trabajo' \in [Trabajos -> Trabajo] /\ trabajo' = trabajo
      BY <2>1 DEF AgregarVariante, InvCat, TipoCat
    <3>2. QED
      BY <2>1, <3>1, CatNueva DEF AgregarVariante
  <2>2. ASSUME NEW t \in Trabajos, CrearProducto(t, p, v, k, n)
        PROVE  InvCat'
    BY <2>2, CatNueva, CatAcude DEF CrearProducto
  <2>3. QED
    BY <1>5, <2>1, <2>2
<1>6. ASSUME NEW v \in Variantes,
             RecibirTransferencia(v) \/ \E d \in -MaxPiezas .. MaxPiezas : ContabilizarConteo(v, d)
      PROVE  InvCat'
  BY <1>6, CatRecibir, CatContar
<1>7. CASE (\E p \in Productos : ArchivarProducto(p)) \/ UNCHANGED varsCat
  <2>1. UNCHANGED <<variante, piezas, transito, linea, trabajo, cruzados, llegadas>>
    BY <1>7 DEF ArchivarProducto, varsCat, historia
  <2>2. TipoCat' /\ Referidos'
    BY <2>1 DEF InvCat, TipoCat, Referidos, Refiere
  <2>3. Limpia'
    BY <2>1 DEF InvCat, Limpia, LimpiaEn, Apaga, Suma
  <2>4. QED
    BY <2>2, <2>3 DEF InvCat
<1>8. QED
  BY <1>1, <1>2, <1>3, <1>4, <1>5, <1>6, <1>7, CatEmpieza DEF NextCat

\* Nothing moves at the start.
LEMMA CatInit == InitCat => InvCat
<1>1. SUFFICES ASSUME InitCat PROVE InvCat
  OBVIOUS
<1>2. /\ \A t \in Trabajos : trabajo[t].op = "parado"
      /\ \A v \in Variantes : piezas[v] = 0
  BY <1>1, ParadoForma DEF InitCat
<1>3. TipoCat
  BY <1>1, ParadoForma DEF InitCat, TipoCat
<1>4. Referidos
  BY <1>2 DEF Referidos, Refiere
<1>5. \A v \in Variantes, t \in Trabajos : ~Apaga(trabajo[t], v) /\ ~Suma(trabajo[t], v)
  BY <1>2 DEF Apaga, Suma
<1>6. Limpia
  BY <1>2, <1>5 DEF Limpia, LimpiaEn
<1>7. QED
  BY <1>3, <1>4, <1>6 DEF InvCat

-----------------------------------------------------------------------------
(* Catalogo: no piece appears or is lost *)

\* Every variant belongs to a product, and every product has one.
Pertenecen ==
  /\ producto \in [Productos -> {"AUSENTE", "ACTIVO", "ARCHIVADO"}]
  /\ \A v \in Variantes : variante[v] = NoVariante \/ variante[v].producto \in Creados
  /\ \A p \in Creados : De(p) # {}

\* Requests that counted the products and will create one.
Creando == {t \in Trabajos : trabajo[t].op = "crear"}
ConCupo == Cardinality(Creados) + Cardinality(Creando) <= MayorLimite - 1 + Cardinality(Trabajos)

\* Types of the pieces that came in, and of the history.
TipoPiezas ==
  /\ entradas \in [Variantes -> Int] /\ \A v \in Variantes : entradas[v] <= MaxPiezas
  /\ alternados \subseteq Variantes /\ cruzados \subseteq Variantes /\ llegadas \subseteq Variantes

\* A variant that does not exist has no pieces, no lines and no requests that move it; a
\* refund is of a line of its variant.
Ligado(x) ==
  /\ x.op \in {"entrar", "transferir", "vender"} => variante[x.variante] # NoVariante
  /\ x.op = "devolver" => linea[x.linea].variante = x.variante

SinNada ==
  /\ \A v \in Variantes : variante[v] = NoVariante =>
       piezas[v] = 0 /\ transito[v] = 0 /\ entradas[v] = 0
  /\ \A l \in Lineas : linea[l] # NoLinea => variante[linea[l].variante] # NoVariante
  /\ \A t \in Trabajos : Ligado(trabajo[t])

\* Lines of a variant, sold or being sold or refunded, have the control it has.
MismoControl(v) ==
  /\ \A l \in Vendidas(v) : linea[l].control = variante[v].control
  /\ \A t \in Trabajos : trabajo[t].op = "vender" /\ trabajo[t].variante = v
       => trabajo[t].control = variante[v].control
  /\ \A t \in Trabajos : trabajo[t].op = "devolver" /\ trabajo[t].variante = v
       => /\ trabajo[t].linea \in Vendidas(v) /\ trabajo[t].control = variante[v].control
          /\ \A u \in Trabajos : trabajo[u].op = "devolver" /\ trabajo[u].linea = trabajo[t].linea
               => u = t

\* Pieces on the shelf, in transit and discounted by lines are those that came in.
Cuadran(v) == piezas[v] + transito[v] + Cardinality(Descontadas(v)) = entradas[v]

InvPiezas == TipoPiezas /\ SinNada /\ \A v \in Variantes \ alternados : MismoControl(v) /\ Cuadran(v)

\* The variant of a request and the one of a line.
LEMMA TrabajoVariante ==
  ASSUME InvCat, NEW t \in Trabajos
  PROVE  /\ trabajo[t] \in Trabajo
         /\ trabajo[t].op \in {"entrar", "transferir", "vender", "devolver"} =>
              trabajo[t].variante \in Variantes
         /\ trabajo[t].op \in {"vender", "devolver"} =>
              trabajo[t].linea \in Lineas /\ trabajo[t].control \in BOOLEAN
         /\ trabajo[t].op = "devolver" => trabajo[t].restock \in BOOLEAN
  BY TrabajoForma DEF InvCat, TipoCat

\* A line sold of a variant of the catalogue is a line.
LEMMA VendidaForma ==
  ASSUME NEW v \in Variantes
  PROVE  /\ \A l \in Vendidas(v) : l \in Lineas /\ linea[l] # NoLinea /\ linea[l].variante = v
         /\ IsFiniteSet(Descontadas(v)) /\ Cardinality(Descontadas(v)) \in Nat
<1>1. \A l \in Vendidas(v) : l \in Lineas /\ linea[l] # NoLinea /\ linea[l].variante = v
  BY CatalogoAssumption DEF Vendidas, NoLinea
<1>2. Descontadas(v) \subseteq Lineas
  BY DEF Descontadas
<1>3. QED
  BY <1>1, <1>2, CatalogoAssumption, FS_Subset, FS_CardinalityType

\* What each request in flight has to do with its variant and its line.
Fiel(v, x) ==
  /\ x.op = "vender" /\ x.variante = v => x.control = variante[v].control
  /\ x.op = "devolver" /\ x.variante = v =>
       /\ x.linea \in Vendidas(v) /\ x.control = variante[v].control
       /\ \A u, w \in Trabajos : trabajo[u].op = "devolver" /\ trabajo[u].linea = x.linea
                                   /\ trabajo[w].op = "devolver" /\ trabajo[w].linea = x.linea => u = w

\* A variant whose control does not change was read as it is by whoever read it.
LEMMA MismoFiel ==
  ASSUME NEW v \in Variantes, MismoControl(v)
  PROVE  \A t \in Trabajos : Fiel(v, trabajo[t])
  BY DEF MismoControl, Fiel

\* A request begins, or ends without writing.
LEMMA PzaTrabajo ==
  ASSUME InvCat, InvPiezas, TipoPiezas', UNCHANGED <<variante, piezas, transito, linea, entradas>>,
         alternados \subseteq alternados', NEW t \in Trabajos, NEW x \in Trabajo,
         trabajo' = [trabajo EXCEPT ![t] = x], Ligado(x),
         x.op = "vender" => x.control = variante[x.variante].control,
         x.op = "devolver" =>
           /\ x.linea \in Vendidas(x.variante) /\ x.control = variante[x.variante].control
           /\ (\E u \in Trabajos : trabajo[u].op = "devolver" /\ trabajo[u].linea = x.linea)
                => x.variante \in alternados'
  PROVE  InvPiezas'
<1>1. \A u \in Trabajos : trabajo'[u] = IF u = t THEN x ELSE trabajo[u]
  BY DEF InvCat, TipoCat
<1>2. SinNada'
  BY <1>1 DEF InvPiezas, SinNada, Ligado
<1>3. ASSUME NEW v \in Variantes \ alternados' PROVE MismoControl(v)' /\ Cuadran(v)'
  <2>1. MismoControl(v) /\ Cuadran(v) /\ \A u \in Trabajos : Fiel(v, trabajo[u])
    BY MismoFiel DEF InvPiezas
  <2>2. Vendidas(v)' = Vendidas(v) /\ Descontadas(v)' = Descontadas(v)
    BY DEF Vendidas, Descontadas, Reingresada
  <2>3. \A l \in Vendidas(v)' : linea'[l].control = variante'[v].control
    BY <2>1, <2>2 DEF MismoControl
  <2>4. \A u \in Trabajos : trabajo'[u].op = "vender" /\ trabajo'[u].variante = v
                              => trabajo'[u].control = variante'[v].control
    BY <1>1, <2>1 DEF MismoControl
  <2>5. \A u \in Trabajos : trabajo'[u].op = "devolver" /\ trabajo'[u].variante = v
                              => trabajo'[u].linea \in Vendidas(v)' /\ trabajo'[u].control = variante'[v].control
    BY <1>1, <2>1, <2>2 DEF MismoControl
  <2>6. ASSUME NEW u \in Trabajos, NEW w \in Trabajos,
               trabajo'[u].op = "devolver", trabajo'[u].variante = v,
               trabajo'[w].op = "devolver", trabajo'[w].linea = trabajo'[u].linea
        PROVE  w = u
    <3>1. CASE u # t /\ w # t
      BY <1>1, <2>1, <2>6, <3>1 DEF MismoControl
    <3>2. CASE u = t /\ w # t
      BY <1>1, <2>6, <3>2
    <3>3. CASE u # t /\ w = t
      <4>1. trabajo[u].linea \in Vendidas(v) /\ x.op = "devolver" /\ x.linea = trabajo[u].linea
        BY <1>1, <2>1, <2>6, <3>3 DEF MismoControl
      <4>2. x.variante = v
        BY <4>1 DEF Vendidas, Ligado
      <4>3. QED
        BY <1>1, <2>6, <3>3, <4>1, <4>2
    <3>4. QED
      BY <3>1, <3>2, <3>3
  <2>7. MismoControl(v)'
    BY <2>3, <2>4, <2>5, <2>6 DEF MismoControl
  <2>8. Cuadran(v)'
    BY <2>1, <2>2 DEF Cuadran
  <2>9. QED
    BY <2>7, <2>8
<1>4. QED
  BY <1>2, <1>3 DEF InvPiezas

\* The requests that stay are bound to their variants as before.
LEMMA PzaSigue ==
  ASSUME InvCat, NEW v \in Variantes, MismoControl(v),
         \A u \in Trabajos : trabajo'[u] \in {trabajo[u], Parado},
         variante'[v].control = variante[v].control \/
           (\A u \in Trabajos : ~(trabajo[u].op \in {"vender", "devolver"} /\ trabajo[u].variante = v)),
         \A l \in Vendidas(v)' : linea'[l].control = variante'[v].control,
         \A u \in Trabajos : trabajo'[u].op = "devolver" /\ trabajo[u].variante = v
                               => trabajo[u].linea \in Vendidas(v)'
  PROVE  MismoControl(v)'
<1>1. \A u \in Trabajos : trabajo'[u].op # "parado" => trabajo'[u] = trabajo[u]
  BY ParadoForma
<1>2. \A u \in Trabajos : trabajo'[u].op = "vender" /\ trabajo'[u].variante = v
                            => trabajo'[u].control = variante'[v].control
  BY <1>1 DEF MismoControl
<1>3. \A u \in Trabajos : trabajo'[u].op = "devolver" /\ trabajo'[u].variante = v
                            => trabajo'[u].linea \in Vendidas(v)' /\ trabajo'[u].control = variante'[v].control
  BY <1>1 DEF MismoControl
<1>4. \A u, w \in Trabajos : trabajo'[u].op = "devolver" /\ trabajo'[u].variante = v
                               /\ trabajo'[w].op = "devolver" /\ trabajo'[w].linea = trabajo'[u].linea
                               => w = u
  BY <1>1 DEF MismoControl
<1>5. QED
  BY <1>2, <1>3, <1>4 DEF MismoControl

\* The requests that stay are about variants and lines that are there.
LEMMA PzaLigados ==
  ASSUME InvCat, \A t \in Trabajos : Ligado(trabajo[t]),
         \A u \in Trabajos : trabajo'[u] \in {trabajo[u], Parado},
         \A v \in Variantes : variante[v] # NoVariante => variante'[v] # NoVariante,
         \A l \in Lineas : linea[l] # NoLinea => linea'[l].variante = linea[l].variante
  PROVE  \A t \in Trabajos : Ligado(trabajo[t])'
<1>1. SUFFICES ASSUME NEW t \in Trabajos PROVE Ligado(trabajo[t])'
  OBVIOUS
<1>2. CASE trabajo'[t] = Parado
  BY <1>2, ParadoForma DEF Ligado
<1>3. CASE trabajo'[t] = trabajo[t]
  <2>1. trabajo[t].op = "devolver" => linea[trabajo[t].linea] # NoLinea
    BY DEF InvCat, Referidos, Refiere
  <2>2. QED
    BY <1>3, <2>1, TrabajoVariante DEF Ligado
<1>4. QED
  BY <1>2, <1>3

\* The variants change, and one with lines or requests keeps its control.
LEMMA PzaVariantes ==
  ASSUME InvCat, InvPiezas, TipoPiezas', UNCHANGED <<piezas, transito, linea, entradas>>,
         alternados \subseteq alternados',
         \A v \in Variantes : variante[v] = NoVariante <=> variante'[v] = NoVariante,
         \A u \in Trabajos : trabajo'[u] \in {trabajo[u], Parado},
         \A v \in Variantes \ alternados' :
           \/ variante'[v].control = variante[v].control
           \/ /\ Vendidas(v) = {}
              /\ \A u \in Trabajos : ~(trabajo[u].op \in {"vender", "devolver"} /\ trabajo[u].variante = v)
  PROVE  InvPiezas'
<1>1. \A l \in Lineas : linea[l] # NoLinea => linea[l].variante \in Variantes
  BY DEF InvCat, TipoCat, Linea
<1>2. SinNada'
  <2>1. \A t \in Trabajos : Ligado(trabajo[t])'
    BY PzaLigados DEF InvPiezas, SinNada
  <2>2. QED
    BY <1>1, <2>1 DEF InvPiezas, SinNada
<1>3. ASSUME NEW v \in Variantes \ alternados' PROVE MismoControl(v)' /\ Cuadran(v)'
  <2>1. MismoControl(v) /\ Cuadran(v)
    BY DEF InvPiezas
  <2>2. Vendidas(v)' = Vendidas(v) /\ Descontadas(v)' = Descontadas(v)
    BY DEF Vendidas, Descontadas, Reingresada
  <2>3. \A l \in Vendidas(v)' : linea'[l].control = variante'[v].control
    BY <2>1, <2>2 DEF MismoControl
  <2>4. \A u \in Trabajos : trabajo'[u].op = "devolver" /\ trabajo[u].variante = v
                              => trabajo[u].linea \in Vendidas(v)'
    BY <2>1, <2>2, ParadoForma DEF MismoControl
  <2>5. MismoControl(v)'
    BY <2>1, <2>3, <2>4, PzaSigue
  <2>6. Cuadran(v)'
    BY <2>1, <2>2 DEF Cuadran
  <2>7. QED
    BY <2>5, <2>6
<1>4. QED
  BY <1>2, <1>3 DEF InvPiezas

\* Pieces come in or go to and from a transfer: none is lost.
LEMMA PzaMueve ==
  ASSUME InvCat, InvPiezas, InvCat', TipoPiezas', UNCHANGED <<variante, linea, alternados>>,
         \A u \in Trabajos : trabajo'[u] \in {trabajo[u], Parado},
         NEW v \in Variantes, variante[v] # NoVariante,
         \A w \in Variantes \ {v} :
           piezas'[w] = piezas[w] /\ transito'[w] = transito[w] /\ entradas'[w] = entradas[w],
         piezas'[v] + transito'[v] + entradas[v] = piezas[v] + transito[v] + entradas'[v]
  PROVE  InvPiezas'
<1>1. SinNada'
  <2>1. \A t \in Trabajos : Ligado(trabajo[t])'
    BY PzaLigados DEF InvPiezas, SinNada
  <2>2. QED
    BY <2>1 DEF InvPiezas, SinNada
<1>2. ASSUME NEW w \in Variantes \ alternados' PROVE MismoControl(w)' /\ Cuadran(w)'
  <2>1. MismoControl(w) /\ Cuadran(w)
    BY DEF InvPiezas
  <2>2. Vendidas(w)' = Vendidas(w) /\ Descontadas(w)' = Descontadas(w)
    BY DEF Vendidas, Descontadas, Reingresada
  <2>3. \A l \in Vendidas(w)' : linea'[l].control = variante'[w].control
    BY <2>1, <2>2 DEF MismoControl
  <2>4. \A u \in Trabajos : trabajo'[u].op = "devolver" /\ trabajo[u].variante = w
                              => trabajo[u].linea \in Vendidas(w)'
    BY <2>1, <2>2, ParadoForma DEF MismoControl
  <2>5. MismoControl(w)'
    BY <2>1, <2>3, <2>4, PzaSigue
  <2>6. /\ piezas[w] \in Nat /\ transito[w] \in Nat /\ entradas[w] \in Int
        /\ piezas'[w] \in Nat /\ transito'[w] \in Nat /\ entradas'[w] \in Int
    BY CatalogoAssumption DEF InvCat, TipoCat, InvPiezas, TipoPiezas
  <2>7. piezas'[w] + transito'[w] + entradas[w] = piezas[w] + transito[w] + entradas'[w]
    BY <2>6
  <2>8. Cuadran(w)'
    <3>1. PICK c \in Nat : c = Cardinality(Descontadas(w))
      BY VendidaForma
    <3>2. Cardinality(Descontadas(w)') = c
      BY <2>2, <3>1
    <3>3. piezas[w] + transito[w] + c = entradas[w]
      BY <2>1, <3>1 DEF Cuadran
    <3>4. PICK a \in Nat, b \in Nat, e \in Int, x \in Nat, y \in Nat, z \in Int :
            /\ a = piezas[w] /\ b = transito[w] /\ e = entradas[w]
            /\ x = piezas'[w] /\ y = transito'[w] /\ z = entradas'[w]
      BY <2>6
    <3>5. x + y + e = a + b + z /\ a + b + c = e
      BY <2>7, <3>3, <3>4
    <3>6. x + y + c = z
      BY <3>1, <3>4, <3>5
    <3>7. QED
      BY <3>2, <3>4, <3>6 DEF Cuadran
  <2>9. QED
    BY <2>5, <2>8
<1>3. QED
  BY <1>1, <1>2 DEF InvPiezas

\* A new variant: nothing was sold of it, and what it has came in.
LEMMA PzaNueva ==
  ASSUME InvCat, InvPiezas, InvCat', TipoPiezas', NEW v \in Variantes, NEW p \in Productos,
         NEW c \in BOOLEAN, NEW n \in 0 .. MaxPiezas, Nueva(v, p, c, n),
         UNCHANGED <<transito, linea, alternados>>,
         \A u \in Trabajos : trabajo'[u] \in {trabajo[u], Parado}
  PROVE  InvPiezas'
<1>1. PICK x \in Variante : /\ variante' = [variante EXCEPT ![v] = x] /\ x # NoVariante
                            /\ piezas' = [piezas EXCEPT ![v] = n] /\ entradas' = [entradas EXCEPT ![v] = n]
                            /\ variante[v] = NoVariante
  <2>1. [producto |-> p, activa |-> TRUE, control |-> c] \in Variante
    BY DEF Variante
  <2>2. QED
    BY <2>1, VarianteForma DEF Nueva
<1>2. \A w \in Variantes : /\ variante'[w] = IF w = v THEN x ELSE variante[w]
                           /\ piezas'[w] = IF w = v THEN n ELSE piezas[w]
                           /\ entradas'[w] = IF w = v THEN n ELSE entradas[w]
  BY <1>1 DEF InvCat, TipoCat, InvPiezas, TipoPiezas
<1>3. /\ transito[v] = 0 /\ \A l \in Lineas : linea[l] # NoLinea => linea[l].variante # v
      /\ \A u \in Trabajos : ~(trabajo[u].op \in {"vender", "devolver"} /\ trabajo[u].variante = v)
  <2>1. transito[v] = 0 /\ \A l \in Lineas : linea[l] # NoLinea => linea[l].variante # v
    BY <1>1 DEF InvPiezas, SinNada
  <2>2. ASSUME NEW u \in Trabajos, trabajo[u].op \in {"vender", "devolver"}, trabajo[u].variante = v
        PROVE  FALSE
    <3>1. Ligado(trabajo[u]) /\ Refiere(trabajo[u])
      BY DEF InvPiezas, SinNada, InvCat, Referidos
    <3>2. QED
      BY <1>1, <2>1, <2>2, <3>1, TrabajoVariante DEF Ligado, Refiere
  <2>3. QED
    BY <2>1, <2>2
<1>4. Vendidas(v) = {} /\ Vendidas(v)' = {}
  BY <1>3, VendidaForma DEF Vendidas
<1>5. \A l \in Lineas : linea[l] # NoLinea => linea[l].variante \in Variantes
  BY DEF InvCat, TipoCat, Linea
<1>6. SinNada'
  <2>1. \A t \in Trabajos : Ligado(trabajo[t])'
    BY <1>1, <1>2, PzaLigados DEF InvPiezas, SinNada
  <2>2. QED
    BY <1>1, <1>2, <1>5, <2>1 DEF InvPiezas, SinNada
<1>7. ASSUME NEW w \in Variantes \ alternados' PROVE MismoControl(w)' /\ Cuadran(w)'
  <2>1. MismoControl(w) /\ Cuadran(w)
    BY DEF InvPiezas
  <2>2. Vendidas(w)' = Vendidas(w) /\ Descontadas(w)' = Descontadas(w)
    BY DEF Vendidas, Descontadas, Reingresada
  <2>3. \A l \in Vendidas(w)' : linea'[l].control = variante'[w].control
    BY <1>2, <1>4, <2>1, <2>2 DEF MismoControl
  <2>4. \A u \in Trabajos : trabajo'[u].op = "devolver" /\ trabajo[u].variante = w
                              => trabajo[u].linea \in Vendidas(w)'
    BY <2>1, <2>2, ParadoForma DEF MismoControl
  <2>c. \/ variante'[w].control = variante[w].control
        \/ \A u \in Trabajos : ~(trabajo[u].op \in {"vender", "devolver"} /\ trabajo[u].variante = w)
    BY <1>2, <1>3
  <2>5. MismoControl(w)'
    <3>1. CASE variante'[w].control = variante[w].control
      BY <2>1, <2>3, <2>4, <3>1, PzaSigue
    <3>2. CASE \A u \in Trabajos : ~(trabajo[u].op \in {"vender", "devolver"} /\ trabajo[u].variante = w)
      BY <2>1, <2>3, <2>4, <3>2, PzaSigue
    <3>3. QED
      BY <2>c, <3>1, <3>2
  <2>6. CASE w # v
    <3>1. piezas'[w] = piezas[w] /\ entradas'[w] = entradas[w] /\ transito'[w] = transito[w]
      BY <1>2, <2>6
    <3>2. Cuadran(w)'
      BY <2>1, <2>2, <3>1 DEF Cuadran
    <3>3. QED
      BY <2>5, <3>2
  <2>7. CASE w = v
    <3>1. Descontadas(v)' = {}
      BY <1>3, CatalogoAssumption DEF Descontadas, CatalogoAssumption, NoLinea
    <3>2. Cardinality(Descontadas(v)') = 0
      BY <3>1, FS_EmptySet
    <3>3. piezas'[v] = n /\ transito'[v] = 0 /\ entradas'[v] = n /\ n \in Nat
      BY <1>2, <1>3, CatalogoAssumption
    <3>4. QED
      BY <2>5, <2>7, <3>2, <3>3 DEF Cuadran
  <2>8. QED
    BY <2>5, <2>6, <2>7
<1>8. QED
  BY <1>6, <1>7 DEF InvPiezas

\* A sale takes the piece of a variant with control, and notes that it did.
LEMMA PzaVender ==
  ASSUME InvCat, InvPiezas, InvCat', TipoPiezas', NEW t \in Trabajos, VenderAplicar(t)
  PROVE  InvPiezas'
<1>1. PICK v \in Variantes, l \in Lineas, k \in BOOLEAN :
        /\ v = trabajo[t].variante /\ l = trabajo[t].linea /\ k = trabajo[t].control
        /\ trabajo[t].op = "vender"
  BY TrabajoVariante DEF VenderAplicar
<1>2. PICK y \in Linea : /\ y # NoLinea /\ y.variante = v /\ y.control = k /\ ~y.devuelta
                         /\ linea' = [linea EXCEPT ![l] = y] /\ linea[l] = NoLinea
                         /\ piezas' = [piezas EXCEPT ![v] = IF k THEN @ - 1 ELSE @]
  <2>1. [variante |-> v, control |-> k, devuelta |-> FALSE, reingreso |-> FALSE] \in Linea
    BY DEF Linea
  <2>2. QED
    BY <1>1, <2>1, LineaForma DEF VenderAplicar
<1>3. /\ UNCHANGED <<variante, transito, entradas, alternados>>
      /\ \A u \in Trabajos : trabajo'[u] \in {trabajo[u], Parado}
  BY CatAcude DEF VenderAplicar, historia
<1>4. /\ \A m \in Lineas : linea'[m] = IF m = l THEN y ELSE linea[m]
      /\ \A w \in Variantes \ {v} : piezas'[w] = piezas[w]
      /\ piezas'[v] = IF k THEN piezas[v] - 1 ELSE piezas[v]
      /\ piezas[v] \in Nat /\ transito[v] \in Nat
  BY <1>2 DEF InvCat, TipoCat
<1>5. variante[v] # NoVariante
  BY <1>1 DEF InvPiezas, SinNada, Ligado
<1>6. SinNada'
  <2>1. \A m \in Lineas : linea[m] # NoLinea => linea'[m].variante = linea[m].variante
    BY <1>2, <1>4
  <2>2. \A u \in Trabajos : Ligado(trabajo[u])'
    BY <1>3, <2>1, PzaLigados DEF InvPiezas, SinNada
  <2>3. \A m \in Lineas : linea'[m] # NoLinea => variante[linea'[m].variante] # NoVariante
    BY <1>2, <1>4, <1>5 DEF InvPiezas, SinNada
  <2>4. \A w \in Variantes : variante[w] = NoVariante => piezas'[w] = piezas[w]
    BY <1>4, <1>5
  <2>5. QED
    BY <1>3, <2>2, <2>3, <2>4 DEF InvPiezas, SinNada
<1>7. ASSUME NEW w \in Variantes \ alternados' PROVE MismoControl(w)' /\ Cuadran(w)'
  <2>1. MismoControl(w) /\ Cuadran(w) /\ l \notin Vendidas(w)
    BY <1>2, <1>3, VendidaForma DEF InvPiezas
  <2>2. Vendidas(w)' = IF w = v THEN Vendidas(w) \cup {l} ELSE Vendidas(w)
    BY <1>2, <1>4, <2>1 DEF Vendidas
  <2>3. w = v => k = variante[v].control
    BY <1>1, <2>1 DEF MismoControl
  <2>4. \A m \in Vendidas(w)' : linea'[m].control = variante'[w].control
    <3>1. \A m \in Vendidas(w) : linea'[m] = linea[m]
      BY <1>4, <2>1, VendidaForma
    <3>2. QED
      BY <1>2, <1>3, <1>4, <2>1, <2>2, <2>3, <3>1 DEF MismoControl
  <2>5. \A u \in Trabajos : trabajo'[u].op = "devolver" /\ trabajo[u].variante = w
                              => trabajo[u].linea \in Vendidas(w)'
    BY <1>3, <2>1, <2>2, ParadoForma DEF MismoControl
  <2>6. MismoControl(w)'
    BY <1>3, <2>1, <2>4, <2>5, PzaSigue
  <2>8. l \notin Descontadas(w) /\ IsFiniteSet(Descontadas(w)) /\ Cardinality(Descontadas(w)) \in Nat
    <3>1. linea[l].variante # w
      BY <1>2, CatalogoAssumption DEF NoLinea, CatalogoAssumption
    <3>2. QED
      BY <3>1, VendidaForma DEF Descontadas
  <2>7. Descontadas(w)' = IF w = v /\ k THEN Descontadas(w) \cup {l} ELSE Descontadas(w)
    <3>1. \A m \in Lineas \ {l} : m \in Descontadas(w)' <=> m \in Descontadas(w)
      BY <1>4 DEF Descontadas, Reingresada
    <3>2. l \in Descontadas(w)' <=> w = v /\ k
      BY <1>2, <1>4 DEF Descontadas, Reingresada
    <3>3. Descontadas(w) \subseteq Lineas /\ Descontadas(w)' \subseteq Lineas
      BY DEF Descontadas
    <3>4. QED
      BY <2>8, <3>1, <3>2, <3>3
  <2>9. CASE w = v /\ k
    <3>1. Cardinality(Descontadas(v)') = Cardinality(Descontadas(v)) + 1
      BY <2>7, <2>8, <2>9, FS_AddElement
    <3>2. piezas'[v] + transito'[v] + Cardinality(Descontadas(v)') = entradas'[v]
      BY <1>3, <1>4, <2>1, <2>8, <2>9, <3>1 DEF Cuadran
    <3>3. QED
      BY <2>6, <2>9, <3>2 DEF Cuadran
  <2>10. CASE ~(w = v /\ k)
    BY <1>3, <1>4, <2>1, <2>6, <2>7, <2>10 DEF Cuadran
  <2>11. QED
    BY <2>9, <2>10
<1>8. QED
  BY <1>6, <1>7 DEF InvPiezas

\* A refund gives back the piece that its line took: the control is that of the sale.
LEMMA PzaDevolver ==
  ASSUME InvCat, InvPiezas, InvCat', TipoPiezas', NEW t \in Trabajos, DevolverAplicar(t)
  PROVE  InvPiezas'
<1>1. PICK v \in Variantes, l \in Lineas, k \in BOOLEAN, s \in BOOLEAN :
        /\ v = trabajo[t].variante /\ l = trabajo[t].linea /\ k = trabajo[t].control
        /\ s = trabajo[t].restock /\ trabajo[t].op = "devolver"
  BY TrabajoVariante DEF DevolverAplicar
<1>2. linea[l] \in Linea /\ linea[l] # NoLinea /\ linea[l].variante = v
  BY <1>1 DEF InvCat, TipoCat, Referidos, Refiere, InvPiezas, SinNada, Ligado
<1>3. PICK y \in Linea : /\ y # NoLinea /\ y.variante = v /\ y.control = linea[l].control /\ y.devuelta
                         /\ y.reingreso = s /\ linea' = [linea EXCEPT ![l] = y]
                         /\ piezas' = [piezas EXCEPT ![v] = IF s /\ k THEN @ + 1 ELSE @]
  <2> DEFINE r == [linea[l] EXCEPT !.devuelta = TRUE, !.reingreso = s]
  <2>1. r \in Linea /\ r.variante = v /\ r.control = linea[l].control /\ r.devuelta /\ r.reingreso = s
    BY <1>2 DEF Linea
  <2>2. /\ linea' = [linea EXCEPT ![l] = r]
        /\ piezas' = [piezas EXCEPT ![v] = IF s /\ k THEN @ + 1 ELSE @]
    BY <1>1 DEF DevolverAplicar, Devuelve, InvCat, TipoCat
  <2>3. PICK y \in Linea : y = r
    BY <2>1
  <2>4. QED
    BY <2>1, <2>2, <2>3, LineaForma
<1>4. /\ UNCHANGED <<variante, transito, entradas, alternados>>
      /\ \A u \in Trabajos : trabajo'[u] \in {trabajo[u], Parado}
      /\ trabajo'[t] = Parado
  BY CatAcude DEF DevolverAplicar, historia, Acude, InvCat, TipoCat
<1>5. /\ \A m \in Lineas : linea'[m] = IF m = l THEN y ELSE linea[m]
      /\ \A w \in Variantes \ {v} : piezas'[w] = piezas[w]
      /\ piezas'[v] = IF s /\ k THEN piezas[v] + 1 ELSE piezas[v]
      /\ piezas[v] \in Nat /\ transito[v] \in Nat
  BY <1>3 DEF InvCat, TipoCat
<1>6. variante[v] # NoVariante
  BY <1>2 DEF InvPiezas, SinNada
<1>7. SinNada'
  <2>1. \A m \in Lineas : linea'[m].variante = linea[m].variante /\ (linea'[m] # NoLinea => linea[m] # NoLinea)
    BY <1>2, <1>3, <1>5
  <2>2. \A u \in Trabajos : Ligado(trabajo[u])'
    BY <1>4, <2>1, PzaLigados DEF InvPiezas, SinNada
  <2>3. \A w \in Variantes : variante[w] = NoVariante => piezas'[w] = piezas[w]
    BY <1>5, <1>6
  <2>4. QED
    BY <1>4, <2>1, <2>2, <2>3 DEF InvPiezas, SinNada
<1>8. ASSUME NEW w \in Variantes \ alternados' PROVE MismoControl(w)' /\ Cuadran(w)'
  <2>1. MismoControl(w) /\ Cuadran(w)
    BY <1>4 DEF InvPiezas
  <2>2. w = v => l \in Vendidas(w) /\ k = variante[v].control /\ k = linea[l].control
    BY <1>1, <2>1 DEF MismoControl
  <2>3. Vendidas(w)' = Vendidas(w) \ {l} /\ (w # v => l \notin Vendidas(w))
    BY <1>2, <1>3, <1>5 DEF Vendidas
  <2>4. \A m \in Vendidas(w)' : linea'[m] = linea[m] /\ m \in Vendidas(w)
    BY <1>5, <2>3, VendidaForma
  <2>5. \A m \in Vendidas(w)' : linea'[m].control = variante'[w].control
    BY <1>4, <2>1, <2>4 DEF MismoControl
  <2>6. ASSUME NEW u \in Trabajos, trabajo'[u].op = "devolver", trabajo[u].variante = w
        PROVE  trabajo[u].linea \in Vendidas(w)'
    <3>1. u # t /\ trabajo[u].op = "devolver"
      BY <1>4, <2>6, ParadoForma
    <3>2. trabajo[u].linea \in Vendidas(w) /\ trabajo[u].linea # l
      BY <1>1, <2>1, <2>6, <3>1 DEF MismoControl
    <3>3. QED
      BY <2>3, <3>2
  <2>7. MismoControl(w)'
    BY <1>4, <2>1, <2>5, <2>6, PzaSigue
  <2>8. \A m \in Lineas \ {l} : m \in Descontadas(w)' <=> m \in Descontadas(w)
    BY <1>5 DEF Descontadas, Reingresada
  <2>9. /\ IsFiniteSet(Descontadas(w)) /\ Cardinality(Descontadas(w)) \in Nat
        /\ Descontadas(w) \subseteq Lineas /\ Descontadas(w)' \subseteq Lineas
    BY VendidaForma DEF Descontadas
  <2>l. w = v => (l \in Descontadas(w) <=> k) /\ (l \in Descontadas(w)' <=> k /\ ~s)
    BY <1>2, <1>3, <1>5, <2>2 DEF Descontadas, Reingresada, Vendidas
  <2>10. CASE w = v /\ s /\ k
    <3>1. l \in Descontadas(v) /\ Descontadas(v)' = Descontadas(v) \ {l}
      BY <2>8, <2>9, <2>10, <2>l
    <3>2. Cardinality(Descontadas(v)') = Cardinality(Descontadas(v)) - 1
      BY <2>9, <2>10, <3>1, FS_RemoveElement
    <3>3. piezas'[v] + transito'[v] + Cardinality(Descontadas(v)') = entradas'[v]
      BY <1>4, <1>5, <2>1, <2>9, <2>10, <3>2 DEF Cuadran
    <3>4. QED
      BY <2>7, <2>10, <3>3 DEF Cuadran
  <2>11. CASE ~(w = v /\ s /\ k)
    <3>1. w # v => l \notin Descontadas(w) /\ l \notin Descontadas(w)'
      BY <1>2, <1>3, <1>5 DEF Descontadas
    <3>2. Descontadas(w)' = Descontadas(w)
      BY <2>8, <2>9, <2>11, <2>l, <3>1
    <3>3. QED
      BY <1>4, <1>5, <2>1, <2>7, <2>11, <3>2 DEF Cuadran
  <2>12. QED
    BY <2>10, <2>11
<1>9. QED
  BY <1>7, <1>8 DEF InvPiezas

\* The pieces that came in stay within the bound, and histories are of variants.
LEMMA PzaTipo ==
  ASSUME InvCat, TipoPiezas, [NextCat]_varsCat
  PROVE  TipoPiezas'
<1> USE DEF TipoPiezas
<1>1. CASE UNCHANGED varsCat
  BY <1>1 DEF varsCat
<1>2. ASSUME NEW t \in Trabajos, CrearProductoContar(t) \/ ArchivarVarianteAplicar(t) \/
             TransferirAplicar(t) \/ VenderAplicar(t) \/ DevolverAplicar(t) \/ Renunciar(t)
      PROVE  TipoPiezas'
  BY <1>2 DEF CrearProductoContar, ArchivarVarianteAplicar, TransferirAplicar, VenderAplicar, DevolverAplicar,
              Renunciar, historia
<1>3. ASSUME NEW t \in Trabajos, ApagarAplicar(t) PROVE TipoPiezas'
  BY <1>3 DEF ApagarAplicar, Alterna, ConLineas, Controladas
<1>4. ASSUME NEW t \in Trabajos, EntrarAplicar(t) PROVE TipoPiezas'
  <2>1. PICK v \in Variantes : v = trabajo[t].variante
    BY <1>4, TrabajoVariante DEF EntrarAplicar
  <2>2. /\ entradas' = [entradas EXCEPT ![v] = @ + 1] /\ entradas[v] < MaxPiezas
        /\ UNCHANGED historia
    BY <1>4, <2>1 DEF EntrarAplicar
  <2>3. entradas[v] + 1 \in Int /\ entradas[v] + 1 <= MaxPiezas
    BY <2>2, CatalogoAssumption
  <2>4. QED
    BY <2>2, <2>3 DEF historia
<1>5. ASSUME NEW t \in Trabajos, NEW p \in Productos, ConvertirLeer(t, p) PROVE TipoPiezas'
  BY <1>5 DEF ConvertirLeer, Cruza, De
<1>6. ASSUME NEW t \in Trabajos, NEW l \in Lineas, NEW s \in BOOLEAN, DevolverLeer(t, l, s)
      PROVE  TipoPiezas'
  <2>1. linea[l].variante \in Variantes
    BY <1>6 DEF DevolverLeer, InvCat, TipoCat, Linea
  <2>2. QED
    BY <1>6, <2>1 DEF DevolverLeer, Cruza, Alterna
<1>7. ASSUME NEW p \in Productos, ArchivarProducto(p) PROVE TipoPiezas'
  BY <1>7 DEF ArchivarProducto, historia
<1>8. ASSUME NEW v \in Variantes, Encender(v) \/ RecibirTransferencia(v) PROVE TipoPiezas'
  BY <1>8 DEF Encender, RecibirTransferencia, Alterna, Cruza, ConLineas
<1>c. ASSUME NEW v \in Variantes, NEW d \in -MaxPiezas .. MaxPiezas, ContabilizarConteo(v, d)
      PROVE  TipoPiezas'
  <2>1. /\ entradas' = [entradas EXCEPT ![v] = @ + d] /\ entradas[v] + d <= MaxPiezas
        /\ alternados' = alternados /\ cruzados' \subseteq cruzados \cup {v}
        /\ llegadas' \subseteq llegadas \cup {v}
    BY <1>c DEF ContabilizarConteo, Cruza
  <2>2. entradas[v] + d \in Int
    OBVIOUS
  <2>3. QED
    BY <2>1, <2>2
<1>9. ASSUME NEW v \in Variantes, NEW p \in Productos, NEW c \in BOOLEAN, NEW n \in 0 .. MaxPiezas,
             AgregarVariante(v, p, c, n) \/ \E t \in Trabajos : CrearProducto(t, p, v, c, n)
      PROVE  TipoPiezas'
  <2>1. /\ entradas' = [entradas EXCEPT ![v] = n] /\ UNCHANGED <<llegadas, alternados>>
        /\ cruzados' \subseteq cruzados \cup {v}
    BY <1>9 DEF AgregarVariante, CrearProducto, Nueva, Cruza
  <2>2. n \in Int /\ n <= MaxPiezas
    BY CatalogoAssumption DEF CatalogoAssumption
  <2>3. QED
    BY <2>1, <2>2
<1>10. ASSUME NEW v \in Variantes, NEW t \in Trabajos,
              \/ ArchivarVarianteLeer(t, v) \/ ApagarLeer(t, v)
              \/ \E que \in Mueve : MoverLeer(t, v, que)
              \/ \E l \in Lineas, c \in Cajas : VenderLeer(t, l, v, c)
       PROVE  TipoPiezas'
  BY <1>10 DEF ArchivarVarianteLeer, ApagarLeer, MoverLeer, VenderLeer, historia, Cruza
<1>11. QED
  BY <1>1, <1>2, <1>3, <1>4, <1>5, <1>6, <1>7, <1>8, <1>9, <1>10, <1>c DEF NextCat

\* What a request reads of the control and of its line is what they are.
LEMMA PzaEmpieza ==
  ASSUME InvCat, InvPiezas, TipoPiezas', NEW t \in Trabajos,
         \/ CrearProductoContar(t) \/ Renunciar(t)
         \/ \E p \in Productos : ConvertirLeer(t, p)
         \/ \E l \in Lineas, s \in BOOLEAN : DevolverLeer(t, l, s)
         \/ \E v \in Variantes :
              \/ ArchivarVarianteLeer(t, v) \/ ApagarLeer(t, v)
              \/ \E que \in Mueve : MoverLeer(t, v, que)
              \/ \E l \in Lineas, c \in Cajas : VenderLeer(t, l, v, c)
  PROVE  InvPiezas'
<1>1. ASSUME NEW v \in Variantes, NEW que \in Mueve, MoverLeer(t, v, que) PROVE InvPiezas'
  <2>1. [op |-> que, variante |-> v] \in Trabajo
    BY DEF Trabajo
  <2>2. PICK x \in Trabajo : /\ x.op \in Mueve /\ x.variante = v
                             /\ trabajo' = [trabajo EXCEPT ![t] = x]
    BY <1>1, <2>1 DEF MoverLeer, Emprende
  <2>3. UNCHANGED <<variante, piezas, transito, linea, entradas>> /\ alternados' = alternados
    BY <1>1 DEF MoverLeer
  <2>4. variante[v] # NoVariante /\ x.op # "vender" /\ x.op # "devolver"
    BY <1>1, <2>2, VarianteForma DEF MoverLeer, Controladas, Mueve
  <2>5. QED
    BY <2>2, <2>3, <2>4, PzaTrabajo DEF Ligado
<1>2. ASSUME NEW v \in Variantes, NEW l \in Lineas, NEW c \in Cajas, VenderLeer(t, l, v, c) PROVE InvPiezas'
  <2>1. variante[v] \in Variante \cup {NoVariante}
    BY DEF InvCat, TipoCat
  <2>2. variante[v].control \in BOOLEAN
    BY <2>1, VarianteForma
  <2>3. PICK x \in Trabajo : /\ x.op = "vender" /\ x.variante = v /\ x.control = variante[v].control
                             /\ trabajo' = [trabajo EXCEPT ![t] = x]
    <3>1. [op |-> "vender", linea |-> l, variante |-> v, control |-> variante[v].control] \in Trabajo
      BY <2>2 DEF Trabajo
    <3>2. QED
      BY <1>2, <3>1 DEF VenderLeer, Emprende
  <2>4. UNCHANGED <<variante, piezas, transito, linea, entradas>> /\ alternados' = alternados
    BY <1>2 DEF VenderLeer
  <2>5. variante[v] # NoVariante
    BY <1>2 DEF VenderLeer, NoVariante
  <2>6. QED
    BY <2>3, <2>4, <2>5, PzaTrabajo DEF Ligado
<1>3. ASSUME NEW l \in Lineas, NEW s \in BOOLEAN, DevolverLeer(t, l, s) PROVE InvPiezas'
  <2>1. PICK v \in Variantes : v = linea[l].variante /\ linea[l] # NoLinea
    BY <1>3 DEF DevolverLeer, InvCat, TipoCat, Linea
  <2>2. variante[v] \in Variante \cup {NoVariante}
    BY DEF InvCat, TipoCat
  <2>3. variante[v].control \in BOOLEAN
    BY <2>2, VarianteForma
  <2>4. PICK x \in Trabajo : /\ x.op = "devolver" /\ x.linea = l /\ x.variante = v
                             /\ x.control = variante[v].control
                             /\ trabajo' = [trabajo EXCEPT ![t] = x]
    <3>1. [op |-> "devolver", linea |-> l, variante |-> v, control |-> variante[v].control,
           restock |-> s] \in Trabajo
      BY <2>3 DEF Trabajo
    <3>2. QED
      BY <1>3, <2>1, <3>1 DEF DevolverLeer, Emprende
  <2>5. /\ UNCHANGED <<variante, piezas, transito, linea, entradas>>
        /\ alternados' = alternados \cup {w \in {v} : \E u \in Trabajos : trabajo[u].op = "devolver"
                                                                            /\ trabajo[u].linea = l}
    BY <1>3, <2>1 DEF DevolverLeer, Alterna
  <2>6. Ligado(x) /\ x.op # "vender"
    BY <2>1, <2>4 DEF Ligado
  <2>7. x.linea \in Vendidas(x.variante)
    BY <1>3, <2>1, <2>4 DEF DevolverLeer, Vendidas
  <2>8. (\E u \in Trabajos : trabajo[u].op = "devolver" /\ trabajo[u].linea = x.linea)
          => x.variante \in alternados'
    BY <2>4, <2>5
  <2>9. QED
    BY <2>4, <2>5, <2>6, <2>7, <2>8, PzaTrabajo
<1>4. ASSUME NEW x \in Trabajo, x.op \in {"parado", "crear", "servicio", "archivar", "apagar"},
             trabajo' = [trabajo EXCEPT ![t] = x],
             UNCHANGED <<variante, piezas, transito, linea, entradas>>, alternados' = alternados
      PROVE  InvPiezas'
  BY <1>4, PzaTrabajo DEF Ligado
<1>5. ASSUME CrearProductoContar(t) \/ Renunciar(t) PROVE InvPiezas'
  <2>1. [op |-> "crear"] \in Trabajo /\ [op |-> "crear"].op = "crear"
    BY DEF Trabajo
  <2>2. QED
    BY <1>4, <1>5, <2>1, ParadoForma DEF CrearProductoContar, Renunciar, Emprende, Acude, historia
<1>6. ASSUME NEW p \in Productos, ConvertirLeer(t, p) PROVE InvPiezas'
  <2>1. PICK x \in Trabajo : x = [op |-> "servicio", producto |-> p] /\ x.op = "servicio"
    <3>1. [op |-> "servicio", producto |-> p] \in Trabajo
      BY DEF Trabajo
    <3>2. QED
      BY <3>1
  <2>2. QED
    BY <1>4, <1>6, <2>1 DEF ConvertirLeer, Emprende
<1>7. ASSUME NEW v \in Variantes, ArchivarVarianteLeer(t, v) PROVE InvPiezas'
  <2>1. PICK x \in Trabajo : x = [op |-> "archivar", variante |-> v] /\ x.op = "archivar"
    <3>1. [op |-> "archivar", variante |-> v] \in Trabajo
      BY DEF Trabajo
    <3>2. QED
      BY <3>1
  <2>2. QED
    BY <1>4, <1>7, <2>1 DEF ArchivarVarianteLeer, Emprende, historia
<1>8. ASSUME NEW v \in Variantes, ApagarLeer(t, v) PROVE InvPiezas'
  <2>1. PICK x \in Trabajo : x = [op |-> "apagar", variante |-> v] /\ x.op = "apagar"
    <3>1. [op |-> "apagar", variante |-> v] \in Trabajo
      BY DEF Trabajo
    <3>2. QED
      BY <3>1
  <2>2. QED
    BY <1>4, <1>8, <2>1 DEF ApagarLeer, Emprende
<1>9. QED
  BY <1>1, <1>2, <1>3, <1>5, <1>6, <1>7, <1>8

\* The control changes, or a variant is archived: those with lines are noted as altered.
LEMMA PzaCambia ==
  ASSUME InvCat, InvPiezas, InvCat', TipoPiezas',
         \/ \E t \in Trabajos : ApagarAplicar(t) \/ ArchivarVarianteAplicar(t)
         \/ \E v \in Variantes : Encender(v)
  PROVE  InvPiezas'
<1>0. ASSUME NEW v \in Variantes \ Moviendose
      PROVE  \A u \in Trabajos : ~(trabajo[u].op \in {"vender", "devolver"} /\ trabajo[u].variante = v)
  BY DEF Moviendose
<1>1. \A v \in Variantes : /\ variante[v] \in Variante \cup {NoVariante}
                           /\ variante'[v] \in Variante \cup {NoVariante}
                           /\ variante[v].control \in BOOLEAN
  BY VarianteForma DEF InvCat, TipoCat
<1>2. NoVariante.producto \notin Productos /\ \A x \in Variante : x.producto \in Productos
  BY CatalogoAssumption DEF NoVariante, Variante
<1>3. ASSUME NEW t \in Trabajos, ArchivarVarianteAplicar(t) PROVE InvPiezas'
  <2>1. PICK v \in Variantes : v = trabajo[t].variante
    BY <1>3, TrabajoForma DEF ArchivarVarianteAplicar, InvCat, TipoCat
  <2>2. /\ variante' = [variante EXCEPT ![v].activa = FALSE]
        /\ UNCHANGED <<piezas, transito, linea, entradas>> /\ alternados' = alternados
        /\ \A u \in Trabajos : trabajo'[u] \in {trabajo[u], Parado}
    BY <1>3, <2>1, CatAcude DEF ArchivarVarianteAplicar, historia
  <2>3. variante[v] # NoVariante
    BY <1>3, <2>1 DEF ArchivarVarianteAplicar, InvCat, Referidos, Refiere
  <2>4. \A w \in Variantes : variante'[w].producto = variante[w].producto /\ variante'[w].control = variante[w].control
    BY <1>1, <2>2, <2>3 DEF Variante, InvCat, TipoCat
  <2>5. \A w \in Variantes : variante[w] = NoVariante <=> variante'[w] = NoVariante
    BY <1>1, <1>2, <2>4
  <2>6. QED
    BY <2>2, <2>4, <2>5, PzaVariantes
<1>4. ASSUME NEW v \in Variantes, Encender(v) PROVE InvPiezas'
  <2>1. /\ variante' = [variante EXCEPT ![v].control = TRUE] /\ variante[v] \in Variante
        /\ UNCHANGED <<piezas, transito, linea, entradas>> /\ UNCHANGED trabajo
        /\ alternados' = alternados \cup ConLineas({v} \ Controladas)
    BY <1>1, <1>4 DEF Encender, Alterna
  <2>2. \A w \in Variantes : /\ variante'[w].producto = variante[w].producto
                             /\ w # v => variante'[w].control = variante[w].control
                             /\ variante'[v].control = TRUE
    BY <1>1, <2>1 DEF Variante, InvCat, TipoCat
  <2>3. \A w \in Variantes : variante[w] = NoVariante <=> variante'[w] = NoVariante
    BY <1>1, <1>2, <2>2
  <2>4. ASSUME NEW w \in Variantes \ alternados', variante'[w].control # variante[w].control
        PROVE  Vendidas(w) = {} /\ w \notin Moviendose
    BY <2>1, <2>2, <2>4 DEF ConLineas, Controladas
  <2>5. QED
    BY <1>0, <2>1, <2>3, <2>4, PzaVariantes
<1>5. ASSUME NEW t \in Trabajos, ApagarAplicar(t) PROVE InvPiezas'
  <2>1. PICK V \in SUBSET Variantes : V = Alcance(trabajo[t])
    BY <1>5, TrabajoForma DEF Alcance, De, InvCat, TipoCat
  <2>2. /\ variante' = [v \in Variantes |-> IF v \in V THEN [variante[v] EXCEPT !.control = FALSE]
                                            ELSE variante[v]]
        /\ UNCHANGED <<piezas, transito, linea, entradas>>
        /\ \A u \in Trabajos : trabajo'[u] \in {trabajo[u], Parado}
        /\ alternados' = alternados \cup ConLineas(V \cap Controladas)
    BY <1>5, <2>1, CatAcude DEF ApagarAplicar, Alterna
  <2>3. ASSUME NEW w \in Variantes
        PROVE  /\ variante[w] = NoVariante <=> variante'[w] = NoVariante
               /\ w \notin V => variante'[w].control = variante[w].control
               /\ w \in V => variante'[w].control = FALSE
    <3>1. CASE w \notin V
      BY <2>2, <3>1
    <3>2. CASE w \in V /\ variante[w] = NoVariante
      BY <2>2, <3>2, VarianteForma
    <3>3. CASE w \in V /\ variante[w] \in Variante
      <4>1. variante'[w] \in Variante /\ variante'[w].control = FALSE
        BY <2>2, <3>3 DEF Variante
      <4>2. QED
        BY <3>3, <4>1, VarianteForma
    <3>4. QED
      BY <1>1, <3>1, <3>2, <3>3
  <2>4. ASSUME NEW w \in Variantes \ alternados', variante'[w].control # variante[w].control
        PROVE  Vendidas(w) = {} /\ w \notin Moviendose
    <3>1. w \in V \cap Controladas
      BY <1>1, <2>3, <2>4 DEF Controladas
    <3>2. QED
      BY <2>2, <3>1 DEF ConLineas
  <2>5. QED
    BY <1>0, <2>2, <2>3, <2>4, PzaVariantes
<1>6. QED
  BY <1>3, <1>4, <1>5

\* Every step keeps the count: the pieces that came in are on the shelf, in transit, or
\* discounted by a line.
LEMMA PzaPaso == InvCat /\ InvCat' /\ InvPiezas /\ [NextCat]_varsCat => InvPiezas'
<1> SUFFICES ASSUME InvCat, InvCat', InvPiezas, [NextCat]_varsCat
             PROVE  InvPiezas'
  OBVIOUS
<1>0. TipoPiezas'
  BY PzaTipo DEF InvPiezas
<1>1. CASE UNCHANGED varsCat
  <2>1. UNCHANGED <<variante, piezas, transito, linea, trabajo, entradas, cruzados, llegadas, alternados>>
    BY <1>1 DEF varsCat
  <2>2. QED
    BY <2>1 DEF InvPiezas, TipoPiezas, SinNada, Ligado, MismoControl, Vendidas, Descontadas, Reingresada, Cuadran
<1>2. ASSUME NEW p \in Productos, ArchivarProducto(p) PROVE InvPiezas'
  <2>1. UNCHANGED <<variante, piezas, transito, linea, trabajo, entradas, cruzados, llegadas, alternados>>
    BY <1>2 DEF ArchivarProducto, historia
  <2>2. QED
    BY <2>1 DEF InvPiezas, TipoPiezas, SinNada, Ligado, MismoControl, Vendidas, Descontadas, Reingresada, Cuadran
<1>3. ASSUME NEW t \in Trabajos, EntrarAplicar(t) PROVE InvPiezas'
  <2>1. PICK v \in Variantes : v = trabajo[t].variante
    BY <1>3, TrabajoVariante DEF EntrarAplicar
  <2>2. /\ piezas' = [piezas EXCEPT ![v] = @ + 1] /\ entradas' = [entradas EXCEPT ![v] = @ + 1]
        /\ UNCHANGED <<variante, linea, alternados>> /\ UNCHANGED transito
        /\ \A u \in Trabajos : trabajo'[u] \in {trabajo[u], Parado}
    BY <1>3, <2>1, CatAcude DEF EntrarAplicar, historia
  <2>3. variante[v] # NoVariante
    BY <1>3, <2>1 DEF EntrarAplicar, InvPiezas, SinNada, Ligado
  <2>4. /\ piezas \in [Variantes -> Nat] /\ transito \in [Variantes -> Nat]
        /\ entradas \in [Variantes -> Int]
    BY CatalogoAssumption DEF InvCat, TipoCat, InvPiezas, TipoPiezas
  <2>5. /\ \A w \in Variantes \ {v} :
             piezas'[w] = piezas[w] /\ transito'[w] = transito[w] /\ entradas'[w] = entradas[w]
        /\ piezas'[v] + transito'[v] + entradas[v] = piezas[v] + transito[v] + entradas'[v]
    BY <2>2, <2>4
  <2>6. QED
    BY <1>0, <2>2, <2>3, <2>5, PzaMueve
<1>4. ASSUME NEW t \in Trabajos, TransferirAplicar(t) PROVE InvPiezas'
  <2>1. PICK v \in Variantes : v = trabajo[t].variante
    BY <1>4, TrabajoVariante DEF TransferirAplicar
  <2>2. /\ piezas' = [piezas EXCEPT ![v] = @ - 1] /\ transito' = [transito EXCEPT ![v] = @ + 1]
        /\ UNCHANGED <<variante, linea, alternados>> /\ UNCHANGED entradas
        /\ \A u \in Trabajos : trabajo'[u] \in {trabajo[u], Parado}
    BY <1>4, <2>1, CatAcude DEF TransferirAplicar, historia
  <2>3. variante[v] # NoVariante
    BY <1>4, <2>1 DEF TransferirAplicar, InvPiezas, SinNada, Ligado
  <2>4. /\ piezas \in [Variantes -> Nat] /\ transito \in [Variantes -> Nat]
        /\ entradas \in [Variantes -> Int]
    BY CatalogoAssumption DEF InvCat, TipoCat, InvPiezas, TipoPiezas
  <2>5. /\ \A w \in Variantes \ {v} :
             piezas'[w] = piezas[w] /\ transito'[w] = transito[w] /\ entradas'[w] = entradas[w]
        /\ piezas'[v] + transito'[v] + entradas[v] = piezas[v] + transito[v] + entradas'[v]
    BY <2>2, <2>4
  <2>6. QED
    BY <1>0, <2>2, <2>3, <2>5, PzaMueve
<1>5. ASSUME NEW v \in Variantes, RecibirTransferencia(v) PROVE InvPiezas'
  <2>1. /\ piezas' = [piezas EXCEPT ![v] = @ + 1] /\ transito' = [transito EXCEPT ![v] = @ - 1]
        /\ UNCHANGED <<variante, linea, alternados>> /\ UNCHANGED entradas
        /\ \A u \in Trabajos : trabajo'[u] \in {trabajo[u], Parado}
    BY <1>5 DEF RecibirTransferencia
  <2>2. variante[v] # NoVariante
    BY <1>5 DEF RecibirTransferencia, InvPiezas, SinNada
  <2>3. /\ piezas \in [Variantes -> Nat] /\ transito \in [Variantes -> Nat]
        /\ entradas \in [Variantes -> Int]
    BY CatalogoAssumption DEF InvCat, TipoCat, InvPiezas, TipoPiezas
  <2>4. /\ \A w \in Variantes \ {v} :
             piezas'[w] = piezas[w] /\ transito'[w] = transito[w] /\ entradas'[w] = entradas[w]
        /\ piezas'[v] + transito'[v] + entradas[v] = piezas[v] + transito[v] + entradas'[v]
    BY <2>1, <2>3
  <2>5. QED
    BY <1>0, <2>1, <2>2, <2>4, PzaMueve
<1>c. ASSUME NEW v \in Variantes, NEW d \in -MaxPiezas .. MaxPiezas, ContabilizarConteo(v, d)
      PROVE  InvPiezas'
  <2>1. /\ piezas' = [piezas EXCEPT ![v] = @ + d] /\ entradas' = [entradas EXCEPT ![v] = @ + d]
        /\ UNCHANGED <<variante, linea, alternados>> /\ UNCHANGED transito
        /\ \A u \in Trabajos : trabajo'[u] \in {trabajo[u], Parado}
        /\ variante[v] # NoVariante
    BY <1>c DEF ContabilizarConteo
  <2>2. /\ piezas \in [Variantes -> Nat] /\ transito \in [Variantes -> Nat]
        /\ entradas \in [Variantes -> Int]
    BY CatalogoAssumption DEF InvCat, TipoCat, InvPiezas, TipoPiezas
  <2>3. /\ \A w \in Variantes \ {v} :
             piezas'[w] = piezas[w] /\ transito'[w] = transito[w] /\ entradas'[w] = entradas[w]
        /\ piezas'[v] + transito'[v] + entradas[v] = piezas[v] + transito[v] + entradas'[v]
    BY <2>1, <2>2
  <2>4. QED
    BY <1>0, <2>1, <2>3, PzaMueve
<1>6. ASSUME NEW v \in Variantes, NEW p \in Productos, NEW c \in BOOLEAN, NEW n \in 0 .. MaxPiezas,
             AgregarVariante(v, p, c, n) \/ \E t \in Trabajos : CrearProducto(t, p, v, c, n)
      PROVE  InvPiezas'
  <2>1. /\ Nueva(v, p, c, n) /\ UNCHANGED <<transito, linea, alternados>>
        /\ \A u \in Trabajos : trabajo'[u] \in {trabajo[u], Parado}
    BY <1>6, CatAcude DEF AgregarVariante, CrearProducto
  <2>2. QED
    BY <1>0, <2>1, PzaNueva
<1>7. ASSUME NEW t \in Trabajos, VenderAplicar(t) \/ DevolverAplicar(t) PROVE InvPiezas'
  BY <1>0, <1>7, PzaVender, PzaDevolver
<1>8. ASSUME NEW t \in Trabajos,
             \/ CrearProductoContar(t) \/ Renunciar(t)
             \/ \E p \in Productos : ConvertirLeer(t, p)
             \/ \E l \in Lineas, s \in BOOLEAN : DevolverLeer(t, l, s)
             \/ \E v \in Variantes :
                  \/ ArchivarVarianteLeer(t, v) \/ ApagarLeer(t, v)
                  \/ \E que \in Mueve : MoverLeer(t, v, que)
                  \/ \E l \in Lineas, c \in Cajas : VenderLeer(t, l, v, c)
      PROVE  InvPiezas'
  BY <1>0, <1>8, PzaEmpieza
<1>9. ASSUME NEW t \in Trabajos, ApagarAplicar(t) \/ ArchivarVarianteAplicar(t) PROVE InvPiezas'
  BY <1>0, <1>9, PzaCambia
<1>10. ASSUME NEW v \in Variantes, Encender(v) PROVE InvPiezas'
  BY <1>0, <1>10, PzaCambia
<1>11. QED
  BY <1>1, <1>2, <1>3, <1>4, <1>5, <1>6, <1>7, <1>8, <1>9, <1>10, <1>c DEF NextCat

\* No pieces, no lines and no movements at the start.
LEMMA PzaInit == InitCat => InvPiezas
<1>1. SUFFICES ASSUME InitCat PROVE InvPiezas
  OBVIOUS
<1>2. TipoPiezas
  BY <1>1, CatalogoAssumption DEF InitCat, TipoPiezas
<1>3. SinNada
  BY <1>1, ParadoForma DEF InitCat, SinNada, Ligado
<1>4. ASSUME NEW v \in Variantes PROVE MismoControl(v) /\ Cuadran(v)
  <2>1. Vendidas(v) = {}
    BY <1>1, VendidaForma DEF InitCat
  <2>2. MismoControl(v)
    BY <1>1, <2>1, ParadoForma DEF InitCat, MismoControl
  <2>3. Cardinality(Descontadas(v)) = 0
    <3>1. Descontadas(v) = {}
      BY <1>1, CatalogoAssumption DEF InitCat, Descontadas, NoLinea, CatalogoAssumption
    <3>2. QED
      BY <3>1, FS_EmptySet
  <2>4. QED
    BY <1>1, <2>2, <2>3 DEF InitCat, Cuadran
<1>5. QED
  BY <1>2, <1>3, <1>4 DEF InvPiezas

\* The product of a variant exists, and a product keeps its variants.
LEMMA CatPertenecen == Pertenecen /\ InvCat /\ [NextCat]_varsCat => Pertenecen'
<1> SUFFICES ASSUME Pertenecen, InvCat, [NextCat]_varsCat PROVE Pertenecen'
  OBVIOUS
<1>0. /\ variante \in [Variantes -> Variante \cup {NoVariante}]
      /\ producto \in [Productos -> {"AUSENTE", "ACTIVO", "ARCHIVADO"}]
      /\ \A v \in Variantes : variante[v] = NoVariante \/ variante[v].producto \in Creados
      /\ \A p \in Creados : De(p) # {}
      /\ NoVariante.producto = "ninguno" /\ "ninguno" \notin Productos
  BY CatalogoAssumption DEF CatalogoAssumption, Pertenecen, InvCat, TipoCat, NoVariante
\* Products that stay, and variants that stay with theirs.
<1>1. ASSUME producto' \in [Productos -> {"AUSENTE", "ACTIVO", "ARCHIVADO"}],
             \A p \in Productos : (producto[p] = "AUSENTE") <=> (producto'[p] = "AUSENTE"),
             \A v \in Variantes : /\ variante'[v].producto = variante[v].producto
                                  /\ (variante[v] = NoVariante => variante'[v] = NoVariante)
      PROVE  Pertenecen'
  <2>1. Creados' = Creados
    BY <1>1 DEF Creados
  <2>2. ASSUME NEW p \in Creados PROVE De(p)' # {}
    BY <1>0, <1>1, <2>2 DEF De
  <2>3. \A v \in Variantes : variante'[v] = NoVariante \/ variante'[v].producto \in Creados'
    BY <1>0, <1>1, <2>1
  <2>4. QED
    BY <1>1, <2>1, <2>2, <2>3 DEF Pertenecen
<1>2. ASSUME UNCHANGED <<producto, variante>> PROVE Pertenecen'
  BY <1>0, <1>1, <1>2
<1>3. ASSUME NEW p \in Productos, ArchivarProducto(p) PROVE Pertenecen'
  <2>1. /\ producto' = [producto EXCEPT ![p] = "ARCHIVADO"] /\ producto[p] # "AUSENTE"
        /\ UNCHANGED variante
    BY <1>3 DEF ArchivarProducto, Creados
  <2>2. QED
    BY <1>0, <1>1, <2>1
\* The control or the state of a variant.
<1>4. ASSUME NEW v \in Variantes, UNCHANGED producto, variante[v] # NoVariante,
             \/ variante' = [variante EXCEPT ![v].activa = FALSE]
             \/ variante' = [variante EXCEPT ![v].control = TRUE]
      PROVE  Pertenecen'
  <2>1. variante[v] \in Variante
    BY <1>0, <1>4
  <2>2. \A w \in Variantes : /\ variante'[w].producto = variante[w].producto
                             /\ (w # v => variante'[w] = variante[w])
    BY <1>0, <1>4, <2>1 DEF Variante
  <2>3. QED
    BY <1>0, <1>1, <1>4, <2>2
<1>5. ASSUME NEW t \in Trabajos, ArchivarVarianteAplicar(t) PROVE Pertenecen'
  <2>1. trabajo[t].variante \in Variantes /\ variante[trabajo[t].variante] # NoVariante
    BY <1>5, TrabajoForma DEF ArchivarVarianteAplicar, InvCat, TipoCat, Referidos, Refiere
  <2>2. QED
    BY <1>4, <1>5, <2>1 DEF ArchivarVarianteAplicar, historia
<1>6. ASSUME NEW v \in Variantes, Encender(v) PROVE Pertenecen'
  BY <1>4, <1>6 DEF Encender
<1>7. ASSUME NEW t \in Trabajos, ApagarAplicar(t) PROVE Pertenecen'
  <2>1. UNCHANGED producto /\ variante' = [v \in Variantes |->
          IF v \in Alcance(trabajo[t]) THEN [variante[v] EXCEPT !.control = FALSE] ELSE variante[v]]
    BY <1>7 DEF ApagarAplicar
  <2>2. ASSUME NEW v \in Variantes
        PROVE  /\ variante'[v].producto = variante[v].producto
               /\ (variante[v] = NoVariante => variante'[v] = NoVariante)
    <3>1. CASE variante[v] = NoVariante
      BY <2>1, <3>1, VarianteForma
    <3>2. CASE variante[v] \in Variante
      <4>1. variante[v] # NoVariante
        BY <3>2, VarianteForma
      <4>2. QED
        BY <2>1, <3>2, <4>1 DEF Variante
    <3>3. QED
      BY <1>0, <3>1, <3>2
  <2>3. QED
    BY <1>0, <1>1, <2>1, <2>2
\* A variant of a product, which may be new too.
<1>8. ASSUME NEW v \in Variantes, NEW p \in Productos, NEW k \in BOOLEAN, NEW n \in 0 .. MaxPiezas,
             Nueva(v, p, k, n), producto' \in [Productos -> {"AUSENTE", "ACTIVO", "ARCHIVADO"}],
             \A o \in Productos : producto'[o] # "AUSENTE" <=> producto[o] # "AUSENTE" \/ o = p
      PROVE  Pertenecen'
  <2>1. PICK x \in Variante : x.producto = p /\ variante' = [variante EXCEPT ![v] = x]
                              /\ variante[v] = NoVariante
    <3>1. [producto |-> p, activa |-> TRUE, control |-> k] \in Variante
      BY DEF Variante
    <3>2. QED
      BY <1>8, <3>1 DEF Nueva
  <2>2. Creados' = Creados \cup {p}
    BY <1>8 DEF Creados
  <2>3. \A w \in Variantes : variante'[w] = IF w = v THEN x ELSE variante[w]
    BY <1>0, <2>1
  <2>4. \A w \in Variantes : variante'[w] = NoVariante \/ variante'[w].producto \in Creados'
    BY <1>0, <2>1, <2>2, <2>3
  <2>5. ASSUME NEW o \in Creados' PROVE De(o)' # {}
    <3>1. CASE o = p
      BY <2>1, <2>3, <3>1 DEF De
    <3>2. CASE o # p
      <4>1. PICK w \in Variantes : variante[w].producto = o /\ o \in Productos
        BY <1>0, <2>2, <2>5, <3>2 DEF De, Creados
      <4>2. w # v
        BY <1>0, <2>1, <4>1
      <4>3. QED
        BY <2>3, <4>1, <4>2 DEF De
    <3>3. QED
      BY <3>1, <3>2
  <2>6. QED
    BY <1>8, <2>4, <2>5 DEF Pertenecen
<1>9. ASSUME NEW v \in Variantes, NEW p \in Productos, NEW k \in BOOLEAN, NEW n \in 0 .. MaxPiezas,
             AgregarVariante(v, p, k, n) PROVE Pertenecen'
  <2>1. Nueva(v, p, k, n) /\ UNCHANGED producto /\ producto[p] # "AUSENTE"
    BY <1>9 DEF AgregarVariante, Creados
  <2>2. QED
    BY <1>0, <1>8, <2>1
<1>10. ASSUME NEW v \in Variantes, NEW p \in Productos, NEW k \in BOOLEAN, NEW n \in 0 .. MaxPiezas,
              NEW t \in Trabajos, CrearProducto(t, p, v, k, n) PROVE Pertenecen'
  <2>1. Nueva(v, p, k, n) /\ producto' = [producto EXCEPT ![p] = "ACTIVO"]
    BY <1>10 DEF CrearProducto
  <2>2. producto' \in [Productos -> {"AUSENTE", "ACTIVO", "ARCHIVADO"}]
    BY <1>0, <2>1
  <2>3. \A o \in Productos : producto'[o] # "AUSENTE" <=> producto[o] # "AUSENTE" \/ o = p
    BY <1>0, <2>1
  <2>4. QED
    BY <1>8, <2>1, <2>2, <2>3
<1>11. QED
  BY <1>2, <1>3, <1>5, <1>6, <1>7, <1>9, <1>10
     DEF NextCat, varsCat, historia, CrearProductoContar, EntrarAplicar, TransferirAplicar, VenderAplicar,
         DevolverAplicar, Renunciar, ConvertirLeer, DevolverLeer, RecibirTransferencia,
         ContabilizarConteo, ArchivarVarianteLeer, ApagarLeer, MoverLeer, VenderLeer

\* No variants at the start, so each has its product.
LEMMA CatPertenecenInit == InitCat => Pertenecen
<1>1. SUFFICES ASSUME InitCat PROVE Pertenecen
  OBVIOUS
<1>2. Creados = {} /\ producto \in [Productos -> {"AUSENTE", "ACTIVO", "ARCHIVADO"}]
  BY <1>1 DEF InitCat, Creados
<1>3. \A v \in Variantes : variante[v] = NoVariante
  BY <1>1 DEF InitCat
<1>4. QED
  BY <1>2, <1>3 DEF Pertenecen

\* The types of the catalogue follow.
LEMMA CatTipo == InvCat /\ InvPiezas /\ Pertenecen => TypeOKCat
  BY DEF InvCat, TipoCat, InvPiezas, TipoPiezas, Pertenecen, TypeOKCat

-----------------------------------------------------------------------------
(* The limits of the plan *)

\* The limits of the plans have a greatest one.
LEMMA MayorLimiteForma == MayorLimite \in Nat /\ \A v \in Versiones : Limite[v] <= MayorLimite
<1> DEFINE L == {Limite[v] : v \in Versiones}
           T == {0} \cup L
<1>1. Limite \in Surjection(Versiones, L) /\ \A x \in L : x \in Nat
  BY SuscripcionesAssumption DEF Surjection
<1>2. IsFiniteSet(L)
  BY <1>1, SuscripcionesAssumption, FS_Surjection
<1> HIDE DEF L
<1>3. IsFiniteSet(T) /\ T # {} /\ \A x \in T : x \in Nat
  <2>1. IsFiniteSet({0})
    BY FS_Singleton
  <2>2. IsFiniteSet(T)
    BY <1>2, <2>1, FS_Union
  <2>3. QED
    BY <1>1, <2>2
<1> HIDE DEF T
<1>4. PICK n \in T : \A m \in T : n >= m
  BY <1>3, MaximoFinito
<1>5. Max(T) \in T /\ \A m \in T : Max(T) >= m
  BY <1>4, MaxEn
<1>6. MayorLimite = Max(T) /\ \A v \in Versiones : Limite[v] \in T
  BY DEF MayorLimite, T, L
<1>7. QED
  BY <1>3, <1>5, <1>6

\* What the plan allows is below the greatest limit.
LEMMA PermiteLimite ==
  ASSUME TipoSus, NEW f, NEW n \in Nat, Permite(f, n)
  PROVE  n <= MayorLimite - 1
<1>1. Vigentes \subseteq 1 .. MaxSubs /\ Vigentes # {}
  BY DEF Vigentes, Subs, Permite
<1>2. IsFiniteSet(1 .. MaxSubs)
  BY SuscripcionesAssumption, FS_Interval
<1>3. IsFiniteSet(Vigentes) /\ \A s \in Vigentes : s \in Nat
  <2>1. IsFiniteSet(Vigentes)
    BY <1>1, <1>2, FS_Subset
  <2>2. QED
    BY <1>1, <2>1, SuscripcionesAssumption
<1>4. PICK r \in Vigentes : \A s \in Vigentes : r >= s
  BY <1>1, <1>3, MaximoFinito
<1>5. Activa \in Subs
  BY <1>1, <1>4, MaxEn DEF Activa, Subs
<1>6. PICK d \in abiertos[Activa] : n < Limite[d.version]
  BY DEF Permite
<1>7. d.version \in Versiones
  BY <1>5, <1>6 DEF TipoSus, Derecho
<1>8. Limite[d.version] \in Nat /\ Limite[d.version] <= MayorLimite /\ MayorLimite \in Nat
  BY <1>7, MayorLimiteForma, SuscripcionesAssumption
<1>9. QED
  BY <1>6, <1>8

\* A part of a finite set has a number of elements, not above that of the set.
LEMMA CuentaParte ==
  ASSUME NEW S, IsFiniteSet(S)
  PROVE  /\ Cardinality(S) \in Nat
         /\ \A T \in SUBSET S :
              IsFiniteSet(T) /\ Cardinality(T) \in Nat /\ Cardinality(T) <= Cardinality(S)
  BY FS_Subset, FS_CardinalityType

\* A member more is an invitation less, or a reactivation more.
LEMMA CupoAcc ==
  ASSUME TipoSus, InvAcc, InvAcc', Invitados, [NextAcc]_varsAcc
  PROVE  Invitados'
<1>1. /\ Vivos \in SUBSET Usuarios /\ Vivos' \in SUBSET Usuarios
      /\ Invitando \in SUBSET Peticiones /\ Invitando' \in SUBSET Peticiones
  BY DEF Vivos, Invitando
<1>2. /\ IsFiniteSet(Vivos) /\ Cardinality(Vivos) \in Nat
      /\ IsFiniteSet(Invitando) /\ Cardinality(Invitando) \in Nat
      /\ Cardinality(Vivos') \in Nat /\ Cardinality(Invitando') \in Nat
      /\ Cardinality(Peticiones) \in Nat /\ Cardinality(Invitando') <= Cardinality(Peticiones)
  BY <1>1, AccesosAssumption, CuentaParte
<1>3. MayorLimite \in Nat /\ reactivados \in Nat /\ reactivados' \in Nat
  BY MayorLimiteForma, AccesosAssumption DEF InvAcc, TipoAcc
<1>4. /\ TipoAcc /\ \A u \in Usuarios : miembro[u] \in Miembro \cup {NoMiembro}
      /\ \A q \in Peticiones : Cumple(peticion[q]) /\ peticion[q] \in Peticion
  BY AccPorPeticion DEF InvAcc, TipoAcc
\* Nobody comes in.
<1>5. ASSUME Vivos' \subseteq Vivos, Invitando' \subseteq Invitando, reactivados' = reactivados
      PROVE  Invitados'
  <2>1. Cardinality(Vivos') <= Cardinality(Vivos) /\ Cardinality(Invitando') <= Cardinality(Invitando)
    BY <1>2, <1>5, CuentaParte
  <2>2. QED
    BY <1>2, <1>3, <1>5, <2>1 DEF Invitados
<1>6. ASSUME NEW q \in Peticiones, NEW x \in Peticion, x.op # "invitar",
             peticion' = [peticion EXCEPT ![q] = x], UNCHANGED <<miembro, reactivados>>
      PROVE  Invitados'
  <2>1. Vivos' = Vivos /\ reactivados' = reactivados
    BY <1>6 DEF Vivos
  <2>2. Invitando' \subseteq Invitando
    BY <1>4, <1>6 DEF Invitando, TipoAcc
  <2>3. QED
    BY <1>5, <2>1, <2>2
<1>7. CASE UNCHANGED varsAcc
  BY <1>5, <1>7 DEF varsAcc, Vivos, Invitando
<1>8. ASSUME NEW q \in Peticiones, NEW u \in Usuarios, NEW R \in SUBSET Roles, InvitarContar(q, u, R)
      PROVE  Invitados'
  <2>1. Cardinality(Vivos) <= MayorLimite - 1
    BY <1>2, <1>8, PermiteLimite DEF InvitarContar
  <2>2. Vivos' = Vivos /\ reactivados' = reactivados
    BY <1>8 DEF InvitarContar, Vivos
  <2>3. QED
    BY <1>2, <1>3, <2>1, <2>2 DEF Invitados
<1>9. ASSUME NEW q \in Peticiones, InvitarCrear(q)
      PROVE  Invitados'
  <2>1. PICK u \in Usuarios : u = peticion[q].usuario /\ peticion[q].op = "invitar"
    BY <1>4, <1>9, PeticionForma DEF InvitarCrear
  <2>2. /\ peticion' = [peticion EXCEPT ![q] = Quieta] /\ reactivados' = reactivados
        /\ miembro' = [miembro EXCEPT ![u] = [estado |-> "INVITADA", vinculado |-> FALSE]]
    BY <1>9, <2>1 DEF InvitarCrear, Responde
  <2>3. Vivos' \subseteq Vivos \cup {u}
    BY <1>4, <2>2 DEF Vivos, TipoAcc
  <2>4. Invitando' \subseteq Invitando \ {q} /\ q \in Invitando
    BY <1>4, <2>1, <2>2, QuietaForma DEF Invitando, TipoAcc
  <2>5. IsFiniteSet(Vivos \cup {u}) /\ Cardinality(Vivos \cup {u}) <= Cardinality(Vivos) + 1
    <3>1. /\ IsFiniteSet(Vivos \cup {u})
          /\ Cardinality(Vivos \cup {u}) = IF u \in Vivos THEN Cardinality(Vivos) ELSE Cardinality(Vivos) + 1
      BY <1>2, FS_AddElement
    <3>2. QED
      BY <1>2, <3>1
  <2>6. IsFiniteSet(Invitando \ {q}) /\ Cardinality(Invitando \ {q}) = Cardinality(Invitando) - 1
    BY <1>2, <2>4, FS_RemoveElement
  <2>7. /\ Cardinality(Vivos') <= Cardinality(Vivos \cup {u}) /\ Cardinality(Vivos \cup {u}) \in Nat
        /\ Cardinality(Invitando') <= Cardinality(Invitando \ {q})
    BY <2>3, <2>4, <2>5, <2>6, CuentaParte
  <2>8. QED
    BY <1>2, <1>3, <2>2, <2>5, <2>6, <2>7 DEF Invitados
<1>10. ASSUME NEW u \in Usuarios, NEW m, miembro[u] # NoMiembro, Fijar(u, m), Invitando' \subseteq Invitando
       PROVE  Invitados'
  <2>1. \A w \in Usuarios \ {u} : miembro'[w] = miembro[w]
    BY <1>4, <1>10 DEF Fijar, TipoAcc
  <2>2. Vivos' \subseteq Vivos \cup {u}
    BY <2>1 DEF Vivos
  <2>3. CASE Vivos' \subseteq Vivos
    <3>1. Cardinality(Vivos') <= Cardinality(Vivos) /\ Cardinality(Invitando') <= Cardinality(Invitando)
      BY <1>2, <1>10, <2>3, CuentaParte
    <3>2. reactivados' >= reactivados
      BY <1>3, <1>10 DEF Fijar
    <3>3. QED
      BY <1>2, <1>3, <3>1, <3>2 DEF Invitados
  <2>4. CASE u \in Vivos' /\ u \notin Vivos
    <3>1. Vuelve(u)
      BY <1>4, <1>10, <2>4, MiembroForma DEF Vuelve, Vivos
    <3>2. m.estado # "REVOCADA"
      BY <1>4, <1>10, <2>4 DEF Fijar, Vivos, TipoAcc
    <3>3. reactivados' = reactivados + 1
      BY <1>10, <3>1, <3>2 DEF Fijar
    <3>4. IsFiniteSet(Vivos \cup {u}) /\ Cardinality(Vivos \cup {u}) = Cardinality(Vivos) + 1
      BY <1>2, <2>4, FS_AddElement
    <3>5. Cardinality(Vivos') <= Cardinality(Vivos) + 1 /\ Cardinality(Invitando') <= Cardinality(Invitando)
      BY <1>2, <1>10, <2>2, <3>4, CuentaParte
    <3>6. QED
      BY <1>2, <1>3, <3>3, <3>5 DEF Invitados
  <2>5. QED
    BY <2>2, <2>3, <2>4
<1>11. ASSUME NEW q \in Peticiones, IngresarAplicar(q)
       PROVE  Invitados'
  <2>1. PICK u \in Usuarios : u = peticion[q].usuario /\ miembro[u] # NoMiembro
    BY <1>4, <1>11, PeticionForma DEF IngresarAplicar, Cumple
  <2>2. PICK m : Fijar(u, m)
    BY <1>11, <2>1 DEF IngresarAplicar
  <2>3. Invitando' \subseteq Invitando
    BY <1>4, <1>11, QuietaForma DEF IngresarAplicar, Responde, Invitando, TipoAcc
  <2>4. QED
    BY <1>10, <2>1, <2>2, <2>3
<1>12. ASSUME NEW u \in Usuarios, NEW e \in {"ACTIVA", "SUSPENDIDA", "REVOCADA"}, CambiarEstado(u, e)
       PROVE  Invitados'
  <2>1. PICK m : Fijar(u, m) /\ miembro[u] # NoMiembro
    BY <1>12 DEF CambiarEstado
  <2>2. Invitando' = Invitando
    BY <1>12 DEF CambiarEstado, Invitando
  <2>3. QED
    BY <1>10, <2>1, <2>2
<1>13. ASSUME NEW q \in Peticiones,
              \/ Rechazar(q) \/ AsignarRolesAplicar(q) \/ AsignarPermisosAplicar(q)
              \/ \E r \in Roles, P \in SUBSET Permisos : AsignarPermisosLeer(q, r, P)
              \/ \E u \in Usuarios : \/ IngresarLeer(q, u)
                                     \/ \E R \in SUBSET Roles : AsignarRolesLeer(q, u, R)
       PROVE  Invitados'
  <2>1. CASE Rechazar(q) \/ AsignarRolesAplicar(q) \/ AsignarPermisosAplicar(q)
    BY <1>6, <2>1, QuietaForma DEF Rechazar, AsignarRolesAplicar, AsignarPermisosAplicar, Responde
  <2>2. ASSUME NEW r \in Roles, NEW P \in SUBSET Permisos, AsignarPermisosLeer(q, r, P)
        PROVE  Invitados'
    <3>1. permisos[r] \in SUBSET Permisos
      BY <1>4 DEF TipoAcc
    <3>2. PICK x \in Peticion : x.op = "permitir" /\ peticion' = [peticion EXCEPT ![q] = x]
      BY <2>2, <3>1 DEF AsignarPermisosLeer, Consulta, Peticion
    <3>3. QED
      BY <1>6, <2>2, <3>2 DEF AsignarPermisosLeer
  <2>3. ASSUME NEW u \in Usuarios, IngresarLeer(q, u)
        PROVE  Invitados'
    <3>1. miembro[u] \in Miembro
      BY <1>4, <2>3 DEF IngresarLeer
    <3>2. PICK x \in Peticion : x.op = "ingresar" /\ peticion' = [peticion EXCEPT ![q] = x]
      BY <2>3, <3>1 DEF IngresarLeer, Consulta, Peticion
    <3>3. QED
      BY <1>6, <2>3, <3>2 DEF IngresarLeer
  <2>4. ASSUME NEW u \in Usuarios, NEW R \in SUBSET Roles, AsignarRolesLeer(q, u, R)
        PROVE  Invitados'
    <3>1. roles[u] \in SUBSET Roles
      BY <1>4 DEF TipoAcc
    <3>2. PICK x \in Peticion : x.op = "asignar" /\ peticion' = [peticion EXCEPT ![q] = x]
      BY <2>4, <3>1 DEF AsignarRolesLeer, Consulta, Peticion
    <3>3. QED
      BY <1>6, <2>4, <3>2 DEF AsignarRolesLeer
  <2>5. QED
    BY <1>13, <2>1, <2>2, <2>3, <2>4
<1>14. QED
  BY <1>7, <1>8, <1>9, <1>11, <1>12, <1>13 DEF NextAcc

\* A product more is a request that counted less.
LEMMA CupoCat ==
  ASSUME TipoSus, InvCat, InvCat', ConCupo, [NextCat]_varsCat
  PROVE  ConCupo'
<1>1. /\ Creados \in SUBSET Productos /\ Creados' \in SUBSET Productos
      /\ Creando \in SUBSET Trabajos /\ Creando' \in SUBSET Trabajos
  BY DEF Creados, Creando
<1>2. /\ IsFiniteSet(Creados) /\ Cardinality(Creados) \in Nat
      /\ IsFiniteSet(Creando) /\ Cardinality(Creando) \in Nat
      /\ Cardinality(Creados') \in Nat /\ Cardinality(Creando') \in Nat
      /\ Cardinality(Trabajos) \in Nat /\ Cardinality(Creando') <= Cardinality(Trabajos)
  BY <1>1, CatalogoAssumption, CuentaParte
<1>3. MayorLimite \in Nat
  BY MayorLimiteForma
<1>4. trabajo \in [Trabajos -> Trabajo]
  BY DEF InvCat, TipoCat
<1>5. ASSUME Creados' \subseteq Creados, Creando' \subseteq Creando
      PROVE  ConCupo'
  <2>1. Cardinality(Creados') <= Cardinality(Creados) /\ Cardinality(Creando') <= Cardinality(Creando)
    BY <1>2, <1>5, CuentaParte
  <2>2. QED
    BY <1>2, <1>3, <2>1 DEF ConCupo
\* A request begins another thing, or ends.
<1>6. ASSUME UNCHANGED producto, \A u \in Trabajos : trabajo'[u].op = "crear" => trabajo[u].op = "crear"
      PROVE  ConCupo'
  <2>1. Creados' = Creados /\ Creando' \subseteq Creando
    BY <1>6 DEF Creados, Creando
  <2>2. QED
    BY <1>5, <2>1
<1>7. ASSUME UNCHANGED <<producto, trabajo>>
      PROVE  ConCupo'
  BY <1>5, <1>7 DEF Creados, Creando
<1>8. ASSUME NEW p \in Productos, ArchivarProducto(p)
      PROVE  ConCupo'
  <2>1. Creando' = Creando
    BY <1>8 DEF ArchivarProducto, Creando
  <2>2. Creados' \subseteq Creados
    BY <1>8 DEF ArchivarProducto, Creados
  <2>3. QED
    BY <1>5, <2>1, <2>2
<1>9. ASSUME NEW t \in Trabajos, CrearProductoContar(t)
      PROVE  ConCupo'
  <2>1. Cardinality(Creados) <= MayorLimite - 1
    BY <1>2, <1>9, PermiteLimite DEF CrearProductoContar
  <2>2. Creados' = Creados
    BY <1>9 DEF CrearProductoContar, Creados
  <2>3. QED
    BY <1>2, <1>3, <2>1, <2>2 DEF ConCupo
<1>10. ASSUME NEW v \in Variantes, NEW p \in Productos, NEW k \in BOOLEAN, NEW n \in 0 .. MaxPiezas,
              NEW t \in Trabajos, CrearProducto(t, p, v, k, n)
       PROVE  ConCupo'
  <2>1. /\ trabajo[t].op = "crear" /\ trabajo' = [trabajo EXCEPT ![t] = Parado]
        /\ producto' = [producto EXCEPT ![p] = "ACTIVO"]
    BY <1>10 DEF CrearProducto, Acude
  <2>2. Creados' \subseteq Creados \cup {p}
    BY <2>1 DEF Creados
  <2>3. Creando' \subseteq Creando \ {t} /\ t \in Creando
    BY <1>4, <2>1, ParadoForma DEF Creando
  <2>4. IsFiniteSet(Creados \cup {p}) /\ Cardinality(Creados \cup {p}) <= Cardinality(Creados) + 1
    <3>1. /\ IsFiniteSet(Creados \cup {p})
          /\ Cardinality(Creados \cup {p}) =
               IF p \in Creados THEN Cardinality(Creados) ELSE Cardinality(Creados) + 1
      BY <1>2, FS_AddElement
    <3>2. QED
      BY <1>2, <3>1
  <2>5. IsFiniteSet(Creando \ {t}) /\ Cardinality(Creando \ {t}) = Cardinality(Creando) - 1
    BY <1>2, <2>3, FS_RemoveElement
  <2>6. /\ Cardinality(Creados') <= Cardinality(Creados \cup {p}) /\ Cardinality(Creados \cup {p}) \in Nat
        /\ Cardinality(Creando') <= Cardinality(Creando \ {t})
    BY <2>2, <2>3, <2>4, <2>5, CuentaParte
  <2>7. QED
    BY <1>2, <1>3, <2>4, <2>5, <2>6 DEF ConCupo
<1>11. ASSUME NEW t \in Trabajos,
              \/ ArchivarVarianteAplicar(t) \/ ApagarAplicar(t) \/ EntrarAplicar(t)
              \/ TransferirAplicar(t) \/ VenderAplicar(t) \/ DevolverAplicar(t) \/ Renunciar(t)
       PROVE  ConCupo'
  <2>1. trabajo' = [trabajo EXCEPT ![t] = Parado] /\ UNCHANGED producto
    BY <1>11 DEF ArchivarVarianteAplicar, ApagarAplicar, EntrarAplicar, TransferirAplicar, VenderAplicar,
                 DevolverAplicar, Renunciar, Acude
  <2>2. QED
    BY <1>4, <1>6, <2>1, ParadoForma
<1>12. ASSUME NEW t \in Trabajos,
              \/ \E p \in Productos : ConvertirLeer(t, p)
              \/ \E l \in Lineas, s \in BOOLEAN : DevolverLeer(t, l, s)
              \/ \E v \in Variantes : \/ ArchivarVarianteLeer(t, v) \/ ApagarLeer(t, v)
                                      \/ \E que \in Mueve : MoverLeer(t, v, que)
                                      \/ \E l \in Lineas, c \in Cajas : VenderLeer(t, l, v, c)
       PROVE  ConCupo'
  <2>1. UNCHANGED producto
    BY <1>12 DEF ConvertirLeer, DevolverLeer, ArchivarVarianteLeer, ApagarLeer, MoverLeer, VenderLeer
  <2>2. \A u \in Trabajos : trabajo'[u].op = "crear" => trabajo[u].op = "crear"
    <3>1. ASSUME NEW p \in Productos, ConvertirLeer(t, p)
          PROVE  \A u \in Trabajos : trabajo'[u].op = "crear" => trabajo[u].op = "crear"
      BY <1>4, <3>1 DEF ConvertirLeer, Emprende
    <3>2. ASSUME NEW l \in Lineas, NEW s \in BOOLEAN, DevolverLeer(t, l, s)
          PROVE  \A u \in Trabajos : trabajo'[u].op = "crear" => trabajo[u].op = "crear"
      BY <1>4, <3>2 DEF DevolverLeer, Emprende
    <3>3. ASSUME NEW v \in Variantes, ArchivarVarianteLeer(t, v) \/ ApagarLeer(t, v)
          PROVE  \A u \in Trabajos : trabajo'[u].op = "crear" => trabajo[u].op = "crear"
      BY <1>4, <3>3 DEF ArchivarVarianteLeer, ApagarLeer, Emprende
    <3>4. ASSUME NEW v \in Variantes, NEW que \in Mueve, MoverLeer(t, v, que)
          PROVE  \A u \in Trabajos : trabajo'[u].op = "crear" => trabajo[u].op = "crear"
      BY <1>4, <3>4 DEF MoverLeer, Emprende, Mueve
    <3>5. ASSUME NEW v \in Variantes, NEW l \in Lineas, NEW c \in Cajas, VenderLeer(t, l, v, c)
          PROVE  \A u \in Trabajos : trabajo'[u].op = "crear" => trabajo[u].op = "crear"
      BY <1>4, <3>5 DEF VenderLeer, Emprende
    <3>6. QED
      BY <1>12, <3>1, <3>2, <3>3, <3>4, <3>5
  <2>3. QED
    BY <1>6, <2>1, <2>2
<1>13. QED
  BY <1>7, <1>8, <1>9, <1>10, <1>11, <1>12
     DEF NextCat, varsCat, AgregarVariante, Encender, RecibirTransferencia, ContabilizarConteo

\* Nothing is counted at the start.
LEMMA CupoInit == InitAcc /\ InitCat => Invitados /\ ConCupo
<1>1. SUFFICES ASSUME InitAcc, InitCat PROVE Invitados /\ ConCupo
  OBVIOUS
<1>2. Vivos = {} /\ Invitando = {} /\ reactivados = 0
  BY <1>1, QuietaForma, MiembroForma DEF InitAcc, Vivos, Invitando
<1>3. Creados = {} /\ Creando = {}
  BY <1>1, ParadoForma DEF InitCat, Creados, Creando
<1>4. Cardinality(Peticiones) \in Nat \ {0} /\ Cardinality(Trabajos) \in Nat \ {0}
  BY AccesosAssumption, CatalogoAssumption, FS_EmptySet, FS_CardinalityType
<1>5. QED
  BY <1>2, <1>3, <1>4, MayorLimiteForma, FS_EmptySet DEF Invitados, ConCupo

\* What was counted and not yet created only adds.
LEMMA CupoFinal == Invitados /\ ConCupo /\ TipoAcc => CupoDelPlan
<1>1. Vivos \in SUBSET Usuarios /\ Invitando \in SUBSET Peticiones
  BY DEF Vivos, Invitando
<1>2. Creados \in SUBSET Productos /\ Creando \in SUBSET Trabajos
  BY DEF Creados, Creando
<1>3. /\ Cardinality(Vivos) \in Nat /\ Cardinality(Invitando) \in Nat /\ Cardinality(Peticiones) \in Nat
      /\ Cardinality(Creados) \in Nat /\ Cardinality(Creando) \in Nat /\ Cardinality(Trabajos) \in Nat
  BY <1>1, <1>2, AccesosAssumption, CatalogoAssumption, CuentaParte
<1>4. QED
  BY <1>3, MayorLimiteForma, AccesosAssumption DEF Invitados, ConCupo, TipoAcc, CupoDelPlan

-----------------------------------------------------------------------------
(* The platform: every part keeps its invariant, whatever the others do *)

InvPlataforma == InvSus /\ InvAcc /\ InvFac /\ InvSuc /\ InvCat /\ InvPiezas /\ Pertenecen /\ Invitados /\ ConCupo

\* The initial state satisfies the invariants of all the parts.
LEMMA PlataformaInit == InitPlataforma => InvPlataforma
  BY SusInit, AccInit, FacInit, SucInit, CatInit, PzaInit, CatPertenecenInit, CupoInit
     DEF InitPlataforma, Init, InvPlataforma

\* The parts share no variable, so a step of one leaves the others where they were.
LEMMA PlataformaPaso == InvPlataforma /\ [NextPlataforma]_todo => InvPlataforma'
<1> SUFFICES ASSUME InvPlataforma, [NextPlataforma]_todo PROVE InvPlataforma'
  OBVIOUS
<1>1. [NextSus]_varsSus /\ [NextAcc]_varsAcc /\ [NextFac]_varsFac /\ [NextSuc]_varsSuc /\ [NextCat]_varsCat
  BY DEF NextPlataforma, todo, Next, vars
<1>2. InvSus' /\ InvAcc' /\ InvFac' /\ InvSuc' /\ InvCat'
  BY <1>1, SusPaso, AccPaso, FacPaso, SucPaso, CatPaso DEF InvPlataforma
<1>3. InvPiezas' /\ Pertenecen'
  BY <1>1, <1>2, PzaPaso, CatPertenecen DEF InvPlataforma
<1>4. TipoSus
  BY DEF InvPlataforma, InvSus
<1>5. Invitados' /\ ConCupo'
  BY <1>1, <1>2, <1>4, CupoAcc, CupoCat DEF InvPlataforma
<1>6. QED
  BY <1>2, <1>3, <1>5 DEF InvPlataforma

\* They hold together in every behaviour of the platform: a step of one part leaves the
\* variables of the others, or only reads them.
LEMMA PlataformaInvariante == SpecPlataforma => []InvPlataforma
  BY PlataformaInit, PlataformaPaso, PTL DEF SpecPlataforma

\* Every table of the platform keeps its type: in particular the numbers of the open
\* entitlements, the sets a request saw, and the rows that requests name.
THEOREM PlataformaTipo == SpecPlataforma => []TypeOKPlataforma
<1>1. InvPlataforma => TypeOKPlataforma
  <2>1. InvAcc /\ InvSus => TypeOK
    BY SusFinal DEF InvAcc, TipoAcc, Invitada, TypeOK
  <2>2. QED
    BY <2>1, SusFinal, FacFinal, SucFinal, CatTipo DEF InvPlataforma, TypeOKPlataforma
<1>2. QED
  BY <1>1, PlataformaInvariante, PTL

\* A subscription gives the features of its version, and is the only one, for any plans and
\* any number of requests that subscribe, change the plan, edit it and publish it at once.
THEOREM PlanDaSusDerechos == SpecPlataforma => []DerechosDelPlan
<1>1. InvPlataforma => DerechosDelPlan
  BY SusFinal DEF InvPlataforma
<1>2. QED
  BY <1>1, PlataformaInvariante, PTL

\* Members and products stay within the greatest limit and the requests in flight.
THEOREM PlanAcota == SpecPlataforma => []CupoDelPlan
<1>1. InvPlataforma => CupoDelPlan
  BY CupoFinal DEF InvPlataforma, InvAcc
<1>2. QED
  BY <1>1, PlataformaInvariante, PTL

\* An invoice that is paid is covered by its payments, for any number of payments at once.
THEOREM FacturaPagadaCubierta == SpecPlataforma => []PagadaCubierta
<1>1. InvPlataforma => PagadaCubierta
  BY DEF InvPlataforma, InvFac
<1>2. QED
  BY <1>1, PlataformaInvariante, PTL

\* A replaced set of roles or permissions is the one that was asked for.
THEOREM ReemplazoEntero == SpecPlataforma => ReemplazoCompleto
<1>1. InvPlataforma /\ [NextPlataforma]_todo => [Completo]_vars
  <2>1. SUFFICES ASSUME InvPlataforma, [NextPlataforma]_todo PROVE Completo
    OBVIOUS
  <2>2. [NextAcc]_varsAcc
    BY <2>1 DEF NextPlataforma, todo, Next, vars
  <2>3. QED
    BY <2>1, <2>2, AccCompleto DEF InvPlataforma
<1>2. QED
  BY <1>1, PlataformaInvariante, PTL DEF SpecPlataforma, ReemplazoCompleto, Completo

\* A branch with warehouses has one default, and a register dispatches from one warehouse,
\* for any number of warehouses and of changes of the default that cross.
THEOREM UnAlmacenPredeterminado == SpecPlataforma => []ConPredeterminado
<1>1. InvPlataforma => ConPredeterminado
  BY SucFinal DEF InvPlataforma
<1>2. QED
  BY <1>1, PlataformaInvariante, PTL

\* A variant without control holds no stock, for any number of products, variants, lines and
\* requests that turn it off, sell it or move it, unless one crossed or arrived later.
THEOREM SinControlNoHayStock == SpecPlataforma => []SinControlSinStock
<1>1. InvPlataforma => SinControlSinStock
  BY DEF InvPlataforma, InvCat, Limpia, LimpiaEn, SinControlSinStock, Controladas
<1>2. QED
  BY <1>1, PlataformaInvariante, PTL

\* No piece appears or is lost, for any movements, sales and refunds that cross, unless the
\* control of the variant changed with lines of it sold.
THEOREM PiezasNoSePierden == SpecPlataforma => []PiezasConservadas
<1>1. InvPlataforma => PiezasConservadas
  BY DEF InvPlataforma, InvPiezas, Cuadran, PiezasConservadas
<1>2. QED
  BY <1>1, PlataformaInvariante, PTL

-----------------------------------------------------------------------------
(* Alta: from the sign-up to the published event *)

\* Tenant t is projected, or another tenant used its slug or its event.
Cubierto(t) == Desplazado(t) \/ slug[t] # 0

\* A projected tenant signed up, with its code for slug or with one it took, and whoever
\* consumed an event projected its tenant or is of another tenant.
SlugsOK ==
  /\ \A t \in Inquilinos : slug[t] # 0 =>
       codigo[t] # 0 /\ (slug[t] = codigo[t] \/ slug[t] \in ajenos.slugs)
  /\ \A t \in inbox : Cubierto(t)

\* What a relay holds was recorded, and what it has processed is projected if it can be.
Apartado(w) ==
  /\ \A i \in DOMAIN relay[w].lote : codigo[relay[w].lote[i]] # 0
  /\ relay[w].hecho => relay[w].lote # <<>>
                        /\ \A t \in Inquilinos : t = Head(relay[w].lote) => Cubierto(t)

\* No event is published before its tenant is projected.
TrasEfecto == \A t \in Inquilinos : evento[t].publicado => Cubierto(t)

InvAlta == TypeOKAlta /\ SlugsOK /\ (\A w \in Relays : Apartado(w)) /\ TrasEfecto

\* The phase of every event, and what a step may do to it.
fasesAlta == [t \in Inquilinos |-> faseDe(t)]
RefinaAlta == EntregaUnica!Next \/ UNCHANGED fasesAlta

Relevo == [lote : Seq(Inquilinos), hecho : BOOLEAN]
EnReg == [codigo : Codigos, quedan : 0 .. MaxIntentos]

\* Codes and batches are numbers; an absent event is an event of a kind of its own.
LEMMA AltaNumeros ==
  /\ Cardinality(Inquilinos) \in Nat /\ 0 \in Codigos
  /\ SinRegistro \in EnReg
  /\ NoEvento \notin Evento /\ NoEvento.publicado = FALSE
  /\ \A e \in Evento : e.publicado \in BOOLEAN
<1>1. Cardinality(Inquilinos) \in Nat
  BY AltaAssumption, FS_CardinalityType
<1>2. 0 \in 0 .. Cardinality(Inquilinos) /\ 0 \in 0 .. MaxIntentos
  BY <1>1, AltaAssumption
<1>3. QED
  BY <1>1, <1>2 DEF SinRegistro, EnReg, NoEvento, Evento, Codigos

\* The least free code is free, and a code.
LEMMA LibreMinima ==
  ASSUME Libres # {}
  PROVE  Min(Libres) \in Libres /\ Min(Libres) \in Codigos /\ Min(Libres) # 0
<1>1. Libres \subseteq 1 .. Cardinality(Inquilinos)
  BY DEF Libres
<1>2. Libres \in SUBSET Nat
  BY <1>1
<1>3. PICK k \in Libres : \A l \in Libres : k <= l
  BY <1>2, MinimoNat
<1>4. Min(Libres) \in Libres
  BY <1>3 DEF Min
<1> DEFINE n == Cardinality(Inquilinos)
           m == Min(Libres)
<1>5. m \in 1 .. n /\ n \in Nat
  BY <1>1, <1>4, AltaNumeros
<1>6. Codigos = 0 .. n
  BY DEF Codigos
<1> HIDE DEF n, m
<1>7. m \in Codigos /\ m # 0
  BY <1>5, <1>6
<1>8. QED
  BY <1>4, <1>7 DEF m

\* A claim takes no more events than there are, and no more than its limit.
LEMMA TomadosForma == Tomados \in Nat /\ Tomados <= Lote
<1> DEFINE n == Cardinality(Reclamables)
           m == Min({Lote, n})
<1>1. n \in Nat /\ Lote \in Nat
  BY AltaAssumption, FS_Subset, FS_CardinalityType DEF Reclamables
<1>2. m \in {Lote, n} /\ \A y \in {Lote, n} : m <= y
  <2> HIDE DEF n
  <2>1. \E x \in {Lote, n} : \A y \in {Lote, n} : x <= y
    <3>1. CASE Lote <= n
      BY <1>1, <3>1
    <3>2. CASE ~(Lote <= n)
      BY <1>1, <3>2
    <3>3. QED
      BY <3>1, <3>2
  <2>2. QED
    BY <2>1 DEF Min
<1>3. Tomados = m
  BY DEF Tomados
<1> HIDE DEF n, m
<1>4. QED
  BY <1>1, <1>2, <1>3

\* The rest of a batch is part of it.
LEMMA LoteResto ==
  ASSUME NEW s \in Seq(Inquilinos), s # <<>>
  PROVE  /\ 1 \in DOMAIN s /\ Head(s) = s[1] /\ Head(s) \in Inquilinos
         /\ Tail(s) \in Seq(Inquilinos) /\ Len(s) \in Nat /\ Len(Tail(s)) = Len(s) - 1
         /\ \A i \in DOMAIN Tail(s) : i + 1 \in DOMAIN s /\ Tail(s)[i] = s[i + 1]
  OBVIOUS

\* A step that moves the phase of one tenant at most, and ends the promise of any others.
LEMMA UnaFase ==
  ASSUME NEW t \in Inquilinos,
         \A u \in Inquilinos \ {t} : faseDe(u)' = faseDe(u) \/ faseDe(u)' = "sin promesa",
         \/ faseDe(t)' = faseDe(t) \/ faseDe(t)' = "sin promesa"
         \/ faseDe(t) = "ausente" /\ faseDe(t)' = "pendiente"
         \/ faseDe(t) = "pendiente" /\ faseDe(t)' = "hecho"
         \/ faseDe(t) = "hecho" /\ faseDe(t)' = "publicado"
  PROVE  RefinaAlta
<1> DEFINE P == {u \in Inquilinos : faseDe(u)' = "sin promesa"}
<1>1. CASE faseDe(t)' = faseDe(t) \/ faseDe(t)' = "sin promesa"
  <2>1. fasesAlta' = EntregaUnica!Sin(P, fasesAlta)
    BY <1>1 DEF fasesAlta, EntregaUnica!Sin
  <2>2. EntregaUnica!Perder
    BY <2>1 DEF EntregaUnica!Perder, fasesAlta
  <2>3. QED
    BY <2>2 DEF RefinaAlta, EntregaUnica!Next
<1>2. ASSUME NEW de, NEW a, faseDe(t) = de, faseDe(t)' = a, a # "sin promesa"
      PROVE  EntregaUnica!Pasar(t, de, a)
  <2>1. P \in SUBSET (Inquilinos \ {t}) /\ fasesAlta[t] = de
    BY <1>2 DEF fasesAlta
  <2>2. fasesAlta' = EntregaUnica!Sin(P, [fasesAlta EXCEPT ![t] = a])
    BY <1>2 DEF fasesAlta, EntregaUnica!Sin
  <2>3. QED
    BY <2>1, <2>2 DEF EntregaUnica!Pasar, fasesAlta
<1>3. QED
  BY <1>1, <1>2 DEF RefinaAlta, EntregaUnica!Next, EntregaUnica!Registrar, EntregaUnica!Aplicar,
                    EntregaUnica!Publicar

-----------------------------------------------------------------------------
\* No tenants, events or batches at the start.
LEMMA InicialAlta == InitAlta => InvAlta /\ EntregaUnica!Init
<1> SUFFICES ASSUME InitAlta PROVE InvAlta /\ EntregaUnica!Init
  OBVIOUS
<1>1. <<>> \in Seq(Inquilinos) /\ Len(<<>>) = 0 /\ DOMAIN <<>> = {}
  OBVIOUS
<1>2. TypeOKAlta
  BY <1>1, AltaNumeros, AltaAssumption DEF InitAlta, TypeOKAlta, EnReg
<1>3. QED
  BY <1>1, <1>2, AltaNumeros
     DEF InitAlta, InvAlta, SlugsOK, Apartado, TrasEfecto, EntregaUnica!Init, faseDe

\* A step of a sign-up that creates nothing.
LEMMA PasoSinCrear ==
  ASSUME InvAlta, NEW p \in Registros, Empezar(p) \/ Reintentar(p) \/ Abandonar(p)
  PROVE  InvAlta' /\ RefinaAlta
<1>1. UNCHANGED <<codigo, evento, slug, inbox, ajenos, relay, envios, fallos>>
  BY DEF Empezar, Reintentar, Abandonar
<1>2. \A n \in 0 .. MaxIntentos : Elegir(p, n) => reg' \in [Registros -> EnReg]
  BY LibreMinima, AltaNumeros DEF Elegir, InvAlta, TypeOKAlta, EnReg
<1>3. MaxIntentos \in 0 .. MaxIntentos /\ reg[p].quedan \in 0 .. MaxIntentos
  BY AltaAssumption DEF InvAlta, TypeOKAlta
<1>4. reg' \in [Registros -> EnReg]
  <2>1. CASE Empezar(p)
    BY <1>2, <1>3, <2>1 DEF Empezar
  <2>2. CASE Reintentar(p) /\ reg[p].quedan > 1
    <3>1. reg[p].quedan - 1 \in 0 .. MaxIntentos
      BY <1>3, <2>2, AltaAssumption
    <3>2. QED
      BY <1>2, <2>2, <3>1 DEF Reintentar
  <2>3. CASE reg' = [reg EXCEPT ![p] = SinRegistro]
    BY <2>3, AltaNumeros DEF InvAlta, TypeOKAlta, EnReg
  <2>4. QED
    BY <2>1, <2>2, <2>3 DEF Reintentar, Abandonar
<1>5. InvAlta'
  BY <1>1, <1>4 DEF InvAlta, TypeOKAlta, SlugsOK, Apartado, TrasEfecto, Cubierto, Desplazado, EnReg
<1>6. QED
  BY <1>1, <1>5 DEF RefinaAlta, fasesAlta, faseDe, Desplazado

\* A new tenant has a code of its own and an event that no relay has seen.
LEMMA PasoCrear ==
  ASSUME InvAlta, NEW p \in Registros, NEW t \in Inquilinos, Crear(p, t)
  PROVE  InvAlta' /\ RefinaAlta
<1> DEFINE e == [publicado |-> FALSE, bloqueo |-> "nulo", disponible |-> TRUE]
<1>1. /\ codigo' = [codigo EXCEPT ![t] = reg[p].codigo]
      /\ evento' = [evento EXCEPT ![t] = e]
      /\ reg' = [reg EXCEPT ![p] = SinRegistro]
      /\ UNCHANGED <<slug, inbox, ajenos, relay, envios, fallos>>
      /\ codigo[t] = 0 /\ \A u \in Inquilinos : codigo[u] # reg[p].codigo
  BY DEF Crear, Usados
<1>2. e \in Evento /\ ~e.publicado /\ e # NoEvento
  BY DEF Evento, NoEvento
<1> HIDE DEF e
<1>3. reg[p].codigo \in Codigos /\ reg[p].codigo # 0
  BY <1>1 DEF InvAlta, TypeOKAlta
<1>4. /\ t \notin inbox /\ slug[t] = 0
      /\ \A u \in Inquilinos \ {t} : codigo'[u] = codigo[u] /\ evento'[u] = evento[u]
      /\ codigo'[t] = reg[p].codigo /\ evento'[t] = e
      /\ \A u \in Inquilinos \ {t} : Cubierto(u)' <=> Cubierto(u)
  BY <1>1 DEF InvAlta, TypeOKAlta, SlugsOK, Cubierto, Desplazado
<1>5. TypeOKAlta'
  <2>1. codigo' \in [Inquilinos -> Codigos]
    BY <1>1, <1>3 DEF InvAlta, TypeOKAlta
  <2>2. \A u, v \in Inquilinos : codigo'[u] = codigo'[v] /\ codigo'[u] # 0 => u = v
    BY <1>1, <1>4 DEF InvAlta, TypeOKAlta
  <2>3. reg' \in [Registros -> [codigo : Codigos, quedan : 0 .. MaxIntentos]]
    BY <1>1, AltaNumeros DEF InvAlta, TypeOKAlta, EnReg
  <2>4. evento' \in [Inquilinos -> Evento \cup {NoEvento}]
    BY <1>1, <1>2 DEF InvAlta, TypeOKAlta
  <2>5. \A u \in Inquilinos : codigo'[u] = 0 <=> evento'[u] = NoEvento
    BY <1>2, <1>3, <1>4 DEF InvAlta, TypeOKAlta
  <2>6. inbox' \subseteq {u \in Inquilinos : codigo'[u] # 0}
    BY <1>1, <1>4 DEF InvAlta, TypeOKAlta
  <2>7. QED
    BY <1>1, <2>1, <2>2, <2>3, <2>4, <2>5, <2>6 DEF InvAlta, TypeOKAlta
<1>6. \A w \in Relays : Apartado(w)'
  <2>1. \A w \in Relays : \A i \in DOMAIN relay[w].lote : relay[w].lote[i] \in Inquilinos
    BY DEF InvAlta, TypeOKAlta
  <2>2. QED
    BY <1>1, <1>3, <1>4, <2>1, LoteResto DEF InvAlta, TypeOKAlta, Apartado
<1>7. TrasEfecto' /\ SlugsOK'
  BY <1>1, <1>2, <1>4 DEF InvAlta, TypeOKAlta, TrasEfecto, SlugsOK
<1>8. \A u \in Inquilinos \ {t} : faseDe(u)' = faseDe(u)
  BY <1>1, <1>4 DEF faseDe, Desplazado
<1>9. faseDe(t) = "ausente" /\ faseDe(t)' \in {"pendiente", "sin promesa"}
  BY <1>1, <1>2, <1>3, <1>4 DEF faseDe
<1>10. QED
  BY <1>5, <1>6, <1>7, <1>8, <1>9, UnaFase DEF InvAlta

\* What the use of slug s and of the events E by tenant t leaves in the history.
Anotado(t, s, E) ==
  ajenos' = IF Admite(t, s, E)
              THEN [slugs |-> ajenos.slugs \cup ({s} \ {codigo[t]}),
                    eventos |-> ajenos.eventos \cup (E \ {t})]
              ELSE ajenos

\* A projection moves the phase of one tenant, and only the first time; a slug or an event
\* of another tenant ends the promise of that one.
LEMMA FaseProyectar ==
  ASSUME InvAlta, NEW t \in Inquilinos, NEW s \in Slugs, NEW E \in Envios, codigo[t] # 0,
         \A u \in E : codigo[u] # 0, Proyectar(t, s, E), Anotado(t, s, E),
         UNCHANGED <<codigo, evento>>
  PROVE  /\ RefinaAlta /\ TrasEfecto' /\ SlugsOK'
         /\ slug' \in [Inquilinos -> Slugs \cup {0}]
         /\ \A u, v \in Inquilinos : slug'[u] = slug'[v] /\ slug'[u] # 0 => u = v
         /\ inbox' \subseteq {u \in Inquilinos : codigo'[u] # 0}
         /\ ajenos' \in [slugs : SUBSET Slugs, eventos : SUBSET Inquilinos]
         /\ \A u \in Inquilinos : Cubierto(u) => Cubierto(u)'
<1>1. CASE ~Admite(t, s, E)
  <2>1. UNCHANGED <<slug, inbox, ajenos, codigo, evento>>
    BY <1>1 DEF Proyectar, Anotado
  <2>2. RefinaAlta
    BY <2>1 DEF RefinaAlta, fasesAlta, faseDe, Desplazado
  <2>3. QED
    BY <2>1, <2>2 DEF InvAlta, TypeOKAlta, SlugsOK, TrasEfecto, Cubierto, Desplazado
<1>2. CASE Admite(t, s, E)
  <2>1. /\ slug' = [slug EXCEPT ![t] = s] /\ inbox' = inbox \cup E
        /\ ajenos' = [slugs |-> ajenos.slugs \cup ({s} \ {codigo[t]}),
                      eventos |-> ajenos.eventos \cup (E \ {t})]
        /\ UNCHANGED <<codigo, evento>>
    BY <1>2 DEF Proyectar, Anotado
  <2>2. s # 0 /\ E \subseteq Inquilinos
    BY AltaNumeros DEF Slugs, Envios
  <2>3. /\ slug'[t] = s /\ \A u \in Inquilinos \ {t} : slug'[u] = slug[u] /\ slug[u] # s
        /\ ajenos.slugs \subseteq ajenos'.slugs /\ ajenos.eventos \subseteq ajenos'.eventos
        /\ s = codigo[t] \/ s \in ajenos'.slugs
        /\ \A u \in E : u = t \/ u \in ajenos'.eventos
    BY <1>2, <2>1 DEF Admite, InvAlta, TypeOKAlta
  <2>4. \A u \in Inquilinos : Desplazado(u) => Desplazado(u)'
    BY <2>1, <2>3 DEF Desplazado
  <2>5. Cubierto(t)' /\ \A u \in Inquilinos : Cubierto(u) => Cubierto(u)'
    BY <2>2, <2>3, <2>4 DEF Cubierto
  <2>6. /\ slug' \in [Inquilinos -> Slugs \cup {0}]
        /\ \A u, v \in Inquilinos : slug'[u] = slug'[v] /\ slug'[u] # 0 => u = v
        /\ inbox' \subseteq {u \in Inquilinos : codigo'[u] # 0}
        /\ ajenos' \in [slugs : SUBSET Slugs, eventos : SUBSET Inquilinos]
    BY <2>1, <2>2, <2>3 DEF InvAlta, TypeOKAlta
  <2>7. TrasEfecto'
    BY <2>1, <2>5 DEF InvAlta, TrasEfecto
  <2>8. SlugsOK'
    <3>1. \A u \in Inquilinos : slug'[u] # 0 =>
            codigo'[u] # 0 /\ (slug'[u] = codigo'[u] \/ slug'[u] \in ajenos'.slugs)
      BY <2>1, <2>3 DEF InvAlta, SlugsOK
    <3>2. \A u \in inbox' : Cubierto(u)'
      <4>1. \A u \in inbox : Cubierto(u)'
        BY <2>5 DEF InvAlta, SlugsOK, TypeOKAlta
      <4>2. \A u \in E : Cubierto(u)'
        BY <2>3, <2>5 DEF Cubierto, Desplazado
      <4>3. QED
        BY <2>1, <4>1, <4>2
    <3>3. QED
      BY <3>1, <3>2 DEF SlugsOK
  <2>9. \A u \in Inquilinos \ {t} : faseDe(u)' = faseDe(u) \/ faseDe(u)' = "sin promesa"
    <3> SUFFICES ASSUME NEW u \in Inquilinos \ {t}
                 PROVE  faseDe(u)' = faseDe(u) \/ faseDe(u)' = "sin promesa"
      OBVIOUS
    <3>1. slug'[u] = slug[u] /\ codigo'[u] = codigo[u] /\ evento'[u] = evento[u]
      BY <2>1, <2>3
    <3>2. QED
      BY <2>4, <3>1 DEF faseDe
  <2>10. \/ faseDe(t)' = faseDe(t) \/ faseDe(t)' = "sin promesa"
         \/ faseDe(t) = "pendiente" /\ faseDe(t)' = "hecho"
    <3>1. slug'[t] # 0 /\ codigo'[t] = codigo[t] /\ evento'[t] = evento[t]
      BY <2>1, <2>2, <2>3
    <3>2. evento[t].publicado => Desplazado(t) \/ slug[t] # 0
      BY DEF InvAlta, TrasEfecto, Cubierto
    <3>3. QED
      BY <2>4, <3>1, <3>2 DEF faseDe
  <2>11. RefinaAlta
    BY <2>9, <2>10, UnaFase
  <2>12. QED
    BY <2>5, <2>6, <2>7, <2>8, <2>11
<1>3. QED
  BY <1>1, <1>2

\* The endpoint projects a tenant that exists, whatever the relays do.
LEMMA PasoConsumir ==
  ASSUME InvAlta, NEW t \in Inquilinos, NEW s \in Slugs, NEW E \in Envios, Consumir(t, s, E)
  PROVE  InvAlta' /\ RefinaAlta
<1>1. /\ codigo[t] # 0 /\ (\A u \in E : codigo[u] # 0)
      /\ Proyectar(t, s, E) /\ Anotado(t, s, E)
      /\ UNCHANGED <<codigo, reg, evento, relay, fallos>>
  BY DEF Consumir, Anotado
<1>2. envios' \in 0 .. MaxEnvios
  BY AltaAssumption DEF Consumir, InvAlta, TypeOKAlta
<1>3. /\ RefinaAlta /\ TrasEfecto' /\ SlugsOK'
      /\ slug' \in [Inquilinos -> Slugs \cup {0}]
      /\ \A u, v \in Inquilinos : slug'[u] = slug'[v] /\ slug'[u] # 0 => u = v
      /\ inbox' \subseteq {u \in Inquilinos : codigo'[u] # 0}
      /\ ajenos' \in [slugs : SUBSET Slugs, eventos : SUBSET Inquilinos]
      /\ \A u \in Inquilinos : Cubierto(u) => Cubierto(u)'
  BY <1>1, FaseProyectar
<1>4. TypeOKAlta'
  BY <1>1, <1>2, <1>3 DEF InvAlta, TypeOKAlta
<1>5. QED
  BY <1>1, <1>3, <1>4 DEF InvAlta, Apartado

\* A relay that works through its batch keeps what it holds.
LEMMA RelevoDeUno ==
  ASSUME InvAlta, NEW w \in Relays, NEW r \in Relevo, Len(r.lote) <= Lote,
         relay' = [relay EXCEPT ![w] = r], codigo' = codigo,
         \A u \in Inquilinos : Cubierto(u) => Cubierto(u)',
         \A i \in DOMAIN r.lote : codigo[r.lote[i]] # 0,
         r.hecho => r.lote # <<>> /\ \A t \in Inquilinos : t = Head(r.lote) => Cubierto(t)'
  PROVE  /\ relay' \in [Relays -> Relevo]
         /\ \A v \in Relays : Len(relay'[v].lote) <= Lote /\ Apartado(v)'
<1>1. relay'[w] = r /\ \A v \in Relays \ {w} : relay'[v] = relay[v]
  BY DEF InvAlta, TypeOKAlta
<1>2. relay' \in [Relays -> Relevo]
  BY DEF InvAlta, TypeOKAlta, Relevo
<1>3. \A v \in Relays : Len(relay'[v].lote) <= Lote
  BY <1>1 DEF InvAlta, TypeOKAlta
<1>4. \A v \in Relays : Apartado(v)'
  BY <1>1 DEF InvAlta, Apartado
<1>5. QED
  BY <1>2, <1>3, <1>4

\* What is projected depends on neither events nor relays.
LEMMA CubiertosIguales ==
  ASSUME UNCHANGED <<codigo, slug, inbox, ajenos>>
  PROVE  /\ \A t \in Inquilinos : (Cubierto(t)' <=> Cubierto(t)) /\ (Desplazado(t)' <=> Desplazado(t))
         /\ InvAlta => SlugsOK'
  BY DEF Cubierto, Desplazado, InvAlta, SlugsOK

\* A change of leases and waits alone publishes nothing.
LEMMA EventosIguales ==
  ASSUME InvAlta, UNCHANGED <<codigo, slug, inbox, ajenos>>, evento' \in [Inquilinos -> Evento \cup {NoEvento}],
         \A t \in Inquilinos : evento'[t].publicado = evento[t].publicado
  PROVE  TrasEfecto' /\ RefinaAlta
<1>1. \A t \in Inquilinos : faseDe(t)' = faseDe(t)
  BY CubiertosIguales DEF faseDe
<1>2. QED
  BY <1>1, CubiertosIguales DEF InvAlta, TrasEfecto, RefinaAlta, fasesAlta

\* The columns of an event that a relay writes.
LEMMA EventoEscrito ==
  ASSUME NEW e \in Evento, NEW b \in {"nulo", "vigente", "vencido"}, NEW d \in BOOLEAN
  PROVE  /\ [e EXCEPT !.bloqueo = b] \in Evento
         /\ [e EXCEPT !.disponible = d] \in Evento
         /\ [e EXCEPT !.bloqueo = b, !.disponible = d] \in Evento
         /\ [e EXCEPT !.publicado = TRUE, !.bloqueo = b] \in Evento
         /\ [e EXCEPT !.bloqueo = b].publicado = e.publicado
         /\ [e EXCEPT !.disponible = d].publicado = e.publicado
         /\ [e EXCEPT !.bloqueo = b, !.disponible = d].publicado = e.publicado
         /\ [e EXCEPT !.publicado = TRUE, !.bloqueo = b].publicado = TRUE
  BY DEF Evento

\* One event is written: the others keep theirs, and so do the tenants.
LEMMA EventoDeUno ==
  ASSUME InvAlta, NEW t \in Inquilinos, evento[t] # NoEvento, NEW e \in Evento,
         evento' = [evento EXCEPT ![t] = e], codigo' = codigo
  PROVE  /\ evento' \in [Inquilinos -> Evento \cup {NoEvento}]
         /\ \A u \in Inquilinos : codigo'[u] = 0 <=> evento'[u] = NoEvento
         /\ evento'[t] = e /\ \A u \in Inquilinos \ {t} : evento'[u] = evento[u]
<1>1. e # NoEvento
  BY AltaNumeros
<1>2. evento'[t] = e /\ \A u \in Inquilinos \ {t} : evento'[u] = evento[u]
  BY DEF InvAlta, TypeOKAlta
<1>3. QED
  BY <1>1, <1>2 DEF InvAlta, TypeOKAlta

\* A claim puts a lease on events that exist.
LEMMA PasoReclamar ==
  ASSUME InvAlta, NEW w \in Relays, Reclamar(w)
  PROVE  InvAlta' /\ RefinaAlta
<1> DEFINE n == Tomados
<1>1. PICK lote \in [1 .. n -> Reclamables] :
        /\ relay' = [relay EXCEPT ![w] = [lote |-> lote, hecho |-> FALSE]]
        /\ evento' = [t \in Inquilinos |-> IF \E i \in 1 .. n : lote[i] = t
                        THEN [evento[t] EXCEPT !.bloqueo = "vigente"] ELSE evento[t]]
  BY DEF Reclamar
<1>2. UNCHANGED <<codigo, reg, slug, inbox, ajenos, envios, fallos>>
  BY DEF Reclamar
<1>3. n \in Nat /\ n <= Lote
  BY TomadosForma
<1> HIDE DEF n
<1>4. \A i \in 1 .. n : lote[i] \in Inquilinos /\ evento[lote[i]] # NoEvento /\ evento[lote[i]] \in Evento
  BY <1>1 DEF Reclamables, InvAlta, TypeOKAlta
<1>5. lote \in Seq(Inquilinos) /\ Len(lote) = n /\ DOMAIN lote = 1 .. n
  <2>1. lote \in [1 .. n -> Inquilinos]
    BY <1>1, <1>4
  <2>2. QED
    BY <1>3, <2>1
<1>6. \A t \in Inquilinos : /\ evento'[t].publicado = evento[t].publicado
                            /\ evento'[t] \in Evento \cup {NoEvento}
                            /\ evento'[t] = NoEvento <=> evento[t] = NoEvento
  <2> SUFFICES ASSUME NEW t \in Inquilinos
               PROVE  /\ evento'[t].publicado = evento[t].publicado
                      /\ evento'[t] \in Evento \cup {NoEvento}
                      /\ evento'[t] = NoEvento <=> evento[t] = NoEvento
    OBVIOUS
  <2>1. CASE \E i \in 1 .. n : lote[i] = t
    <3> DEFINE e == [evento[t] EXCEPT !.bloqueo = "vigente"]
    <3>1. evento[t] \in Evento /\ evento[t] # NoEvento
      BY <1>4, <2>1
    <3>2. e \in Evento /\ e.publicado = evento[t].publicado
      BY <3>1, EventoEscrito
    <3>3. evento'[t] = e
      BY <1>1, <2>1
    <3> HIDE DEF e
    <3>4. QED
      BY <3>1, <3>2, <3>3, AltaNumeros
  <2>2. CASE ~\E i \in 1 .. n : lote[i] = t
    BY <1>1, <2>2 DEF InvAlta, TypeOKAlta
  <2>3. QED
    BY <2>1, <2>2
<1>7. evento' \in [Inquilinos -> Evento \cup {NoEvento}]
  <2>1. DOMAIN evento' = Inquilinos /\ evento' = [t \in Inquilinos |-> evento'[t]]
    BY <1>1
  <2>2. QED
    BY <1>6, <2>1
<1>8. TrasEfecto' /\ RefinaAlta
  BY <1>2, <1>6, <1>7, EventosIguales
<1> DEFINE r == [lote |-> lote, hecho |-> FALSE]
<1>9. r \in Relevo /\ r.lote = lote /\ r.hecho = FALSE
  BY <1>5 DEF Relevo
<1>10. \A i \in DOMAIN lote : codigo[lote[i]] # 0
  BY <1>4, <1>5 DEF InvAlta, TypeOKAlta
<1>11. relay' = [relay EXCEPT ![w] = r]
  BY <1>1
<1> HIDE DEF r
<1>12. /\ relay' \in [Relays -> Relevo]
       /\ \A v \in Relays : Len(relay'[v].lote) <= Lote /\ Apartado(v)'
  BY <1>2, <1>3, <1>5, <1>9, <1>10, <1>11, RelevoDeUno, CubiertosIguales
<1>13. TypeOKAlta'
  BY <1>2, <1>6, <1>7, <1>12 DEF InvAlta, TypeOKAlta, Relevo
<1>14. QED
  BY <1>2, <1>8, <1>12, <1>13, CubiertosIguales DEF InvAlta

\* The first event of a batch exists, and the rest of the batch is still held.
LEMMA PrimerEvento ==
  ASSUME InvAlta, NEW w \in Relays, relay[w].lote # <<>>
  PROVE  LET t == Head(relay[w].lote)
         IN /\ t \in Inquilinos /\ codigo[t] # 0 /\ evento[t] # NoEvento /\ evento[t] \in Evento
            /\ [lote |-> Tail(relay[w].lote), hecho |-> FALSE] \in Relevo
            /\ Len(Tail(relay[w].lote)) <= Lote
            /\ \A i \in DOMAIN Tail(relay[w].lote) : codigo[Tail(relay[w].lote)[i]] # 0
<1> DEFINE s == relay[w].lote
<1>1. s \in Seq(Inquilinos) /\ Len(s) <= Lote /\ \A i \in DOMAIN s : codigo[s[i]] # 0
  BY DEF InvAlta, TypeOKAlta, Apartado
<1> HIDE DEF s
<1>2. s # <<>>
  BY DEF s
<1>3. /\ Head(s) \in Inquilinos /\ codigo[Head(s)] # 0 /\ Tail(s) \in Seq(Inquilinos)
      /\ Len(Tail(s)) <= Lote /\ \A i \in DOMAIN Tail(s) : codigo[Tail(s)[i]] # 0
  <2>1. /\ 1 \in DOMAIN s /\ Head(s) = s[1] /\ Head(s) \in Inquilinos
        /\ Tail(s) \in Seq(Inquilinos) /\ Len(s) \in Nat /\ Len(Tail(s)) = Len(s) - 1
        /\ \A i \in DOMAIN Tail(s) : i + 1 \in DOMAIN s /\ Tail(s)[i] = s[i + 1]
    BY <1>1, <1>2, LoteResto
  <2>2. QED
    BY <1>1, <2>1, AltaAssumption
<1>4. evento[Head(s)] # NoEvento /\ evento[Head(s)] \in Evento
  BY <1>3 DEF InvAlta, TypeOKAlta
<1>5. [lote |-> Tail(s), hecho |-> FALSE] \in Relevo
  BY <1>3 DEF Relevo
<1>6. QED
  BY <1>3, <1>4, <1>5 DEF s

\* A relay projects the first event it holds, or finds it consumed or its slug taken.
LEMMA PasoProcesar ==
  ASSUME InvAlta, NEW w \in Relays, Procesar(w)
  PROVE  InvAlta' /\ RefinaAlta
<1>0. PICK t \in Inquilinos : t = Head(relay[w].lote) /\ codigo[t] # 0
  BY PrimerEvento DEF Procesar
<1> DEFINE r == [relay[w] EXCEPT !.hecho = TRUE]
<1>1. /\ relay[w].lote # <<>> /\ Proyectar(t, codigo[t], {t}) /\ relay' = [relay EXCEPT ![w] = r]
      /\ UNCHANGED <<codigo, reg, evento, ajenos, envios, fallos>>
  BY <1>0 DEF Procesar
<1>2. codigo[t] \in Slugs /\ {t} \in Envios
  <2>1. codigo[t] \in 0 .. Cardinality(Inquilinos)
    BY DEF InvAlta, TypeOKAlta, Codigos
  <2>2. QED
    BY <1>0, <2>1, AltaNumeros DEF Slugs, Envios
<1>3. Anotado(t, codigo[t], {t})
  BY <1>1 DEF Anotado, InvAlta, TypeOKAlta
<1>4. /\ RefinaAlta /\ TrasEfecto' /\ SlugsOK'
      /\ slug' \in [Inquilinos -> Slugs \cup {0}]
      /\ \A u, v \in Inquilinos : slug'[u] = slug'[v] /\ slug'[u] # 0 => u = v
      /\ inbox' \subseteq {u \in Inquilinos : codigo'[u] # 0}
      /\ ajenos' \in [slugs : SUBSET Slugs, eventos : SUBSET Inquilinos]
      /\ \A u \in Inquilinos : Cubierto(u) => Cubierto(u)'
  BY <1>0, <1>1, <1>2, <1>3, FaseProyectar
<1>5. Cubierto(t)'
  <2>1. CASE Admite(t, codigo[t], {t})
    <3>1. slug' = [slug EXCEPT ![t] = codigo[t]]
      BY <1>1, <2>1 DEF Proyectar
    <3>2. QED
      BY <1>0, <3>1 DEF Cubierto, InvAlta, TypeOKAlta
  <2>2. CASE t \in inbox
    BY <1>4, <2>2 DEF InvAlta, SlugsOK
  <2>3. ASSUME NEW u \in Inquilinos \ {t}, slug[u] = codigo[t]
        PROVE  Cubierto(t)'
    <3>1. slug[u] \in ajenos.slugs
      BY <1>0, <2>3 DEF InvAlta, SlugsOK, TypeOKAlta
    <3>2. QED
      BY <1>4, <2>3, <3>1 DEF Cubierto, Desplazado
  <2>4. QED
    BY <2>1, <2>2, <2>3 DEF Admite
<1>6. r \in Relevo /\ r.lote = relay[w].lote
  <2>1. relay[w] \in [lote : Seq(Inquilinos), hecho : BOOLEAN]
    BY DEF InvAlta, TypeOKAlta, Relevo
  <2>2. QED
    BY <2>1 DEF Relevo
<1>7. Len(r.lote) <= Lote /\ (\A i \in DOMAIN r.lote : codigo[r.lote[i]] # 0) /\ r.lote # <<>>
      /\ \A u \in Inquilinos : u = Head(r.lote) => Cubierto(u)'
  <2> HIDE DEF r
  <2>1. Len(r.lote) <= Lote /\ \A i \in DOMAIN r.lote : codigo[r.lote[i]] # 0
    BY <1>6 DEF InvAlta, TypeOKAlta, Apartado
  <2>2. r.lote # <<>> /\ t = Head(r.lote)
    BY <1>0, <1>1, <1>6
  <2>3. \A u \in Inquilinos : u = t => Cubierto(u)'
    BY <1>5
  <2>4. QED
    BY <2>1, <2>2, <2>3
<1> HIDE DEF r
<1>8. /\ relay' \in [Relays -> Relevo]
      /\ \A v \in Relays : Len(relay'[v].lote) <= Lote /\ Apartado(v)'
  BY <1>1, <1>4, <1>6, <1>7, RelevoDeUno
<1>9. TypeOKAlta'
  BY <1>1, <1>4, <1>8 DEF InvAlta, TypeOKAlta, Relevo
<1>10. QED
  BY <1>4, <1>8, <1>9 DEF InvAlta

\* An event is marked published by a relay that has projected it.
LEMMA PasoMarcar ==
  ASSUME InvAlta, NEW w \in Relays, MarcarPublicado(w)
  PROVE  InvAlta' /\ RefinaAlta
<1>0. PICK t \in Inquilinos : t = Head(relay[w].lote)
  BY PrimerEvento DEF MarcarPublicado
<1> DEFINE e == [evento[t] EXCEPT !.publicado = TRUE, !.bloqueo = "nulo"]
           r == [lote |-> Tail(relay[w].lote), hecho |-> FALSE]
<1>1. /\ relay[w].lote # <<>> /\ relay[w].hecho /\ relay' = [relay EXCEPT ![w] = r]
      /\ UNCHANGED <<codigo, reg, slug, inbox, ajenos, envios, fallos>>
  BY DEF MarcarPublicado, Siguiente
<1>2. /\ t \in Inquilinos /\ codigo[t] # 0 /\ evento[t] # NoEvento /\ evento[t] \in Evento
      /\ r \in Relevo /\ Len(Tail(relay[w].lote)) <= Lote
      /\ \A i \in DOMAIN Tail(relay[w].lote) : codigo[Tail(relay[w].lote)[i]] # 0
  BY <1>0, <1>1, PrimerEvento
<1>3. e \in Evento /\ e.publicado = TRUE
  BY <1>2, EventoEscrito
<1>4. evento' = [evento EXCEPT ![t] = e]
  BY <1>0, <1>2 DEF MarcarPublicado, InvAlta, TypeOKAlta
<1>5. Cubierto(t) /\ (\A u \in Inquilinos : (Cubierto(u)' <=> Cubierto(u)) /\ (Desplazado(u)' <=> Desplazado(u)))
      /\ SlugsOK'
  BY <1>0, <1>1, CubiertosIguales DEF InvAlta, Apartado
<1>6. r.lote = Tail(relay[w].lote) /\ r.hecho = FALSE
  OBVIOUS
<1> HIDE DEF e, r
<1>7. /\ relay' \in [Relays -> Relevo]
      /\ \A v \in Relays : Len(relay'[v].lote) <= Lote /\ Apartado(v)'
  BY <1>1, <1>2, <1>6, RelevoDeUno, CubiertosIguales
<1>8. /\ evento' \in [Inquilinos -> Evento \cup {NoEvento}]
      /\ \A u \in Inquilinos : codigo'[u] = 0 <=> evento'[u] = NoEvento
      /\ evento'[t] = e /\ \A u \in Inquilinos \ {t} : evento'[u] = evento[u]
  BY <1>1, <1>2, <1>3, <1>4, EventoDeUno
<1>9. TypeOKAlta'
  BY <1>1, <1>7, <1>8 DEF InvAlta, TypeOKAlta, Relevo
<1>10. TrasEfecto'
  BY <1>1, <1>5, <1>8 DEF InvAlta, TrasEfecto
<1>11. \A u \in Inquilinos \ {t} : faseDe(u)' = faseDe(u)
  BY <1>1, <1>5, <1>8 DEF faseDe
<1>12. \/ faseDe(t)' = faseDe(t)
       \/ faseDe(t) = "hecho" /\ faseDe(t)' = "publicado"
  BY <1>1, <1>2, <1>3, <1>5, <1>8 DEF faseDe, Cubierto
<1>13. RefinaAlta
  BY <1>2, <1>11, <1>12, UnaFase
<1>14. QED
  BY <1>5, <1>7, <1>9, <1>10, <1>13 DEF InvAlta

\* A failure gives the lease back, even one that another relay holds by now.
LEMMA PasoReprogramar ==
  ASSUME InvAlta, NEW w \in Relays, Reprogramar(w)
  PROVE  InvAlta' /\ RefinaAlta
<1> DEFINE t == Head(relay[w].lote)
           e == [evento[t] EXCEPT !.bloqueo = "nulo", !.disponible = FALSE]
           r == [lote |-> Tail(relay[w].lote), hecho |-> FALSE]
<1>1. /\ relay[w].lote # <<>> /\ relay' = [relay EXCEPT ![w] = r]
      /\ UNCHANGED <<codigo, reg, slug, inbox, ajenos, envios>>
  BY DEF Reprogramar, Siguiente
<1>2. fallos' \in 0 .. MaxFallos
  BY AltaAssumption DEF Reprogramar, InvAlta, TypeOKAlta
<1>3. /\ t \in Inquilinos /\ codigo[t] # 0 /\ evento[t] # NoEvento /\ evento[t] \in Evento
      /\ r \in Relevo /\ Len(Tail(relay[w].lote)) <= Lote
      /\ \A i \in DOMAIN Tail(relay[w].lote) : codigo[Tail(relay[w].lote)[i]] # 0
  BY <1>1, PrimerEvento
<1>4. e \in Evento /\ e.publicado = evento[t].publicado
  BY <1>3, EventoEscrito
<1>5. evento' = [evento EXCEPT ![t] = e]
  BY <1>3 DEF Reprogramar, InvAlta, TypeOKAlta
<1>6. r.lote = Tail(relay[w].lote) /\ r.hecho = FALSE
  OBVIOUS
<1> HIDE DEF t, e, r
<1>7. /\ relay' \in [Relays -> Relevo]
      /\ \A v \in Relays : Len(relay'[v].lote) <= Lote /\ Apartado(v)'
  BY <1>1, <1>3, <1>6, RelevoDeUno, CubiertosIguales
<1>8. /\ evento' \in [Inquilinos -> Evento \cup {NoEvento}]
      /\ \A u \in Inquilinos : codigo'[u] = 0 <=> evento'[u] = NoEvento
      /\ evento'[t] = e /\ \A u \in Inquilinos \ {t} : evento'[u] = evento[u]
  BY <1>1, <1>3, <1>4, <1>5, EventoDeUno
<1>9. TypeOKAlta'
  BY <1>1, <1>2, <1>7, <1>8 DEF InvAlta, TypeOKAlta, Relevo
<1>10. TrasEfecto' /\ RefinaAlta
  BY <1>1, <1>4, <1>8, EventosIguales
<1>11. QED
  BY <1>1, <1>7, <1>9, <1>10, CubiertosIguales DEF InvAlta

\* A server that stops forgets its batch, and the leases stay.
LEMMA PasoCaer ==
  ASSUME InvAlta, NEW w \in Relays, Caer(w)
  PROVE  InvAlta' /\ RefinaAlta
<1> DEFINE r == [lote |-> <<>>, hecho |-> FALSE]
<1>1. relay' = [relay EXCEPT ![w] = r] /\ UNCHANGED <<codigo, reg, evento, slug, inbox, ajenos, envios>>
  BY DEF Caer
<1>2. fallos' \in 0 .. MaxFallos
  BY AltaAssumption DEF Caer, InvAlta, TypeOKAlta
<1>3. r \in Relevo /\ r.lote = <<>> /\ r.hecho = FALSE /\ Len(<<>>) <= Lote /\ DOMAIN <<>> = {}
  BY AltaAssumption DEF Relevo
<1> HIDE DEF r
<1>4. /\ relay' \in [Relays -> Relevo]
      /\ \A v \in Relays : Len(relay'[v].lote) <= Lote /\ Apartado(v)'
  BY <1>1, <1>3, RelevoDeUno, CubiertosIguales
<1>5. TypeOKAlta'
  BY <1>1, <1>2, <1>4 DEF InvAlta, TypeOKAlta, Relevo
<1>6. TrasEfecto' /\ RefinaAlta
  BY <1>1, CubiertosIguales DEF InvAlta, TrasEfecto, RefinaAlta, fasesAlta, faseDe
<1>7. QED
  BY <1>1, <1>4, <1>5, <1>6, CubiertosIguales DEF InvAlta

\* Time moves leases and waits, and nothing that was published.
LEMMA PasoTiempo ==
  ASSUME InvAlta, NEW t \in Inquilinos, Vencer(t) \/ Madurar(t)
  PROVE  InvAlta' /\ RefinaAlta
<1>1. UNCHANGED <<codigo, reg, slug, inbox, ajenos, relay, envios, fallos>>
  BY DEF Vencer, Madurar
<1>2. evento[t] # NoEvento /\ evento[t] \in Evento
  <2>1. evento[t].bloqueo = "vigente" \/ evento[t] # NoEvento
    BY DEF Vencer, Madurar
  <2>2. evento[t] # NoEvento
    <3>1. NoEvento.bloqueo # "vigente"
      BY DEF NoEvento
    <3>2. QED
      BY <2>1, <3>1
  <2>3. QED
    BY <2>2 DEF InvAlta, TypeOKAlta
<1>3. PICK e \in Evento : evento' = [evento EXCEPT ![t] = e] /\ e.publicado = evento[t].publicado
  <2>1. CASE Vencer(t)
    <3> DEFINE e == [evento[t] EXCEPT !.bloqueo = "vencido"]
    <3>1. e \in Evento /\ e.publicado = evento[t].publicado
      BY <1>2, EventoEscrito
    <3>2. evento' = [evento EXCEPT ![t] = e]
      BY <2>1 DEF Vencer, InvAlta, TypeOKAlta
    <3> HIDE DEF e
    <3>3. QED
      BY <3>1, <3>2
  <2>2. CASE Madurar(t)
    <3> DEFINE e == [evento[t] EXCEPT !.disponible = TRUE]
    <3>1. e \in Evento /\ e.publicado = evento[t].publicado
      BY <1>2, EventoEscrito
    <3>2. evento' = [evento EXCEPT ![t] = e]
      BY <2>2 DEF Madurar, InvAlta, TypeOKAlta
    <3> HIDE DEF e
    <3>3. QED
      BY <3>1, <3>2
  <2>3. QED
    BY <2>1, <2>2
<1>4. /\ evento' \in [Inquilinos -> Evento \cup {NoEvento}]
      /\ \A u \in Inquilinos : codigo'[u] = 0 <=> evento'[u] = NoEvento
      /\ evento'[t] = e /\ \A u \in Inquilinos \ {t} : evento'[u] = evento[u]
  BY <1>1, <1>2, <1>3, EventoDeUno
<1>5. TrasEfecto' /\ RefinaAlta
  BY <1>1, <1>3, <1>4, EventosIguales
<1>6. TypeOKAlta'
  BY <1>1, <1>4 DEF InvAlta, TypeOKAlta
<1>7. QED
  BY <1>1, <1>5, <1>6, CubiertosIguales DEF InvAlta, Apartado

\* Every step keeps the invariant and moves at most one phase, by one.
LEMMA PasoAlta == InvAlta /\ [NextAlta]_varsAlta => InvAlta' /\ RefinaAlta
<1> SUFFICES ASSUME InvAlta, [NextAlta]_varsAlta
             PROVE  InvAlta' /\ RefinaAlta
  OBVIOUS
<1>1. ASSUME NEW p \in Registros, Registro(p)
      PROVE  InvAlta' /\ RefinaAlta
  BY <1>1, PasoSinCrear, PasoCrear DEF Registro
<1>2. ASSUME NEW t \in Inquilinos, \/ \E s \in Slugs, E \in Envios : Consumir(t, s, E)
                                   \/ Vencer(t) \/ Madurar(t)
      PROVE  InvAlta' /\ RefinaAlta
  BY <1>2, PasoConsumir, PasoTiempo
<1>3. ASSUME NEW w \in Relays, TrabajoRelay(w) \/ Reprogramar(w) \/ Caer(w)
      PROVE  InvAlta' /\ RefinaAlta
  BY <1>3, PasoReclamar, PasoProcesar, PasoMarcar, PasoReprogramar, PasoCaer DEF TrabajoRelay
<1>4. CASE UNCHANGED varsAlta
  <2>1. UNCHANGED <<codigo, reg, evento, slug, inbox, ajenos, relay, envios, fallos>>
    BY <1>4 DEF varsAlta
  <2>2. InvAlta'
    BY <2>1, CubiertosIguales DEF InvAlta, TypeOKAlta, Apartado, TrasEfecto
  <2>3. RefinaAlta
    BY <2>1, CubiertosIguales DEF RefinaAlta, fasesAlta, faseDe
  <2>4. QED
    BY <2>2, <2>3
<1>5. QED
  BY <1>1, <1>2, <1>3, <1>4 DEF NextAlta

\* Codes of tenants are their own, and only recorded events are claimed or projected,
\* however sign-ups, relays and the endpoint overlap.
THEOREM TipoDeAlta == SpecAlta => []TypeOKAlta
<1>1. InvAlta => TypeOKAlta
  BY DEF InvAlta
<1>2. QED
  BY InicialAlta, PasoAlta, <1>1, PTL DEF SpecAlta

\* The relays, with leases that run out under their holders and two databases without a
\* common transaction, implement the safe part of the outbox: a tenant is projected once and
\* after it was recorded, and its event is published once and after that, unless another
\* tenant sent its slug or its event to the endpoint.
THEOREM EntregaNoSeAdelanta == SpecAlta => EntregaSegura
<1>1. RefinaAlta => [EntregaUnica!Next]_fasesAlta
  BY DEF RefinaAlta
<1>2. QED
  BY InicialAlta, PasoAlta, <1>1, PTL
     DEF SpecAlta, EntregaSegura, EntregaUnica!Segura, fasesAlta
=============================================================================

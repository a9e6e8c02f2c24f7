--------------------------- MODULE Suscripciones ----------------------------
(***************************************************************************)
(* Plans and the subscription of one tenant (modulos/administracion/planes *)
(* and suscripciones), with the limits that GatingService enforces.        *)
(*                                                                         *)
(* A version of a plan is edited while BORRADOR and then published.  A     *)
(* subscription copies the features of its version into entitlements with  *)
(* a range of dates; changing the plan ends the open ones and adds those   *)
(* of the new version, and an exclusion constraint keeps the ranges of one *)
(* feature apart.  What a method reads first is not locked, so each is     *)
(* split where another one can come in between.                            *)
(***************************************************************************)
EXTENDS Naturals, FiniteSets, FiniteSetsExt

CONSTANTS Versiones,        \* PlanVersion of one plan
          Caracteristicas,  \* Feature
          Limite,           \* limit that each version gives to its features
          MaxSubs,          \* bound: subscriptions, numbered as created
          MaxCambios,       \* bound: changes of plan of a subscription
          Gestiones         \* requests that may be in flight together

Subs == 1 .. MaxSubs

ASSUME SuscripcionesAssumption ==
  /\ MaxSubs \in Nat /\ MaxCambios \in Nat
  /\ Limite \in [Versiones -> Nat]
  /\ IsFiniteSet(Versiones) /\ IsFiniteSet(Caracteristicas)

VARIABLES versiones,   \* PlanVersion.estado
          rasgos,      \* PlanFeature: the features of a version
          sub,         \* Subscription
          abiertos,    \* SubscriptionEntitlement with vigenteHasta null
          gestion,     \* per request: what it read
          cruzadas,    \* history: subscriptions that two requests had in hand at once
          alteradas,   \* history: versions published while a request was editing them
          dobles       \* history: two subscriptions were being taken at once

varsSus == <<versiones, rasgos, sub, abiertos, gestion, cruzadas, alteradas, dobles>>

-----------------------------------------------------------------------------
NoSub == [estado |-> "AUSENTE"]
Ociosa == [op |-> "ociosa"]

\* EN_PRUEBA is ACTIVA for every condition of this code.
Sub == [estado : {"ACTIVA", "PENDIENTE_CANCELACION", "CANCELADA"}, version : Versiones]

\* tanda: the change of plan that opened it (0: the subscription itself).
Derecho == [rasgo : Caracteristicas, version : Versiones, tanda : 0 .. MaxCambios]

Gestion == {Ociosa}
  \cup [op : {"asignar"}, version : Versiones, rasgo : Caracteristicas]
  \cup [op : {"publicar"}, version : Versiones]
  \cup [op : {"publicando"}, version : Versiones, activas : SUBSET Versiones]
  \cup [op : {"suscribir"}, version : Versiones, rasgos : SUBSET Caracteristicas]
  \cup [op : {"cambiar"}, sub : Subs, version : Versiones, rasgos : SUBSET Caracteristicas]
  \cup [op : {"cambiando"}, sub : Subs, version : Versiones, rasgos : SUBSET Caracteristicas,
        vistos : SUBSET Derecho]
  \cup [op : {"cancelar"}, sub : Subs, alFinal : BOOLEAN]

TypeOKSus ==
  /\ versiones \in [Versiones -> {"AUSENTE", "BORRADOR", "ACTIVA", "RETIRADA"}]
  /\ rasgos \in [Versiones -> SUBSET Caracteristicas]
  /\ sub \in [Subs -> Sub \cup {NoSub}]
  /\ abiertos \in [Subs -> SUBSET Derecho]
  /\ \A s \in Subs : /\ sub[s] = NoSub => abiertos[s] = {}
                     /\ \A d, e \in abiertos[s] : d.rasgo = e.rasgo => d = e
  /\ \A g \in Gestiones : gestion[g] \in Gestion
  /\ cruzadas \subseteq Subs
  /\ alteradas \subseteq Versiones
  /\ dobles \in BOOLEAN

InitSus ==
  /\ versiones = [v \in Versiones |-> "AUSENTE"]
  /\ rasgos = [v \in Versiones |-> {}]
  /\ sub = [s \in Subs |-> NoSub]
  /\ abiertos = [s \in Subs |-> {}]
  /\ gestion = [g \in Gestiones |-> Ociosa]
  /\ cruzadas = {}
  /\ alteradas = {}
  /\ dobles = FALSE

Pide(g, que) == gestion[g] = Ociosa /\ gestion' = [gestion EXCEPT ![g] = que]
Sigue(g, que) == gestion' = [gestion EXCEPT ![g] = que]
Termina(g) == gestion' = [gestion EXCEPT ![g] = Ociosa]

-----------------------------------------------------------------------------
(* planes.service *)

\* crearVersion: the next number; the unique index stops two with the same.
CrearVersion(v) ==
  /\ versiones[v] = "AUSENTE"
  /\ versiones' = [versiones EXCEPT ![v] = "BORRADOR"]
  /\ UNCHANGED <<rasgos, sub, abiertos, gestion, cruzadas, alteradas, dobles>>

\* exigirVersionBorrador, outside any transaction.
AsignarLeer(g, v, f) ==
  /\ versiones[v] = "BORRADOR"
  /\ Pide(g, [op |-> "asignar", version |-> v, rasgo |-> f])
  /\ UNCHANGED <<versiones, rasgos, sub, abiertos, cruzadas, alteradas, dobles>>

AsignarAplicar(g) ==
  LET v == gestion[g].version IN
  /\ gestion[g].op = "asignar"
  /\ rasgos' = [rasgos EXCEPT ![v] = @ \cup {gestion[g].rasgo}]
  /\ Termina(g)
  /\ UNCHANGED <<versiones, sub, abiertos, cruzadas, alteradas, dobles>>

SeEdita(v) == \E g \in Gestiones : gestion[g].op = "asignar" /\ gestion[g].version = v

PublicarLeer(g, v) ==
  /\ versiones[v] = "BORRADOR"
  /\ Pide(g, [op |-> "publicar", version |-> v])
  /\ UNCHANGED <<versiones, rasgos, sub, abiertos, cruzadas, alteradas, dobles>>

\* The updateMany that retires: it matches the versions that are ACTIVA now.
PublicarRetirar(g) ==
  /\ gestion[g].op = "publicar"
  /\ Sigue(g, [op |-> "publicando", version |-> gestion[g].version,
               activas |-> {v \in Versiones : versiones[v] = "ACTIVA"}])
  /\ UNCHANGED <<versiones, rasgos, sub, abiertos, cruzadas, alteradas, dobles>>

PublicarAplicar(g) ==
  /\ gestion[g].op = "publicando"
  /\ alteradas' = alteradas \cup {v \in {gestion[g].version} : SeEdita(v)}
  /\ versiones' = [v \in Versiones |-> IF v = gestion[g].version THEN "ACTIVA"
                                       ELSE IF v \in gestion[g].activas THEN "RETIRADA"
                                       ELSE versiones[v]]
  /\ Termina(g)
  /\ UNCHANGED <<rasgos, sub, abiertos, cruzadas, dobles>>

-----------------------------------------------------------------------------
(* suscripciones.service *)

Vigentes == {s \in Subs : sub[s].estado = "ACTIVA"}

EnManos(s) == \E g \in Gestiones :
  gestion[g].op \in {"cambiar", "cambiando", "cancelar"} /\ gestion[g].sub = s

Cruzar(S) == cruzadas' = cruzadas \cup S

EnCurso(op) == \E g \in Gestiones : gestion[g].op = op

\* A subscription PENDIENTE_CANCELACION does not count.
SuscribirLeer(g, v) ==
  /\ Vigentes = {}
  /\ versiones[v] = "ACTIVA"
  /\ Pide(g, [op |-> "suscribir", version |-> v, rasgos |-> rasgos[v]])
  /\ dobles' = (dobles \/ EnCurso("suscribir"))
  /\ UNCHANGED <<versiones, rasgos, sub, abiertos, cruzadas, alteradas>>

Derechos(v, R, n) == {[rasgo |-> f, version |-> v, tanda |-> n] : f \in R}

SuscribirAplicar(g, s) ==
  /\ gestion[g].op = "suscribir"
  /\ sub[s] = NoSub /\ \A r \in Subs : r < s => sub[r] # NoSub
  /\ sub' = [sub EXCEPT ![s] = [estado |-> "ACTIVA", version |-> gestion[g].version]]
  /\ abiertos' = [abiertos EXCEPT ![s] = Derechos(gestion[g].version, gestion[g].rasgos, 0)]
  /\ Termina(g)
  /\ UNCHANGED <<versiones, rasgos, cruzadas, alteradas, dobles>>

CambiarLeer(g, s, v) ==
  /\ s \in Vigentes
  /\ versiones[v] = "ACTIVA"
  /\ Pide(g, [op |-> "cambiar", sub |-> s, version |-> v, rasgos |-> rasgos[v]])
  /\ Cruzar(IF EnManos(s) THEN {s} ELSE {})
  /\ UNCHANGED <<versiones, rasgos, sub, abiertos, alteradas, dobles>>

\* The updateMany that ends the open entitlements: those it can see now.
CambiarCerrar(g) ==
  /\ gestion[g].op = "cambiar"
  /\ Sigue(g, [op |-> "cambiando", sub |-> gestion[g].sub, version |-> gestion[g].version,
               rasgos |-> gestion[g].rasgos, vistos |-> abiertos[gestion[g].sub]])
  /\ UNCHANGED <<versiones, rasgos, sub, abiertos, cruzadas, alteradas, dobles>>

Tanda(s) == Max({0} \cup {d.tanda : d \in abiertos[s]}) + 1

\* Slip: the open entitlements are not ended, and only the missing ones are added.
CambiarAplicar_SinCerrar(g) ==
  LET q == gestion[g]
      nuevos == {d \in Derechos(q.version, q.rasgos, Tanda(q.sub)) :
                   \A e \in abiertos[q.sub] : d.rasgo # e.rasgo} IN
  /\ q.op = "cambiando"
  /\ Tanda(q.sub) <= MaxCambios
  /\ sub' = [sub EXCEPT ![q.sub].version = q.version]
  /\ abiertos' = [abiertos EXCEPT ![q.sub] = @ \cup nuevos]
  /\ Termina(g)
  /\ UNCHANGED <<versiones, rasgos, cruzadas, alteradas, dobles>>

CambiarAplicar(g) ==
  LET q == gestion[g]
      quedan == abiertos[q.sub] \ q.vistos IN
  /\ q.op = "cambiando"
  /\ Tanda(q.sub) <= MaxCambios
  /\ \A d \in quedan : d.rasgo \notin q.rasgos
  /\ sub' = [sub EXCEPT ![q.sub].version = q.version]
  /\ abiertos' = [abiertos EXCEPT ![q.sub] = quedan \cup Derechos(q.version, q.rasgos, Tanda(q.sub))]
  /\ Termina(g)
  /\ UNCHANGED <<versiones, rasgos, cruzadas, alteradas, dobles>>

CancelarLeer(g, s, alFinal) ==
  /\ s \in Vigentes
  /\ Pide(g, [op |-> "cancelar", sub |-> s, alFinal |-> alFinal])
  /\ Cruzar(IF EnManos(s) THEN {s} ELSE {})
  /\ UNCHANGED <<versiones, rasgos, sub, abiertos, alteradas, dobles>>

\* At the end of the period nothing ends it: no job reads cancelAt.
CancelarAplicar(g) ==
  LET q == gestion[g] IN
  /\ q.op = "cancelar"
  /\ sub' = [sub EXCEPT ![q.sub].estado =
               IF q.alFinal THEN "PENDIENTE_CANCELACION" ELSE "CANCELADA"]
  /\ abiertos' = IF q.alFinal THEN abiertos ELSE [abiertos EXCEPT ![q.sub] = {}]
  /\ Termina(g)
  /\ UNCHANGED <<versiones, rasgos, cruzadas, alteradas, dobles>>

\* A check fails, or the exclusion constraint: the transaction is rolled back.
Abortar(g) ==
  /\ gestion[g] # Ociosa
  /\ Termina(g)
  /\ UNCHANGED <<versiones, rasgos, sub, abiertos, cruzadas, alteradas, dobles>>

-----------------------------------------------------------------------------
(* EntitlementsService.verificar *)

\* suscripcionActiva: the latest one.
Activa == Max(Vigentes)

Permite(f, uso) ==
  /\ Vigentes # {}
  /\ \E d \in abiertos[Activa] : d.rasgo = f /\ uso < Limite[d.version]

NextSus ==
  \/ \E v \in Versiones : CrearVersion(v)
  \/ \E g \in Gestiones, v \in Versiones :
       \/ PublicarLeer(g, v) \/ SuscribirLeer(g, v)
       \/ \E f \in Caracteristicas : AsignarLeer(g, v, f)
       \/ \E s \in Subs : CambiarLeer(g, s, v)
  \/ \E g \in Gestiones :
       \/ AsignarAplicar(g) \/ PublicarRetirar(g) \/ PublicarAplicar(g)
       \/ CambiarCerrar(g) \/ CambiarAplicar(g) \/ CancelarAplicar(g) \/ Abortar(g)
       \/ \E s \in Subs : SuscribirAplicar(g, s)
       \/ \E s \in Subs, alFinal \in BOOLEAN : CancelarLeer(g, s, alFinal)

-----------------------------------------------------------------------------
\* A tenant has one subscription in force, unless two sign-ups overlapped.
UnaVigente == dobles \/ Cardinality(Vigentes) <= 1

\* What a tenant may use is what its one plan offers: the open entitlements are the features
\* of its version, unless changes of the subscription overlapped (then entitlements of a plan
\* it left stay open) or the version was edited after it was published.
DerechosDelPlan ==
  /\ UnaVigente
  /\ \A s \in Vigentes \ cruzadas :
       sub[s].version \in alteradas \/
         /\ {d.rasgo : d \in abiertos[s]} = rasgos[sub[s].version]
         /\ \A d \in abiertos[s] : d.version = sub[s].version
=============================================================================

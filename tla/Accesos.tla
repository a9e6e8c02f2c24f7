------------------------------ MODULE Accesos -------------------------------
(***************************************************************************)
(* Users of one tenant (modulos/nucleo/usuarios and identidad) under the   *)
(* limit of its plan.                                                      *)
(*                                                                         *)
(* A user is invited with roles, and the first sign-in with that address   *)
(* binds the identity to a Google account and activates the membership.    *)
(* Roles of a member and permissions of a role are replaced as a whole:    *)
(* deleteMany, then createMany, in one transaction that locks nothing      *)
(* first.  The plan limits the members that are not revoked, and the count *)
(* is made in a transaction of its own before the invitation.              *)
(***************************************************************************)
EXTENDS Suscripciones

CONSTANTS Usuarios,   \* addresses that may be invited; each is one Membership
          Roles, RolesSistema, Permisos,
          UsuariosMax,  \* the feature usuarios_max
          MaxReactivaciones,  \* bound
          Peticiones  \* requests that may be in flight together

ASSUME AccesosAssumption ==
  /\ RolesSistema \subseteq Roles
  /\ IsFiniteSet(Usuarios) /\ IsFiniteSet(Peticiones) /\ Peticiones # {}
  /\ UsuariosMax \in Caracteristicas
  /\ MaxReactivaciones \in Nat

VARIABLES miembro,     \* Membership with its UserIdentity
          roles,       \* MembershipRole: roles of a member
          permisos,    \* RolePermission: permissions of a role
          peticion,    \* per request: what it read
          reemplazado, \* history: members and roles whose set two requests replaced at once
          reactivados  \* history: members let in again after being revoked

varsAcc == <<miembro, roles, permisos, peticion, reemplazado, reactivados>>
vars == <<varsSus, varsAcc>>

-----------------------------------------------------------------------------
NoMiembro == [estado |-> "AUSENTE", vinculado |-> FALSE]
Quieta == [op |-> "quieta"]

Miembro == [estado : {"INVITADA", "ACTIVA", "SUSPENDIDA", "REVOCADA"}, vinculado : BOOLEAN]

Peticion == {Quieta}
  \cup [op : {"invitar"}, usuario : Usuarios, roles : SUBSET Roles]
  \cup [op : {"ingresar"}, usuario : Usuarios, leido : Miembro]
  \cup [op : {"asignar"}, usuario : Usuarios, roles : SUBSET Roles, vistos : SUBSET Roles]
  \cup [op : {"permitir"}, rol : Roles, permisos : SUBSET Permisos, vistos : SUBSET Permisos]

TypeOK ==
  /\ TypeOKSus
  /\ miembro \in [Usuarios -> Miembro \cup {NoMiembro}]
  /\ \A u \in Usuarios : miembro[u].vinculado => miembro[u].estado # "INVITADA"
  /\ roles \in [Usuarios -> SUBSET Roles]
  /\ permisos \in [Roles -> SUBSET Permisos]
  /\ \A q \in Peticiones : peticion[q] \in Peticion
  /\ reemplazado \subseteq Usuarios \cup Roles
  /\ reactivados \in 0 .. MaxReactivaciones

InitAcc ==
  /\ miembro = [u \in Usuarios |-> NoMiembro]
  /\ roles = [u \in Usuarios |-> {}]
  /\ permisos = [r \in Roles |-> {}]
  /\ peticion = [q \in Peticiones |-> Quieta]
  /\ reemplazado = {}
  /\ reactivados = 0

Consulta(q, que) == peticion[q] = Quieta /\ peticion' = [peticion EXCEPT ![q] = que]
Responde(q) == peticion' = [peticion EXCEPT ![q] = Quieta]

-----------------------------------------------------------------------------
(* usuarios.service: invitations and state *)

Vivos == {u \in Usuarios : miembro[u].estado \in {"INVITADA", "ACTIVA", "SUSPENDIDA"}}

\* Slip: the count is not compared with the limit.
InvitarContar_SinExigir(q, u, R) ==
  /\ Consulta(q, [op |-> "invitar", usuario |-> u, roles |-> R])
  /\ UNCHANGED <<miembro, roles, permisos, reemplazado, reactivados>>

\* The members that are not revoked are counted, and GatingService.exigir asks the plan.
InvitarContar(q, u, R) ==
  /\ Permite(UsuariosMax, Cardinality(Vivos))
  /\ Consulta(q, [op |-> "invitar", usuario |-> u, roles |-> R])
  /\ UNCHANGED <<miembro, roles, permisos, reemplazado, reactivados>>

InvitarCrear(q) ==
  LET u == peticion[q].usuario IN
  /\ peticion[q].op = "invitar"
  /\ miembro[u] = NoMiembro
  /\ miembro' = [miembro EXCEPT ![u] = [estado |-> "INVITADA", vinculado |-> FALSE]]
  /\ roles' = [roles EXCEPT ![u] = peticion[q].roles]
  /\ Responde(q)
  /\ UNCHANGED <<permisos, reemplazado, reactivados>>

Vuelve(u) == miembro[u].estado = "REVOCADA"

\* Coming back does not ask the plan.
Fijar(u, m) ==
  /\ miembro' = [miembro EXCEPT ![u] = m]
  /\ Vuelve(u) /\ m.estado # "REVOCADA" => reactivados < MaxReactivaciones
  /\ reactivados' = IF Vuelve(u) /\ m.estado # "REVOCADA" THEN reactivados + 1 ELSE reactivados

CambiarEstado(u, e) ==
  /\ miembro[u] # NoMiembro
  /\ Fijar(u, [miembro[u] EXCEPT !.estado = e])
  /\ UNCHANGED <<roles, permisos, peticion, reemplazado>>

-----------------------------------------------------------------------------
(* autenticacion.service: the first sign-in *)

IngresarLeer(q, u) ==
  /\ miembro[u] # NoMiembro /\ ~miembro[u].vinculado
  /\ Consulta(q, [op |-> "ingresar", usuario |-> u, leido |-> miembro[u]])
  /\ UNCHANGED <<miembro, roles, permisos, reemplazado, reactivados>>

\* An INVITADA becomes ACTIVA, by what was read: the updates are by id.
IngresarAplicar(q) ==
  LET u == peticion[q].usuario
      e == IF peticion[q].leido.estado = "INVITADA" THEN "ACTIVA" ELSE miembro[u].estado IN
  /\ peticion[q].op = "ingresar"
  /\ Fijar(u, [estado |-> e, vinculado |-> TRUE])
  /\ Responde(q)
  /\ UNCHANGED <<roles, permisos, reemplazado>>

-----------------------------------------------------------------------------
(* Sets that are replaced: roles of a member, permissions of a role *)

\* x is a member or a role whose set another request is replacing.
SeReemplaza(x) ==
  \E q \in Peticiones : \/ peticion[q].op = "asignar" /\ peticion[q].usuario = x
                        \/ peticion[q].op = "permitir" /\ peticion[q].rol = x

Reemplaza(x) == reemplazado' = IF SeReemplaza(x) THEN reemplazado \cup {x} ELSE reemplazado

\* What deleteMany matches; createMany then adds, and its primary key refuses a pair that
\* another request left there.
Reemplazo(hay, vistos, nuevo) == (hay \ vistos) \cup nuevo
Cabe(hay, vistos, nuevo) == (hay \ vistos) \cap nuevo = {}

AsignarRolesLeer(q, u, R) ==
  /\ miembro[u] # NoMiembro
  /\ Consulta(q, [op |-> "asignar", usuario |-> u, roles |-> R, vistos |-> roles[u]])
  /\ Reemplaza(u)
  /\ UNCHANGED <<miembro, roles, permisos, reactivados>>

\* Slip: the roles are added and those it had are not deleted.
AsignarRolesAplicar_SinBorrar(q) ==
  LET p == peticion[q] IN
  /\ p.op = "asignar"
  /\ roles' = [roles EXCEPT ![p.usuario] = @ \cup p.roles]
  /\ Responde(q)
  /\ UNCHANGED <<miembro, permisos, reemplazado, reactivados>>

AsignarRolesAplicar(q) ==
  LET p == peticion[q] IN
  /\ p.op = "asignar"
  /\ Cabe(roles[p.usuario], p.vistos, p.roles)
  /\ roles' = [roles EXCEPT ![p.usuario] = Reemplazo(@, p.vistos, p.roles)]
  /\ Responde(q)
  /\ UNCHANGED <<miembro, permisos, reemplazado, reactivados>>

AsignarPermisosLeer(q, r, P) ==
  /\ Consulta(q, [op |-> "permitir", rol |-> r, permisos |-> P, vistos |-> permisos[r]])
  /\ Reemplaza(r)
  /\ UNCHANGED <<miembro, roles, permisos, reactivados>>

AsignarPermisosAplicar(q) ==
  LET p == peticion[q] IN
  /\ p.op = "permitir"
  /\ Cabe(permisos[p.rol], p.vistos, p.permisos)
  /\ permisos' = [permisos EXCEPT ![p.rol] = Reemplazo(@, p.vistos, p.permisos)]
  /\ Responde(q)
  /\ UNCHANGED <<miembro, roles, reemplazado, reactivados>>

\* A check fails: the transaction is rolled back.
Rechazar(q) ==
  /\ peticion[q] # Quieta
  /\ Responde(q)
  /\ UNCHANGED <<miembro, roles, permisos, reemplazado, reactivados>>

NextAcc ==
  \/ \E q \in Peticiones :
       \/ InvitarCrear(q) \/ IngresarAplicar(q) \/ Rechazar(q)
       \/ AsignarRolesAplicar(q) \/ AsignarPermisosAplicar(q)
       \/ \E r \in Roles, P \in SUBSET Permisos : AsignarPermisosLeer(q, r, P)
  \/ \E u \in Usuarios :
       \/ \E e \in {"ACTIVA", "SUSPENDIDA", "REVOCADA"} : CambiarEstado(u, e)
       \/ \E q \in Peticiones : IngresarLeer(q, u)
       \/ \E q \in Peticiones, R \in SUBSET Roles : InvitarContar(q, u, R) \/ AsignarRolesLeer(q, u, R)

Init == InitSus /\ InitAcc
Next == \/ NextSus /\ UNCHANGED varsAcc
        \/ NextAcc /\ UNCHANGED varsSus
Spec == Init /\ [][Next]_vars

-----------------------------------------------------------------------------
(* guard-permisos, misPermisos *)

Efectivos(u) ==
  IF miembro[u].estado # "ACTIVA" THEN {}
  ELSE IF roles[u] \cap RolesSistema # {} THEN Permisos
  ELSE UNION {permisos[r] : r \in roles[u]}

-----------------------------------------------------------------------------
\* A replaced set is the one that was asked for, with nothing left of the one before, unless
\* two replacements of it overlapped: then both stay, and a member or a role ends up with
\* more than either request gave it.
ReemplazoCompleto ==
  [][/\ \A u \in Usuarios \ reemplazado : roles'[u] # roles[u] =>
          \E q \in Peticiones : peticion[q].op \in {"invitar", "asignar"} /\ roles'[u] = peticion[q].roles
     /\ \A r \in Roles \ reemplazado : permisos'[r] # permisos[r] =>
          \E q \in Peticiones : peticion[q].op = "permitir" /\ permisos'[r] = peticion[q].permisos]_vars
=============================================================================

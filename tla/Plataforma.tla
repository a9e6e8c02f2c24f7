----------------------------- MODULE Plataforma -----------------------------
(***************************************************************************)
(* What the platform sells to a tenant: its subscription, the users        *)
(* (Accesos) and the products (Catalogo) that it allows, and the invoices  *)
(* of the subscription (Facturacion).                                      *)
(***************************************************************************)
EXTENDS Accesos, Facturacion, Catalogo

todo == <<vars, varsFac, varsSuc, varsCat>>

\* generarFactura bills a subscription of the tenant, whatever its state.
HaySuscripcion == \E s \in Subs : sub[s] # NoSub

InitPlataforma == Init /\ InitFac /\ InitSuc /\ InitCat
NextPlataforma ==
  \/ Next /\ UNCHANGED <<varsFac, varsSuc, varsCat>>
  \/ HaySuscripcion /\ NextFac /\ UNCHANGED <<vars, varsSuc, varsCat>>
  \/ NextSuc /\ UNCHANGED <<vars, varsFac, varsCat>>
  \/ NextCat /\ UNCHANGED <<vars, varsFac, varsSuc>>
SpecPlataforma == InitPlataforma /\ [][NextPlataforma]_todo

-----------------------------------------------------------------------------
\* The types of the modules that are composed.
TypeOKPlataforma == TypeOK /\ TypeOKFac /\ TypeOKSuc /\ TypeOKCat

MayorLimite == Max({0} \cup {Limite[v] : v \in Versiones})

\* The plan bounds the members and the products: above the largest limit there are only as
\* many as requests may be in flight at once (each counted before another one created), plus
\* the members that were revoked and came back.
CupoDelPlan ==
  /\ Cardinality(Vivos) <= MayorLimite - 1 + Cardinality(Peticiones) + reactivados
  /\ Cardinality(Creados) <= MayorLimite - 1 + Cardinality(Trabajos)
=============================================================================

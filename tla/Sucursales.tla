----------------------------- MODULE Sucursales -----------------------------
(***************************************************************************)
(* Warehouses and registers of one branch (modulos/nucleo/sucursales).     *)
(*                                                                         *)
(* The first warehouse is the default one, and a partial unique index      *)
(* allows one default per branch.  Changing it is an updateMany that       *)
(* unsets the others and an update that sets the new one: the updateMany   *)
(* does not see a default that another request sets before committing.     *)
(* Archiving a warehouse looks at nothing.                                 *)
(***************************************************************************)
EXTENDS FiniteSets

CONSTANTS Almacenes,  \* pool of Warehouse of the branch
          Cajas,      \* pool of CashRegister of the branch
          Tramites    \* requests that may be in flight together

ASSUME SucursalesAssumption == IsFiniteSet(Almacenes)

VARIABLES almacen,  \* Warehouse
          caja,     \* CashRegister: its warehouse
          tramite   \* per request: what it read

varsSuc == <<almacen, caja, tramite>>

-----------------------------------------------------------------------------
NoAlmacen == [estado |-> "AUSENTE", predeterminado |-> FALSE]
Libre == [op |-> "libre"]

Almacen == [estado : {"ACTIVO", "ARCHIVADO"}, predeterminado : BOOLEAN]

Tramite == {Libre}
  \cup [op : {"marcar"}, almacen : Almacenes]
  \cup [op : {"marcando"}, almacen : Almacenes, vistos : SUBSET Almacenes]
  \cup [op : {"enlazar"}, caja : Cajas, almacen : Almacenes]

Existentes == {w \in Almacenes : almacen[w] # NoAlmacen}
Activos == {w \in Almacenes : almacen[w].estado = "ACTIVO"}
Predeterminados == {w \in Almacenes : almacen[w].predeterminado}

TypeOKSuc ==
  /\ almacen \in [Almacenes -> Almacen \cup {NoAlmacen}]
  /\ caja \in [Cajas -> Existentes \cup {"AUSENTE", "ninguno"}]
  /\ \A t \in Tramites : tramite[t] \in Tramite
  /\ \A t \in Tramites : tramite[t] # Libre => tramite[t].almacen \in Existentes

InitSuc ==
  /\ almacen = [w \in Almacenes |-> NoAlmacen]
  /\ caja = [c \in Cajas |-> "AUSENTE"]
  /\ tramite = [t \in Tramites |-> Libre]

Tramita(t, que) == tramite[t] = Libre /\ tramite' = [tramite EXCEPT ![t] = que]
Despacha(t) == tramite' = [tramite EXCEPT ![t] = Libre]

-----------------------------------------------------------------------------
\* crearAlmacen counts under the lock of the branch: archived warehouses count too.
CrearAlmacen(w) ==
  /\ almacen[w] = NoAlmacen
  /\ almacen' = [almacen EXCEPT ![w] = [estado |-> "ACTIVO", predeterminado |-> Existentes = {}]]
  /\ UNCHANGED <<caja, tramite>>

CambiarEstadoAlmacen(w, estado) ==
  /\ w \in Existentes
  /\ almacen' = [almacen EXCEPT ![w].estado = estado]
  /\ UNCHANGED <<caja, tramite>>

MarcarLeer(t, w) ==
  /\ w \in Activos
  /\ Tramita(t, [op |-> "marcar", almacen |-> w])
  /\ UNCHANGED <<almacen, caja>>

\* The updateMany matches the defaults that are there when it starts.
MarcarVer(t) ==
  /\ tramite[t].op = "marcar"
  /\ tramite' = [tramite EXCEPT ![t] = [op |-> "marcando", almacen |-> tramite[t].almacen,
                                        vistos |-> Predeterminados \ {tramite[t].almacen}]]
  /\ UNCHANGED <<almacen, caja>>

\* Slip: no index; two changes that cross leave a default each.
MarcarAplicar_SinIndice(t) ==
  LET q == tramite[t] IN
  /\ q.op = "marcando"
  /\ almacen' = [w \in Almacenes |-> IF w = q.almacen THEN [almacen[w] EXCEPT !.predeterminado = TRUE]
                                     ELSE IF w \in q.vistos THEN [almacen[w] EXCEPT !.predeterminado = FALSE]
                                     ELSE almacen[w]]
  /\ Despacha(t)
  /\ UNCHANGED caja

\* The index refuses it when a default is left that was not seen.
MarcarAplicar(t) ==
  LET q == tramite[t] IN
  /\ q.op = "marcando"
  /\ Predeterminados \subseteq q.vistos \cup {q.almacen}
  /\ almacen' = [w \in Almacenes |-> IF w = q.almacen THEN [almacen[w] EXCEPT !.predeterminado = TRUE]
                                     ELSE IF w \in q.vistos THEN [almacen[w] EXCEPT !.predeterminado = FALSE]
                                     ELSE almacen[w]]
  /\ Despacha(t)
  /\ UNCHANGED caja

\* crearCaja or actualizarCaja with a warehouse: exigirAlmacenDeSucursal.
EnlazarLeer(t, c, w) ==
  /\ w \in Activos
  /\ Tramita(t, [op |-> "enlazar", caja |-> c, almacen |-> w])
  /\ UNCHANGED <<almacen, caja>>

EnlazarAplicar(t) ==
  /\ tramite[t].op = "enlazar"
  /\ caja' = [caja EXCEPT ![tramite[t].caja] = tramite[t].almacen]
  /\ Despacha(t)
  /\ UNCHANGED almacen

\* crearCaja or actualizarCaja with no warehouse.
Desenlazar(c) ==
  /\ caja' = [caja EXCEPT ![c] = "ninguno"]
  /\ UNCHANGED <<almacen, tramite>>

\* A check or an index fails: the transaction is rolled back.
Desistir(t) ==
  /\ tramite[t] # Libre
  /\ Despacha(t)
  /\ UNCHANGED <<almacen, caja>>

NextSuc ==
  \/ \E w \in Almacenes :
       \/ CrearAlmacen(w)
       \/ \E estado \in {"ACTIVO", "ARCHIVADO"} : CambiarEstadoAlmacen(w, estado)
       \/ \E t \in Tramites : MarcarLeer(t, w)
       \/ \E t \in Tramites, c \in Cajas : EnlazarLeer(t, c, w)
  \/ \E t \in Tramites : MarcarVer(t) \/ MarcarAplicar(t) \/ EnlazarAplicar(t) \/ Desistir(t)
  \/ \E c \in Cajas : Desenlazar(c)

-----------------------------------------------------------------------------
(* ventas.service: the warehouse of a sale that names none *)

\* The register's, while it is active; else the default; else the only active one.
PuedeDespachar(c, w) ==
  /\ w \in Activos
  /\ \/ caja[c] = w
     \/ caja[c] \notin Activos /\ w \in Predeterminados
     \/ caja[c] \notin Activos /\ Predeterminados \cap Activos = {} /\ Activos = {w}

-----------------------------------------------------------------------------
\* A branch with warehouses has exactly one default, through creations, changes and the
\* changes that cross; and a sale of a register is dispatched from one warehouse only.
ConPredeterminado ==
  /\ Existentes # {} => Cardinality(Predeterminados) = 1
  /\ \A c \in Cajas, w, x \in Almacenes :
       PuedeDespachar(c, w) /\ PuedeDespachar(c, x) => w = x
=============================================================================

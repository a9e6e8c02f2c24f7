---------------------------- MODULE MCPlataforma ----------------------------
(* An instance of Plataforma for TLC.  Its parts are explored one at a     *)
(* time: plans with the changes of one subscription, or a second           *)
(* subscription; and, from a tenant that has just subscribed, members,     *)
(* roles of one member, permissions of the roles, invoices, warehouses     *)
(* with registers, products under the plan, or the stock of the variants   *)
(* of a product.                                                           *)
EXTENDS Plataforma, TLC

CONSTANTS v1, v2, x1, x2, p1, p2, w1, w2

MCLimite == [v \in Versiones |-> 1]

MCSimetria == Permutations(Usuarios) \cup Permutations(Gestiones) \cup Permutations(Trabajos)

MCSinPeticion(ops) == \A q \in Peticiones : peticion[q].op \notin ops
MCSinUsuarios == (\A u \in Usuarios : miembro[u] = NoMiembro) /\ MCSinPeticion({"invitar"})
MCSinRoles == /\ \A u \in Usuarios : roles[u] = {} /\ u \notin reemplazado
              /\ MCSinPeticion({"asignar"})
              /\ \A q \in Peticiones : peticion[q].op = "invitar" => peticion[q].roles = {}
MCSinPermisos == /\ \A r \in Roles : permisos[r] = {} /\ r \notin reemplazado
                 /\ MCSinPeticion({"permitir"})
MCSinFacturas == Emitidas = {} /\ \A c \in Cobros : cobro[c] = Inactivo
MCSinPagos == (\A a \in Abonos : abono[a] = NoAbono) /\ \A c \in Cobros : cobro[c].op # "pagar"
MCSinAlmacenes == Existentes = {} /\ \A c \in Cajas : caja[c] = "AUSENTE"
MCUnAlmacen == /\ almacen[w2] = NoAlmacen /\ \A t \in Tramites : tramite[t] = Libre
               /\ almacen[w1].estado # "ARCHIVADO"
               /\ \A c \in Cajas : caja[c] = "AUSENTE"
MCSinProductos == Creados = {} /\ \A t \in Trabajos : trabajo[t] = Parado

\* The stock of the variants: products and variants are created first, and stay.
MCSinStock == \A v \in Variantes : entradas[v] = 0 /\ v \notin cruzados \cup llegadas
MCProductos == /\ MCSinStock /\ \A l \in Lineas : linea[l] = NoLinea
               /\ \A t \in Trabajos : trabajo[t].op \in {"parado", "crear", "archivar"}
               /\ \A v \in Variantes : variante[v] # NoVariante => variante[v].control
MCStock == /\ producto[p1] # "ARCHIVADO" /\ producto[p2] = "AUSENTE"
           /\ variante[x2] # NoVariante => variante[x2].activa /\ \A l \in Lineas : linea[l] = NoLinea
           /\ \A t \in Trabajos : trabajo[t].op \notin {"crear", "archivar"} \/ Creados = {}
           /\ \A t \in Trabajos : trabajo[t].op \in Mueve => trabajo[t].variante = x1
           /\ variante[x2] # NoVariante =>
                \A t \in Trabajos : trabajo[t].op \in {"parado", "crear", "entrar", "apagar", "servicio"}

MCUnUsuario ==
  /\ reactivados = 0
  /\ \A u, w \in Usuarios : u # w => NoMiembro \in {miembro[u], miembro[w]}

\* The second version is drafted when the first one has its feature.
MCConPrimera ==
  /\ versiones[v1] # "AUSENTE" /\ rasgos[v1] # {} /\ v1 \notin alteradas
  /\ \A g \in Gestiones : gestion[g].op = "asignar" => gestion[g].version = v2

MCSuscripciones ==
  /\ MCSinUsuarios /\ MCSinPermisos /\ MCSinFacturas /\ MCSinAlmacenes /\ MCSinProductos
  /\ rasgos[v1] \subseteq {UsuariosMax} /\ Cardinality(rasgos[v2]) <= 1
  /\ \A g \in Gestiones : gestion[g].op = "asignar" /\ gestion[g].rasgo # UsuariosMax =>
                            gestion[g].version = v2
  /\ versiones[v2] = "AUSENTE" \/ MCConPrimera
  /\ sub[2] # NoSub \/ dobles => versiones[v2] = "AUSENTE"

MCRecienSuscrito ==
  /\ \A g \in Gestiones : gestion[g] = Ociosa
  /\ versiones[v2] = "AUSENTE" /\ rasgos[v1] = {UsuariosMax} /\ v1 \notin alteradas
  /\ Vigentes = {1} /\ sub[2] = NoSub /\ cruzadas = {} /\ ~dobles
  /\ abiertos[1] = Derechos(v1, {UsuariosMax}, 0)

MCUsuarios ==
  /\ MCSinFacturas /\ MCSinAlmacenes /\ MCSinProductos
  /\ \/ MCSinRoles /\ MCSinPermisos
     \/ MCSinPermisos /\ MCUnUsuario
     \/ MCSinUsuarios

MCFacturas == /\ MCSinUsuarios /\ MCSinPermisos /\ MCSinAlmacenes /\ MCSinProductos
              /\ MCSinPagos \/ Cardinality(Emitidas) <= 1

MCTienda == /\ MCSinUsuarios /\ MCSinPermisos /\ MCSinFacturas
            /\ \/ MCSinProductos
               \/ MCUnAlmacen /\ (MCProductos \/ MCStock)

MCUnaParte == MCSuscripciones \/ (MCRecienSuscrito /\ (MCUsuarios \/ MCFacturas \/ MCTienda))
=============================================================================

---------------------------- MODULE Restaurante -----------------------------
(***************************************************************************)
(* Tables, orders and the kitchen (modulos/nucleo/restaurante).            *)
(*                                                                         *)
(* No method locks the order or the table it looks at: each reads its      *)
(* state and writes later (...Leer, ...Aplicar).  cobrar is three          *)
(* transactions: it reads the order, creates the sale with VentasService   *)
(* under a key of its own (random), then closes the order, then frees the  *)
(* table.  Every item costs 1; what the sale does is in Ventas.            *)
(***************************************************************************)
EXTENDS Naturals, FiniteSets

CONSTANTS Mesas,     \* pool of RestaurantTable
          Comandas,  \* pool of DiningOrder
          Items,     \* pool of DiningOrderItem
          Ventas,    \* pool of Sale
          EstadosDeMano, \* table states the staff sets by hand (actualizarMesa)
          Avances,   \* kitchen states it sets (actualizarCocina)
          Procesos   \* requests that may be in flight together

EstadosCocina == {"PENDIENTE", "EN_PREPARACION", "LISTO", "ENTREGADO", "CANCELADO"}
EstadosMesa == {"LIBRE", "OCUPADA", "CUENTA", "RESERVADA", "INACTIVA"}

ASSUME RestauranteAssumption ==
  /\ EstadosDeMano \subseteq EstadosMesa /\ Avances \subseteq EstadosCocina
  /\ IsFiniteSet(Items)
  /\ "AUSENTE" \notin Comandas

VARIABLES mesas, archivadas, \* RestaurantTable: estado, and those with estadoRegistro ARCHIVADO
          comandas,  \* DiningOrder
          items,     \* DiningOrderItem
          ventas,    \* Sale of an order: order and items
          tx,        \* per process: request in flight
          tocadas,   \* history: tables set by hand, archived, opened twice at once, not freed by
             \* a charge that was cut, or freed by an order cancelled for the second time
          expuestas, \* history: orders whose charge or closing overlapped or was cut
          revueltas  \* history: orders whose items changed during another request

vars == <<mesas, archivadas, comandas, items, ventas, tx, tocadas, expuestas, revueltas>>
historia == <<tocadas, expuestas, revueltas>>

-----------------------------------------------------------------------------
\* SERVIDA has no writer.
EstadosComanda == {"ABIERTA", "EN_COCINA", "POR_PAGAR", "CERRADA", "CANCELADA"}

NoComanda == [estado |-> "AUSENTE"]
NoItem == [cocina |-> "AUSENTE"]
Quitado == [cocina |-> "QUITADO"]
NoVenta == [comanda |-> "AUSENTE"]
Libre == [op |-> "libre"]

\* mesa and venta hold one id at most; precio is the total the row stores.
Comanda == [estado : EstadosComanda, mesa : SUBSET Mesas, venta : SUBSET Ventas, total : Nat]
Item == [comanda : Comandas, cocina : EstadosCocina]
Venta == [comanda : Comandas, items : SUBSET Items]
DeItem == {"agregar", "quitar"}
Tx == {Libre}
  \cup [op : {"abrir"}, mesa : Mesas]
  \cup [op : DeItem, comanda : Comandas, item : Items, total : Nat]
  \cup [op : {"enviar"}, comanda : Comandas]
  \cup [op : {"cancelar"}, comanda : Comandas, mesa : SUBSET Mesas]
  \cup [op : {"cobrar"}, comanda : Comandas, mesa : SUBSET Mesas, items : SUBSET Items,
        todos : BOOLEAN]
  \cup [op : {"cobrada"}, comanda : Comandas, mesa : SUBSET Mesas, venta : Ventas,
        todos : BOOLEAN]
  \cup [op : {"liberar"}, comanda : Comandas, mesa : SUBSET Mesas]

Existe(c) == comandas[c] # NoComanda

TypeOK ==
  /\ mesas \in [Mesas -> EstadosMesa \cup {"AUSENTE"}]
  /\ archivadas \subseteq Mesas
  /\ comandas \in [Comandas -> Comanda \cup {NoComanda}]
  /\ items \in [Items -> Item \cup {NoItem, Quitado}]
  /\ ventas \in [Ventas -> Venta \cup {NoVenta}]
  /\ tx \in [Procesos -> Tx]
  /\ \A p \in Procesos : tx[p].op \notin {"libre", "abrir"} => Existe(tx[p].comanda)
  /\ \A i \in Items : items[i] \in Item => Existe(items[i].comanda)
  /\ tocadas \subseteq Mesas /\ expuestas \subseteq Comandas /\ revueltas \subseteq Comandas

Init ==
  /\ mesas = [m \in Mesas |-> "AUSENTE"] /\ archivadas = {}
  /\ comandas = [c \in Comandas |-> NoComanda]
  /\ items = [i \in Items |-> NoItem]
  /\ ventas = [v \in Ventas |-> NoVenta]
  /\ tx = [p \in Procesos |-> Libre]
  /\ tocadas = {} /\ expuestas = {} /\ revueltas = {}

-----------------------------------------------------------------------------
EnCurso(c) == Existe(c) /\ comandas[c].estado \notin {"CERRADA", "CANCELADA"}
Vivo(i) == items[i].cocina \in EstadosCocina
ItemsDe(c) == {i \in Items : Vivo(i) /\ items[i].comanda = c}
\* Operations of others in flight on order c.
Sobre(p, c) == {tx[q].op : q \in {r \in Procesos \ {p} :
                  tx[r].op \notin {"libre", "abrir"} /\ tx[r].comanda = c}}

\* History kept when p begins a request on c: of its items, or of the order itself.
EmpezarItem(p, c) ==
  /\ revueltas' = IF Sobre(p, c) # {} THEN revueltas \cup {c} ELSE revueltas
  /\ UNCHANGED <<tocadas, expuestas>>
EmpezarComanda(p, c) ==
  /\ revueltas' = IF Sobre(p, c) \cap DeItem # {} THEN revueltas \cup {c} ELSE revueltas
  /\ expuestas' = IF Sobre(p, c) \subseteq DeItem THEN expuestas ELSE expuestas \cup {c}
  /\ UNCHANGED tocadas

Empezar(p, t) == tx' = [tx EXCEPT ![p] = t]
Terminar(p) == tx' = [tx EXCEPT ![p] = Libre]

-----------------------------------------------------------------------------
(* Tables *)

CrearMesa(m) ==
  /\ mesas[m] = "AUSENTE"
  /\ mesas' = [mesas EXCEPT ![m] = "LIBRE"]
  /\ UNCHANGED <<archivadas, comandas, items, ventas, tx, historia>>

\* actualizarMesa takes any state, whatever order the table has.
ActualizarMesa(m, estado) ==
  /\ mesas[m] # "AUSENTE"
  /\ mesas' = [mesas EXCEPT ![m] = estado]
  /\ tocadas' = tocadas \cup {m}
  /\ UNCHANGED <<archivadas, comandas, items, ventas, tx, expuestas, revueltas>>

ArchivarMesa(m) ==
  /\ mesas[m] # "AUSENTE"
  /\ mesas' = [mesas EXCEPT ![m] = "INACTIVA"]
  /\ archivadas' = archivadas \cup {m}
  /\ tocadas' = tocadas \cup {m}
  /\ UNCHANGED <<comandas, items, ventas, tx, expuestas, revueltas>>

-----------------------------------------------------------------------------
(* Orders *)

Nueva(mesa) == [estado |-> "ABIERTA", mesa |-> mesa, venta |-> {}, total |-> 0]

\* An order without a table (to take away) reads nothing that others write.
AbrirSinMesa(c) ==
  /\ ~Existe(c)
  /\ comandas' = [comandas EXCEPT ![c] = Nueva({})]
  /\ UNCHANGED <<mesas, archivadas, items, ventas, tx, historia>>

AbrirLeer(p, m) ==
  /\ tx[p] = Libre
  /\ mesas[m] = "LIBRE" /\ m \notin archivadas
  /\ Empezar(p, [op |-> "abrir", mesa |-> m])
  /\ tocadas' = IF \E q \in Procesos : tx[q].op = "abrir" /\ tx[q].mesa = m
                  THEN tocadas \cup {m} ELSE tocadas
  /\ UNCHANGED <<mesas, archivadas, comandas, items, ventas, expuestas, revueltas>>

\* Slip: the table is not marked.
AbrirAplicar_SinOcupar(p, c) ==
  /\ tx[p].op = "abrir"
  /\ ~Existe(c)
  /\ comandas' = [comandas EXCEPT ![c] = Nueva({tx[p].mesa})]
  /\ Terminar(p)
  /\ UNCHANGED <<mesas, archivadas, items, ventas, historia>>

AbrirAplicar(p, c) ==
  /\ tx[p].op = "abrir"
  /\ ~Existe(c)
  /\ comandas' = [comandas EXCEPT ![c] = Nueva({tx[p].mesa})]
  /\ mesas' = [mesas EXCEPT ![tx[p].mesa] = "OCUPADA"]
  /\ Terminar(p)
  /\ UNCHANGED <<archivadas, items, ventas, historia>>

\* agregarItem inserts the item and adds up, with its own, the items committed by then.
AgregarLeer(p, c, i) ==
  /\ tx[p] = Libre
  /\ EnCurso(c)
  /\ items[i] = NoItem
  /\ \A q \in Procesos : tx[q].op = "agregar" => tx[q].item # i
  /\ Empezar(p, [op |-> "agregar", comanda |-> c, item |-> i,
                 total |-> Cardinality(ItemsDe(c)) + 1])
  /\ EmpezarItem(p, c)
  /\ UNCHANGED <<mesas, archivadas, comandas, items, ventas>>

AgregarAplicar(p) ==
  /\ tx[p].op = "agregar"
  /\ items' = [items EXCEPT ![tx[p].item] = [comanda |-> tx[p].comanda, cocina |-> "PENDIENTE"]]
  /\ comandas' = [comandas EXCEPT ![tx[p].comanda].total = tx[p].total]
  /\ Terminar(p)
  /\ UNCHANGED <<mesas, archivadas, ventas, historia>>

\* quitarItem looks at the kitchen's state of the item, not at the order's.
QuitarLeer(p, i) ==
  /\ tx[p] = Libre
  /\ items[i].cocina = "PENDIENTE"
  /\ LET c == items[i].comanda IN
       /\ Empezar(p, [op |-> "quitar", comanda |-> c, item |-> i,
                      total |-> Cardinality(ItemsDe(c) \ {i})])
       /\ EmpezarItem(p, c)
  /\ UNCHANGED <<mesas, archivadas, comandas, items, ventas>>

\* Deleting an item that is gone fails.
QuitarAplicar(p) ==
  /\ tx[p].op = "quitar"
  /\ Vivo(tx[p].item)
  /\ items' = [items EXCEPT ![tx[p].item] = Quitado]
  /\ comandas' = [comandas EXCEPT ![tx[p].comanda].total = tx[p].total]
  /\ Terminar(p)
  /\ UNCHANGED <<mesas, archivadas, ventas, historia>>

EnviarLeer(p, c) ==
  /\ tx[p] = Libre
  /\ EnCurso(c)
  /\ Empezar(p, [op |-> "enviar", comanda |-> c])
  /\ EmpezarComanda(p, c)
  /\ UNCHANGED <<mesas, archivadas, comandas, items, ventas>>

EnviarAplicar(p) ==
  /\ tx[p].op = "enviar"
  /\ comandas' = [comandas EXCEPT ![tx[p].comanda].estado = "EN_COCINA"]
  /\ Terminar(p)
  /\ UNCHANGED <<mesas, archivadas, items, ventas, historia>>

\* actualizarCocina takes any state, in any order, sent or not.
ActualizarCocina(i, estado) ==
  /\ Vivo(i)
  /\ items' = [items EXCEPT ![i].cocina = estado]
  /\ UNCHANGED <<mesas, archivadas, comandas, ventas, tx, historia>>

CancelarLeer(p, c) ==
  /\ tx[p] = Libre
  /\ Existe(c)
  /\ comandas[c].estado # "CERRADA"
  /\ comandas[c].venta = {}
  /\ Empezar(p, [op |-> "cancelar", comanda |-> c, mesa |-> comandas[c].mesa])
  /\ EmpezarComanda(p, c)
  /\ UNCHANGED <<mesas, archivadas, comandas, items, ventas>>

\* An order may be cancelled again, and that frees its table although another order may
\* have it by now.
CancelarAplicar(p) ==
  /\ tx[p].op = "cancelar"
  /\ comandas' = [comandas EXCEPT ![tx[p].comanda].estado = "CANCELADA"]
  /\ mesas' = [m \in Mesas |-> IF m \in tx[p].mesa THEN "LIBRE" ELSE mesas[m]]
  /\ tocadas' = IF comandas[tx[p].comanda].estado = "CANCELADA" THEN tocadas \cup tx[p].mesa
                                                                ELSE tocadas
  /\ Terminar(p)
  /\ UNCHANGED <<archivadas, items, ventas, expuestas, revueltas>>

-----------------------------------------------------------------------------
(* Charging *)

\* Slip: that the order has a sale is not looked at.
CobrarLeer_SinVenta(p, c, S) ==
  /\ tx[p] = Libre
  /\ EnCurso(c)
  /\ S # {} /\ S \subseteq ItemsDe(c)
  /\ Empezar(p, [op |-> "cobrar", comanda |-> c, mesa |-> comandas[c].mesa, items |-> S,
                 todos |-> S = ItemsDe(c)])
  /\ EmpezarComanda(p, c)
  /\ UNCHANGED <<mesas, archivadas, comandas, items, ventas>>

\* First transaction: S is every item of the order, or those of the request.
CobrarLeer(p, c, S) ==
  /\ tx[p] = Libre
  /\ EnCurso(c)
  /\ comandas[c].venta = {}
  /\ S # {} /\ S \subseteq ItemsDe(c)
  /\ Empezar(p, [op |-> "cobrar", comanda |-> c, mesa |-> comandas[c].mesa, items |-> S,
                 todos |-> S = ItemsDe(c)])
  /\ EmpezarComanda(p, c)
  /\ UNCHANGED <<mesas, archivadas, comandas, items, ventas>>

\* ventas.crear commits the sale; if it fails, Abortar.
CobrarVender(p, v) ==
  /\ tx[p].op = "cobrar"
  /\ ventas[v] = NoVenta
  /\ ventas' = [ventas EXCEPT ![v] = [comanda |-> tx[p].comanda, items |-> tx[p].items]]
  /\ Empezar(p, [op |-> "cobrada", comanda |-> tx[p].comanda, mesa |-> tx[p].mesa,
                 venta |-> v, todos |-> tx[p].todos])
  /\ UNCHANGED <<mesas, archivadas, comandas, items, historia>>

\* Slip: an order is closed by any charge.
CobrarCerrar_Siempre(p) ==
  /\ tx[p].op = "cobrada"
  /\ comandas' = [comandas EXCEPT ![tx[p].comanda].venta = {tx[p].venta},
                                  ![tx[p].comanda].estado = "CERRADA"]
  /\ Empezar(p, [op |-> "liberar", comanda |-> tx[p].comanda, mesa |-> tx[p].mesa])
  /\ UNCHANGED <<mesas, archivadas, items, ventas, historia>>

\* The order is written whatever state it has by now.
CobrarCerrar(p) ==
  /\ tx[p].op = "cobrada"
  /\ comandas' = [comandas EXCEPT ![tx[p].comanda].venta = {tx[p].venta},
                    ![tx[p].comanda].estado = IF tx[p].todos THEN "CERRADA" ELSE "POR_PAGAR"]
  /\ Empezar(p, IF tx[p].todos /\ tx[p].mesa # {}
                  THEN [op |-> "liberar", comanda |-> tx[p].comanda, mesa |-> tx[p].mesa]
                  ELSE Libre)
  /\ UNCHANGED <<mesas, archivadas, items, ventas, historia>>

CobrarLiberar(p) ==
  /\ tx[p].op = "liberar"
  /\ mesas' = [m \in Mesas |-> IF m \in tx[p].mesa THEN "LIBRE" ELSE mesas[m]]
  /\ Terminar(p)
  /\ UNCHANGED <<archivadas, comandas, items, ventas, historia>>

\* A request ends before its next transaction commits: refused, rolled back, or the
\* server stopped.  A charge cut after its sale leaves the order as it was.
Abortar(p) ==
  /\ tx[p] # Libre
  /\ Terminar(p)
  /\ expuestas' = IF tx[p].op = "cobrada" THEN expuestas \cup {tx[p].comanda} ELSE expuestas
  /\ tocadas' = IF tx[p].op = "liberar" THEN tocadas \cup tx[p].mesa ELSE tocadas
  /\ UNCHANGED <<mesas, archivadas, comandas, items, ventas, revueltas>>

-----------------------------------------------------------------------------
Salon ==
  \/ \E m \in Mesas : CrearMesa(m) \/ ArchivarMesa(m)
  \/ \E m \in Mesas, estado \in EstadosDeMano : ActualizarMesa(m, estado)
  \/ \E c \in Comandas : AbrirSinMesa(c)
  \/ \E i \in Items, estado \in Avances : ActualizarCocina(i, estado)

Pedido(p) ==
  \/ \E m \in Mesas : AbrirLeer(p, m)
  \/ \E c \in Comandas : AbrirAplicar(p, c)
  \/ \E c \in Comandas, i \in Items : AgregarLeer(p, c, i)
  \/ AgregarAplicar(p)
  \/ \E i \in Items : QuitarLeer(p, i)
  \/ QuitarAplicar(p)
  \/ \E c \in Comandas : EnviarLeer(p, c) \/ CancelarLeer(p, c)
  \/ EnviarAplicar(p)
  \/ CancelarAplicar(p)

Cobro(p) ==
  \/ \E c \in Comandas, S \in SUBSET Items : CobrarLeer(p, c, S)
  \/ \E v \in Ventas : CobrarVender(p, v)
  \/ CobrarCerrar(p)
  \/ CobrarLiberar(p)

Next == Salon \/ \E p \in Procesos : Pedido(p) \/ Cobro(p) \/ Abortar(p)

Spec == Init /\ [][Next]_vars

-----------------------------------------------------------------------------
(* An order is charged once or cancelled *)

VentasDe(c) == {v \in Ventas : ventas[v].comanda = c}

\* What an order is to its customer: by its sales, not by its state.
faseDe(c) ==
  IF c \in expuestas THEN "expuesta"
  ELSE IF VentasDe(c) = {}
         THEN IF comandas[c].estado = "CANCELADA" THEN "cancelada" ELSE "abierta"
  ELSE IF \E v \in Ventas : VentasDe(c) = {v} THEN "cobrada" ELSE "cobrada de nuevo"

CobroUnico == INSTANCE CobroUnico WITH fase <- [c \in Comandas |-> faseDe(c)]

\* The three transactions of cobrar implement one: an order gets one sale or is
\* cancelled, never both, unless two requests on the order overlapped or a charge was
\* cut after its sale.
CobraUnaVez == CobroUnico!Spec

\* A closed order has its sale, and the sale has every item the order has, unless an
\* item changed while the order was being charged.
TodoCobrado ==
  \A c \in Comandas : comandas[c].estado = "CERRADA" =>
    \E v \in comandas[c].venta :
      /\ ventas[v].comanda = c
      /\ c \notin expuestas \cup revueltas => ItemsDe(c) \subseteq ventas[v].items

OrdenesEn(m) == {c \in Comandas : EnCurso(c) /\ comandas[c].mesa = {m}}

\* A table not among the tocadas is OCUPADA exactly while it has an order in course (or
\* its closing is on the way to free it), and has one at most.
MesaTomada ==
  \A m \in Mesas \ tocadas :
    (\A c \in expuestas : m \notin comandas[c].mesa) =>
      /\ \A c, d \in OrdenesEn(m) : c = d
      /\ mesas[m] = "OCUPADA" <=>
           \/ OrdenesEn(m) # {}
           \/ \E p \in Procesos : tx[p].op = "liberar" /\ m \in tx[p].mesa
=============================================================================

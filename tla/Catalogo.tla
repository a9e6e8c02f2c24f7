------------------------------ MODULE Catalogo ------------------------------
(***************************************************************************)
(* Products and variants of a tenant (modulos/nucleo/catalogo) and what    *)
(* their stock control means to the stock that inventario, compras and     *)
(* ventas move.                                                            *)
(*                                                                         *)
(* Openings, adjustments, receptions of purchases, dispatches, sales and   *)
(* refunds read isStockTracked first, without a lock, and write after; the *)
(* arrival of a transfer and a posted count write without asking.  Turning *)
(* the control off counts the pieces and then writes, so a movement may    *)
(* come in between; and a sale keeps no record of whether its line took    *)
(* stock: a refund asks the variant again.                                 *)
(***************************************************************************)
EXTENDS Integers, Suscripciones, Sucursales

CONSTANTS Productos, Variantes,
          Lineas,        \* pool of sale lines, of one piece
          MaxPiezas,     \* bound: pieces of a variant that come in
          ProductosMax,  \* the feature productos_max
          Trabajos       \* requests that may be in flight together

ASSUME CatalogoAssumption ==
  /\ IsFiniteSet(Productos) /\ IsFiniteSet(Variantes)
  /\ IsFiniteSet(Lineas) /\ IsFiniteSet(Trabajos) /\ Trabajos # {}
  /\ MaxPiezas \in Nat
  /\ ProductosMax \in Caracteristicas
  /\ "ninguno" \notin Productos /\ "ninguna" \notin Variantes

VARIABLES producto,   \* Product.estado
          variante,   \* ProductVariant
          piezas,     \* StockBalance.enStock of a variant, over the warehouses
          transito,   \* pieces of a variant in transfers on their way
          linea,      \* SaleItem, with its refund (SaleRefundItem)
          trabajo,    \* per request: what it read
          entradas,   \* history: pieces that came in, less those a count did not find
          cruzados,   \* history: variants whose control a movement crossed
          llegadas,   \* history: variants that a transfer or a count gave pieces to with the
                      \* control off
          alternados  \* history: variants whose lines a change of control, or another
                      \* refund, crossed

varsCat == <<producto, variante, piezas, transito, linea, trabajo, entradas, cruzados, llegadas,
             alternados>>

historia == <<cruzados, llegadas, alternados>>

-----------------------------------------------------------------------------
NoVariante == [producto |-> "ninguno", activa |-> FALSE, control |-> FALSE]
NoLinea == [variante |-> "ninguna", control |-> FALSE, devuelta |-> FALSE, reingreso |-> FALSE]
Parado == [op |-> "parado"]

Variante == [producto : Productos, activa : BOOLEAN, control : BOOLEAN]
Linea == [variante : Variantes, control : BOOLEAN, devuelta : BOOLEAN, reingreso : BOOLEAN]
Mueve == {"entrar", "transferir"}

Trabajo == {Parado}
  \cup [op : {"crear"}]
  \cup [op : Mueve, variante : Variantes]
  \cup [op : {"vender"}, linea : Lineas, variante : Variantes, control : BOOLEAN]
  \cup [op : {"devolver"}, linea : Lineas, variante : Variantes, control : BOOLEAN,
         restock : BOOLEAN]
  \cup [op : {"apagar"}, variante : Variantes]
  \cup [op : {"servicio"}, producto : Productos]
  \cup [op : {"archivar"}, variante : Variantes]

De(p) == {v \in Variantes : variante[v].producto = p}
Creados == {p \in Productos : producto[p] # "AUSENTE"}
Controladas == {v \in Variantes : variante[v].control}
Vendidas(v) == {l \in Lineas : linea[l].variante = v /\ ~linea[l].devuelta}
Reingresada(l) == linea[l].devuelta /\ linea[l].reingreso
\* The pieces that sales took and no refund was asked to put back.
Descontadas(v) == {l \in Lineas : linea[l].variante = v /\ linea[l].control /\ ~Reingresada(l)}

TypeOKCat ==
  /\ producto \in [Productos -> {"AUSENTE", "ACTIVO", "ARCHIVADO"}]
  /\ variante \in [Variantes -> Variante \cup {NoVariante}]
  /\ \A v \in Variantes : variante[v] = NoVariante \/ variante[v].producto \in Creados
  /\ \A p \in Creados : De(p) # {}
  /\ piezas \in [Variantes -> Nat] /\ transito \in [Variantes -> Nat]
  /\ entradas \in [Variantes -> Int] /\ \A v \in Variantes : entradas[v] <= MaxPiezas
  /\ linea \in [Lineas -> Linea \cup {NoLinea}]
  /\ \A t \in Trabajos : trabajo[t] \in Trabajo
  /\ cruzados \cup llegadas \cup alternados \subseteq Variantes

InitCat ==
  /\ producto = [p \in Productos |-> "AUSENTE"]
  /\ variante = [v \in Variantes |-> NoVariante]
  /\ piezas = [v \in Variantes |-> 0]
  /\ transito = [v \in Variantes |-> 0]
  /\ linea = [l \in Lineas |-> NoLinea]
  /\ trabajo = [t \in Trabajos |-> Parado]
  /\ entradas = [v \in Variantes |-> 0]
  /\ cruzados = {} /\ llegadas = {} /\ alternados = {}

Emprende(t, que) == trabajo[t] = Parado /\ trabajo' = [trabajo EXCEPT ![t] = que]
Acude(t) == trabajo' = [trabajo EXCEPT ![t] = Parado]

\* The variants that a request turns off: one, or those of a product when it writes.
Alcance(q) == IF q.op = "apagar" THEN {q.variante}
              ELSE IF q.op = "servicio" THEN De(q.producto) ELSE {}

\* Variants that a request in flight is turning off, or moving.
Apagandose == UNION {Alcance(trabajo[t]) : t \in Trabajos}
Moviendose == {trabajo[t].variante : t \in {u \in Trabajos :
                 trabajo[u].op \in Mueve \cup {"vender", "devolver"}}}

Cruza(V) == cruzados' = cruzados \cup V
Alterna(V) == alternados' = alternados \cup V

-----------------------------------------------------------------------------
(* catalogo.service: products *)

\* Archived products count, and the count is made in a transaction of its own.
CrearProductoContar(t) ==
  /\ Permite(ProductosMax, Cardinality(Creados))
  /\ Emprende(t, [op |-> "crear"])
  /\ UNCHANGED <<producto, variante, piezas, transito, linea, entradas, historia>>

\* n pieces of initial stock go to an active warehouse, with the control on; the product
\* may be becoming a service.
Nueva(v, p, control, n) ==
  /\ variante[v] = NoVariante
  /\ n > 0 => control /\ Activos # {}
  /\ variante' = [variante EXCEPT ![v] = [producto |-> p, activa |-> TRUE, control |-> control]]
  /\ piezas' = [piezas EXCEPT ![v] = n]
  /\ entradas' = [entradas EXCEPT ![v] = n]
  /\ Cruza({w \in {v} : \E t \in Trabajos : trabajo[t].op = "servicio" /\ trabajo[t].producto = p})

CrearProducto(t, p, v, control, n) ==
  /\ trabajo[t].op = "crear"
  /\ producto[p] = "AUSENTE"
  /\ producto' = [producto EXCEPT ![p] = "ACTIVO"]
  /\ Nueva(v, p, control, n)
  /\ Acude(t)
  /\ UNCHANGED <<transito, linea, llegadas, alternados>>

AgregarVariante(v, p, control, n) ==
  /\ p \in Creados
  /\ Nueva(v, p, control, n)
  /\ UNCHANGED <<producto, transito, linea, trabajo, llegadas, alternados>>

\* The variants of an archived product stay as they were; only a sale asks for its state.
ArchivarProducto(p) ==
  /\ p \in Creados
  /\ producto' = [producto EXCEPT ![p] = "ARCHIVADO"]
  /\ UNCHANGED <<variante, piezas, transito, linea, trabajo, entradas, historia>>

ArchivarVarianteLeer(t, v) ==
  /\ variante[v] # NoVariante
  /\ Cardinality({w \in De(variante[v].producto) : variante[w].activa}) > 1
  /\ Emprende(t, [op |-> "archivar", variante |-> v])
  /\ UNCHANGED <<producto, variante, piezas, transito, linea, entradas, historia>>

ArchivarVarianteAplicar(t) ==
  /\ trabajo[t].op = "archivar"
  /\ variante' = [variante EXCEPT ![trabajo[t].variante].activa = FALSE]
  /\ Acude(t)
  /\ UNCHANGED <<producto, piezas, transito, linea, entradas, historia>>

-----------------------------------------------------------------------------
(* catalogo.service: the control of stock *)

\* Slip: one variant without pieces lets the whole product through.
SinPiezas_Alguna(V) == V # {} => \E v \in V : piezas[v] = 0

\* actualizarVariante turns one off, actualizarProducto those of a product that becomes a
\* service; the pieces in transit are not counted.
SinPiezas(V) == \A v \in V : piezas[v] = 0

ApagarLeer(t, v) ==
  /\ variante[v] # NoVariante /\ SinPiezas({v})
  /\ Emprende(t, [op |-> "apagar", variante |-> v])
  /\ Cruza({v} \cap Moviendose)
  /\ UNCHANGED <<producto, variante, piezas, transito, linea, entradas, llegadas, alternados>>

ConvertirLeer(t, p) ==
  /\ p \in Creados /\ SinPiezas(De(p))
  /\ Emprende(t, [op |-> "servicio", producto |-> p])
  /\ Cruza(De(p) \cap Moviendose)
  /\ UNCHANGED <<producto, variante, piezas, transito, linea, entradas, llegadas, alternados>>

\* The variants of V whose lines meet a control that is not the one they were sold with.
ConLineas(V) == {v \in V : Vendidas(v) # {} \/ v \in Moviendose}

ApagarAplicar(t) ==
  LET V == Alcance(trabajo[t]) IN
  /\ trabajo[t].op \in {"apagar", "servicio"}
  /\ variante' = [v \in Variantes |-> IF v \in V THEN [variante[v] EXCEPT !.control = FALSE]
                                      ELSE variante[v]]
  /\ Alterna(ConLineas(V \cap Controladas))
  /\ Acude(t)
  /\ UNCHANGED <<producto, piezas, transito, linea, entradas, cruzados, llegadas>>

Encender(v) ==
  /\ variante[v] # NoVariante
  /\ variante' = [variante EXCEPT ![v].control = TRUE]
  /\ Alterna(ConLineas({v} \ Controladas))
  /\ UNCHANGED <<producto, piezas, transito, linea, trabajo, entradas, cruzados, llegadas>>

-----------------------------------------------------------------------------
(* inventario, compras and ventas: the movements, which ask for the control *)

\* An entry (opening, adjustment or reception, which takes an archived variant too) or the
\* dispatch of a transfer.
MoverLeer(t, v, que) ==
  /\ v \in Controladas
  /\ que = "transferir" => variante[v].activa
  /\ Emprende(t, [op |-> que, variante |-> v])
  /\ Cruza({v} \cap Apagandose)
  /\ UNCHANGED <<producto, variante, piezas, transito, linea, entradas, llegadas, alternados>>

EntrarAplicar(t) ==
  LET v == trabajo[t].variante IN
  /\ trabajo[t].op = "entrar"
  /\ entradas[v] < MaxPiezas
  /\ piezas' = [piezas EXCEPT ![v] = @ + 1]
  /\ entradas' = [entradas EXCEPT ![v] = @ + 1]
  /\ Acude(t)
  /\ UNCHANGED <<producto, variante, transito, linea, historia>>

TransferirAplicar(t) ==
  LET v == trabajo[t].variante IN
  /\ trabajo[t].op = "transferir"
  /\ piezas[v] > 0
  /\ piezas' = [piezas EXCEPT ![v] = @ - 1]
  /\ transito' = [transito EXCEPT ![v] = @ + 1]
  /\ Acude(t)
  /\ UNCHANGED <<producto, variante, linea, entradas, historia>>

\* A reception or a cancellation of the transfer: neither asks for the control.
RecibirTransferencia(v) ==
  /\ transito[v] > 0
  /\ transito' = [transito EXCEPT ![v] = @ - 1]
  /\ piezas' = [piezas EXCEPT ![v] = @ + 1]
  /\ llegadas' = llegadas \cup {w \in {v} : w \notin Controladas}
  /\ Cruza({v} \cap Apagandose)
  /\ UNCHANGED <<producto, variante, linea, trabajo, entradas, alternados>>

\* A posted count sets what a warehouse holds, d pieces more or less than it had: its lines
\* are those of active variants, with control or without, and it asks for neither again.
ContabilizarConteo(v, d) ==
  /\ variante[v] # NoVariante /\ Existentes # {}
  /\ piezas[v] + d >= 0 /\ entradas[v] + d <= MaxPiezas
  /\ piezas' = [piezas EXCEPT ![v] = @ + d]
  /\ entradas' = [entradas EXCEPT ![v] = @ + d]
  /\ llegadas' = llegadas \cup {w \in {v} : w \notin Controladas /\ d > 0}
  /\ Cruza({v} \cap Apagandose)
  /\ UNCHANGED <<producto, variante, transito, linea, trabajo, alternados>>

\* A sale of a variant with control needs a warehouse; the others need none.
VenderLeer(t, l, v, c) ==
  /\ linea[l] = NoLinea
  /\ variante[v].activa /\ producto[variante[v].producto] = "ACTIVO"
  /\ v \in Controladas => \E w \in Almacenes : PuedeDespachar(c, w)
  /\ Emprende(t, [op |-> "vender", linea |-> l, variante |-> v, control |-> variante[v].control])
  /\ Cruza({v} \cap Apagandose)
  /\ UNCHANGED <<producto, variante, piezas, transito, linea, entradas, llegadas, alternados>>

VenderAplicar(t) ==
  LET q == trabajo[t] IN
  /\ q.op = "vender"
  /\ linea[q.linea] = NoLinea
  /\ q.control => piezas[q.variante] > 0
  /\ linea' = [linea EXCEPT ![q.linea] = [variante |-> q.variante, control |-> q.control,
                                             devuelta |-> FALSE, reingreso |-> FALSE]]
  /\ piezas' = [piezas EXCEPT ![q.variante] = IF q.control THEN @ - 1 ELSE @]
  /\ Acude(t)
  /\ UNCHANGED <<producto, variante, transito, entradas, historia>>

\* A refund reads the variant as it is now; whoever asks for it says whether the goods go
\* back to stock.
DevolverLeer(t, l, restock) ==
  LET v == linea[l].variante IN
  /\ linea[l] # NoLinea /\ ~linea[l].devuelta
  /\ Emprende(t, [op |-> "devolver", linea |-> l, variante |-> v, control |-> variante[v].control,
                  restock |-> restock])
  /\ Cruza({v} \cap Apagandose)
  /\ Alterna({w \in {v} : \E u \in Trabajos : trabajo[u].op = "devolver" /\ trabajo[u].linea = l})
  /\ UNCHANGED <<producto, variante, piezas, transito, linea, entradas, llegadas>>

Devuelve(q) ==
  linea' = [linea EXCEPT ![q.linea].devuelta = TRUE, ![q.linea].reingreso = q.restock]

\* Slip: a refund puts the piece back whatever it was asked.
DevolverAplicar_Siempre(t) ==
  LET q == trabajo[t] IN
  /\ q.op = "devolver"
  /\ Devuelve(q)
  /\ piezas' = [piezas EXCEPT ![q.variante] = IF q.control THEN @ + 1 ELSE @]
  /\ Acude(t)
  /\ UNCHANGED <<producto, variante, transito, entradas, historia>>

DevolverAplicar(t) ==
  LET q == trabajo[t] IN
  /\ q.op = "devolver"
  /\ Devuelve(q)
  /\ piezas' = [piezas EXCEPT ![q.variante] = IF q.restock /\ q.control THEN @ + 1 ELSE @]
  /\ Acude(t)
  /\ UNCHANGED <<producto, variante, transito, entradas, historia>>

\* A check fails: the transaction is rolled back.
Renunciar(t) ==
  /\ trabajo[t] # Parado
  /\ Acude(t)
  /\ UNCHANGED <<producto, variante, piezas, transito, linea, entradas, historia>>

NextCat ==
  \/ \E t \in Trabajos :
       \/ CrearProductoContar(t) \/ ArchivarVarianteAplicar(t) \/ ApagarAplicar(t)
       \/ EntrarAplicar(t) \/ TransferirAplicar(t) \/ VenderAplicar(t) \/ DevolverAplicar(t)
       \/ Renunciar(t)
       \/ \E p \in Productos : ConvertirLeer(t, p)
       \/ \E l \in Lineas, restock \in BOOLEAN : DevolverLeer(t, l, restock)
  \/ \E p \in Productos : ArchivarProducto(p)
  \/ \E v \in Variantes :
       \/ Encender(v) \/ RecibirTransferencia(v)
       \/ \E d \in -MaxPiezas .. MaxPiezas : ContabilizarConteo(v, d)
       \/ \E p \in Productos, control \in BOOLEAN, n \in 0 .. MaxPiezas :
            AgregarVariante(v, p, control, n) \/ \E t \in Trabajos : CrearProducto(t, p, v, control, n)
       \/ \E t \in Trabajos :
            \/ ArchivarVarianteLeer(t, v) \/ ApagarLeer(t, v)
            \/ \E que \in Mueve : MoverLeer(t, v, que)
            \/ \E l \in Lineas, c \in Cajas : VenderLeer(t, l, v, c)

-----------------------------------------------------------------------------
\* A variant without control holds no stock (it would be invisible, and no movement could
\* take it out), unless a movement crossed the turning off, or one of the two writers that do
\* not ask, the arrival of a transfer or a count, gave it pieces.
SinControlSinStock ==
  \A v \in Variantes \ (cruzados \cup llegadas) : v \notin Controladas => piezas[v] = 0

\* No piece appears or is lost: those that came in are in stock, in transit or with a customer
\* (sold, or refunded without putting the goods back), through sales, refunds, transfers and
\* counts, unless the control of a variant changed with lines of it sold (a refund then puts
\* back what was not taken, or does not put back what was).
PiezasConservadas ==
  \A v \in Variantes \ alternados :
    piezas[v] + transito[v] + Cardinality(Descontadas(v)) = entradas[v]
=============================================================================

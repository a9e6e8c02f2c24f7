------------------------- MODULE RestauranteProofs -------------------------
(***************************************************************************)
(* Theorems of Restaurante for any tables, orders, items and requests.     *)
(*                                                                         *)
(* Three invariants: Inv, an order is charged once or cancelled;           *)
(* InvCobrado, a closed order has its items in its sale; InvMesas, an      *)
(* order that runs has its table.                                          *)
(***************************************************************************)
EXTENDS Restaurante, FiniteSetTheorems, TLAPS

-----------------------------------------------------------------------------
(* What an order and the requests about it agree on *)

\* Requests on the order itself, not on one item of it.
DeComanda == {"enviar", "cancelar", "cobrar", "cobrada", "liberar"}

\* Two requests on one order expose it.
Solo ==
  \A p, q \in Procesos :
    p # q /\ tx[p].op \in DeComanda /\ tx[q].op \in DeComanda /\ tx[p].comanda = tx[q].comanda
      => tx[p].comanda \in expuestas

\* An order that shows no sale has none, unless a charge in flight is about to show it.
SinCobrar(c) ==
  comandas[c].venta = {} =>
    VentasDe(c) = {} \/ \E p \in Procesos : tx[p].op = "cobrada" /\ tx[p].comanda = c

\* Sales are of orders that exist, and shown by them.
OrdenOK ==
  /\ \A v \in Ventas : ventas[v] # NoVenta => Existe(ventas[v].comanda)
  /\ \A c \in Comandas \ expuestas : Existe(c) => SinCobrar(c)

\* What a request read of its order still holds.
Vigente(t) ==
  /\ t.op \in {"enviar", "cobrar"} => comandas[t.comanda].estado # "CANCELADA"
  /\ t.op \in {"cancelar", "cobrar"} => VentasDe(t.comanda) = {}
  /\ t.op = "cobrada" => VentasDe(t.comanda) = {t.venta}

\* What requests in flight read holds, for orders that are not exposed.
VueloOK ==
  \A p \in Procesos : tx[p].op \in DeComanda /\ tx[p].comanda \notin expuestas => Vigente(tx[p])

Inv == TypeOK /\ Solo /\ OrdenOK /\ VueloOK

\* The abstract orders; a step of one of them or a stutter.
fases == [c \in Comandas |-> faseDe(c)]
Refina == CobroUnico!Next \/ UNCHANGED fases

-----------------------------------------------------------------------------
(* Shapes of the rows and of the requests *)

\* What a request in flight keeps, by its kind.
LEMMA TxForma ==
  ASSUME NEW x \in Tx
  PROVE  /\ x.op \in {"libre", "abrir", "agregar", "quitar"} \cup DeComanda
         /\ x = Libre <=> x.op = "libre"
         /\ x.op = "abrir" => x.mesa \in Mesas
         /\ x.op \notin {"libre", "abrir"} => x.comanda \in Comandas
         /\ x.op \in DeItem => x.item \in Items /\ x.total \in Nat
         /\ x.op \in {"cancelar", "cobrar", "cobrada", "liberar"} => x.mesa \in SUBSET Mesas
         /\ x.op = "cobrar" => x.items \in SUBSET Items
         /\ x.op \in {"cobrar", "cobrada"} => x.todos \in BOOLEAN
         /\ x.op = "cobrada" => x.venta \in Ventas
  BY DEF Tx, Libre, DeItem, DeComanda

\* Existing orders, sales and items have all their columns.
LEMMA FilasForma ==
  /\ \A c \in Comanda : c # NoComanda /\ c.estado \in EstadosComanda /\ c.mesa \in SUBSET Mesas
                        /\ c.venta \in SUBSET Ventas /\ c.total \in Nat
  /\ \A v \in Venta : v # NoVenta /\ v.comanda \in Comandas
  /\ NoVenta.comanda \notin Comandas
  /\ \A i \in Item \cup {NoItem, Quitado} : i.cocina \in EstadosCocina => i \in Item
  /\ \A i \in Item : i.comanda \in Comandas
  /\ NoItem \notin Item /\ Quitado \notin Item
  BY RestauranteAssumption
  DEF Comanda, NoComanda, EstadosComanda, Venta, NoVenta, Item, NoItem, Quitado, EstadosCocina

\* The items of an order can be counted.
LEMMA ItemsFinitos ==
  ASSUME NEW c
  PROVE  IsFiniteSet(ItemsDe(c)) /\ Cardinality(ItemsDe(c)) \in Nat
         /\ \A i \in Items : Cardinality(ItemsDe(c) \ {i}) \in Nat
<1>1. IsFiniteSet(ItemsDe(c)) /\ \A i \in Items : IsFiniteSet(ItemsDe(c) \ {i})
  BY RestauranteAssumption, FS_Subset DEF ItemsDe
<1>2. QED
  BY <1>1, FS_CardinalityType

\* A step that moves one order from one phase to the next, or none.
LEMMA UnPaso ==
  ASSUME NEW c \in Comandas,
         \A d \in Comandas \ {c} : faseDe(d)' = faseDe(d),
         \/ faseDe(c)' = faseDe(c)
         \/ faseDe(c) = "abierta" /\ faseDe(c)' \in {"cobrada", "cancelada"}
         \/ faseDe(c) # "expuesta" /\ faseDe(c)' = "expuesta"
  PROVE  Refina
<1>1. fases' = [fases EXCEPT ![c] = faseDe(c)']
  BY DEF fases
<1>2. fases[c] = faseDe(c)
  BY DEF fases
<1>3. CASE faseDe(c)' = faseDe(c)
  BY <1>3 DEF Refina, fases
<1>4. CASE faseDe(c) = "abierta" /\ faseDe(c)' = "cobrada"
  BY <1>1, <1>2, <1>4 DEF Refina, fases, CobroUnico!Next, CobroUnico!Cobrar, CobroUnico!Pasar
<1>5. CASE faseDe(c) = "abierta" /\ faseDe(c)' = "cancelada"
  BY <1>1, <1>2, <1>5 DEF Refina, fases, CobroUnico!Next, CobroUnico!Cancelar, CobroUnico!Pasar
<1>6. CASE faseDe(c) # "expuesta" /\ faseDe(c)' = "expuesta"
  BY <1>1, <1>2, <1>6 DEF Refina, fases, CobroUnico!Next, CobroUnico!Exponer, CobroUnico!Pasar
<1>7. QED
  BY <1>3, <1>4, <1>5, <1>6

-----------------------------------------------------------------------------
(* Types *)

\* A request that keeps a well-formed record, of an order that exists, is well typed.
LEMMA TxCambia ==
  ASSUME TypeOK, NEW p \in Procesos, NEW t \in Tx, tx' = [tx EXCEPT ![p] = t],
         t.op \notin {"libre", "abrir"} => Existe(t.comanda)',
         \A c \in Comandas : Existe(c) => Existe(c)'
  PROVE  /\ tx' \in [Procesos -> Tx]
         /\ \A q \in Procesos : tx'[q].op \notin {"libre", "abrir"} => Existe(tx[q].comanda)'
  BY TxForma DEF TypeOK, Existe

\* So is one that ends.
LEMMA TxLibera ==
  ASSUME TypeOK, NEW p \in Procesos, Terminar(p),
         \A c \in Comandas : Existe(c) => Existe(c)'
  PROVE  /\ tx' \in [Procesos -> Tx]
         /\ \A q \in Procesos : tx'[q].op \notin {"libre", "abrir"} => Existe(tx[q].comanda)'
<1>1. Libre \in Tx /\ Libre.op = "libre"
  BY DEF Tx, Libre
<1>2. QED
  BY <1>1, TxCambia DEF Terminar, Existe

\* The history variables name orders.
LEMMA HistoriaDeItem ==
  ASSUME TypeOK, NEW p \in Procesos, NEW c \in Comandas, EmpezarItem(p, c) \/ EmpezarComanda(p, c)
  PROVE  tocadas' = tocadas /\ expuestas' \subseteq Comandas /\ revueltas' \subseteq Comandas
  BY DEF TypeOK, EmpezarItem, EmpezarComanda

\* Tables, orders without one and the progress of the kitchen keep the types.
LEMMA TiposSalon ==
  ASSUME TypeOK, Salon \/ UNCHANGED vars
  PROVE  TypeOK'
<1>1. ASSUME NEW m \in Mesas, CrearMesa(m) \/ ArchivarMesa(m)
      PROVE  TypeOK'
  BY <1>1 DEF TypeOK, CrearMesa, ArchivarMesa, EstadosMesa, historia, Existe
<1>2. ASSUME NEW m \in Mesas, NEW e \in EstadosDeMano, ActualizarMesa(m, e)
      PROVE  TypeOK'
  BY <1>2, RestauranteAssumption DEF TypeOK, ActualizarMesa, Existe
<1>3. ASSUME NEW c \in Comandas, AbrirSinMesa(c)
      PROVE  TypeOK'
  <2>1. Nueva({}) \in Comanda /\ Nueva({}) # NoComanda
    BY FilasForma DEF Nueva, Comanda, EstadosComanda
  <2>2. QED
    BY <1>3, <2>1 DEF TypeOK, AbrirSinMesa, historia, Existe
<1>4. ASSUME NEW i \in Items, NEW e \in Avances, ActualizarCocina(i, e)
      PROVE  TypeOK'
  <2>1. items[i] \in Item
    BY <1>4, FilasForma DEF TypeOK, ActualizarCocina, Vivo
  <2>2. [items[i] EXCEPT !.cocina = e] \in Item
    BY <2>1, RestauranteAssumption DEF Item
  <2>3. /\ [items[i] EXCEPT !.cocina = e].comanda = items[i].comanda
        /\ Existe(items[i].comanda)
    BY <2>1 DEF Item, TypeOK
  <2>4. items' \in [Items -> Item \cup {NoItem, Quitado}]
        /\ \A j \in Items : items'[j] \in Item => Existe(items'[j].comanda)
    BY <1>4, <2>2, <2>3 DEF TypeOK, ActualizarCocina
  <2>5. QED
    BY <1>4, <2>4 DEF TypeOK, ActualizarCocina, historia, Existe
<1>5. CASE UNCHANGED vars
  BY <1>5 DEF TypeOK, vars, Existe
<1>6. QED
  BY <1>1, <1>2, <1>3, <1>4, <1>5 DEF Salon

\* So do opening an order, its items, its kitchen and its cancellation.
LEMMA TiposPedido ==
  ASSUME TypeOK, NEW p \in Procesos, Pedido(p)
  PROVE  TypeOK'
<1>0. tx[p] \in Tx
  BY DEF TypeOK
<1>1. ASSUME NEW m \in Mesas, AbrirLeer(p, m)
      PROVE  TypeOK'
  <2>1. [op |-> "abrir", mesa |-> m] \in Tx
    BY DEF Tx
  <2>2. tocadas' \subseteq Mesas
    BY <1>1 DEF TypeOK, AbrirLeer
  <2>3. \A c \in Comandas : Existe(c) => Existe(c)'
    BY <1>1 DEF AbrirLeer, Existe
  <2>4. tx' \in [Procesos -> Tx]
        /\ \A q \in Procesos : tx'[q].op \notin {"libre", "abrir"} => Existe(tx[q].comanda)'
    BY <1>1, <2>1, <2>3, TxCambia DEF AbrirLeer, Empezar
  <2>5. QED
    BY <1>1, <2>2, <2>4 DEF TypeOK, AbrirLeer, Existe
<1>2. ASSUME NEW c \in Comandas, AbrirAplicar(p, c)
      PROVE  TypeOK'
  <2>1. tx[p].mesa \in Mesas
    BY <1>0, <1>2, TxForma DEF AbrirAplicar
  <2>2. Nueva({tx[p].mesa}) \in Comanda /\ Nueva({tx[p].mesa}) # NoComanda
    BY <2>1, FilasForma DEF Nueva, Comanda, EstadosComanda
  <2>3. comandas' \in [Comandas -> Comanda \cup {NoComanda}]
        /\ \A d \in Comandas : Existe(d) => Existe(d)'
    BY <1>2, <2>2 DEF TypeOK, AbrirAplicar, Existe
  <2>4. tx' \in [Procesos -> Tx]
        /\ \A q \in Procesos : tx'[q].op \notin {"libre", "abrir"} => Existe(tx[q].comanda)'
    BY <1>2, <2>3, TxLibera DEF AbrirAplicar
  <2>5. mesas' \in [Mesas -> EstadosMesa \cup {"AUSENTE"}]
    BY <1>2 DEF TypeOK, AbrirAplicar, EstadosMesa
  <2>6. QED
    BY <1>2, <2>3, <2>4, <2>5, FilasForma DEF TypeOK, AbrirAplicar, historia, Existe
<1>3. ASSUME NEW c \in Comandas, NEW i \in Items, AgregarLeer(p, c, i)
      PROVE  TypeOK'
  <2>1. Cardinality(ItemsDe(c)) + 1 \in Nat
    BY ItemsFinitos
  <2>2. [op |-> "agregar", comanda |-> c, item |-> i, total |-> Cardinality(ItemsDe(c)) + 1] \in Tx
    BY <2>1 DEF Tx, DeItem
  <2>3. Existe(c) /\ \A d \in Comandas : Existe(d) => Existe(d)'
    BY <1>3 DEF AgregarLeer, Existe, EnCurso
  <2>4. tx' \in [Procesos -> Tx]
        /\ \A q \in Procesos : tx'[q].op \notin {"libre", "abrir"} => Existe(tx[q].comanda)'
    BY <1>3, <2>2, <2>3, TxCambia DEF AgregarLeer, Empezar, Existe
  <2>5. tocadas' = tocadas /\ expuestas' \subseteq Comandas /\ revueltas' \subseteq Comandas
    BY <1>3, HistoriaDeItem DEF AgregarLeer
  <2>6. QED
    BY <1>3, <2>4, <2>5 DEF TypeOK, AgregarLeer, Existe
<1>4. ASSUME tx[p].op \in DeItem, NEW x \in Item \cup {Quitado},
             x \in Item => x.comanda = tx[p].comanda,
             items' = [items EXCEPT ![tx[p].item] = x],
             comandas' = [comandas EXCEPT ![tx[p].comanda].total = tx[p].total],
             Terminar(p), UNCHANGED <<mesas, archivadas, ventas, historia>>
      PROVE  TypeOK'
  <2>1. tx[p].comanda \in Comandas /\ tx[p].item \in Items /\ tx[p].total \in Nat
    BY <1>0, <1>4, TxForma DEF DeItem
  <2>2. comandas[tx[p].comanda] \in Comanda
    BY <1>4, <2>1 DEF TypeOK, DeItem, Existe
  <2>3. [comandas[tx[p].comanda] EXCEPT !.total = tx[p].total] \in Comanda
    BY <2>1, <2>2 DEF Comanda
  <2>4. comandas' \in [Comandas -> Comanda \cup {NoComanda}]
        /\ \A d \in Comandas : Existe(d) => Existe(d)'
    BY <1>4, <2>1, <2>3, FilasForma DEF TypeOK, Existe
  <2>5. tx' \in [Procesos -> Tx]
        /\ \A q \in Procesos : tx'[q].op \notin {"libre", "abrir"} => Existe(tx[q].comanda)'
    BY <1>4, <2>4, TxLibera
  <2>6. items' \in [Items -> Item \cup {NoItem, Quitado}]
    BY <1>4 DEF TypeOK
  <2>7. \A i \in Items : items'[i] \in Item => Existe(items[i].comanda)'
    <3>1. \A i \in Items : items'[i] \in Item =>
            items'[i].comanda \in Comandas /\ Existe(items'[i].comanda)
      BY <1>4, <2>1, <2>2, FilasForma DEF TypeOK, Item, Existe
    <3>2. QED
      BY <2>4, <3>1
  <2>8. QED
    BY <1>4, <2>4, <2>5, <2>6, <2>7 DEF TypeOK, historia, Existe
<1>5. CASE AgregarAplicar(p)
  <2>1. tx[p].comanda \in Comandas /\ tx[p].op \in DeItem
    BY <1>0, <1>5, TxForma DEF AgregarAplicar, DeItem
  <2>2. [comanda |-> tx[p].comanda, cocina |-> "PENDIENTE"] \in Item
    BY <2>1 DEF Item, EstadosCocina
  <2>3. QED
    BY <1>4, <1>5, <2>1, <2>2 DEF AgregarAplicar, Item
<1>6. CASE QuitarAplicar(p)
  <2>1. tx[p].op \in DeItem
    BY <1>6 DEF QuitarAplicar, DeItem
  <2>2. QED
    BY <1>4, <1>6, <2>1, FilasForma DEF QuitarAplicar
<1>7. ASSUME NEW i \in Items, QuitarLeer(p, i)
      PROVE  TypeOK'
  <2> DEFINE c == items[i].comanda
  <2>1. c \in Comandas /\ Existe(c)
    <3>1. items[i] \in Item
      BY <1>7, FilasForma DEF TypeOK, QuitarLeer, EstadosCocina
    <3>2. QED
      BY <3>1 DEF TypeOK, Item
  <2>2. [op |-> "quitar", comanda |-> c, item |-> i, total |-> Cardinality(ItemsDe(c) \ {i})] \in Tx
    BY <2>1, ItemsFinitos DEF Tx, DeItem
  <2>3. \A d \in Comandas : Existe(d) => Existe(d)'
    BY <1>7 DEF QuitarLeer, Existe
  <2>4. tx' \in [Procesos -> Tx]
        /\ \A q \in Procesos : tx'[q].op \notin {"libre", "abrir"} => Existe(tx[q].comanda)'
    BY <1>7, <2>1, <2>2, <2>3, TxCambia DEF QuitarLeer, Empezar, Existe
  <2>5. tocadas' = tocadas /\ expuestas' \subseteq Comandas /\ revueltas' \subseteq Comandas
    BY <1>7, <2>1, HistoriaDeItem DEF QuitarLeer
  <2>6. QED
    BY <1>7, <2>4, <2>5 DEF TypeOK, QuitarLeer, Existe
<1>8. ASSUME NEW c \in Comandas, EnviarLeer(p, c) \/ CancelarLeer(p, c)
      PROVE  TypeOK'
  <2>1. Existe(c) /\ \A d \in Comandas : Existe(d) => Existe(d)'
    BY <1>8 DEF EnviarLeer, CancelarLeer, Existe, EnCurso
  <2>2. comandas[c].mesa \in SUBSET Mesas
    BY <2>1, FilasForma DEF TypeOK, Existe
  <2>3. PICK t \in Tx : tx' = [tx EXCEPT ![p] = t] /\ t.comanda = c
    <3>1. /\ [op |-> "enviar", comanda |-> c] \in Tx
          /\ [op |-> "cancelar", comanda |-> c, mesa |-> comandas[c].mesa] \in Tx
      BY <2>2 DEF Tx
    <3>2. \/ tx' = [tx EXCEPT ![p] = [op |-> "enviar", comanda |-> c]]
          \/ tx' = [tx EXCEPT ![p] = [op |-> "cancelar", comanda |-> c, mesa |-> comandas[c].mesa]]
      BY <1>8 DEF EnviarLeer, CancelarLeer, Empezar
    <3>3. QED
      BY <3>1, <3>2
  <2>4. tx' \in [Procesos -> Tx]
        /\ \A q \in Procesos : tx'[q].op \notin {"libre", "abrir"} => Existe(tx[q].comanda)'
    BY <2>1, <2>3, TxCambia DEF Existe
  <2>5. tocadas' = tocadas /\ expuestas' \subseteq Comandas /\ revueltas' \subseteq Comandas
    BY <1>8, HistoriaDeItem DEF EnviarLeer, CancelarLeer
  <2>6. QED
    BY <1>8, <2>4, <2>5 DEF TypeOK, EnviarLeer, CancelarLeer, Existe
<1>9. ASSUME tx[p].comanda \in Comandas, Existe(tx[p].comanda), NEW e \in EstadosComanda,
             comandas' = [comandas EXCEPT ![tx[p].comanda].estado = e], Terminar(p),
             mesas' \in [Mesas -> EstadosMesa \cup {"AUSENTE"}], tocadas' \subseteq Mesas,
             UNCHANGED <<archivadas, items, ventas, expuestas, revueltas>>
      PROVE  TypeOK'
  <2>1. comandas[tx[p].comanda] \in Comanda
    BY <1>9 DEF TypeOK, Existe
  <2>2. [comandas[tx[p].comanda] EXCEPT !.estado = e] \in Comanda
    BY <1>9, <2>1 DEF Comanda
  <2>3. comandas' \in [Comandas -> Comanda \cup {NoComanda}]
        /\ \A d \in Comandas : Existe(d) => Existe(d)'
    BY <1>9, <2>2, FilasForma DEF TypeOK, Existe
  <2>4. tx' \in [Procesos -> Tx]
        /\ \A q \in Procesos : tx'[q].op \notin {"libre", "abrir"} => Existe(tx[q].comanda)'
    BY <1>9, <2>3, TxLibera DEF Existe
  <2>5. \A i \in Items : items[i] \in Item => items[i].comanda \in Comandas
    BY DEF Item
  <2>6. QED
    BY <1>9, <2>3, <2>4, <2>5 DEF TypeOK, Existe
<1>10. CASE EnviarAplicar(p)
  <2>1. tx[p].comanda \in Comandas /\ Existe(tx[p].comanda)
    BY <1>0, <1>10, TxForma DEF EnviarAplicar, TypeOK
  <2>2. QED
    BY <1>9, <1>10, <2>1 DEF EnviarAplicar, EstadosComanda, historia, TypeOK
<1>11. CASE CancelarAplicar(p)
  <2>1. tx[p].comanda \in Comandas /\ Existe(tx[p].comanda) /\ tx[p].mesa \subseteq Mesas
    BY <1>0, <1>11, TxForma DEF CancelarAplicar, TypeOK
  <2>2. mesas' \in [Mesas -> EstadosMesa \cup {"AUSENTE"}] /\ tocadas' \subseteq Mesas
    BY <1>11, <2>1 DEF CancelarAplicar, TypeOK, EstadosMesa
  <2>3. QED
    BY <1>9, <1>11, <2>1, <2>2 DEF CancelarAplicar, EstadosComanda
<1>12. QED
  BY <1>1, <1>2, <1>3, <1>5, <1>6, <1>7, <1>8, <1>10, <1>11 DEF Pedido

\* So do the three transactions of a charge, and a rollback.
LEMMA TiposCobro ==
  ASSUME TypeOK, NEW p \in Procesos, Cobro(p) \/ Abortar(p)
  PROVE  TypeOK'
<1>0. tx[p] \in Tx
  BY DEF TypeOK
<1>1. ASSUME NEW c \in Comandas, NEW S \in SUBSET Items, CobrarLeer(p, c, S)
      PROVE  TypeOK'
  <2> DEFINE t == [op |-> "cobrar", comanda |-> c, mesa |-> comandas[c].mesa, items |-> S,
                   todos |-> S = ItemsDe(c)]
  <2>1. Existe(c) /\ \A d \in Comandas : Existe(d) => Existe(d)'
    BY <1>1 DEF CobrarLeer, Existe, EnCurso
  <2>2. comandas[c].mesa \in SUBSET Mesas
    BY <2>1, FilasForma DEF TypeOK, Existe
  <2>3. t \in Tx
    BY <2>2 DEF Tx
  <2>4. t.comanda = c /\ tx' = [tx EXCEPT ![p] = t]
    BY <1>1 DEF CobrarLeer, Empezar
  <2> HIDE DEF t
  <2>5. tx' \in [Procesos -> Tx]
        /\ \A q \in Procesos : tx'[q].op \notin {"libre", "abrir"} => Existe(tx[q].comanda)'
    BY <2>1, <2>3, <2>4, TxCambia DEF Existe
  <2>6. tocadas' = tocadas /\ expuestas' \subseteq Comandas /\ revueltas' \subseteq Comandas
    BY <1>1, HistoriaDeItem DEF CobrarLeer
  <2>7. QED
    BY <1>1, <2>5, <2>6 DEF TypeOK, CobrarLeer, Existe
<1>2. ASSUME NEW v \in Ventas, CobrarVender(p, v)
      PROVE  TypeOK'
  <2> DEFINE t == [op |-> "cobrada", comanda |-> tx[p].comanda, mesa |-> tx[p].mesa,
                   venta |-> v, todos |-> tx[p].todos]
  <2>1. /\ tx[p].comanda \in Comandas /\ tx[p].mesa \in SUBSET Mesas
        /\ tx[p].todos \in BOOLEAN /\ tx[p].items \in SUBSET Items
    BY <1>0, <1>2, TxForma DEF CobrarVender
  <2>2. Existe(tx[p].comanda) /\ \A d \in Comandas : Existe(d) => Existe(d)'
    BY <1>2 DEF CobrarVender, TypeOK, Existe
  <2>3. t \in Tx
    BY <2>1 DEF Tx
  <2>4. t.comanda = tx[p].comanda /\ tx' = [tx EXCEPT ![p] = t]
    BY <1>2 DEF CobrarVender, Empezar
  <2> HIDE DEF t
  <2>5. tx' \in [Procesos -> Tx]
        /\ \A q \in Procesos : tx'[q].op \notin {"libre", "abrir"} => Existe(tx[q].comanda)'
    BY <2>1, <2>2, <2>3, <2>4, TxCambia DEF Existe
  <2>6. [comanda |-> tx[p].comanda, items |-> tx[p].items] \in Venta
    BY <2>1 DEF Venta
  <2>7. ventas' \in [Ventas -> Venta \cup {NoVenta}]
    BY <1>2, <2>6 DEF TypeOK, CobrarVender
  <2>8. QED
    BY <1>2, <2>5, <2>7 DEF TypeOK, CobrarVender, Existe, historia
<1>3. CASE CobrarCerrar(p)
  <2> DEFINE c == tx[p].comanda
  <2> DEFINE e == IF tx[p].todos THEN "CERRADA" ELSE "POR_PAGAR"
  <2>1. /\ c \in Comandas /\ tx[p].mesa \in SUBSET Mesas /\ Existe(c)
        /\ tx[p].venta \in Ventas
    BY <1>0, <1>3, TxForma DEF CobrarCerrar, TypeOK
  <2>2. comandas[c] \in Comanda
    BY <2>1 DEF TypeOK, Existe
  <2>3. [[comandas[c] EXCEPT !.venta = {tx[p].venta}] EXCEPT !.estado = e] \in Comanda
    BY <2>1, <2>2 DEF Comanda, EstadosComanda
  <2>4. comandas' = [comandas EXCEPT ![c] =
                       [[comandas[c] EXCEPT !.venta = {tx[p].venta}] EXCEPT !.estado = e]]
    BY <1>3, <2>1 DEF CobrarCerrar, TypeOK
  <2>5. comandas' \in [Comandas -> Comanda \cup {NoComanda}]
        /\ \A d \in Comandas : Existe(d) => Existe(d)'
    BY <2>3, <2>4, FilasForma DEF TypeOK, Existe
  <2>6. PICK t \in Tx : tx' = [tx EXCEPT ![p] = t] /\ (t.op = "libre" \/ t.comanda = c)
    <3>1. /\ [op |-> "liberar", comanda |-> c, mesa |-> tx[p].mesa] \in Tx
          /\ Libre \in Tx /\ Libre.op = "libre"
      BY <2>1 DEF Tx, Libre
    <3>2. \/ tx' = [tx EXCEPT ![p] = [op |-> "liberar", comanda |-> c, mesa |-> tx[p].mesa]]
          \/ tx' = [tx EXCEPT ![p] = Libre]
      BY <1>3 DEF CobrarCerrar, Empezar
    <3>3. QED
      BY <3>1, <3>2
  <2> HIDE DEF c, e
  <2>7. tx' \in [Procesos -> Tx]
        /\ \A q \in Procesos : tx'[q].op \notin {"libre", "abrir"} => Existe(tx[q].comanda)'
    BY <2>1, <2>5, <2>6, TxCambia DEF Existe
  <2>8. \A i \in Items : items[i] \in Item => items[i].comanda \in Comandas
    BY DEF Item
  <2>9. QED
    BY <1>3, <2>5, <2>7, <2>8 DEF TypeOK, CobrarCerrar, Existe, historia
<1>4. CASE CobrarLiberar(p) \/ Abortar(p)
  <2>1. \A d \in Comandas : Existe(d) => Existe(d)'
    BY <1>4 DEF CobrarLiberar, Abortar, Existe
  <2>2. Terminar(p)
    BY <1>4 DEF CobrarLiberar, Abortar
  <2>3. tx' \in [Procesos -> Tx]
        /\ \A q \in Procesos : tx'[q].op \notin {"libre", "abrir"} => Existe(tx[q].comanda)'
    BY <2>1, <2>2, TxLibera
  <2>4. mesas' \in [Mesas -> EstadosMesa \cup {"AUSENTE"}]
    BY <1>4 DEF CobrarLiberar, Abortar, TypeOK, EstadosMesa
  <2>5. tocadas' \subseteq Mesas /\ expuestas' \subseteq Comandas
    BY <1>0, <1>4, TxForma DEF CobrarLiberar, Abortar, TypeOK, historia, DeComanda
  <2>6. QED
    BY <1>4, <2>3, <2>4, <2>5 DEF TypeOK, CobrarLiberar, Abortar, Existe, historia
<1>5. QED
  BY <1>1, <1>2, <1>3, <1>4 DEF Cobro

-----------------------------------------------------------------------------
(* Steps that neither charge nor close an order *)

\* No orders at the start; in the abstract, no order either.
LEMMA Inicial == Init => Inv /\ CobroUnico!Init
<1> SUFFICES ASSUME Init
             PROVE  Inv /\ CobroUnico!Init
  OBVIOUS
<1>1. TypeOK
  BY FilasForma DEF Init, TypeOK, Tx, Libre, EstadosMesa
<1>2. Solo /\ VueloOK
  BY DEF Init, Solo, VueloOK, Libre, DeComanda
<1>3. OrdenOK
  BY DEF Init, OrdenOK, Existe, NoVenta, NoComanda
<1>4. \A c \in Comandas : VentasDe(c) = {} /\ comandas[c].estado = "AUSENTE"
  BY FilasForma DEF Init, VentasDe, NoVenta, NoComanda
<1>5. CobroUnico!Init
  BY <1>4 DEF CobroUnico!Init, faseDe, Init
<1>6. QED
  BY <1>1, <1>2, <1>3, <1>5 DEF Inv

\* Orders only open, or change what no phase depends on; requests on an order only end,
\* and none after its sale.
LEMMA Neutro ==
  ASSUME Inv, TypeOK', UNCHANGED <<ventas, expuestas>>,
         \A c \in Comandas :
           \/ comandas'[c] = comandas[c]
           \/ ~Existe(c) /\ comandas'[c].estado = "ABIERTA"
           \/ /\ Existe(c) /\ comandas'[c] # NoComanda
              /\ comandas'[c].estado = comandas[c].estado /\ comandas'[c].venta = comandas[c].venta,
         \A q \in Procesos :
           tx'[q] = tx[q] \/ (tx'[q].op \notin DeComanda /\ tx[q].op # "cobrada")
  PROVE  Inv' /\ Refina
<1>1. \A c \in Comandas : VentasDe(c)' = VentasDe(c)
  BY DEF VentasDe
<1>2. \A c \in Comandas : Existe(c) => Existe(c)' /\ comandas'[c].estado = comandas[c].estado
                                       /\ comandas'[c].venta = comandas[c].venta
  BY DEF Existe
<1>3. \A c \in Comandas : ~Existe(c) => VentasDe(c) = {}
  BY FilasForma DEF VentasDe, Inv, OrdenOK
<1>4. \A q \in Procesos : tx'[q].op \in DeComanda =>
        /\ tx'[q] = tx[q] /\ tx[q].comanda \in Comandas /\ Existe(tx[q].comanda)
  BY TxForma DEF Inv, TypeOK, DeComanda
<1>5. Solo'
  BY <1>4 DEF Inv, Solo
<1>6. OrdenOK'
  <2>1. ASSUME NEW v \in Ventas, ventas[v] # NoVenta
        PROVE  Existe(ventas[v].comanda)'
    <3>1. ventas[v].comanda \in Comandas /\ Existe(ventas[v].comanda)
      BY <2>1, FilasForma DEF Inv, OrdenOK, TypeOK
    <3>2. ventas' = ventas
      OBVIOUS
    <3>3. QED
      BY <1>2, <3>1, <3>2 DEF Existe
  <2>2. ASSUME NEW c \in Comandas \ expuestas
        PROVE  SinCobrar(c)'
    <3>1. CASE ~Existe(c)
      BY <1>1, <1>3, <3>1 DEF SinCobrar
    <3>2. CASE Existe(c)
      <4>1. SinCobrar(c)
        BY <2>2, <3>2 DEF Inv, OrdenOK
      <4>2. \A p \in Procesos : tx[p].op = "cobrada" => tx'[p] = tx[p]
        OBVIOUS
      <4>3. QED
        BY <1>1, <1>2, <3>2, <4>1, <4>2 DEF SinCobrar
    <3>3. QED
      BY <3>1, <3>2
  <2>3. QED
    BY <2>1, <2>2 DEF OrdenOK
<1>7. VueloOK'
  <2>1. SUFFICES ASSUME NEW p \in Procesos, tx'[p].op \in DeComanda, tx'[p].comanda \notin expuestas
                 PROVE  Vigente(tx[p])'
    BY DEF VueloOK
  <2>2. tx'[p] = tx[p] /\ tx[p].comanda \in Comandas /\ Existe(tx[p].comanda) /\ Vigente(tx[p])
    BY <1>4, <2>1 DEF Inv, VueloOK
  <2>3. QED
    BY <1>1, <1>2, <2>2 DEF Vigente
<1>8. \A c \in Comandas : faseDe(c)' = faseDe(c)
  <2>1. \A c \in Comandas : comandas'[c].estado = "CANCELADA" <=> comandas[c].estado = "CANCELADA"
    BY DEF Existe, NoComanda
  <2>2. QED
    BY <1>1, <2>1 DEF faseDe
<1>9. Refina
  BY <1>8 DEF Refina, fases
<1>10. QED
  BY <1>5, <1>6, <1>7, <1>9 DEF Inv

\* Tables and the kitchen are not seen by the abstract charge, which an order without table
\* enters open.
LEMMA PasoSalon ==
  ASSUME Inv, Salon \/ UNCHANGED vars
  PROVE  Inv' /\ Refina
<1>1. TypeOK'
  BY TiposSalon DEF Inv
<1>2. UNCHANGED <<ventas, expuestas, tx>>
  BY DEF Salon, CrearMesa, ArchivarMesa, ActualizarMesa, AbrirSinMesa, ActualizarCocina, vars, historia
<1>3. \A c \in Comandas : \/ comandas'[c] = comandas[c]
                          \/ ~Existe(c) /\ comandas'[c].estado = "ABIERTA"
  BY DEF Salon, CrearMesa, ArchivarMesa, ActualizarMesa, AbrirSinMesa, ActualizarCocina, vars,
         Nueva, Inv, TypeOK
<1>4. QED
  BY <1>1, <1>2, <1>3, Neutro

\* Opening, and the requests on an item.
LEMMA PasoDeItem ==
  ASSUME Inv, NEW p \in Procesos,
         \/ \E m \in Mesas : AbrirLeer(p, m)
         \/ \E c \in Comandas : AbrirAplicar(p, c)
         \/ \E c \in Comandas, i \in Items : AgregarLeer(p, c, i)
         \/ \E i \in Items : QuitarLeer(p, i)
         \/ AgregarAplicar(p) \/ QuitarAplicar(p)
  PROVE  Inv' /\ Refina
<1>0. TypeOK'
  BY TiposPedido DEF Inv, Pedido
<1>1. CASE \/ \E m \in Mesas : AbrirLeer(p, m)
           \/ \E c \in Comandas, i \in Items : AgregarLeer(p, c, i)
           \/ \E i \in Items : QuitarLeer(p, i)
  <2>1. UNCHANGED <<ventas, expuestas, comandas>>
    BY <1>1 DEF AbrirLeer, AgregarLeer, QuitarLeer, EmpezarItem
  <2>2. \A q \in Procesos : tx'[q] = tx[q] \/ (tx'[q].op \notin DeComanda /\ tx[q].op # "cobrada")
    <3>1. tx[p] = Libre /\ Libre.op # "cobrada"
      BY <1>1 DEF AbrirLeer, AgregarLeer, QuitarLeer, Libre
    <3>2. CASE \E m \in Mesas : AbrirLeer(p, m)
      BY <3>1, <3>2 DEF AbrirLeer, Empezar, DeComanda, Inv, TypeOK
    <3>3. CASE \E c \in Comandas, i \in Items : AgregarLeer(p, c, i)
      BY <3>1, <3>3 DEF AgregarLeer, Empezar, DeComanda, Inv, TypeOK
    <3>4. CASE \E i \in Items : QuitarLeer(p, i)
      BY <3>1, <3>4 DEF QuitarLeer, Empezar, DeComanda, Inv, TypeOK
    <3>5. QED
      BY <1>1, <3>2, <3>3, <3>4
  <2>3. QED
    BY <1>0, <2>1, <2>2, Neutro
<1>2. ASSUME NEW c \in Comandas, AbrirAplicar(p, c)
      PROVE  Inv' /\ Refina
  <2>1. UNCHANGED <<ventas, expuestas>>
    BY <1>2 DEF AbrirAplicar, historia
  <2>2. \A q \in Procesos : tx'[q] = tx[q] \/ (tx'[q].op \notin DeComanda /\ tx[q].op # "cobrada")
    BY <1>2 DEF AbrirAplicar, Terminar, DeComanda, Libre, Inv, TypeOK
  <2>3. \A d \in Comandas : \/ comandas'[d] = comandas[d]
                            \/ ~Existe(d) /\ comandas'[d].estado = "ABIERTA"
    BY <1>2 DEF AbrirAplicar, Nueva, Inv, TypeOK
  <2>4. QED
    BY <1>0, <2>1, <2>2, <2>3, Neutro
<1>3. CASE AgregarAplicar(p) \/ QuitarAplicar(p)
  <2> DEFINE c == tx[p].comanda
  <2>1. UNCHANGED <<ventas, expuestas>>
    BY <1>3 DEF AgregarAplicar, QuitarAplicar, historia
  <2>2. \A q \in Procesos : tx'[q] = tx[q] \/ (tx'[q].op \notin DeComanda /\ tx[q].op # "cobrada")
    BY <1>3 DEF AgregarAplicar, QuitarAplicar, Terminar, DeComanda, Libre, Inv, TypeOK
  <2>3. c \in Comandas /\ Existe(c)
    BY <1>3, TxForma DEF AgregarAplicar, QuitarAplicar, Inv, TypeOK
  <2>4. comandas[c] \in Comanda
    BY <2>3 DEF Inv, TypeOK, Existe
  <2>5. comandas' = [comandas EXCEPT ![c].total = tx[p].total]
    BY <1>3 DEF AgregarAplicar, QuitarAplicar
  <2>6. /\ comandas'[c].estado = comandas[c].estado /\ comandas'[c].venta = comandas[c].venta
        /\ comandas'[c] \in Comanda \cup {NoComanda}
        /\ \A d \in Comandas \ {c} : comandas'[d] = comandas[d]
    BY <1>0, <2>3, <2>4, <2>5 DEF Comanda, Inv, TypeOK
  <2>7. comandas'[c] # NoComanda
    BY <2>4, <2>6, FilasForma DEF NoComanda, EstadosComanda
  <2>8. QED
    BY <1>0, <2>1, <2>2, <2>3, <2>6, <2>7, Neutro
<1>4. QED
  BY <1>1, <1>2, <1>3

-----------------------------------------------------------------------------
(* Requests on an order begin *)

\* A request that begins on an order it found open exposes it if another is under way; in
\* the abstract nothing happens.
LEMMA Empieza ==
  ASSUME Inv, TypeOK', NEW p \in Procesos, NEW c \in Comandas, NEW t,
         tx[p] = Libre, tx' = [tx EXCEPT ![p] = t], EmpezarComanda(p, c),
         t.op \in DeComanda, t.op # "cobrada", t.comanda = c,
         UNCHANGED <<comandas, ventas>>,
         Existe(c), t.op = "enviar" \/ comandas[c].venta = {},
         t.op \in {"enviar", "cobrar"} => comandas[c].estado # "CANCELADA"
  PROVE  Inv' /\ Refina
<1>1. tx'[p] = t /\ \A q \in Procesos \ {p} : tx'[q] = tx[q]
  BY DEF Inv, TypeOK
<1>2. tx[p].op = "libre" /\ "libre" \notin DeComanda
  BY DEF Libre, DeComanda
<1>3. expuestas \subseteq expuestas' /\ expuestas' \subseteq expuestas \cup {c}
  BY DEF EmpezarComanda
<1>4. c \notin expuestas' =>
        \A q \in Procesos \ {p} : tx[q].op \in DeComanda => tx[q].comanda # c
  <2>1. SUFFICES ASSUME c \notin expuestas', NEW q \in Procesos \ {p}, tx[q].op \in DeComanda,
                        tx[q].comanda = c
                 PROVE  FALSE
    OBVIOUS
  <2>2. tx[q].op \in Sobre(p, c)
    BY <2>1 DEF Sobre, DeComanda
  <2>3. Sobre(p, c) \subseteq DeItem
    BY <2>1 DEF EmpezarComanda
  <2>4. QED
    BY <2>1, <2>2, <2>3 DEF DeItem, DeComanda
<1>5. \A d \in Comandas : VentasDe(d)' = VentasDe(d)
  BY DEF VentasDe
<1>6. c \notin expuestas' => t.op = "enviar" \/ VentasDe(c) = {}
  <2>1. SUFFICES ASSUME c \notin expuestas', comandas[c].venta = {}
                 PROVE  VentasDe(c) = {}
    OBVIOUS
  <2>2. SinCobrar(c)
    BY <1>3, <2>1 DEF Inv, OrdenOK
  <2>3. \A q \in Procesos : tx[q].op = "cobrada" => tx[q].comanda # c
    BY <1>2, <1>4, <2>1 DEF DeComanda
  <2>4. QED
    BY <2>1, <2>2, <2>3 DEF SinCobrar
<1>7. Solo'
  <2>1. SUFFICES ASSUME NEW q \in Procesos, NEW r \in Procesos, q # r,
                        tx'[q].op \in DeComanda, tx'[r].op \in DeComanda,
                        tx'[q].comanda = tx'[r].comanda
                 PROVE  tx'[q].comanda \in expuestas'
    BY DEF Solo
  <2>2. CASE p \in {q, r}
    BY <1>1, <1>4, <2>1, <2>2
  <2>3. CASE p \notin {q, r}
    BY <1>1, <1>3, <2>1, <2>3 DEF Inv, Solo
  <2>4. QED
    BY <2>2, <2>3
<1>8. OrdenOK'
  <2>1. \A v \in Ventas : ventas'[v] # NoVenta => Existe(ventas[v].comanda)'
    BY DEF Inv, OrdenOK, Existe
  <2>2. ASSUME NEW d \in Comandas \ expuestas', Existe(d)
        PROVE  SinCobrar(d)'
    <3>1. SinCobrar(d)
      BY <1>3, <2>2 DEF Inv, OrdenOK
    <3>2. \A q \in Procesos : tx[q].op = "cobrada" => tx'[q] = tx[q]
      BY <1>1, <1>2 DEF DeComanda
    <3>3. QED
      BY <1>5, <3>1, <3>2 DEF SinCobrar
  <2>3. QED
    BY <2>1, <2>2 DEF OrdenOK, Existe
<1>9. VueloOK'
  <2>1. SUFFICES ASSUME NEW q \in Procesos, tx'[q].op \in DeComanda, tx'[q].comanda \notin expuestas'
                 PROVE  Vigente(tx[q])'
    BY DEF VueloOK
  <2>2. CASE q = p
    BY <1>1, <1>5, <1>6, <2>1, <2>2 DEF Vigente
  <2>3. CASE q # p
    <3>1. tx'[q] = tx[q] /\ tx[q].comanda \in Comandas /\ Vigente(tx[q])
      BY <1>1, <1>3, <2>1, <2>3, TxForma DEF Inv, VueloOK, TypeOK, DeComanda
    <3>2. QED
      BY <1>5, <3>1 DEF Vigente
  <2>4. QED
    BY <2>2, <2>3
<1>10. Refina
  <2>1. \A d \in Comandas \ {c} : faseDe(d)' = faseDe(d)
    BY <1>3, <1>5 DEF faseDe
  <2>2. faseDe(c)' = faseDe(c) \/ (faseDe(c) # "expuesta" /\ faseDe(c)' = "expuesta")
    BY <1>3, <1>5 DEF faseDe
  <2>3. QED
    BY <2>1, <2>2, UnPaso
<1>11. QED
  BY <1>7, <1>8, <1>9, <1>10 DEF Inv

\* Sending to the kitchen, cancelling and charging begin like that.
LEMMA PasoEmpieza ==
  ASSUME Inv, NEW p \in Procesos, NEW c \in Comandas,
         EnviarLeer(p, c) \/ CancelarLeer(p, c) \/ \E S \in SUBSET Items : CobrarLeer(p, c, S)
  PROVE  Inv' /\ Refina
<1>1. TypeOK'
  BY TiposPedido, TiposCobro DEF Inv, Pedido, Cobro
<1>2. CASE EnviarLeer(p, c)
  <2> DEFINE t == [op |-> "enviar", comanda |-> c]
  <2>1. t.op = "enviar" /\ t.comanda = c /\ tx' = [tx EXCEPT ![p] = t] /\ "enviar" \in DeComanda
    BY <1>2 DEF EnviarLeer, Empezar, DeComanda
  <2> HIDE DEF t
  <2>2. QED
    BY <1>1, <1>2, <2>1, Empieza DEF EnviarLeer, EnCurso
<1>3. CASE CancelarLeer(p, c)
  <2> DEFINE t == [op |-> "cancelar", comanda |-> c, mesa |-> comandas[c].mesa]
  <2>1. t.op = "cancelar" /\ t.comanda = c /\ tx' = [tx EXCEPT ![p] = t] /\ "cancelar" \in DeComanda
    BY <1>3 DEF CancelarLeer, Empezar, DeComanda
  <2> HIDE DEF t
  <2>2. QED
    BY <1>1, <1>3, <2>1, Empieza DEF CancelarLeer
<1>4. ASSUME NEW S \in SUBSET Items, CobrarLeer(p, c, S)
      PROVE  Inv' /\ Refina
  <2> DEFINE t == [op |-> "cobrar", comanda |-> c, mesa |-> comandas[c].mesa, items |-> S,
                   todos |-> S = ItemsDe(c)]
  <2>1. t.op = "cobrar" /\ t.comanda = c /\ tx' = [tx EXCEPT ![p] = t] /\ "cobrar" \in DeComanda
    BY <1>4 DEF CobrarLeer, Empezar, DeComanda
  <2> HIDE DEF t
  <2>2. QED
    BY <1>1, <1>4, <2>1, Empieza DEF CobrarLeer, EnCurso
<1>5. QED
  BY <1>2, <1>3, <1>4

-----------------------------------------------------------------------------
(* Requests on an order go on and end *)

\* The invariant about the others, when p writes the order it has in hand.
LEMMA Escribe ==
  ASSUME Inv, TypeOK', NEW p \in Procesos, tx[p].op \in DeComanda, NEW c \in Comandas,
         tx[p].comanda = c,
         expuestas \subseteq expuestas',
         \A q \in Procesos \ {p} : tx'[q] = tx[q],
         tx'[p].op \in DeComanda => tx'[p].comanda = c,
         \A d \in Comandas \ {c} : comandas'[d] = comandas[d] /\ VentasDe(d)' = VentasDe(d),
         Existe(c)',
         \A v \in Ventas : ventas'[v] = ventas[v] \/ ventas'[v].comanda = c,
         c \notin expuestas' => SinCobrar(c)' /\ (tx'[p].op \in DeComanda => Vigente(tx[p])')
  PROVE  Inv'
<1>1. \A q \in Procesos \ {p} : tx[q].op \in DeComanda /\ tx[q].comanda = c => c \in expuestas
  BY DEF Inv, Solo
<1>2. Solo'
  <2>1. SUFFICES ASSUME NEW q \in Procesos, NEW r \in Procesos, q # r,
                        tx'[q].op \in DeComanda, tx'[r].op \in DeComanda,
                        tx'[q].comanda = tx'[r].comanda
                 PROVE  tx'[q].comanda \in expuestas'
    BY DEF Solo
  <2>2. CASE p \in {q, r}
    BY <1>1, <2>1, <2>2
  <2>3. CASE p \notin {q, r}
    BY <2>1, <2>3 DEF Inv, Solo
  <2>4. QED
    BY <2>2, <2>3
<1>3. OrdenOK'
  <2>1. ASSUME NEW v \in Ventas, ventas'[v] # NoVenta
        PROVE  Existe(ventas[v].comanda)'
    <3>1. CASE ventas'[v].comanda = c
      BY <3>1 DEF Existe
    <3>2. CASE ventas'[v].comanda # c
      <4>1. ventas'[v] = ventas[v] /\ ventas[v].comanda \in Comandas \ {c}
            /\ Existe(ventas[v].comanda)
        BY <2>1, <3>2, FilasForma DEF Inv, OrdenOK, TypeOK
      <4>2. comandas'[ventas[v].comanda] = comandas[ventas[v].comanda]
        BY <4>1
      <4>3. QED
        BY <4>1, <4>2 DEF Existe
    <3>3. QED
      BY <3>1, <3>2
  <2>2. ASSUME NEW d \in Comandas \ expuestas', d # c, Existe(d)'
        PROVE  SinCobrar(d)'
    <3>1. SinCobrar(d)
      BY <2>2 DEF Inv, OrdenOK, Existe
    <3>2. \A q \in Procesos : tx[q].op = "cobrada" /\ tx[q].comanda = d => tx'[q] = tx[q]
      BY <2>2
    <3>3. QED
      BY <2>2, <3>1, <3>2 DEF SinCobrar
  <2>3. QED
    BY <2>1, <2>2 DEF OrdenOK
<1>4. VueloOK'
  <2>1. SUFFICES ASSUME NEW q \in Procesos, tx'[q].op \in DeComanda, tx'[q].comanda \notin expuestas'
                 PROVE  Vigente(tx[q])'
    BY DEF VueloOK
  <2>2. CASE q = p
    BY <2>1, <2>2
  <2>3. CASE q # p
    <3>1. tx'[q] = tx[q] /\ tx[q].comanda \in Comandas /\ Vigente(tx[q])
      BY <2>1, <2>3, TxForma DEF Inv, VueloOK, TypeOK, DeComanda
    <3>2. tx[q].comanda # c
      BY <1>1, <2>1, <2>3, <3>1
    <3>3. QED
      BY <3>1, <3>2 DEF Vigente
  <2>4. QED
    BY <2>2, <2>3
<1>5. QED
  BY <1>2, <1>3, <1>4 DEF Inv

\* The commit of a cancellation is the abstract one, that of sending to the kitchen a
\* stutter.
LEMMA PasoEstado ==
  ASSUME Inv, NEW p \in Procesos, EnviarAplicar(p) \/ CancelarAplicar(p)
  PROVE  Inv' /\ Refina
<1>0. PICK c \in Comandas : c = tx[p].comanda /\ Existe(c)
  BY TxForma DEF EnviarAplicar, CancelarAplicar, Inv, TypeOK
<1> USE <1>0
<1>1. TypeOK'
  BY TiposPedido DEF Inv, Pedido
<1>2. tx[p].op \in {"enviar", "cancelar"} /\ tx[p].op \in DeComanda /\ c \in Comandas /\ Existe(c)
  BY TxForma DEF EnviarAplicar, CancelarAplicar, Inv, TypeOK, DeComanda
<1>3. PICK e \in {"EN_COCINA", "CANCELADA"} :
        /\ comandas' = [comandas EXCEPT ![c].estado = e]
        /\ tx[p].op = "enviar" <=> e = "EN_COCINA"
  BY DEF EnviarAplicar, CancelarAplicar
<1>4. comandas[c] \in Comanda
  BY <1>2 DEF Inv, TypeOK, Existe
<1>5. /\ comandas'[c].estado = e /\ comandas'[c].venta = comandas[c].venta
      /\ comandas'[c].estado # "AUSENTE"
      /\ \A d \in Comandas \ {c} : comandas'[d] = comandas[d]
  BY <1>2, <1>3, <1>4 DEF Comanda, Inv, TypeOK
<1>6. Existe(c)'
  BY <1>5 DEF Existe, NoComanda
<1>7. UNCHANGED <<ventas, expuestas>> /\ tx' = [tx EXCEPT ![p] = Libre]
  BY DEF EnviarAplicar, CancelarAplicar, Terminar, historia
<1>8. \A d \in Comandas : VentasDe(d)' = VentasDe(d)
  BY <1>7 DEF VentasDe
<1>9. tx'[p].op \notin DeComanda /\ \A q \in Procesos \ {p} : tx'[q] = tx[q]
  BY <1>7 DEF Libre, DeComanda, Inv, TypeOK
<1>10. c \notin expuestas => Vigente(tx[p])
  BY <1>2 DEF Inv, VueloOK
<1>11. c \notin expuestas' => SinCobrar(c)'
  <2>1. SUFFICES ASSUME c \notin expuestas
                 PROVE  SinCobrar(c)'
    BY <1>7
  <2>2. SinCobrar(c)
    BY <1>2, <2>1 DEF Inv, OrdenOK
  <2>3. \A q \in Procesos : tx[q].op = "cobrada" => tx'[q] = tx[q]
    BY <1>2, <1>9
  <2>4. QED
    BY <1>2, <1>5, <1>8, <2>2, <2>3 DEF SinCobrar
<1>12. Inv'
  BY <1>1, <1>2, <1>5, <1>6, <1>7, <1>8, <1>9, <1>11, Escribe
<1>13. Refina
  <2>1. \A d \in Comandas \ {c} : faseDe(d)' = faseDe(d)
    BY <1>5, <1>7, <1>8 DEF faseDe
  <2>2. faseDe(c)' = faseDe(c) \/ (faseDe(c) = "abierta" /\ faseDe(c)' = "cancelada")
    <3>1. CASE c \in expuestas
      BY <1>7, <3>1 DEF faseDe
    <3>2. CASE c \notin expuestas /\ tx[p].op = "enviar"
      <4>1. comandas[c].estado # "CANCELADA" /\ comandas'[c].estado # "CANCELADA"
        BY <1>3, <1>5, <1>10, <3>2 DEF Vigente
      <4>2. QED
        BY <1>2, <1>7, <1>8, <4>1 DEF faseDe
    <3>3. CASE c \notin expuestas /\ tx[p].op = "cancelar"
      <4>1. VentasDe(c) = {} /\ comandas'[c].estado = "CANCELADA"
        BY <1>3, <1>5, <1>10, <3>3 DEF Vigente
      <4>2. QED
        BY <1>2, <1>7, <1>8, <3>3, <4>1 DEF faseDe
    <3>4. QED
      BY <1>2, <3>1, <3>2, <3>3
  <2>3. QED
    BY <1>2, <2>1, <2>2, UnPaso
<1>14. QED
  BY <1>12, <1>13

\* The sale of a charge is the abstract charge: the order had none, unless it is exposed.
LEMMA PasoVender ==
  ASSUME Inv, NEW p \in Procesos, NEW v \in Ventas, CobrarVender(p, v)
  PROVE  Inv' /\ Refina
<1>0. PICK c \in Comandas : c = tx[p].comanda /\ Existe(c)
  BY TxForma DEF CobrarVender, Inv, TypeOK
<1> USE <1>0
<1> DEFINE t == [op |-> "cobrada", comanda |-> c, mesa |-> tx[p].mesa,
                 venta |-> v, todos |-> tx[p].todos]
<1>1. TypeOK'
  BY TiposCobro DEF Inv, Cobro
<1>2. tx[p].op = "cobrar" /\ tx[p].op \in DeComanda /\ c \in Comandas /\ Existe(c)
  BY TxForma DEF CobrarVender, Inv, TypeOK, DeComanda
<1>3. /\ tx'[p] = t /\ t.op = "cobrada" /\ t.comanda = c /\ t.venta = v
      /\ \A q \in Procesos \ {p} : tx'[q] = tx[q]
  BY DEF CobrarVender, Empezar, Inv, TypeOK
<1> HIDE DEF t
<1>4. /\ ventas[v] = NoVenta /\ ventas'[v].comanda = c
      /\ \A w \in Ventas \ {v} : ventas'[w] = ventas[w]
  BY DEF CobrarVender, Inv, TypeOK
<1>5. UNCHANGED <<comandas, expuestas>>
  BY DEF CobrarVender, historia
<1>6. \A d \in Comandas : v \notin VentasDe(d)
  BY <1>4, FilasForma DEF VentasDe
<1>7. \A d \in Comandas \ {c} : VentasDe(d)' = VentasDe(d)
  BY <1>4, <1>6 DEF VentasDe
<1>8. VentasDe(c)' = VentasDe(c) \cup {v}
  BY <1>2, <1>4 DEF VentasDe
<1>9. c \notin expuestas => VentasDe(c) = {} /\ comandas[c].estado # "CANCELADA"
  BY <1>2 DEF Inv, VueloOK, Vigente
<1>10. Inv'
  <2>1. SinCobrar(c)'
    BY <1>3 DEF SinCobrar
  <2>2. c \notin expuestas => Vigente(tx[p])'
    BY <1>3, <1>8, <1>9 DEF Vigente
  <2>3. Existe(c)'
    BY <1>2, <1>5 DEF Existe
  <2>4. QED
    BY <1>1, <1>2, <1>3, <1>4, <1>5, <1>7, <2>1, <2>2, <2>3, Escribe
<1>11. Refina
  <2>1. \A d \in Comandas \ {c} : faseDe(d)' = faseDe(d)
    BY <1>5, <1>7 DEF faseDe
  <2>2. faseDe(c)' = faseDe(c) \/ (faseDe(c) = "abierta" /\ faseDe(c)' = "cobrada")
    BY <1>2, <1>5, <1>8, <1>9 DEF faseDe
  <2>3. QED
    BY <1>2, <2>1, <2>2, UnPaso
<1>12. QED
  BY <1>10, <1>11

\* Closing the order shows the sale it has already.
LEMMA PasoCerrar ==
  ASSUME Inv, NEW p \in Procesos, CobrarCerrar(p)
  PROVE  Inv' /\ Refina
<1>0. PICK c \in Comandas : c = tx[p].comanda /\ Existe(c)
  BY TxForma DEF CobrarCerrar, Inv, TypeOK
<1> USE <1>0
<1> DEFINE e == IF tx[p].todos THEN "CERRADA" ELSE "POR_PAGAR"
<1>1. TypeOK'
  BY TiposCobro DEF Inv, Cobro
<1>2. /\ tx[p].op = "cobrada" /\ tx[p].op \in DeComanda /\ c \in Comandas /\ Existe(c)
      /\ tx[p].venta \in Ventas
  BY TxForma DEF CobrarCerrar, Inv, TypeOK, DeComanda
<1>3. comandas[c] \in Comanda
  BY <1>2 DEF Inv, TypeOK, Existe
<1>4. /\ comandas'[c].venta = {tx[p].venta} /\ comandas'[c].estado = e
      /\ \A d \in Comandas \ {c} : comandas'[d] = comandas[d]
  BY <1>2, <1>3 DEF CobrarCerrar, Comanda, Inv, TypeOK
<1>5. e # "AUSENTE" /\ e # "CANCELADA"
  OBVIOUS
<1>6. Existe(c)'
  BY <1>4, <1>5 DEF Existe, NoComanda
<1>7. UNCHANGED <<ventas, expuestas>>
  BY DEF CobrarCerrar, historia
<1>8. \A d \in Comandas : VentasDe(d)' = VentasDe(d)
  BY <1>7 DEF VentasDe
<1>9. /\ tx'[p].op = "libre" \/ (tx'[p].op = "liberar" /\ tx'[p].comanda = c)
      /\ \A q \in Procesos \ {p} : tx'[q] = tx[q]
  BY DEF CobrarCerrar, Empezar, Inv, TypeOK, Libre
<1>10. c \notin expuestas => VentasDe(c) = {tx[p].venta}
  BY <1>2 DEF Inv, VueloOK, Vigente
<1> HIDE DEF e
<1>11. Inv'
  <2>1. SinCobrar(c)'
    BY <1>4 DEF SinCobrar
  <2>2. Vigente(tx[p])'
    BY <1>9 DEF Vigente
  <2>3. "libre" \notin DeComanda
    BY DEF DeComanda
  <2>4. QED
    BY <1>1, <1>2, <1>4, <1>6, <1>7, <1>8, <1>9, <2>1, <2>2, <2>3, Escribe
<1>12. Refina
  <2>1. \A d \in Comandas \ {c} : faseDe(d)' = faseDe(d)
    BY <1>4, <1>7, <1>8 DEF faseDe
  <2>2. faseDe(c)' = faseDe(c)
    BY <1>2, <1>7, <1>8, <1>10 DEF faseDe
  <2>3. QED
    BY <1>2, <2>1, <2>2, UnPaso
<1>13. QED
  BY <1>11, <1>12

\* Freeing the table is a stutter, and so is a rollback before the sale.
LEMMA PasoFinal ==
  ASSUME Inv, NEW p \in Procesos, CobrarLiberar(p) \/ Abortar(p)
  PROVE  Inv' /\ Refina
<1>1. TypeOK'
  BY TiposCobro DEF Inv, Cobro
<1>2. UNCHANGED <<comandas, ventas>> /\ tx' = [tx EXCEPT ![p] = Libre]
  BY DEF CobrarLiberar, Abortar, Terminar
<1>3. tx'[p].op \notin DeComanda /\ \A q \in Procesos \ {p} : tx'[q] = tx[q]
  BY <1>2 DEF Libre, DeComanda, Inv, TypeOK
<1>4. CASE tx[p].op # "cobrada"
  <2>1. expuestas' = expuestas
    BY <1>4 DEF CobrarLiberar, Abortar, historia
  <2>2. QED
    BY <1>1, <1>2, <1>3, <1>4, <2>1, Neutro
<1>5. CASE tx[p].op = "cobrada"
  <2>0. PICK c \in Comandas : c = tx[p].comanda /\ Existe(c)
    BY <1>5, TxForma DEF Inv, TypeOK
  <2>1. expuestas' = expuestas \cup {c}
    BY <1>5, <2>0 DEF CobrarLiberar, Abortar
  <2>2. c \in Comandas /\ Existe(c) /\ tx[p].op \in DeComanda
    BY <1>5, <2>0 DEF DeComanda
  <2>3. \A d \in Comandas : VentasDe(d)' = VentasDe(d)
    BY <1>2 DEF VentasDe
  <2>4. Existe(c)'
    BY <1>2, <2>2 DEF Existe
  <2>5. \A d \in Comandas \ {c} : faseDe(d)' = faseDe(d)
    BY <1>2, <2>1, <2>3 DEF faseDe
  <2>6. faseDe(c)' = "expuesta"
    BY <2>1 DEF faseDe
  <2>7. Refina
    BY <2>2, <2>5, <2>6, UnPaso
  <2>8. Inv'
    BY <1>1, <1>2, <1>3, <2>0, <2>1, <2>2, <2>3, <2>4, Escribe
  <2>9. QED
    BY <2>7, <2>8
<1>6. QED
  BY <1>4, <1>5

-----------------------------------------------------------------------------
\* Every step keeps the invariant and refines the abstract charge.
LEMMA Paso == Inv /\ [Next]_vars => Inv' /\ Refina
<1> SUFFICES ASSUME Inv, [Next]_vars
             PROVE  Inv' /\ Refina
  OBVIOUS
<1>1. CASE Salon \/ UNCHANGED vars
  BY <1>1, PasoSalon
<1>2. ASSUME NEW p \in Procesos, Pedido(p)
      PROVE  Inv' /\ Refina
  BY <1>2, PasoDeItem, PasoEmpieza, PasoEstado DEF Pedido
<1>3. ASSUME NEW p \in Procesos, Cobro(p) \/ Abortar(p)
      PROVE  Inv' /\ Refina
  BY <1>3, PasoEmpieza, PasoVender, PasoCerrar, PasoFinal DEF Cobro
<1>4. QED
  BY <1>1, <1>2, <1>3 DEF Next

\* Every row and every request keeps its type, and a request's order and an item's order
\* exist, whatever requests overlap.
THEOREM TipoDeRestaurante == Spec => []TypeOK
<1>1. Inv => TypeOK
  BY DEF Inv
<1>2. QED
  BY Inicial, Paso, <1>1, PTL DEF Spec

\* The three transactions of cobrar, with everything else that moves an order, implement
\* one charge: an order gets one sale or is cancelled, unless it is exposed.
THEOREM CobroEnTresPasos == Spec => CobraUnaVez
<1>1. Refina => [CobroUnico!Next]_fases
  BY DEF Refina
<1>2. QED
  BY Inicial, Paso, <1>1, PTL DEF Spec, CobraUnaVez, CobroUnico!Spec, fases

-----------------------------------------------------------------------------
(* A closed order has its sale, with its items *)

\* A charge in flight of every item has them, unless one changed meanwhile.
Completa(t) ==
  /\ t.op = "cobrar" =>
       (t.todos /\ t.comanda \notin expuestas \cup revueltas => ItemsDe(t.comanda) \subseteq t.items)
  /\ t.op = "cobrada" =>
       /\ ventas[t.venta].comanda = t.comanda
       /\ (t.todos /\ t.comanda \notin expuestas \cup revueltas =>
             ItemsDe(t.comanda) \subseteq ventas[t.venta].items)

\* A closed order gets no more items.
Cerrada(c) ==
  comandas[c].estado = "CERRADA" =>
    /\ \E v \in comandas[c].venta :
         /\ ventas[v].comanda = c
         /\ c \notin expuestas \cup revueltas => ItemsDe(c) \subseteq ventas[v].items
    /\ c \notin expuestas \cup revueltas =>
         \A p \in Procesos : ~(tx[p].op = "agregar" /\ tx[p].comanda = c)

\* Items do not change under a request on their order, unless the order is among revueltas.
SinMezcla ==
  \A p, q \in Procesos :
    tx[p].op \in DeItem /\ tx[q].op \in DeComanda /\ tx[p].comanda = tx[q].comanda
      => tx[p].comanda \in revueltas

InvCobrado ==
  /\ SinMezcla
  /\ \A p \in Procesos : Completa(tx[p])
  /\ \A c \in Comandas : Cerrada(c)

-----------------------------------------------------------------------------
(* Steps and the items of the orders *)

\* No items and no requests at the start.
LEMMA InicialCobrado == Init => InvCobrado
<1> SUFFICES ASSUME Init
             PROVE  InvCobrado
  OBVIOUS
<1>1. \A p \in Procesos : tx[p].op = "libre"
  BY DEF Init, Libre
<1>2. \A c \in Comandas : comandas[c].estado = "AUSENTE"
  BY DEF Init, NoComanda
<1>3. SinMezcla
  BY <1>1 DEF SinMezcla, DeItem
<1>4. \A p \in Procesos : Completa(tx[p])
  BY <1>1 DEF Completa
<1>5. QED
  BY <1>2, <1>3, <1>4 DEF InvCobrado, Cerrada

\* No charge has c, done or in flight.
SinCargo(c) ==
  /\ comandas[c].estado # "CERRADA"
  /\ \A q \in Procesos : ~(tx[q].op \in {"cobrar", "cobrada"} /\ tx[q].comanda = c)

\* No request adds an item to c, unless it changed under another.
SinAgregar(t) ==
  t.op = "agregar" => comandas[t.comanda].estado # "CERRADA" \/ t.comanda \in revueltas

\* One request changes, or none.
LEMMA CobradoSigue ==
  ASSUME TypeOK, TypeOK', InvCobrado, SinMezcla',
         expuestas \subseteq expuestas', revueltas \subseteq revueltas',
         \A c \in Comandas : \/ c \in expuestas' \cup revueltas'
                             \/ ItemsDe(c)' \subseteq ItemsDe(c)
                             \/ SinCargo(c) /\ comandas'[c].estado # "CERRADA",
         \A v \in Ventas : ventas[v].comanda \in Comandas => ventas'[v] = ventas[v],
         \A c \in Comandas : comandas'[c].estado = "CERRADA" =>
           \/ comandas'[c] = comandas[c]
           \/ comandas[c].estado = "CERRADA" /\ comandas'[c].venta = comandas[c].venta
           \/ \E p \in Procesos : /\ tx[p].op = "cobrada" /\ tx[p].comanda = c /\ tx[p].todos
                                  /\ comandas'[c].venta = {tx[p].venta},
         \A q \in Procesos : tx'[q] = tx[q] \/ (Completa(tx[q])' /\ SinAgregar(tx[q])')
  PROVE  InvCobrado'
<1>1. \A c \in Comandas : c \notin expuestas' \cup revueltas' => c \notin expuestas \cup revueltas
  OBVIOUS
<1>2. ASSUME NEW q \in Procesos, tx'[q] = tx[q]
      PROVE  Completa(tx[q])'
  <2>1. Completa(tx[q]) /\ tx[q] \in Tx
    BY DEF InvCobrado, TypeOK
  <2>2. CASE tx[q].op = "cobrar"
    <3>1. tx[q].comanda \in Comandas
      BY <2>1, <2>2, TxForma
    <3>2. ~SinCargo(tx[q].comanda)
      BY <2>2 DEF SinCargo
    <3>3. QED
      BY <1>1, <1>2, <2>1, <2>2, <3>1, <3>2 DEF Completa
  <2>3. CASE tx[q].op = "cobrada"
    <3>1. tx[q].comanda \in Comandas /\ tx[q].venta \in Ventas
      BY <2>1, <2>3, TxForma
    <3>2. ~SinCargo(tx[q].comanda)
      BY <2>3 DEF SinCargo
    <3>3. ventas'[tx[q].venta] = ventas[tx[q].venta] /\ ventas[tx[q].venta].comanda = tx[q].comanda
      BY <2>1, <2>3, <3>1 DEF Completa
    <3>4. QED
      BY <1>1, <1>2, <2>1, <2>3, <3>1, <3>2, <3>3 DEF Completa
  <2>4. CASE tx[q].op \notin {"cobrar", "cobrada"}
    BY <1>2, <2>4 DEF Completa
  <2>5. QED
    BY <2>2, <2>3, <2>4
<1>3. ASSUME NEW c \in Comandas, comandas'[c].estado = "CERRADA"
      PROVE  Cerrada(c)'
  <2>1. SUFFICES
          /\ \E v \in comandas'[c].venta :
               /\ ventas'[v].comanda = c
               /\ c \notin expuestas' \cup revueltas' => ItemsDe(c)' \subseteq ventas'[v].items
          /\ c \notin expuestas' \cup revueltas' =>
               \A p \in Procesos : ~(tx'[p].op = "agregar" /\ tx'[p].comanda = c)
    BY DEF Cerrada
  <2>2. comandas'[c].venta \subseteq Ventas
    <3>1. comandas'[c] # NoComanda
      BY <1>3 DEF NoComanda
    <3>2. QED
      BY <3>1, FilasForma DEF TypeOK
  <2>3. c \notin expuestas' \cup revueltas' =>
          \A q \in Procesos : tx'[q] # tx[q] => ~(tx'[q].op = "agregar" /\ tx'[q].comanda = c)
    BY <1>3 DEF SinAgregar
  <2>4. c \notin expuestas' \cup revueltas' => ItemsDe(c)' \subseteq ItemsDe(c)
    BY <1>3
  <2>5. CASE comandas[c].estado = "CERRADA" /\ comandas'[c].venta = comandas[c].venta
    <3>1. Cerrada(c)
      BY DEF InvCobrado
    <3>2. PICK v \in comandas[c].venta :
            /\ ventas[v].comanda = c
            /\ c \notin expuestas \cup revueltas => ItemsDe(c) \subseteq ventas[v].items
      BY <2>5, <3>1 DEF Cerrada
    <3>3. ventas'[v] = ventas[v]
      BY <2>2, <2>5, <3>2
    <3>4. QED
      BY <1>1, <2>3, <2>4, <2>5, <3>1, <3>2, <3>3 DEF Cerrada
  <2>6. ASSUME NEW p \in Procesos, tx[p].op = "cobrada", tx[p].comanda = c, tx[p].todos,
               comandas'[c].venta = {tx[p].venta}
        PROVE  /\ \E v \in comandas'[c].venta :
                    /\ ventas'[v].comanda = c
                    /\ c \notin expuestas' \cup revueltas' => ItemsDe(c)' \subseteq ventas'[v].items
               /\ c \notin expuestas' \cup revueltas' =>
                    \A q \in Procesos : ~(tx'[q].op = "agregar" /\ tx'[q].comanda = c)
    <3>1. Completa(tx[p])
      BY DEF InvCobrado
    <3>2. /\ ventas[tx[p].venta].comanda = c
          /\ c \notin expuestas \cup revueltas => ItemsDe(c) \subseteq ventas[tx[p].venta].items
      BY <2>6, <3>1 DEF Completa
    <3>3. tx[p].venta \in Ventas
      BY <2>2, <2>6
    <3>4. ventas'[tx[p].venta] = ventas[tx[p].venta]
      BY <3>2, <3>3
    <3>5. c \notin revueltas =>
            \A q \in Procesos : ~(tx[q].op = "agregar" /\ tx[q].comanda = c)
      BY <2>6 DEF InvCobrado, SinMezcla, DeItem, DeComanda
    <3>6. QED
      BY <1>1, <2>3, <2>4, <2>6, <3>2, <3>4, <3>5
  <2>7. QED
    BY <1>3, <2>5, <2>6
<1>4. \A c \in Comandas : comandas'[c].estado # "CERRADA" => Cerrada(c)'
  BY DEF Cerrada
<1>5. QED
  BY <1>2, <1>3, <1>4 DEF InvCobrado

\* Items change under a request only if it was marked when it began.
LEMMA MezclaSigue ==
  ASSUME SinMezcla, NEW p \in Procesos, revueltas \subseteq revueltas',
         \A q \in Procesos \ {p} : tx'[q] = tx[q],
         \A q \in Procesos \ {p} :
           /\ tx[q].op \in DeItem \cup DeComanda /\ tx[q].comanda = tx'[p].comanda
           /\ \/ tx'[p].op \in DeItem /\ tx[q].op \in DeComanda
              \/ tx'[p].op \in DeComanda /\ tx[q].op \in DeItem
           => tx'[p].comanda \in revueltas'
  PROVE  SinMezcla'
<1>1. SUFFICES ASSUME NEW q \in Procesos, NEW r \in Procesos,
                      tx'[q].op \in DeItem, tx'[r].op \in DeComanda,
                      tx'[q].comanda = tx'[r].comanda
               PROVE  tx'[q].comanda \in revueltas'
  BY DEF SinMezcla
<1>2. q # r
  BY <1>1 DEF DeItem, DeComanda
<1>3. CASE p \in {q, r}
  BY <1>1, <1>2, <1>3
<1>4. CASE p \notin {q, r}
  BY <1>1, <1>4 DEF SinMezcla
<1>5. QED
  BY <1>3, <1>4

\* A request that begins on an order with another under way about its items mixes it, and
\* that is noted.
LEMMA MezclaEmpieza ==
  ASSUME TypeOK, SinMezcla, NEW p \in Procesos, NEW c \in Comandas, NEW t,
         tx' = [tx EXCEPT ![p] = t], t.comanda = c,
         \/ t.op \in DeItem /\ EmpezarItem(p, c)
         \/ t.op \in DeComanda /\ EmpezarComanda(p, c)
  PROVE  SinMezcla'
<1>1. tx'[p] = t /\ \A q \in Procesos \ {p} : tx'[q] = tx[q]
  BY DEF TypeOK
<1>2. revueltas \subseteq revueltas'
  BY DEF EmpezarItem, EmpezarComanda
<1>3. ASSUME NEW q \in Procesos \ {p}, tx[q].op \in DeItem \cup DeComanda, tx[q].comanda = c,
             \/ t.op \in DeItem /\ tx[q].op \in DeComanda
             \/ t.op \in DeComanda /\ tx[q].op \in DeItem
      PROVE  c \in revueltas'
  <2>1. tx[q].op \in Sobre(p, c)
    BY <1>3 DEF Sobre, DeItem, DeComanda
  <2>2. DeItem \cap DeComanda = {}
    BY DEF DeItem, DeComanda
  <2>3. QED
    BY <1>3, <2>1, <2>2 DEF EmpezarItem, EmpezarComanda
<1>4. QED
  BY <1>1, <1>2, <1>3, MezclaSigue

\* A request that ends, or goes on to its next transaction, mixes nothing.
LEMMA MezclaTermina ==
  ASSUME TypeOK, SinMezcla, NEW p \in Procesos, UNCHANGED revueltas,
         \A q \in Procesos \ {p} : tx'[q] = tx[q],
         \/ tx'[p].op \notin DeItem \cup DeComanda
         \/ tx'[p].op \in DeComanda /\ tx[p].op \in DeComanda /\ tx'[p].comanda = tx[p].comanda
  PROVE  SinMezcla'
<1>1. DeItem \cap DeComanda = {}
  BY DEF DeItem, DeComanda
<1>2. ASSUME NEW q \in Procesos \ {p}, tx[q].op \in DeItem, tx'[p].op \in DeComanda,
             tx[q].comanda = tx'[p].comanda
      PROVE  tx'[p].comanda \in revueltas
  BY <1>2 DEF SinMezcla
<1>3. QED
  BY <1>1, <1>2, MezclaSigue

\* The tables, the kitchen and the orders without a table.
LEMMA CobradoSalon ==
  ASSUME TypeOK, TypeOK', InvCobrado, Salon \/ UNCHANGED vars
  PROVE  InvCobrado'
<1>1. UNCHANGED <<ventas, tx, expuestas, revueltas>>
  BY DEF Salon, CrearMesa, ArchivarMesa, ActualizarMesa, AbrirSinMesa, ActualizarCocina, vars, historia
<1>2. \A c \in Comandas : comandas'[c] = comandas[c] \/ comandas'[c].estado = "ABIERTA"
  BY DEF Salon, CrearMesa, ArchivarMesa, ActualizarMesa, AbrirSinMesa, ActualizarCocina, vars,
         Nueva, TypeOK
<1>3. \A i \in Items : items'[i] = items[i] \/ (Vivo(i) /\ items'[i].comanda = items[i].comanda)
  <2>1. ASSUME NEW i \in Items, NEW e \in Avances, ActualizarCocina(i, e)
        PROVE  \A j \in Items : items'[j] = items[j] \/ (Vivo(j) /\ items'[j].comanda = items[j].comanda)
    <3>1. items[i] \in Item
      BY <2>1, FilasForma DEF TypeOK, ActualizarCocina, Vivo
    <3>2. QED
      BY <2>1, <3>1 DEF TypeOK, ActualizarCocina, Item
  <2>2. QED
    BY <2>1 DEF Salon, CrearMesa, ArchivarMesa, ActualizarMesa, AbrirSinMesa, vars
<1>4. \A c \in Comandas : ItemsDe(c)' \subseteq ItemsDe(c)
  BY <1>3 DEF ItemsDe, Vivo
<1>5. SinMezcla'
  BY <1>1 DEF InvCobrado, SinMezcla
<1>6. QED
  BY <1>1, <1>2, <1>4, <1>5, CobradoSigue

\* Items added, removed and sent, and orders opened or cancelled, keep what was charged
\* complete.
LEMMA CobradoPedido ==
  ASSUME TypeOK, TypeOK', InvCobrado, NEW p \in Procesos, Pedido(p)
  PROVE  InvCobrado'
<1>0. tx[p] \in Tx /\ "libre" \notin DeItem \cup DeComanda /\ "abrir" \notin DeItem \cup DeComanda
      /\ Libre.op = "libre" /\ SinMezcla
  BY DEF TypeOK, DeItem, DeComanda, Libre, InvCobrado
<1>1. ASSUME NEW m \in Mesas, AbrirLeer(p, m)
      PROVE  InvCobrado'
  <2>1. UNCHANGED <<comandas, items, ventas, expuestas, revueltas>>
        /\ tx'[p].op = "abrir" /\ \A q \in Procesos \ {p} : tx'[q] = tx[q]
    BY <1>1 DEF AbrirLeer, Empezar, TypeOK
  <2>2. SinMezcla'
    BY <1>0, <2>1, MezclaTermina
  <2>3. \A c \in Comandas : ItemsDe(c)' = ItemsDe(c)
    BY <2>1 DEF ItemsDe, Vivo
  <2>4. Completa(tx[p])' /\ SinAgregar(tx[p])'
    BY <2>1 DEF Completa, SinAgregar
  <2>5. QED
    BY <2>1, <2>2, <2>3, <2>4, CobradoSigue
<1>2. ASSUME NEW c \in Comandas, AbrirAplicar(p, c)
      PROVE  InvCobrado'
  <2>1. UNCHANGED <<items, ventas, expuestas, revueltas>>
        /\ tx'[p].op = "libre" /\ \A q \in Procesos \ {p} : tx'[q] = tx[q]
    BY <1>0, <1>2 DEF AbrirAplicar, Terminar, TypeOK, historia
  <2>2. SinMezcla'
    BY <1>0, <2>1, MezclaTermina
  <2>3. \A d \in Comandas : ItemsDe(d)' = ItemsDe(d)
    BY <2>1 DEF ItemsDe, Vivo
  <2>4. Completa(tx[p])' /\ SinAgregar(tx[p])'
    BY <2>1 DEF Completa, SinAgregar
  <2>5. \A d \in Comandas : comandas'[d] = comandas[d] \/ comandas'[d].estado = "ABIERTA"
    BY <1>2 DEF AbrirAplicar, Nueva, TypeOK
  <2>6. QED
    BY <2>1, <2>2, <2>3, <2>4, <2>5, CobradoSigue
<1>3. ASSUME NEW c \in Comandas, NEW i \in Items, AgregarLeer(p, c, i)
      PROVE  InvCobrado'
  <2>1. PICK t : t = [op |-> "agregar", comanda |-> c, item |-> i, total |-> Cardinality(ItemsDe(c)) + 1]
    OBVIOUS
  <2>2. /\ UNCHANGED <<comandas, items, ventas, expuestas>>
        /\ tx' = [tx EXCEPT ![p] = t] /\ tx'[p] = t /\ \A q \in Procesos \ {p} : tx'[q] = tx[q]
        /\ EmpezarItem(p, c) /\ revueltas \subseteq revueltas'
    BY <1>3, <2>1 DEF AgregarLeer, Empezar, EmpezarItem, TypeOK
  <2>3. t.op = "agregar" /\ t.comanda = c /\ t.op \in DeItem
    BY <2>1 DEF DeItem
  <2>4. SinMezcla'
    BY <1>0, <2>2, <2>3, MezclaEmpieza
  <2>5. \A d \in Comandas : ItemsDe(d)' = ItemsDe(d)
    BY <2>2 DEF ItemsDe, Vivo
  <2>6. Completa(tx[p])' /\ SinAgregar(tx[p])'
    <3>1. comandas'[c].estado # "CERRADA"
      BY <1>3, <2>2 DEF AgregarLeer, EnCurso
    <3>2. QED
      BY <2>2, <2>3, <3>1 DEF Completa, SinAgregar
  <2>7. QED
    BY <2>2, <2>4, <2>5, <2>6, CobradoSigue
<1>4. CASE AgregarAplicar(p) \/ QuitarAplicar(p)
  <2>0. PICK c \in Comandas : c = tx[p].comanda /\ Existe(c)
    BY <1>4, TxForma DEF AgregarAplicar, QuitarAplicar, TypeOK
  <2>1. /\ UNCHANGED <<ventas, expuestas, revueltas>>
        /\ tx'[p].op = "libre" /\ \A q \in Procesos \ {p} : tx'[q] = tx[q]
        /\ comandas' = [comandas EXCEPT ![c].total = tx[p].total]
        /\ tx[p].op \in DeItem
    BY <1>0, <1>4, <2>0 DEF AgregarAplicar, QuitarAplicar, Terminar, TypeOK, historia, DeItem
  <2>2. SinMezcla'
    BY <1>0, <2>1, MezclaTermina
  <2>3. comandas[c] \in Comanda
    BY <2>0 DEF TypeOK, Existe
  <2>4. \A d \in Comandas : comandas'[d].estado = comandas[d].estado /\ comandas'[d].venta = comandas[d].venta
    BY <2>0, <2>1, <2>3 DEF Comanda, TypeOK
  <2>5. \A d \in Comandas \ {c} : ItemsDe(d)' \subseteq ItemsDe(d)
    <3>1. \A i \in Items : items'[i] = items[i] \/ items'[i].comanda = c \/ items'[i] = Quitado
      BY <1>4, <2>0 DEF AgregarAplicar, QuitarAplicar, TypeOK
    <3>2. Quitado.cocina \notin EstadosCocina
      BY DEF Quitado, EstadosCocina
    <3>3. QED
      BY <3>1, <3>2 DEF ItemsDe, Vivo
  <2>6. CASE AgregarAplicar(p)
    <3>1. tx[p].op = "agregar"
      BY <2>6 DEF AgregarAplicar
    <3>2. ASSUME c \notin expuestas \cup revueltas
          PROVE  SinCargo(c)
      <4>1. comandas[c].estado # "CERRADA"
        BY <2>0, <3>1, <3>2 DEF InvCobrado, Cerrada
      <4>2. ASSUME NEW q \in Procesos, tx[q].op \in {"cobrar", "cobrada"}, tx[q].comanda = c
            PROVE  FALSE
        <5>1. tx[q].op \in DeComanda
          BY <4>2 DEF DeComanda
        <5>2. QED
          BY <1>0, <2>0, <2>1, <3>2, <4>2, <5>1 DEF SinMezcla
      <4>3. QED
        BY <4>1, <4>2 DEF SinCargo
    <3>3. Completa(tx[p])' /\ SinAgregar(tx[p])'
      BY <2>1 DEF Completa, SinAgregar
    <3>4. \A d \in Comandas : \/ d \in expuestas' \cup revueltas'
                              \/ ItemsDe(d)' \subseteq ItemsDe(d)
                              \/ SinCargo(d) /\ comandas'[d].estado # "CERRADA"
      <4>1. c \in expuestas \cup revueltas \/ (SinCargo(c) /\ comandas'[c].estado # "CERRADA")
        BY <2>0, <2>4, <3>2 DEF SinCargo
      <4>2. QED
        BY <2>1, <2>5, <4>1
    <3>5. QED
      BY <2>1, <2>2, <2>4, <3>3, <3>4, CobradoSigue
  <2>7. CASE QuitarAplicar(p)
    <3>1. ItemsDe(c)' \subseteq ItemsDe(c)
      <4>1. \A i \in Items : items'[i] = items[i] \/ items'[i] = Quitado
        BY <2>7 DEF QuitarAplicar, TypeOK
      <4>2. Quitado.cocina \notin EstadosCocina
        BY DEF Quitado, EstadosCocina
      <4>3. QED
        BY <4>1, <4>2 DEF ItemsDe, Vivo
    <3>2. Completa(tx[p])' /\ SinAgregar(tx[p])'
      BY <2>1 DEF Completa, SinAgregar
    <3>3. \A d \in Comandas : ItemsDe(d)' \subseteq ItemsDe(d)
      BY <2>5, <3>1
    <3>4. QED
      BY <2>1, <2>2, <2>4, <3>2, <3>3, CobradoSigue
  <2>8. QED
    BY <1>4, <2>6, <2>7
<1>5. ASSUME NEW i \in Items, QuitarLeer(p, i)
      PROVE  InvCobrado'
  <2>0. PICK c : c = items[i].comanda
    OBVIOUS
  <2>1. PICK t : t = [op |-> "quitar", comanda |-> c, item |-> i, total |-> Cardinality(ItemsDe(c) \ {i})]
    OBVIOUS
  <2>2. /\ UNCHANGED <<comandas, items, ventas, expuestas>>
        /\ tx' = [tx EXCEPT ![p] = t] /\ tx'[p] = t /\ \A q \in Procesos \ {p} : tx'[q] = tx[q]
        /\ EmpezarItem(p, c) /\ revueltas \subseteq revueltas'
    BY <1>5, <2>0, <2>1 DEF QuitarLeer, Empezar, EmpezarItem, TypeOK
  <2>3. t.op = "quitar" /\ t.comanda = c /\ t.op \in DeItem /\ c \in Comandas
    <3>1. items[i] \in Item
      BY <1>5, FilasForma DEF TypeOK, QuitarLeer, EstadosCocina
    <3>2. QED
      BY <2>0, <2>1, <3>1 DEF DeItem, Item
  <2>4. SinMezcla'
    BY <1>0, <2>2, <2>3, MezclaEmpieza
  <2>5. \A d \in Comandas : ItemsDe(d)' = ItemsDe(d)
    BY <2>2 DEF ItemsDe, Vivo
  <2>6. Completa(tx[p])' /\ SinAgregar(tx[p])'
    BY <2>2, <2>3 DEF Completa, SinAgregar
  <2>7. QED
    BY <2>2, <2>4, <2>5, <2>6, CobradoSigue
<1>6. ASSUME NEW c \in Comandas, EnviarLeer(p, c) \/ CancelarLeer(p, c)
      PROVE  InvCobrado'
  <2>1. PICK t : t = IF EnviarLeer(p, c) THEN [op |-> "enviar", comanda |-> c]
                       ELSE [op |-> "cancelar", comanda |-> c, mesa |-> comandas[c].mesa]
    OBVIOUS
  <2>2. /\ UNCHANGED <<comandas, items, ventas>>
        /\ tx' = [tx EXCEPT ![p] = t] /\ tx'[p] = t /\ \A q \in Procesos \ {p} : tx'[q] = tx[q]
        /\ EmpezarComanda(p, c) /\ expuestas \subseteq expuestas' /\ revueltas \subseteq revueltas'
    BY <1>6, <2>1 DEF EnviarLeer, CancelarLeer, Empezar, EmpezarComanda, TypeOK
  <2>3. t.op \in {"enviar", "cancelar"} /\ t.comanda = c /\ t.op \in DeComanda
    BY <2>1 DEF DeComanda
  <2>4. SinMezcla'
    BY <1>0, <2>2, <2>3, MezclaEmpieza
  <2>5. \A d \in Comandas : ItemsDe(d)' = ItemsDe(d)
    BY <2>2 DEF ItemsDe, Vivo
  <2>6. Completa(tx[p])' /\ SinAgregar(tx[p])'
    BY <2>2, <2>3 DEF Completa, SinAgregar
  <2>7. QED
    BY <2>2, <2>4, <2>5, <2>6, CobradoSigue
<1>7. CASE EnviarAplicar(p) \/ CancelarAplicar(p)
  <2>0. PICK c \in Comandas : c = tx[p].comanda /\ Existe(c)
    BY <1>7, TxForma DEF EnviarAplicar, CancelarAplicar, TypeOK
  <2>1. /\ UNCHANGED <<items, ventas, expuestas, revueltas>>
        /\ tx'[p].op = "libre" /\ \A q \in Procesos \ {p} : tx'[q] = tx[q]
    BY <1>0, <1>7 DEF EnviarAplicar, CancelarAplicar, Terminar, TypeOK, historia
  <2>2. SinMezcla'
    BY <1>0, <2>1, MezclaTermina
  <2>3. PICK e \in {"EN_COCINA", "CANCELADA"} : comandas' = [comandas EXCEPT ![c].estado = e]
    BY <1>7, <2>0 DEF EnviarAplicar, CancelarAplicar
  <2>4. comandas[c] \in Comanda
    BY <2>0 DEF TypeOK, Existe
  <2>5. \A d \in Comandas : comandas'[d] = comandas[d] \/ comandas'[d].estado = e
    BY <2>0, <2>3, <2>4 DEF Comanda, TypeOK
  <2>6. \A d \in Comandas : ItemsDe(d)' = ItemsDe(d)
    BY <2>1 DEF ItemsDe, Vivo
  <2>7. Completa(tx[p])' /\ SinAgregar(tx[p])'
    BY <2>1 DEF Completa, SinAgregar
  <2>8. \A d \in Comandas : comandas'[d].estado = "CERRADA" => comandas'[d] = comandas[d]
    BY <2>5
  <2>9. QED
    BY <2>1, <2>2, <2>6, <2>7, <2>8, CobradoSigue
<1>8. QED
  BY <1>1, <1>2, <1>3, <1>4, <1>5, <1>6, <1>7 DEF Pedido

\* The charge sells the items it read, which are those of the order unless they were mixed.
LEMMA CobradoCobro ==
  ASSUME TypeOK, TypeOK', InvCobrado, NEW p \in Procesos, Cobro(p) \/ Abortar(p)
  PROVE  InvCobrado'
<1>0. tx[p] \in Tx /\ "libre" \notin DeItem \cup DeComanda /\ Libre.op = "libre" /\ SinMezcla
      /\ Completa(tx[p])
  BY DEF TypeOK, DeItem, DeComanda, Libre, InvCobrado
<1>1. ASSUME NEW c \in Comandas, NEW S \in SUBSET Items, CobrarLeer(p, c, S)
      PROVE  InvCobrado'
  <2>1. PICK t : t = [op |-> "cobrar", comanda |-> c, mesa |-> comandas[c].mesa, items |-> S,
                      todos |-> S = ItemsDe(c)]
    OBVIOUS
  <2>2. /\ UNCHANGED <<comandas, items, ventas>>
        /\ tx' = [tx EXCEPT ![p] = t] /\ tx'[p] = t /\ \A q \in Procesos \ {p} : tx'[q] = tx[q]
        /\ EmpezarComanda(p, c) /\ expuestas \subseteq expuestas' /\ revueltas \subseteq revueltas'
    BY <1>1, <2>1 DEF CobrarLeer, Empezar, EmpezarComanda, TypeOK
  <2>3. t.op = "cobrar" /\ t.comanda = c /\ t.op \in DeComanda /\ t.items = S
        /\ (t.todos => S = ItemsDe(c))
    BY <2>1 DEF DeComanda
  <2>4. SinMezcla'
    BY <1>0, <2>2, <2>3, MezclaEmpieza
  <2>5. \A d \in Comandas : ItemsDe(d)' = ItemsDe(d)
    BY <2>2 DEF ItemsDe, Vivo
  <2>6. Completa(tx[p])' /\ SinAgregar(tx[p])'
    BY <2>2, <2>3, <2>5 DEF Completa, SinAgregar
  <2>7. QED
    BY <2>2, <2>4, <2>5, <2>6, CobradoSigue
<1>2. ASSUME NEW v \in Ventas, CobrarVender(p, v)
      PROVE  InvCobrado'
  <2>0. PICK c \in Comandas : c = tx[p].comanda
    BY <1>0, <1>2, TxForma DEF CobrarVender
  <2>1. PICK t : t = [op |-> "cobrada", comanda |-> c, mesa |-> tx[p].mesa, venta |-> v,
                      todos |-> tx[p].todos]
    OBVIOUS
  <2>2. /\ UNCHANGED <<comandas, items, expuestas, revueltas>>
        /\ tx'[p] = t /\ \A q \in Procesos \ {p} : tx'[q] = tx[q]
        /\ tx[p].op = "cobrar" /\ ventas[v] = NoVenta
        /\ ventas'[v].comanda = c /\ ventas'[v].items = tx[p].items
        /\ \A w \in Ventas \ {v} : ventas'[w] = ventas[w]
    BY <1>2, <2>0, <2>1 DEF CobrarVender, Empezar, TypeOK, historia
  <2>3. t.op = "cobrada" /\ t.comanda = c /\ t.op \in DeComanda /\ t.venta = v
        /\ t.todos = tx[p].todos /\ tx[p].op \in DeComanda
    BY <2>1, <2>2 DEF DeComanda
  <2>4. SinMezcla'
    BY <1>0, <2>0, <2>2, <2>3, MezclaTermina
  <2>5. \A d \in Comandas : ItemsDe(d)' = ItemsDe(d)
    BY <2>2 DEF ItemsDe, Vivo
  <2>6. tx[p].todos /\ c \notin expuestas \cup revueltas => ItemsDe(c) \subseteq tx[p].items
    BY <1>0, <2>0, <2>2 DEF Completa
  <2>7. Completa(tx[p])' /\ SinAgregar(tx[p])'
    BY <2>2, <2>3, <2>5, <2>6 DEF Completa, SinAgregar
  <2>8. \A w \in Ventas : ventas[w].comanda \in Comandas => ventas'[w] = ventas[w]
    BY <2>2, FilasForma
  <2>9. QED
    BY <2>2, <2>4, <2>5, <2>7, <2>8, CobradoSigue
<1>3. CASE CobrarCerrar(p)
  <2>0. PICK c \in Comandas : c = tx[p].comanda /\ Existe(c)
    BY <1>3, TxForma DEF CobrarCerrar, TypeOK
  <2>1. /\ UNCHANGED <<items, ventas, expuestas, revueltas>> /\ tx[p].op = "cobrada"
        /\ tx'[p].op = "libre" \/ (tx'[p].op = "liberar" /\ tx'[p].comanda = c)
        /\ \A q \in Procesos \ {p} : tx'[q] = tx[q]
    BY <1>3, <2>0 DEF CobrarCerrar, Empezar, TypeOK, Libre, historia
  <2>2. SinMezcla'
    <3>1. "liberar" \in DeComanda /\ "cobrada" \in DeComanda
      BY DEF DeComanda
    <3>2. QED
      BY <1>0, <2>0, <2>1, <3>1, MezclaTermina
  <2>3. comandas[c] \in Comanda
    BY <2>0 DEF TypeOK, Existe
  <2>4. /\ comandas'[c].venta = {tx[p].venta} /\ (comandas'[c].estado = "CERRADA" => tx[p].todos)
        /\ \A d \in Comandas \ {c} : comandas'[d] = comandas[d]
    BY <1>3, <2>0, <2>3 DEF CobrarCerrar, Comanda, TypeOK
  <2>5. \A d \in Comandas : ItemsDe(d)' = ItemsDe(d)
    BY <2>1 DEF ItemsDe, Vivo
  <2>6. Completa(tx[p])' /\ SinAgregar(tx[p])'
    BY <2>1 DEF Completa, SinAgregar
  <2>7. \A d \in Comandas : comandas'[d].estado = "CERRADA" =>
          \/ comandas'[d] = comandas[d]
          \/ \E q \in Procesos : /\ tx[q].op = "cobrada" /\ tx[q].comanda = d /\ tx[q].todos
                                 /\ comandas'[d].venta = {tx[q].venta}
    BY <2>0, <2>1, <2>4
  <2>8. QED
    BY <2>1, <2>2, <2>5, <2>6, <2>7, CobradoSigue
<1>4. CASE CobrarLiberar(p) \/ Abortar(p)
  <2>1. /\ UNCHANGED <<comandas, items, ventas, revueltas>> /\ expuestas \subseteq expuestas'
        /\ tx'[p].op = "libre" /\ \A q \in Procesos \ {p} : tx'[q] = tx[q]
    BY <1>0, <1>4 DEF CobrarLiberar, Abortar, Terminar, TypeOK, historia
  <2>2. SinMezcla'
    BY <1>0, <2>1, MezclaTermina
  <2>3. \A d \in Comandas : ItemsDe(d)' = ItemsDe(d)
    BY <2>1 DEF ItemsDe, Vivo
  <2>4. Completa(tx[p])' /\ SinAgregar(tx[p])'
    BY <2>1 DEF Completa, SinAgregar
  <2>5. QED
    BY <2>1, <2>2, <2>3, <2>4, CobradoSigue
<1>5. QED
  BY <1>1, <1>2, <1>3, <1>4 DEF Cobro

\* A closed order has its sale, and the sale has every item of it, unless two requests on
\* the order overlapped, its charge was cut, or an item changed while it was charged.
THEOREM TodoSeCobra == Spec => []TodoCobrado
<1>1. Init => Inv /\ InvCobrado
  BY Inicial, InicialCobrado
<1>2. Inv /\ InvCobrado /\ [Next]_vars => Inv' /\ InvCobrado'
  <2>1. SUFFICES ASSUME Inv, InvCobrado, [Next]_vars
                 PROVE  Inv' /\ InvCobrado'
    OBVIOUS
  <2>2. Inv' /\ TypeOK /\ TypeOK'
    BY <2>1, Paso DEF Inv
  <2>3. QED
    BY <2>1, <2>2, CobradoSalon, CobradoPedido, CobradoCobro DEF Next
<1>3. InvCobrado => TodoCobrado
  BY DEF InvCobrado, TodoCobrado, Cerrada
<1>4. QED
  BY <1>1, <1>2, <1>3, PTL DEF Spec

-----------------------------------------------------------------------------
(* A table is taken while it has an order *)

\* Requests that read the table of an order.
ConMesa == {"cancelar", "cobrar", "cobrada", "liberar"}

\* What a request on the order read of it still holds.
EnPie(t) ==
  /\ t.op \in ConMesa => t.mesa = comandas[t.comanda].mesa
  /\ t.op \in {"enviar", "cobrar", "cobrada"} /\ t.comanda \notin expuestas => EnCurso(t.comanda)
  /\ t.op = "cancelar" /\ t.comanda \notin expuestas => comandas[t.comanda].estado # "CERRADA"

\* A table that nothing crossed, nor its orders.
Tranquila(m) == m \notin tocadas /\ \A c \in expuestas : m \notin comandas[c].mesa

Abriendo(m) == {p \in Procesos : tx[p].op = "abrir" /\ tx[p].mesa = m}
Liberando(m) == {p \in Procesos : tx[p].op = "liberar" /\ m \in tx[p].mesa}

\* The table is opened by one request, has one order, or is being freed by one.
Tomada(m) ==
  /\ \A c, d \in OrdenesEn(m) : c = d
  /\ mesas[m] = "OCUPADA" <=> OrdenesEn(m) # {} \/ Liberando(m) # {}
  /\ OrdenesEn(m) = {} \/ Liberando(m) = {}
  /\ \A p, q \in Liberando(m) : p = q
  /\ \A p, q \in Abriendo(m) : p = q
  /\ Abriendo(m) # {} => mesas[m] = "LIBRE"

InvMesas ==
  /\ \A c \in expuestas : Existe(c)
  /\ \A c \in Comandas : Existe(c) => \A m \in comandas[c].mesa : comandas[c].mesa = {m}
  /\ \A p \in Procesos : EnPie(tx[p])
  /\ \A m \in Mesas : Tranquila(m) => Tomada(m)

-----------------------------------------------------------------------------
(* Steps and the tables *)

\* No table is taken at the start.
LEMMA InicialMesas == Init => InvMesas
<1> SUFFICES ASSUME Init
             PROVE  InvMesas
  OBVIOUS
<1>1. /\ \A p \in Procesos : tx[p].op = "libre"
      /\ \A c \in Comandas : ~Existe(c)
      /\ expuestas = {} /\ \A m \in Mesas : mesas[m] = "AUSENTE"
  BY DEF Init, Libre, Existe
<1>2. \A m \in Mesas : OrdenesEn(m) = {} /\ Liberando(m) = {} /\ Abriendo(m) = {}
  BY <1>1 DEF OrdenesEn, EnCurso, Liberando, Abriendo
<1>3. \A m \in Mesas : Tomada(m)
  BY <1>1, <1>2 DEF Tomada
<1>4. QED
  BY <1>1, <1>3 DEF InvMesas, EnPie, ConMesa

\* What is left to show of a step: the requests it changes, and the tables it crosses.
LEMMA MesasSigue ==
  ASSUME TypeOK, InvMesas, tocadas \subseteq tocadas', expuestas \subseteq expuestas',
         \A c \in expuestas' : c \in Comandas /\ (c \in expuestas \/ Existe(c)),
         \A c \in Comandas : Existe(c) => Existe(c)' /\ comandas'[c].mesa = comandas[c].mesa,
         \A c \in Comandas : ~Existe(c) /\ Existe(c)' =>
           \A m \in comandas'[c].mesa : comandas'[c].mesa = {m},
         \A q \in Procesos :
           \/ /\ tx'[q] = tx[q]
              /\ tx[q].op \in DeComanda =>
                   \/ tx[q].comanda \in expuestas
                   \/ comandas'[tx[q].comanda].estado = comandas[tx[q].comanda].estado
           \/ EnPie(tx[q])',
         \A m \in Mesas : Tranquila(m)' /\ Tranquila(m) /\ Tomada(m) => Tomada(m)'
  PROVE  InvMesas'
<1>1. expuestas \subseteq Comandas /\ \A c \in expuestas : Existe(c)
  BY DEF TypeOK, InvMesas
<1>2. \A c \in expuestas' : Existe(c)'
  BY <1>1 DEF Existe
<1>3. \A c \in Comandas : Existe(c)' => \A m \in comandas'[c].mesa : comandas'[c].mesa = {m}
  <2>1. \A c \in Comandas : Existe(c) => \A m \in comandas[c].mesa : comandas[c].mesa = {m}
    BY DEF InvMesas
  <2>2. QED
    BY <2>1
<1>4. ASSUME NEW q \in Procesos
      PROVE  EnPie(tx[q])'
  <2>1. CASE /\ tx'[q] = tx[q]
             /\ tx[q].op \in DeComanda =>
                  \/ tx[q].comanda \in expuestas
                  \/ comandas'[tx[q].comanda].estado = comandas[tx[q].comanda].estado
    <3>1. EnPie(tx[q]) /\ tx[q] \in Tx
      BY DEF InvMesas, TypeOK
    <3>2. CASE tx[q].op \in DeComanda
      <4>1. tx[q].comanda \in Comandas /\ Existe(tx[q].comanda)
        BY <3>1, <3>2, TxForma DEF DeComanda, TypeOK
      <4>2. /\ Existe(tx[q].comanda)'
            /\ comandas'[tx[q].comanda].mesa = comandas[tx[q].comanda].mesa
        BY <4>1, <2>1 DEF Existe
      <4>3. QED
        BY <2>1, <3>1, <3>2, <4>1, <4>2 DEF EnPie, EnCurso, Existe
    <3>3. CASE tx[q].op \notin DeComanda
      BY <2>1, <3>3 DEF EnPie, ConMesa, DeComanda
    <3>4. QED
      BY <3>2, <3>3
  <2>2. QED
    BY <2>1
<1>5. ASSUME NEW m \in Mesas, Tranquila(m)'
      PROVE  Tomada(m)'
  <2>1. Tranquila(m)
    BY <1>1, <1>5 DEF Tranquila
  <2>2. Tomada(m)
    BY <2>1 DEF InvMesas
  <2>3. QED
    BY <1>5, <2>1, <2>2
<1>6. QED
  BY <1>2, <1>3, <1>4, <1>5 DEF InvMesas

\* A table of which nothing changes, but a request to open it that ends.
LEMMA MesaNeutra ==
  ASSUME NEW m \in Mesas, Tomada(m), mesas'[m] = mesas[m], OrdenesEn(m)' = OrdenesEn(m),
         Liberando(m)' = Liberando(m), Abriendo(m)' \subseteq Abriendo(m)
  PROVE  Tomada(m)'
<1>1. /\ \A c, d \in OrdenesEn(m)' : c = d
      /\ mesas'[m] = "OCUPADA" <=> OrdenesEn(m)' # {} \/ Liberando(m)' # {}
      /\ OrdenesEn(m)' = {} \/ Liberando(m)' = {}
      /\ \A p, q \in Liberando(m)' : p = q
      /\ \A p, q \in Abriendo(m)' : p = q
      /\ Abriendo(m)' # {} => mesas'[m] = "LIBRE"
  BY DEF Tomada
<1>2. QED
  BY <1>1 DEF Tomada

\* Nothing that starts or ends touches the table.
LEMMA SinAbrirNiLiberar ==
  ASSUME NEW p \in Procesos, NEW m,
         \A q \in Procesos \ {p} : tx'[q] = tx[q],
         tx'[p].op \notin {"abrir", "liberar"},
         tx[p].op = "liberar" => m \notin tx[p].mesa
  PROVE  Liberando(m)' = Liberando(m) /\ Abriendo(m)' \subseteq Abriendo(m)
BY DEF Liberando, Abriendo

\* A table changed by hand leaves the promise (tocadas), a new one has no order, and the
\* kitchen and orders to take away move no table.
LEMMA MesasSalon ==
  ASSUME TypeOK, InvMesas, Salon \/ UNCHANGED vars
  PROVE  InvMesas'
<1>1. UNCHANGED <<tx, expuestas>> /\ tocadas \subseteq tocadas'
  BY DEF Salon, CrearMesa, ArchivarMesa, ActualizarMesa, AbrirSinMesa, ActualizarCocina, vars, historia
<1>2. \A m \in Mesas : Liberando(m)' = Liberando(m) /\ Abriendo(m)' = Abriendo(m)
  BY <1>1 DEF Liberando, Abriendo
<1>3. ASSUME NEW c \in Comandas, AbrirSinMesa(c)
      PROVE  InvMesas'
  <2>1. /\ ~Existe(c) /\ comandas'[c].mesa = {} /\ \A d \in Comandas \ {c} : comandas'[d] = comandas[d]
        /\ mesas' = mesas
    BY <1>3 DEF AbrirSinMesa, Nueva, TypeOK
  <2>2. \A m \in Mesas : OrdenesEn(m)' = OrdenesEn(m)
    BY <2>1 DEF OrdenesEn, EnCurso, Existe
  <2>3. \A m \in Mesas : Tomada(m) => Tomada(m)'
    BY <1>2, <2>1, <2>2, MesaNeutra
  <2>4. \A q \in Procesos : tx[q].op \in DeComanda =>
          comandas'[tx[q].comanda].estado = comandas[tx[q].comanda].estado
    <3>1. \A q \in Procesos : tx[q].op \in DeComanda => tx[q].comanda \in Comandas /\ Existe(tx[q].comanda)
      BY TxForma DEF TypeOK, DeComanda
    <3>2. QED
      BY <2>1, <3>1
  <2>5. \A d \in Comandas : Existe(d) => Existe(d)' /\ comandas'[d].mesa = comandas[d].mesa
    BY <2>1 DEF Existe
  <2>6. \A d \in Comandas : ~Existe(d) /\ Existe(d)' => comandas'[d].mesa = {}
    BY <2>1 DEF Existe
  <2>7. \A d \in expuestas' : d \in Comandas
    BY <1>1 DEF TypeOK
  <2>8. QED
    BY <1>1, <2>3, <2>4, <2>5, <2>6, <2>7, MesasSigue
<1>4. ASSUME comandas' = comandas,
             \A m \in Mesas : \/ mesas'[m] = mesas[m]
                              \/ m \in tocadas'
                              \/ mesas[m] = "AUSENTE" /\ mesas'[m] = "LIBRE"
      PROVE  InvMesas'
  <2>1. \A m \in Mesas : OrdenesEn(m)' = OrdenesEn(m)
    BY <1>4 DEF OrdenesEn, EnCurso, Existe
  <2>2. ASSUME NEW m \in Mesas, Tranquila(m)', Tomada(m)
        PROVE  Tomada(m)'
    <3>1. m \notin tocadas'
      BY <2>2 DEF Tranquila
    <3>2. CASE mesas'[m] = mesas[m]
      BY <1>2, <2>1, <2>2, <3>2, MesaNeutra
    <3>3. CASE mesas[m] = "AUSENTE" /\ mesas'[m] = "LIBRE"
      <4>1. OrdenesEn(m) = {} /\ Liberando(m) = {} /\ Abriendo(m) = {}
        BY <2>2, <3>3 DEF Tomada
      <4>2. OrdenesEn(m)' = {} /\ Liberando(m)' = {} /\ Abriendo(m)' = {}
        BY <1>2, <2>1, <4>1
      <4>3. QED
        BY <3>3, <4>2 DEF Tomada
    <3>4. QED
      BY <1>4, <3>1, <3>2, <3>3
  <2>3. \A d \in Comandas : Existe(d)' <=> Existe(d)
    BY <1>4 DEF Existe
  <2>4. \A d \in expuestas' : d \in Comandas
    BY <1>1 DEF TypeOK
  <2>5. QED
    BY <1>1, <1>4, <2>2, <2>3, <2>4, MesasSigue
<1>5. ASSUME NEW m \in Mesas, CrearMesa(m) \/ ArchivarMesa(m) \/ \E e \in EstadosDeMano : ActualizarMesa(m, e)
      PROVE  InvMesas'
  BY <1>4, <1>5 DEF CrearMesa, ArchivarMesa, ActualizarMesa, TypeOK
<1>6. ASSUME NEW i \in Items, NEW e \in Avances, ActualizarCocina(i, e)
      PROVE  InvMesas'
  BY <1>4, <1>6 DEF ActualizarCocina
<1>7. CASE UNCHANGED vars
  BY <1>4, <1>7 DEF vars
<1>8. QED
  BY <1>3, <1>5, <1>6, <1>7 DEF Salon

\* Steps of p that leave the orders and the tables as they are.
LEMMA MesasTx ==
  ASSUME TypeOK, TypeOK', InvMesas, NEW p \in Procesos,
         \A q \in Procesos \ {p} : tx'[q] = tx[q],
         tx'[p].op \notin {"abrir", "liberar"}, tx[p].op # "liberar",
         \A c \in Comandas : comandas'[c].estado = comandas[c].estado
                             /\ comandas'[c].mesa = comandas[c].mesa /\ (Existe(c)' <=> Existe(c)),
         UNCHANGED <<mesas, tocadas>>, expuestas \subseteq expuestas',
         \A c \in expuestas' : c \in expuestas \/ Existe(c),
         EnPie(tx[p])'
  PROVE  InvMesas'
<1>1. ASSUME NEW m \in Mesas, Tomada(m)
      PROVE  Tomada(m)'
  <2>1. Liberando(m)' = Liberando(m) /\ Abriendo(m)' \subseteq Abriendo(m)
    BY SinAbrirNiLiberar
  <2>2. OrdenesEn(m)' = OrdenesEn(m)
    BY DEF OrdenesEn, EnCurso
  <2>3. QED
    BY <1>1, <2>1, <2>2, MesaNeutra
<1>2. expuestas' \subseteq Comandas
  BY DEF TypeOK
<1>3. \A q \in Procesos : tx[q].op \in DeComanda =>
        comandas'[tx[q].comanda].estado = comandas[tx[q].comanda].estado
  <2>1. \A q \in Procesos : tx[q].op \in DeComanda => tx[q].comanda \in Comandas
    BY TxForma DEF TypeOK, DeComanda
  <2>2. QED
    BY <2>1
<1>4. QED
  BY <1>1, <1>2, <1>3, MesasSigue

\* A request that begins on an order read it before it was finished.
LEMMA MesasEmpieza ==
  ASSUME TypeOK, TypeOK', InvMesas, NEW p \in Procesos, NEW c \in Comandas, NEW t,
         tx[p] = Libre, tx' = [tx EXCEPT ![p] = t], t.op \notin {"abrir", "liberar"},
         EmpezarItem(p, c) \/ EmpezarComanda(p, c), Existe(c),
         UNCHANGED <<comandas, mesas>>, EnPie(t)
  PROVE  InvMesas'
<1>1. tx'[p] = t /\ (\A q \in Procesos \ {p} : tx'[q] = tx[q]) /\ tx[p].op # "liberar"
  BY DEF TypeOK, Libre
<1>2. tocadas' = tocadas /\ expuestas \subseteq expuestas' /\ expuestas' \subseteq expuestas \cup {c}
  BY DEF EmpezarItem, EmpezarComanda
<1>3. EnPie(tx[p])'
  BY <1>1, <1>2 DEF EnPie, EnCurso, Existe
<1>4. \A d \in Comandas : Existe(d)' <=> Existe(d)
  BY DEF Existe
<1>5. QED
  BY <1>1, <1>2, <1>3, <1>4, MesasTx

\* The reads keep what requests know of their table.
LEMMA MesasLeer ==
  ASSUME TypeOK, TypeOK', InvMesas, NEW p \in Procesos,
         \/ \E c \in Comandas, i \in Items : AgregarLeer(p, c, i)
         \/ \E i \in Items : QuitarLeer(p, i)
         \/ \E c \in Comandas : EnviarLeer(p, c) \/ CancelarLeer(p, c)
         \/ \E c \in Comandas, S \in SUBSET Items : CobrarLeer(p, c, S)
  PROVE  InvMesas'
<1>1. ASSUME NEW c \in Comandas, NEW i \in Items, AgregarLeer(p, c, i)
      PROVE  InvMesas'
  <2>1. PICK t : t = [op |-> "agregar", comanda |-> c, item |-> i, total |-> Cardinality(ItemsDe(c)) + 1]
    OBVIOUS
  <2>2. EnPie(t) /\ t.op \notin {"abrir", "liberar"}
    BY <2>1 DEF EnPie, ConMesa
  <2>3. QED
    BY <1>1, <2>1, <2>2, MesasEmpieza DEF AgregarLeer, Empezar, EnCurso
<1>2. ASSUME NEW i \in Items, QuitarLeer(p, i)
      PROVE  InvMesas'
  <2>0. PICK c \in Comandas : c = items[i].comanda /\ Existe(c)
    <3>1. items[i] \in Item
      BY <1>2, FilasForma DEF TypeOK, QuitarLeer, EstadosCocina
    <3>2. QED
      BY <3>1 DEF TypeOK, Item
  <2>1. PICK t : t = [op |-> "quitar", comanda |-> c, item |-> i, total |-> Cardinality(ItemsDe(c) \ {i})]
    OBVIOUS
  <2>2. EnPie(t) /\ t.op \notin {"abrir", "liberar"}
    BY <2>1 DEF EnPie, ConMesa
  <2>3. QED
    BY <1>2, <2>0, <2>1, <2>2, MesasEmpieza DEF QuitarLeer, Empezar
<1>3. ASSUME NEW c \in Comandas, EnviarLeer(p, c)
      PROVE  InvMesas'
  <2>1. PICK t : t = [op |-> "enviar", comanda |-> c]
    OBVIOUS
  <2>2. EnPie(t) /\ t.op \notin {"abrir", "liberar"} /\ Existe(c)
    BY <1>3, <2>1 DEF EnPie, ConMesa, EnviarLeer, EnCurso
  <2>3. QED
    BY <1>3, <2>1, <2>2, MesasEmpieza DEF EnviarLeer, Empezar
<1>4. ASSUME NEW c \in Comandas, CancelarLeer(p, c)
      PROVE  InvMesas'
  <2>1. PICK t : t = [op |-> "cancelar", comanda |-> c, mesa |-> comandas[c].mesa]
    OBVIOUS
  <2>2. EnPie(t) /\ t.op \notin {"abrir", "liberar"} /\ Existe(c)
    BY <1>4, <2>1 DEF EnPie, ConMesa, CancelarLeer
  <2>3. QED
    BY <1>4, <2>1, <2>2, MesasEmpieza DEF CancelarLeer, Empezar
<1>5. ASSUME NEW c \in Comandas, NEW S \in SUBSET Items, CobrarLeer(p, c, S)
      PROVE  InvMesas'
  <2>1. PICK t : t = [op |-> "cobrar", comanda |-> c, mesa |-> comandas[c].mesa, items |-> S,
                      todos |-> S = ItemsDe(c)]
    OBVIOUS
  <2>2. EnPie(t) /\ t.op \notin {"abrir", "liberar"} /\ Existe(c)
    BY <1>5, <2>1 DEF EnPie, ConMesa, CobrarLeer, EnCurso
  <2>3. QED
    BY <1>5, <2>1, <2>2, MesasEmpieza DEF CobrarLeer, Empezar
<1>6. QED
  BY <1>1, <1>2, <1>3, <1>4, <1>5

\* Opening an order at a table.
LEMMA MesasAbrir ==
  ASSUME TypeOK, TypeOK', InvMesas, NEW p \in Procesos,
         (\E m \in Mesas : AbrirLeer(p, m)) \/ \E c \in Comandas : AbrirAplicar(p, c)
  PROVE  InvMesas'
<1>0. Libre.op = "libre" /\ expuestas \subseteq Comandas
  BY DEF Libre, TypeOK
<1>1. ASSUME NEW a \in Mesas, AbrirLeer(p, a)
      PROVE  InvMesas'
  <2>1. /\ UNCHANGED <<comandas, mesas, expuestas>> /\ tocadas \subseteq tocadas'
        /\ tx[p].op = "libre" /\ tx'[p].op = "abrir" /\ tx'[p].mesa = a
        /\ \A q \in Procesos \ {p} : tx'[q] = tx[q]
        /\ mesas[a] = "LIBRE"
    BY <1>0, <1>1 DEF AbrirLeer, Empezar, TypeOK
  <2>2. \A m \in Mesas : OrdenesEn(m)' = OrdenesEn(m) /\ Liberando(m)' = Liberando(m)
    BY <2>1 DEF OrdenesEn, EnCurso, Existe, Liberando
  <2>3. \A m \in Mesas \ {a} : Abriendo(m)' = Abriendo(m)
    BY <2>1 DEF Abriendo
  <2>4. a \notin tocadas' => Abriendo(a)' = {p}
    <3>1. a \notin tocadas' => \A q \in Procesos : ~(tx[q].op = "abrir" /\ tx[q].mesa = a)
      BY <1>1 DEF AbrirLeer
    <3>2. QED
      BY <2>1, <3>1 DEF Abriendo
  <2>5. ASSUME NEW m \in Mesas, Tranquila(m)', Tomada(m)
        PROVE  Tomada(m)'
    <3>1. CASE m # a
      BY <2>1, <2>2, <2>3, <2>5, <3>1, MesaNeutra
    <3>2. CASE m = a
      <4>1. Abriendo(a)' = {p}
        BY <2>4, <2>5, <3>2 DEF Tranquila
      <4>2. /\ \A c, d \in OrdenesEn(a)' : c = d
            /\ mesas'[a] = "OCUPADA" <=> OrdenesEn(a)' # {} \/ Liberando(a)' # {}
            /\ OrdenesEn(a)' = {} \/ Liberando(a)' = {}
            /\ \A q, r \in Liberando(a)' : q = r
        BY <2>1, <2>2, <2>5, <3>2 DEF Tomada
      <4>3. QED
        BY <2>1, <3>2, <4>1, <4>2 DEF Tomada
    <3>3. QED
      BY <3>1, <3>2
  <2>6. EnPie(tx[p])'
    BY <2>1 DEF EnPie, ConMesa
  <2>7. \A d \in Comandas : Existe(d)' <=> Existe(d)
    BY <2>1 DEF Existe
  <2>8. QED
    BY <1>0, <2>1, <2>5, <2>6, <2>7, MesasSigue
<1>2. ASSUME NEW c \in Comandas, AbrirAplicar(p, c)
      PROVE  InvMesas'
  <2>0. PICK a \in Mesas : a = tx[p].mesa
    BY <1>2, TxForma DEF AbrirAplicar, TypeOK
  <2>1. /\ UNCHANGED <<tocadas, expuestas>>
        /\ tx[p].op = "abrir" /\ tx'[p].op = "libre"
        /\ \A q \in Procesos \ {p} : tx'[q] = tx[q]
        /\ ~Existe(c) /\ comandas'[c] = Nueva({a})
        /\ \A d \in Comandas \ {c} : comandas'[d] = comandas[d]
        /\ mesas'[a] = "OCUPADA" /\ \A m \in Mesas \ {a} : mesas'[m] = mesas[m]
    BY <1>0, <1>2, <2>0 DEF AbrirAplicar, Terminar, TypeOK, historia
  <2>2. comandas'[c].estado = "ABIERTA" /\ comandas'[c].mesa = {a} /\ Existe(c)'
    BY <2>1 DEF Nueva, Existe, NoComanda
  <2>3. \A m \in Mesas \ {a} : OrdenesEn(m)' = OrdenesEn(m)
    BY <2>1, <2>2 DEF OrdenesEn, EnCurso, Existe
  <2>4. OrdenesEn(a)' = OrdenesEn(a) \cup {c}
    BY <2>1, <2>2 DEF OrdenesEn, EnCurso, Existe
  <2>5. \A m \in Mesas : Liberando(m)' = Liberando(m)
    BY <2>1 DEF Liberando
  <2>6. \A m \in Mesas : Abriendo(m)' = Abriendo(m) \ {p}
    BY <2>1 DEF Abriendo
  <2>7. ASSUME NEW m \in Mesas, Tomada(m)
        PROVE  Tomada(m)'
    <3>1. CASE m # a
      BY <2>1, <2>3, <2>5, <2>6, <2>7, <3>1, MesaNeutra
    <3>2. CASE m = a
      <4>1. p \in Abriendo(a)
        BY <2>0, <2>1 DEF Abriendo
      <4>2. OrdenesEn(a) = {} /\ Liberando(a) = {} /\ Abriendo(a) = {p}
        BY <2>7, <3>2, <4>1 DEF Tomada
      <4>3. OrdenesEn(a)' = {c} /\ Liberando(a)' = {} /\ Abriendo(a)' = {}
        BY <2>4, <2>5, <2>6, <4>2
      <4>4. QED
        BY <2>1, <3>2, <4>3 DEF Tomada
    <3>3. QED
      BY <3>1, <3>2
  <2>8. EnPie(tx[p])'
    BY <2>1 DEF EnPie, ConMesa
  <2>9. \A d \in Comandas : Existe(d) => Existe(d)' /\ comandas'[d].mesa = comandas[d].mesa
    BY <2>1 DEF Existe
  <2>10. \A d \in Comandas : ~Existe(d) /\ Existe(d)' => \A m \in comandas'[d].mesa : comandas'[d].mesa = {m}
    BY <2>1, <2>2 DEF Existe
  <2>11. \A q \in Procesos \ {p} : tx[q].op \in DeComanda =>
           comandas'[tx[q].comanda].estado = comandas[tx[q].comanda].estado
    <3>1. \A q \in Procesos : tx[q].op \in DeComanda => tx[q].comanda \in Comandas /\ Existe(tx[q].comanda)
      BY TxForma DEF TypeOK, DeComanda
    <3>2. QED
      BY <2>1, <3>1
  <2>12. QED
    BY <1>0, <2>1, <2>7, <2>8, <2>9, <2>10, <2>11, MesasSigue
<1>3. QED
  BY <1>1, <1>2

\* The requests on an order that write it or its table.
LEMMA MesasEstado ==
  ASSUME TypeOK, TypeOK', Solo, InvMesas, NEW p \in Procesos, NEW c \in Comandas,
         tx[p].op \in DeComanda, tx[p].comanda = c, Existe(c),
         \A q \in Procesos \ {p} : tx'[q] = tx[q],
         \A d \in Comandas \ {c} : comandas'[d] = comandas[d],
         Existe(c)', comandas'[c].mesa = comandas[c].mesa,
         UNCHANGED expuestas, tocadas \subseteq tocadas',
         EnPie(tx[p])',
         \A m \in Mesas \ comandas[c].mesa : mesas'[m] = mesas[m],
         tx'[p].op # "abrir", tx[p].op = "liberar" => tx[p].mesa = comandas[c].mesa,
         tx'[p].op = "liberar" => tx'[p].mesa = comandas[c].mesa,
         \A m \in comandas[c].mesa :
           m \in Mesas /\ m \notin tocadas' /\ c \notin expuestas /\ Tomada(m) => Tomada(m)'
  PROVE  InvMesas'
<1>1. ASSUME NEW m \in Mesas \ comandas[c].mesa, Tomada(m)
      PROVE  Tomada(m)'
  <2>1. OrdenesEn(m)' = OrdenesEn(m)
    BY <1>1 DEF OrdenesEn, EnCurso, Existe
  <2>2. Liberando(m)' = Liberando(m) /\ Abriendo(m)' \subseteq Abriendo(m)
    <3>1. \A q \in Procesos : tx'[q].op = "abrir" => tx'[q] = tx[q]
      OBVIOUS
    <3>2. \A q \in Procesos : tx'[q].op = "liberar" /\ m \in tx'[q].mesa => tx'[q] = tx[q]
      BY <1>1
    <3>3. \A q \in Procesos : tx[q].op = "liberar" /\ m \in tx[q].mesa => tx'[q] = tx[q]
      BY <1>1
    <3>4. Abriendo(m)' \subseteq Abriendo(m)
      BY <3>1 DEF Abriendo
    <3>5. Liberando(m)' = Liberando(m)
      BY <3>2, <3>3 DEF Liberando
    <3>6. QED
      BY <3>4, <3>5
  <2>3. QED
    BY <1>1, <2>1, <2>2, MesaNeutra
<1>2. ASSUME NEW m \in Mesas, Tranquila(m)', Tomada(m)
      PROVE  Tomada(m)'
  <2>1. CASE m \in comandas[c].mesa
    <3>1. m \notin tocadas' /\ c \notin expuestas
      BY <1>2, <2>1 DEF Tranquila
    <3>2. QED
      BY <1>2, <2>1, <3>1
  <2>2. QED
    BY <1>1, <1>2, <2>1
<1>3. \A q \in Procesos \ {p} : tx[q].op \in DeComanda =>
        \/ tx[q].comanda \in expuestas
        \/ comandas'[tx[q].comanda].estado = comandas[tx[q].comanda].estado
  <2>1. \A q \in Procesos : tx[q].op \in DeComanda => tx[q].comanda \in Comandas
    BY TxForma DEF TypeOK, DeComanda
  <2>2. \A q \in Procesos \ {p} : tx[q].op \in DeComanda /\ tx[q].comanda = c => c \in expuestas
    BY DEF Solo
  <2>3. QED
    BY <2>1, <2>2
<1>4. expuestas' \subseteq Comandas
  BY DEF TypeOK
<1>5. \A d \in Comandas : Existe(d) => Existe(d)' /\ comandas'[d].mesa = comandas[d].mesa
  BY DEF Existe
<1>6. \A d \in Comandas : ~(~Existe(d) /\ Existe(d)')
  BY DEF Existe
<1>7. QED
  BY <1>2, <1>3, <1>4, <1>5, <1>6, MesasSigue

\* Sending to the kitchen keeps the table; cancelling frees it.
LEMMA MesasEnviar ==
  ASSUME TypeOK, TypeOK', Solo, InvMesas, NEW p \in Procesos, EnviarAplicar(p) \/ CancelarAplicar(p)
  PROVE  InvMesas'
<1>0. PICK c \in Comandas : c = tx[p].comanda /\ Existe(c)
  BY TxForma DEF EnviarAplicar, CancelarAplicar, TypeOK
<1>1. /\ UNCHANGED expuestas /\ tocadas \subseteq tocadas'
      /\ tx'[p].op = "libre" /\ \A q \in Procesos \ {p} : tx'[q] = tx[q]
      /\ tx[p].op \in DeComanda /\ tx[p].op \notin {"abrir", "liberar"}
  BY DEF EnviarAplicar, CancelarAplicar, Terminar, TypeOK, historia, Libre, DeComanda
<1>2. PICK e \in {"EN_COCINA", "CANCELADA"} :
        /\ comandas' = [comandas EXCEPT ![c].estado = e]
        /\ tx[p].op = "enviar" => e = "EN_COCINA"
        /\ tx[p].op = "cancelar" => e = "CANCELADA"
  BY <1>0 DEF EnviarAplicar, CancelarAplicar
<1>3. comandas[c] \in Comanda
  BY <1>0 DEF TypeOK, Existe
<1>4. /\ comandas'[c].estado = e /\ comandas'[c].mesa = comandas[c].mesa
      /\ \A d \in Comandas \ {c} : comandas'[d] = comandas[d]
  BY <1>0, <1>2, <1>3 DEF Comanda, TypeOK
<1>5. Existe(c)'
  BY <1>4 DEF Existe, NoComanda
<1>6. EnPie(tx[p])'
  BY <1>1 DEF EnPie, ConMesa
<1>7. EnPie(tx[p]) /\ \A m \in comandas[c].mesa : comandas[c].mesa = {m}
  BY <1>0 DEF InvMesas
<1>8. CASE EnviarAplicar(p)
  <2>1. mesas' = mesas /\ tx[p].op = "enviar" /\ e = "EN_COCINA"
    BY <1>2, <1>8 DEF EnviarAplicar
  <2>2. c \notin expuestas => EnCurso(c)
    BY <1>0, <1>7, <2>1 DEF EnPie
  <2>3. EnCurso(c)'
    BY <1>4, <1>5, <2>1 DEF EnCurso
  <2>4. ASSUME NEW m \in Mesas, c \notin expuestas, Tomada(m)
        PROVE  Tomada(m)'
    <3>1. OrdenesEn(m)' = OrdenesEn(m)
      BY <1>4, <2>2, <2>3, <2>4 DEF OrdenesEn, EnCurso, Existe
    <3>2. Liberando(m)' = Liberando(m) /\ Abriendo(m)' \subseteq Abriendo(m)
      BY <1>1, SinAbrirNiLiberar
    <3>3. QED
      BY <2>1, <2>4, <3>1, <3>2, MesaNeutra
  <2>5. QED
    BY <1>0, <1>1, <1>4, <1>5, <1>6, <2>1, <2>4, MesasEstado
<1>9. CASE CancelarAplicar(p)
  <2>1. tx[p].op = "cancelar" /\ e = "CANCELADA" /\ tx[p].mesa = comandas[c].mesa
    BY <1>0, <1>2, <1>7, <1>9 DEF CancelarAplicar, EnPie, ConMesa
  <2>2. /\ \A m \in Mesas \ comandas[c].mesa : mesas'[m] = mesas[m]
        /\ \A m \in Mesas : m \in comandas[c].mesa => mesas'[m] = "LIBRE"
        /\ comandas[c].estado = "CANCELADA" => comandas[c].mesa \subseteq tocadas'
    BY <1>0, <1>9, <2>1 DEF CancelarAplicar
  <2>3. c \notin expuestas => comandas[c].estado # "CERRADA"
    BY <1>0, <1>7, <2>1 DEF EnPie
  <2>4. ASSUME NEW m \in Mesas, m \in comandas[c].mesa, m \notin tocadas', c \notin expuestas, Tomada(m)
        PROVE  Tomada(m)'
    <3>1. c \in OrdenesEn(m)
      BY <1>0, <1>7, <2>2, <2>3, <2>4 DEF OrdenesEn, EnCurso
    <3>2. OrdenesEn(m) = {c} /\ Liberando(m) = {} /\ mesas[m] = "OCUPADA" /\ Abriendo(m) = {}
      BY <2>4, <3>1 DEF Tomada
    <3>3. OrdenesEn(m)' = {}
      <4>1. \A d \in Comandas \ {c} : d \notin OrdenesEn(m)
        BY <3>2
      <4>2. QED
        BY <1>4, <2>1, <4>1 DEF OrdenesEn, EnCurso, Existe
    <3>4. Liberando(m)' = {} /\ Abriendo(m)' = {}
      <4>1. Liberando(m)' = Liberando(m) /\ Abriendo(m)' \subseteq Abriendo(m)
        BY <1>1, SinAbrirNiLiberar
      <4>2. QED
        BY <3>2, <4>1
    <3>5. QED
      BY <2>2, <2>4, <3>3, <3>4 DEF Tomada
  <2>5. QED
    BY <1>0, <1>1, <1>4, <1>5, <1>6, <2>2, <2>4, MesasEstado
<1>10. QED
  BY <1>8, <1>9

\* Closing the order leaves its table to the last transaction of the charge, or frees it.
LEMMA MesasCerrar ==
  ASSUME TypeOK, TypeOK', Solo, InvMesas, NEW p \in Procesos, CobrarCerrar(p)
  PROVE  InvMesas'
<1>0. PICK c \in Comandas : c = tx[p].comanda /\ Existe(c)
  BY TxForma DEF CobrarCerrar, TypeOK
<1>1. /\ UNCHANGED <<expuestas, tocadas, mesas>>
      /\ tx[p].op = "cobrada" /\ tx[p].op \in DeComanda
      /\ \A q \in Procesos \ {p} : tx'[q] = tx[q]
  BY DEF CobrarCerrar, Empezar, TypeOK, historia, DeComanda
<1>2. comandas[c] \in Comanda
  BY <1>0 DEF TypeOK, Existe
<1>3. /\ comandas'[c].estado = IF tx[p].todos THEN "CERRADA" ELSE "POR_PAGAR"
      /\ comandas'[c].mesa = comandas[c].mesa
      /\ \A d \in Comandas \ {c} : comandas'[d] = comandas[d]
  BY <1>0, <1>2 DEF CobrarCerrar, Comanda, TypeOK
<1>4. Existe(c)'
  BY <1>3 DEF Existe, NoComanda
<1>5. EnPie(tx[p]) /\ \A m \in comandas[c].mesa : comandas[c].mesa = {m}
  BY <1>0 DEF InvMesas
<1>6. tx[p].mesa = comandas[c].mesa /\ (c \notin expuestas => EnCurso(c))
  BY <1>0, <1>1, <1>5 DEF EnPie, ConMesa
<1>7. IF tx[p].todos /\ tx[p].mesa # {}
        THEN tx'[p].op = "liberar" /\ tx'[p].comanda = c /\ tx'[p].mesa = comandas[c].mesa
        ELSE tx'[p].op = "libre"
  BY <1>0, <1>6 DEF CobrarCerrar, Empezar, TypeOK, Libre
<1>8. EnPie(tx[p])'
  BY <1>0, <1>3, <1>7 DEF EnPie, ConMesa
<1>9. ASSUME NEW m \in Mesas, m \in comandas[c].mesa, c \notin expuestas, Tomada(m)
      PROVE  Tomada(m)'
  <2>1. c \in OrdenesEn(m)
    BY <1>0, <1>5, <1>6, <1>9 DEF OrdenesEn
  <2>2. OrdenesEn(m) = {c} /\ Liberando(m) = {} /\ mesas[m] = "OCUPADA" /\ Abriendo(m) = {}
    BY <1>9, <2>1 DEF Tomada
  <2>3. CASE tx[p].todos
    <3>1. tx'[p].op = "liberar" /\ m \in tx'[p].mesa
      BY <1>6, <1>7, <1>9, <2>3
    <3>2. OrdenesEn(m)' = {}
      <4>1. \A d \in Comandas \ {c} : d \notin OrdenesEn(m)
        BY <2>2
      <4>2. QED
        BY <1>3, <2>3, <4>1 DEF OrdenesEn, EnCurso, Existe
    <3>3. Liberando(m)' = {p} /\ Abriendo(m)' = {}
      BY <1>1, <2>2, <3>1 DEF Liberando, Abriendo
    <3>4. mesas'[m] = "OCUPADA"
      BY <1>1, <2>2
    <3>5. QED
      BY <3>2, <3>3, <3>4 DEF Tomada
  <2>4. CASE ~tx[p].todos
    <3>1. OrdenesEn(m)' = OrdenesEn(m)
      BY <1>0, <1>3, <1>4, <1>6, <1>9, <2>4 DEF OrdenesEn, EnCurso, Existe
    <3>2. Liberando(m)' = Liberando(m) /\ Abriendo(m)' \subseteq Abriendo(m)
      BY <1>1, <1>7, <2>4, SinAbrirNiLiberar
    <3>3. QED
      BY <1>1, <1>9, <3>1, <3>2, MesaNeutra
  <2>5. QED
    BY <2>3, <2>4
<1>10. QED
  BY <1>0, <1>1, <1>3, <1>4, <1>7, <1>8, <1>9, MesasEstado

\* Freeing the table, or ending before the next transaction.
LEMMA MesasFinal ==
  ASSUME TypeOK, TypeOK', Solo, InvMesas, NEW p \in Procesos, CobrarLiberar(p) \/ Abortar(p)
  PROVE  InvMesas'
<1>1. /\ UNCHANGED comandas /\ expuestas \subseteq expuestas' /\ tocadas \subseteq tocadas'
      /\ tx'[p].op = "libre" /\ \A q \in Procesos \ {p} : tx'[q] = tx[q]
  BY DEF CobrarLiberar, Abortar, Terminar, TypeOK, historia, Libre
<1>2. \A m \in Mesas : OrdenesEn(m)' = OrdenesEn(m)
  BY <1>1 DEF OrdenesEn, EnCurso, Existe
<1>3. EnPie(tx[p])'
  BY <1>1 DEF EnPie, ConMesa
<1>4. \A d \in Comandas : Existe(d)' <=> Existe(d)
  BY <1>1 DEF Existe
<1>5. CASE CobrarLiberar(p)
  <2>0. PICK c \in Comandas : c = tx[p].comanda /\ Existe(c)
    BY <1>5, TxForma DEF CobrarLiberar, TypeOK
  <2>1. /\ tx[p].op = "liberar" /\ tx[p].op \in DeComanda /\ expuestas' = expuestas
    BY <1>5 DEF CobrarLiberar, historia, DeComanda
  <2>2. tx[p].mesa = comandas[c].mesa
    BY <2>0, <2>1 DEF InvMesas, EnPie, ConMesa
  <2>3. /\ \A m \in Mesas \ comandas[c].mesa : mesas'[m] = mesas[m]
        /\ \A m \in Mesas : m \in comandas[c].mesa => mesas'[m] = "LIBRE"
    BY <1>5, <2>2 DEF CobrarLiberar
  <2>4. ASSUME NEW m \in Mesas, m \in comandas[c].mesa, Tomada(m)
        PROVE  Tomada(m)'
    <3>1. p \in Liberando(m)
      BY <2>1, <2>2, <2>4 DEF Liberando
    <3>2. OrdenesEn(m) = {} /\ Liberando(m) = {p} /\ Abriendo(m) = {}
      BY <2>4, <3>1 DEF Tomada
    <3>3. Liberando(m)' = {} /\ Abriendo(m)' = {}
      BY <1>1, <3>2 DEF Liberando, Abriendo
    <3>4. QED
      BY <1>2, <2>3, <2>4, <3>2, <3>3 DEF Tomada
  <2>5. QED
    BY <1>1, <1>3, <1>4, <2>0, <2>1, <2>2, <2>3, <2>4, MesasEstado
<1>6. CASE Abortar(p)
  <2>1. /\ mesas' = mesas
        /\ tx[p].op = "liberar" => tx[p].mesa \subseteq tocadas'
        /\ \A c \in expuestas' : c \in expuestas \/ (tx[p].op = "cobrada" /\ c = tx[p].comanda)
    BY <1>6 DEF Abortar
  <2>2. \A c \in expuestas' : c \in Comandas /\ (c \in expuestas \/ Existe(c))
    BY <2>1 DEF TypeOK
  <2>3. ASSUME NEW m \in Mesas, Tranquila(m)', Tomada(m)
        PROVE  Tomada(m)'
    <3>1. tx[p].op = "liberar" => m \notin tx[p].mesa
      BY <2>1, <2>3 DEF Tranquila
    <3>2. Liberando(m)' = Liberando(m) /\ Abriendo(m)' \subseteq Abriendo(m)
      BY <1>1, <3>1, SinAbrirNiLiberar
    <3>3. QED
      BY <1>2, <2>1, <2>3, <3>2, MesaNeutra
  <2>4. QED
    BY <1>1, <1>3, <1>4, <2>2, <2>3, MesasSigue
<1>7. QED
  BY <1>5, <1>6

\* Writing the items of an order, and its sale.
LEMMA MesasResto ==
  ASSUME TypeOK, TypeOK', InvMesas, NEW p \in Procesos,
         AgregarAplicar(p) \/ QuitarAplicar(p) \/ \E v \in Ventas : CobrarVender(p, v)
  PROVE  InvMesas'
<1>0. PICK c \in Comandas : c = tx[p].comanda /\ Existe(c)
  BY TxForma DEF AgregarAplicar, QuitarAplicar, CobrarVender, TypeOK
<1>1. CASE AgregarAplicar(p) \/ QuitarAplicar(p)
  <2>1. /\ UNCHANGED <<mesas, tocadas, expuestas>>
        /\ tx'[p].op = "libre" /\ \A q \in Procesos \ {p} : tx'[q] = tx[q]
        /\ tx[p].op # "liberar"
        /\ comandas' = [comandas EXCEPT ![c].total = tx[p].total]
    BY <1>0, <1>1 DEF AgregarAplicar, QuitarAplicar, Terminar, TypeOK, historia, Libre
  <2>2. comandas[c] \in Comanda
    BY <1>0 DEF TypeOK, Existe
  <2>3. /\ \A d \in Comandas \ {c} : comandas'[d] = comandas[d]
        /\ comandas'[c].estado = comandas[c].estado /\ comandas'[c].mesa = comandas[c].mesa
        /\ comandas'[c].estado # "AUSENTE"
    BY <1>0, <2>1, <2>2 DEF Comanda, EstadosComanda, TypeOK
  <2>4. Existe(c)'
    BY <2>3 DEF Existe, NoComanda
  <2>5. \A d \in Comandas : /\ comandas'[d].estado = comandas[d].estado
                            /\ comandas'[d].mesa = comandas[d].mesa
                            /\ Existe(d)' <=> Existe(d)
    BY <1>0, <2>3, <2>4 DEF Existe
  <2>6. EnPie(tx[p])'
    BY <2>1 DEF EnPie, ConMesa
  <2>7. QED
    BY <2>1, <2>5, <2>6, MesasTx
<1>2. ASSUME NEW v \in Ventas, CobrarVender(p, v)
      PROVE  InvMesas'
  <2>1. PICK t : t = [op |-> "cobrada", comanda |-> c, mesa |-> tx[p].mesa, venta |-> v,
                      todos |-> tx[p].todos]
    OBVIOUS
  <2>2. /\ UNCHANGED <<mesas, tocadas, expuestas, comandas>>
        /\ tx'[p] = t /\ \A q \in Procesos \ {p} : tx'[q] = tx[q]
        /\ tx[p].op = "cobrar"
    BY <1>0, <1>2, <2>1 DEF CobrarVender, Empezar, TypeOK, historia
  <2>3. t.op = "cobrada" /\ t.comanda = c /\ t.mesa = tx[p].mesa
    BY <2>1
  <2>4. tx[p].mesa = comandas[c].mesa /\ (c \notin expuestas => EnCurso(c))
    BY <1>0, <2>2 DEF InvMesas, EnPie, ConMesa
  <2>5. EnPie(tx[p])'
    BY <2>2, <2>3, <2>4 DEF EnPie, EnCurso, Existe
  <2>6. \A d \in Comandas : Existe(d)' <=> Existe(d)
    BY <2>2 DEF Existe
  <2>7. QED
    BY <2>2, <2>3, <2>5, <2>6, MesasTx
<1>3. QED
  BY <1>1, <1>2

\* A table that nothing crossed is OCUPADA exactly while one order has it, or the charge of
\* its last order is about to free it.
THEOREM MesaConOrden == Spec => []MesaTomada
<1>1. Init => Inv /\ InvMesas
  BY Inicial, InicialMesas
<1>2. Inv /\ InvMesas /\ [Next]_vars => Inv' /\ InvMesas'
  <2>1. SUFFICES ASSUME Inv, InvMesas, [Next]_vars
                 PROVE  Inv' /\ InvMesas'
    OBVIOUS
  <2>2. Inv' /\ TypeOK /\ TypeOK' /\ Solo
    BY <2>1, Paso DEF Inv
  <2>3. ASSUME NEW p \in Procesos, Pedido(p)
        PROVE  InvMesas'
    BY <2>1, <2>2, <2>3, MesasAbrir, MesasLeer, MesasResto, MesasEnviar DEF Pedido
  <2>4. ASSUME NEW p \in Procesos, Cobro(p) \/ Abortar(p)
        PROVE  InvMesas'
    BY <2>1, <2>2, <2>4, MesasLeer, MesasResto, MesasCerrar, MesasFinal DEF Cobro
  <2>5. QED
    BY <2>1, <2>2, <2>3, <2>4, MesasSalon DEF Next
<1>3. InvMesas => MesaTomada
  <2>1. SUFFICES ASSUME InvMesas, NEW m \in Mesas \ tocadas, \A c \in expuestas : m \notin comandas[c].mesa
                 PROVE  /\ \A c, d \in OrdenesEn(m) : c = d
                        /\ mesas[m] = "OCUPADA" <=>
                             \/ OrdenesEn(m) # {}
                             \/ \E p \in Procesos : tx[p].op = "liberar" /\ m \in tx[p].mesa
    BY DEF MesaTomada
  <2>2. Tomada(m)
    BY <2>1 DEF InvMesas, Tranquila
  <2>3. Liberando(m) # {} <=> \E p \in Procesos : tx[p].op = "liberar" /\ m \in tx[p].mesa
    BY DEF Liberando
  <2>4. QED
    BY <2>2, <2>3 DEF Tomada
<1>4. QED
  BY <1>1, <1>2, <1>3, PTL DEF Spec
=============================================================================

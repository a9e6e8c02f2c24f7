-------------------------- MODULE MostradorProofs --------------------------
(***************************************************************************)
(* Theorems of the two modules of the till.                                *)
(*                                                                         *)
(* Pagos, for any keys, sales, charges and requests in flight: Inv follows *)
(* each charge through the request or the webhook that holds it.           *)
(*                                                                         *)
(* Precios, for any promotions, prices and carts: InvPre says that what    *)
(* the till was told of a cart is a choice among the promotions that are   *)
(* loaded, until one of them changes; VentaFiel relates the totals of a    *)
(* sale to its lines, and LineaOK the two roundings of a line.             *)
(***************************************************************************)
EXTENDS Pagos, Precios, Sumas, TLAPS

-----------------------------------------------------------------------------
(* What a process holds *)

\* Request p is charging.
EnIntento(p) == tx[p].op \in {"intento", "cobrado"}
EnAviso(p) == tx[p].op \in {"aviso", "tomado"}

\* What a request or a webhook in flight keeps, by its step.
LEMMA TxForma ==
  ASSUME NEW x \in Tx
  PROVE  /\ x.op \in {"libre", "intento", "cobrado", "aviso", "tomado"}
         /\ x.op \in {"intento", "cobrado"} => x.clave \in Claves /\ x.venta \in AlMasUno(Ventas)
         /\ x.op = "cobrado" => /\ x.estado \in Estados /\ x.cargo \in AlMasUno(Cargos)
                                /\ x.pagar \in BOOLEAN
         /\ x.op \in {"aviso", "tomado"} => x.cargo \in Cargos /\ x.tipo \in Avisos
         /\ x.op = "tomado" => x.claves \in AlMasUno(Claves) /\ x.pagar \in BOOLEAN
         /\ x = Libre <=> x.op = "libre"
  BY DEF Tx, Libre

\* Existing intents and charges have all their columns.
LEMMA FilasForma ==
  /\ \A i \in Intento : i # NoIntento /\ i.cargo \in AlMasUno(Cargos) /\ i.venta \in AlMasUno(Ventas)
                        /\ i.estado \in Estados
  /\ \A c \in Cargo : c # NoCargo /\ c.estado \in Estados /\ c.clave \in Claves
  BY DEF Intento, NoIntento, Cargo, NoCargo

\* A set of at most one element.
LEMMA AlMasUnoForma ==
  ASSUME NEW S, NEW T \in AlMasUno(S)
  PROVE  T \subseteq S /\ \A x, y \in T : x = y
  BY DEF AlMasUno

\* The rows of a charge, of its intent and of the requests about it agree; a key in
\* flight is of one request and has no intent yet.
CargosOK ==
  /\ \A k \in Claves, c \in Cargos : intentos[k] # NoIntento /\ c \in intentos[k].cargo =>
       cargos[c] # NoCargo /\ cargos[c].clave = k
  /\ \A p \in Procesos : EnIntento(p) =>
       /\ intentos[tx[p].clave] = NoIntento
       /\ \A q \in Procesos \ {p} : EnIntento(q) => tx[q].clave # tx[p].clave
  /\ \A p \in Procesos, c \in Cargos : tx[p].op = "cobrado" /\ c \in tx[p].cargo =>
       cargos[c] = [estado |-> tx[p].estado, clave |-> tx[p].clave]
  /\ \A p \in Procesos : EnAviso(p) =>
       cargos[tx[p].cargo] # NoCargo /\ tx[p].tipo \in AvisosDe(tx[p].cargo)
  /\ \A p \in Procesos : tx[p].op = "tomado" => tx[p].claves \subseteq De(tx[p].cargo)

\* Charge c of key k is a capture, or a notice that the code reads as one was processed.
Respaldo(c, k) ==
  cargos[c].clave = k /\ (cargos[c].estado = "CAPTURADA" \/ <<c, "impreciso">> \in procesados)

\* A payment, and a request about to record one, has its capture.
PagosOK ==
  /\ \A k \in pagados :
       intentos[k] # NoIntento /\ \E c \in intentos[k].cargo : Respaldo(c, k)
  /\ \A p \in Procesos : tx[p].op = "cobrado" /\ tx[p].pagar =>
       tx[p].estado = "CAPTURADA" /\ tx[p].cargo # {}
  /\ \A p \in Procesos : tx[p].op = "tomado" /\ tx[p].pagar =>
       tx[p].claves # {} /\ Clasificar(tx[p].tipo) = "CAPTURADA"

\* The payment of a sale is missing only while a request in flight will record it.
FaltaPagar(k, estado, deVenta) ==
  k \notin tardias /\ estado = "CAPTURADA" /\ deVenta # {} /\ deVenta \subseteq ventas

\* A captured intent with a sale has its payment, or whoever is about to store it will pay.
ConciliaOK ==
  /\ \A k \in Claves : intentos[k] # NoIntento
                       /\ FaltaPagar(k, intentos[k].estado, intentos[k].venta) => k \in pagados
  /\ \A p \in Procesos : tx[p].op = "cobrado"
                         /\ FaltaPagar(tx[p].clave, tx[p].estado, tx[p].venta) => tx[p].pagar
  /\ \A p \in Procesos : tx[p].op = "tomado" => \A k \in tx[p].claves :
       FaltaPagar(k, Clasificar(tx[p].tipo), intentos[k].venta) => k \in pagados \/ tx[p].pagar

Inv == TypeOK /\ CargosOK /\ PagosOK /\ CargoConocido /\ ConciliaOK

-----------------------------------------------------------------------------
\* No intents, charges or webhooks at the start.
LEMMA InvInicial == Init => Inv
<1> SUFFICES ASSUME Init
             PROVE  Inv
  OBVIOUS
<1>1. TypeOK
  BY DEF Init, TypeOK, Tx
<1>2. \A p \in Procesos : tx[p].op = "libre"
  BY DEF Init, Libre
<1>3. CargosOK /\ PagosOK
  BY <1>2 DEF Init, CargosOK, PagosOK, EnIntento, EnAviso
<1>4. CargoConocido
  BY DEF Init, CargoConocido, NoCargo
<1>5. ConciliaOK
  BY <1>2 DEF Init, ConciliaOK
<1>6. QED
  BY <1>1, <1>3, <1>4, <1>5 DEF Inv

-----------------------------------------------------------------------------
(* Merchants and sales *)

\* Registering the account changes nothing a charge depends on.
LEMMA InvQuieto ==
  ASSUME Inv, UNCHANGED <<ventas, intentos, pagados, procesados, cargos, tx, perdidos, tardias>>,
         cuenta' \in BOOLEAN
  PROVE  Inv'
<1>1. TypeOK'
  BY DEF Inv, TypeOK
<1>2. CargosOK' /\ PagosOK'
  BY DEF Inv, CargosOK, PagosOK, Respaldo, EnIntento, EnAviso, AvisosDe, De
<1>3. CargoConocido' /\ ConciliaOK'
  BY DEF Inv, CargoConocido, ConciliaOK, FaltaPagar
<1>4. QED
  BY <1>1, <1>2, <1>3 DEF Inv

\* A new sale has no payments.
LEMMA InvCrearVenta ==
  ASSUME Inv, NEW v \in Ventas, CrearVenta(v)
  PROVE  Inv'
<1>1. TypeOK'
  <2>1. \A p \in Procesos : tx[p].op = "cobrado" => tx[p].clave \in Claves
    BY TxForma DEF Inv, TypeOK
  <2>2. SinPagar(v) \subseteq Claves
    BY <2>1 DEF SinPagar
  <2>3. QED
    BY <2>2 DEF CrearVenta, Inv, TypeOK
<1>2. CargosOK' /\ PagosOK' /\ CargoConocido'
  BY DEF CrearVenta, Inv, CargosOK, PagosOK, Respaldo, CargoConocido, EnIntento, EnAviso, AvisosDe, De
<1>3. ASSUME NEW k \in Claves, intentos[k] # NoIntento,
             FaltaPagar(k, intentos[k].estado, intentos[k].venta)'
      PROVE  k \in pagados
  <2>1. intentos[k].venta \in AlMasUno(Ventas)
    BY <1>3, FilasForma DEF Inv, TypeOK
  <2>2. k \notin SinPagar(v)
    BY <1>3 DEF FaltaPagar, CrearVenta
  <2>3. intentos' = intentos
    BY DEF CrearVenta
  <2>4. CASE intentos[k].venta = {v}
    BY <1>3, <2>2, <2>4 DEF SinPagar
  <2>5. CASE intentos[k].venta # {v}
    <3>1. FaltaPagar(k, intentos[k].estado, intentos[k].venta)
      BY <1>3, <2>1, <2>2, <2>3, <2>5 DEF FaltaPagar, AlMasUno, CrearVenta
    <3>2. QED
      BY <1>3, <3>1 DEF Inv, ConciliaOK
  <2>6. QED
    BY <2>4, <2>5
<1>4. ASSUME NEW p \in Procesos, tx[p].op = "cobrado",
             FaltaPagar(tx[p].clave, tx[p].estado, tx[p].venta)'
      PROVE  tx[p].pagar
  <2>1. tx[p].venta \in AlMasUno(Ventas) /\ tx[p].clave \in Claves
    BY <1>4, TxForma DEF Inv, TypeOK
  <2>2. tx[p].clave \notin SinPagar(v) /\ tx' = tx
    BY <1>4 DEF FaltaPagar, CrearVenta
  <2>3. tx[p].venta # {v}
    BY <1>4, <2>2 DEF SinPagar
  <2>4. FaltaPagar(tx[p].clave, tx[p].estado, tx[p].venta)
    BY <1>4, <2>1, <2>2, <2>3 DEF FaltaPagar, AlMasUno, CrearVenta
  <2>5. QED
    BY <1>4, <2>4 DEF Inv, ConciliaOK
<1>5. ASSUME NEW p \in Procesos, tx[p].op = "tomado", NEW k \in tx[p].claves,
             FaltaPagar(k, Clasificar(tx[p].tipo), intentos[k].venta)'
      PROVE  k \in pagados \/ tx[p].pagar
  <2>1. k \in Claves /\ intentos[k] # NoIntento
    BY <1>5 DEF Inv, CargosOK, De
  <2>2. intentos[k].venta \in AlMasUno(Ventas)
    BY <2>1, FilasForma DEF Inv, TypeOK
  <2>3. k \notin SinPagar(v) /\ intentos' = intentos /\ tx' = tx
    BY <1>5 DEF FaltaPagar, CrearVenta
  <2>4. CASE intentos[k].venta = {v}
    BY <2>1, <2>3, <2>4 DEF SinPagar
  <2>5. CASE intentos[k].venta # {v}
    <3>1. FaltaPagar(k, Clasificar(tx[p].tipo), intentos[k].venta)
      BY <1>5, <2>2, <2>3, <2>5 DEF FaltaPagar, AlMasUno, CrearVenta, Clasificar
    <3>2. QED
      BY <1>5, <3>1 DEF Inv, ConciliaOK
  <2>6. QED
    BY <2>4, <2>5
<1>6. ConciliaOK'
  BY <1>3, <1>4, <1>5 DEF ConciliaOK, CrearVenta
<1>7. QED
  BY <1>1, <1>2, <1>6 DEF Inv

-----------------------------------------------------------------------------
(* Intents *)

\* A request that found no intent of its key holds no charge yet.
LEMMA InvIntentoLeer ==
  ASSUME Inv, NEW p \in Procesos, NEW k \in Claves, NEW deVenta \in AlMasUno(Ventas),
         IntentoLeer(p, k, deVenta)
  PROVE  Inv'
<1> DEFINE t == [op |-> "intento", clave |-> k, venta |-> deVenta]
<1>1. tx'[p] = t /\ \A q \in Procesos \ {p} : tx'[q] = tx[q]
  BY DEF IntentoLeer, Inv, TypeOK
<1>2. TypeOK'
  <2>1. t \in Tx
    BY DEF Tx
  <2>2. QED
    BY <2>1 DEF IntentoLeer, Inv, TypeOK
<1>3. tx[p].op = "libre"
  BY DEF IntentoLeer, Libre
<1>4. CargosOK'
  BY <1>1, <1>3 DEF IntentoLeer, Inv, CargosOK, EnIntento, EnAviso, AvisosDe, De
<1>5. PagosOK'
  BY <1>1 DEF IntentoLeer, Inv, PagosOK, Respaldo
<1>6. CargoConocido'
  BY <1>1, <1>3 DEF IntentoLeer, Inv, CargoConocido
<1>7. ConciliaOK'
  BY <1>1 DEF IntentoLeer, Inv, ConciliaOK, FaltaPagar
<1>8. QED
  BY <1>2, <1>4, <1>5, <1>6, <1>7 DEF Inv

\* The acquirer captures: the charge is held by the request that asked for it.
LEMMA InvCobrar ==
  ASSUME Inv, NEW p \in Procesos, NEW c \in Cargos, NEW estado \in Estados, Cobrar(p, c, estado)
  PROVE  Inv'
<1> DEFINE t == [op |-> "cobrado", clave |-> tx[p].clave, venta |-> tx[p].venta,
                 estado |-> estado, cargo |-> {c},
                 pagar |-> estado = "CAPTURADA" /\ tx[p].venta # {} /\ tx[p].venta \subseteq ventas]
<1>1. tx'[p] = t /\ \A q \in Procesos \ {p} : tx'[q] = tx[q]
  BY DEF Cobrar, Inv, TypeOK
<1>2. tx[p].op = "intento" /\ tx[p].clave \in Claves /\ tx[p].venta \in AlMasUno(Ventas)
  BY TxForma DEF Cobrar, Inv, TypeOK
<1>3. TypeOK'
  <2>1. t \in Tx
    BY <1>2 DEF Tx, AlMasUno
  <2>2. [estado |-> estado, clave |-> tx[p].clave] \in Cargo
    BY <1>2 DEF Cargo
  <2> HIDE DEF t
  <2>3. tx' \in [Procesos -> Tx]
    BY <1>1, <2>1 DEF Cobrar, Inv, TypeOK
  <2>4. cargos' \in [Cargos -> Cargo \cup {NoCargo}] /\ \A d \in Cargos : cargos[d] # NoCargo => cargos'[d] # NoCargo
    BY <2>2, FilasForma DEF Cobrar, Inv, TypeOK
  <2>5. QED
    BY <2>3, <2>4 DEF Cobrar, Inv, TypeOK
<1>4. /\ cargos[c] = NoCargo /\ cargos'[c] = [estado |-> estado, clave |-> tx[p].clave]
      /\ \A d \in Cargos \ {c} : cargos'[d] = cargos[d]
  BY DEF Cobrar, Inv, TypeOK
<1>5. cargos'[c] # NoCargo
  BY <1>4 DEF NoCargo
<1>6. CargosOK'
  <2>1. \A k \in Claves, d \in Cargos : intentos[k] # NoIntento /\ d \in intentos[k].cargo =>
          cargos'[d] # NoCargo /\ cargos'[d].clave = k
    BY <1>4 DEF Inv, CargosOK
  <2>2. \A q \in Procesos : EnIntento(q)' =>
          /\ EnIntento(q) /\ tx'[q].clave = tx[q].clave
    BY <1>1, <1>2 DEF EnIntento
  <2>3. \A q \in Procesos, d \in Cargos : tx'[q].op = "cobrado" /\ d \in tx'[q].cargo =>
          cargos'[d] = [estado |-> tx'[q].estado, clave |-> tx'[q].clave]
    <3>1. ASSUME NEW q \in Procesos \ {p}, NEW d \in Cargos, tx[q].op = "cobrado", d \in tx[q].cargo
          PROVE  cargos'[d] = cargos[d]
      <4>1. cargos[d] = [estado |-> tx[q].estado, clave |-> tx[q].clave]
        BY <3>1 DEF Inv, CargosOK
      <4>2. tx[q].estado \in Estados
        BY <3>1, TxForma DEF Inv, TypeOK
      <4>3. d # c
        BY <1>4, <4>1, <4>2 DEF NoCargo, Estados
      <4>4. QED
        BY <1>4, <4>3
    <3>2. QED
      BY <1>1, <1>4, <3>1 DEF Inv, CargosOK
  <2>4. \A q \in Procesos : EnAviso(q)' => /\ EnAviso(q) /\ tx'[q] = tx[q]
                                           /\ cargos'[tx[q].cargo] = cargos[tx[q].cargo]
    <3>1. ASSUME NEW q \in Procesos, EnAviso(q)
          PROVE  tx[q].cargo \in Cargos /\ cargos[tx[q].cargo] # NoCargo
      BY <3>1, TxForma DEF Inv, CargosOK, TypeOK, EnAviso
    <3>2. \A q \in Procesos : EnAviso(q)' => EnAviso(q) /\ tx'[q] = tx[q]
      BY <1>1 DEF EnAviso
    <3>3. QED
      BY <1>4, <3>1, <3>2
  <2>5. intentos' = intentos
    BY DEF Cobrar
  <2>6. \A q \in Procesos : tx'[q].op = "tomado" => tx'[q] = tx[q]
    BY <1>1
  <2> HIDE DEF t
  <2>7. QED
    BY <2>1, <2>2, <2>3, <2>4, <2>5, <2>6 DEF Inv, CargosOK, AvisosDe, De
<1>7. PagosOK'
  <2>1. \A k \in pagados : \E d \in intentos[k].cargo : Respaldo(d, k)'
    <3>1. SUFFICES ASSUME NEW k \in pagados
                   PROVE  \E d \in intentos[k].cargo : Respaldo(d, k)'
      OBVIOUS
    <3>2. PICK d \in intentos[k].cargo : Respaldo(d, k)
      BY DEF Inv, PagosOK
    <3>3. k \in Claves /\ intentos[k] \in Intento
      BY DEF Inv, TypeOK, PagosOK
    <3>4. d \in Cargos /\ cargos[d] # NoCargo
      BY <3>2, <3>3, FilasForma, AlMasUnoForma DEF Inv, CargosOK, NoIntento
    <3>5. d # c /\ procesados' = procesados
      BY <1>4, <3>4 DEF Cobrar
    <3>6. QED
      BY <1>4, <3>2, <3>4, <3>5 DEF Respaldo
  <2>2. \A q \in Procesos : tx'[q].op = "cobrado" /\ tx'[q].pagar =>
          tx'[q].estado = "CAPTURADA" /\ tx'[q].cargo # {}
    <3>1. t.pagar => t.estado = "CAPTURADA" /\ t.cargo # {}
      BY Zenon
    <3> HIDE DEF t
    <3>2. QED
      BY <1>1, <3>1 DEF Inv, PagosOK
  <2>3. \A q \in Procesos : tx'[q].op = "tomado" => tx'[q] = tx[q]
    BY <1>1
  <2> HIDE DEF t
  <2>4. pagados' = pagados /\ intentos' = intentos
    BY DEF Cobrar
  <2>5. QED
    BY <2>1, <2>2, <2>3, <2>4 DEF Inv, PagosOK
<1>8. CargoConocido'
  <2>1. intentos[tx[p].clave] = NoIntento
    BY <1>2 DEF Inv, CargosOK, EnIntento
  <2>2. ASSUME NEW d \in Cargos \ {c}, d \notin perdidos, cargos[d].estado = "CAPTURADA",
               intentos[cargos[d].clave] = NoIntento
        PROVE  \E q \in Procesos \ {p} : tx[q].op = "cobrado" /\ tx[q].cargo = {d}
    BY <1>2, <2>2 DEF Inv, CargoConocido
  <2>3. t.op = "cobrado" /\ t.cargo = {c}
    OBVIOUS
  <2>4. intentos' = intentos /\ perdidos' = perdidos
    BY DEF Cobrar
  <2>5. \A d \in Cargos \ {c} : d \notin perdidos /\ cargos[d].estado = "CAPTURADA"
          /\ intentos[cargos[d].clave] # NoIntento => d \in intentos[cargos[d].clave].cargo
    BY DEF Inv, CargoConocido
  <2> HIDE DEF t
  <2>6. QED
    BY <1>1, <1>4, <2>1, <2>2, <2>3, <2>4, <2>5 DEF CargoConocido
<1>9. ConciliaOK'
  <2>1. FaltaPagar(t.clave, t.estado, t.venta) => t.pagar
    BY DEF FaltaPagar
  <2>2. UNCHANGED <<ventas, tardias, intentos, pagados>>
    BY DEF Cobrar
  <2>3. t.op = "cobrado"
    OBVIOUS
  <2> HIDE DEF t
  <2>4. QED
    BY <1>1, <2>1, <2>2, <2>3 DEF Inv, ConciliaOK, FaltaPagar
<1>10. QED
  BY <1>3, <1>6, <1>7, <1>8, <1>9 DEF Inv

\* A declined charge captures nothing.
LEMMA InvRechazar ==
  ASSUME Inv, NEW p \in Procesos, Rechazar(p)
  PROVE  Inv'
<1> DEFINE t == [op |-> "cobrado", clave |-> tx[p].clave, venta |-> tx[p].venta,
                 estado |-> "FALLIDA", cargo |-> {}, pagar |-> FALSE]
<1>1. tx'[p] = t /\ \A q \in Procesos \ {p} : tx'[q] = tx[q]
  BY DEF Rechazar, Inv, TypeOK
<1>2. tx[p].op = "intento" /\ tx[p].clave \in Claves /\ tx[p].venta \in AlMasUno(Ventas)
  BY TxForma DEF Rechazar, Inv, TypeOK
<1>3. /\ t.op = "cobrado" /\ t.clave = tx[p].clave /\ t.estado = "FALLIDA" /\ t.cargo = {}
      /\ t.pagar = FALSE
  OBVIOUS
<1>4. TypeOK'
  <2>1. t \in Tx
    BY <1>2 DEF Tx, AlMasUno, Estados
  <2> HIDE DEF t
  <2>2. QED
    BY <1>1, <2>1 DEF Rechazar, Inv, TypeOK
<1> HIDE DEF t
<1>5. UNCHANGED <<ventas, intentos, pagados, procesados, cargos, perdidos, tardias>>
  BY DEF Rechazar
<1>6. CargosOK'
  BY <1>1, <1>2, <1>3, <1>5 DEF Inv, CargosOK, EnIntento, EnAviso, AvisosDe, De
<1>7. PagosOK'
  <2>1. \A c \in Cargos, k \in Claves : Respaldo(c, k)' <=> Respaldo(c, k)
    BY <1>5 DEF Respaldo
  <2>2. \A q \in Procesos : q # p => tx'[q] = tx[q]
    BY <1>1
  <2>3. tx'[p].op = "cobrado" /\ tx'[p].pagar = FALSE
    BY <1>1, <1>3
  <2>4. PagosOK
    BY DEF Inv
  <2>5. \A k \in pagados' :
          intentos'[k] # NoIntento /\ \E c \in intentos'[k].cargo : Respaldo(c, k)'
    <3>1. ASSUME NEW k \in pagados
          PROVE  intentos[k] # NoIntento /\ \E c \in intentos[k].cargo : Respaldo(c, k)'
      <4>1. k \in Claves /\ intentos[k] \in Intento
        BY <2>4 DEF Inv, TypeOK, PagosOK
      <4>2. intentos[k].cargo \subseteq Cargos
        BY <4>1 DEF Intento, AlMasUno
      <4>3. QED
        BY <2>1, <2>4, <4>1, <4>2 DEF PagosOK
    <3>2. QED
      BY <1>5, <3>1
  <2>6. \A q \in Procesos : tx'[q].op = "cobrado" /\ tx'[q].pagar =>
          tx'[q].estado = "CAPTURADA" /\ tx'[q].cargo # {}
    BY <2>2, <2>3, <2>4 DEF PagosOK
  <2>7. \A q \in Procesos : tx'[q].op = "tomado" /\ tx'[q].pagar =>
          tx'[q].claves # {} /\ Clasificar(tx'[q].tipo) = "CAPTURADA"
    BY <2>2, <2>3, <2>4 DEF PagosOK
  <2>8. QED
    BY <2>5, <2>6, <2>7 DEF PagosOK
<1>8. CargoConocido'
  BY <1>1, <1>2, <1>5 DEF Inv, CargoConocido
<1>9. ConciliaOK'
  BY <1>1, <1>3, <1>5 DEF Inv, ConciliaOK, FaltaPagar
<1>10. QED
  BY <1>4, <1>6, <1>7, <1>8, <1>9 DEF Inv

\* The commit stores the intent with the state of its charge, and pays the sale if it was
\* captured.
LEMMA InvConfirmar ==
  ASSUME Inv, NEW p \in Procesos, Confirmar(p)
  PROVE  Inv'
<1> DEFINE i == [estado |-> tx[p].estado, cargo |-> tx[p].cargo, venta |-> tx[p].venta]
           k == tx[p].clave
<1>1. /\ tx[p].op = "cobrado" /\ k \in Claves /\ tx[p].venta \in AlMasUno(Ventas)
      /\ tx[p].estado \in Estados /\ tx[p].cargo \in AlMasUno(Cargos) /\ EnIntento(p)
  BY TxForma DEF Confirmar, Inv, TypeOK, EnIntento
<1>2. /\ i \in Intento /\ i.estado = tx[p].estado /\ i.cargo = tx[p].cargo
      /\ i.venta = tx[p].venta /\ i # NoIntento
  BY <1>1, FilasForma DEF Intento
<1> HIDE DEF i
<1>3. intentos'[k] = i /\ \A l \in Claves \ {k} : intentos'[l] = intentos[l]
  BY <1>1 DEF Confirmar, Inv, TypeOK, i
<1>4. tx'[p] = Libre /\ \A q \in Procesos \ {p} : tx'[q] = tx[q]
  BY DEF Confirmar, Inv, TypeOK
<1>5. Libre.op = "libre"
  BY DEF Libre
<1>6. UNCHANGED <<ventas, cargos, perdidos, tardias>> /\ pagados \subseteq pagados'
      /\ pagados' \subseteq pagados \cup {k} /\ (k \in pagados' \ pagados => tx[p].pagar)
      /\ (tx[p].pagar => k \in pagados')
  BY DEF Confirmar
<1>7. intentos[k] = NoIntento /\ k \notin pagados
  BY <1>1 DEF Inv, CargosOK, PagosOK
<1>8. \A c \in tx[p].cargo : c \in Cargos /\ cargos[c] = [estado |-> tx[p].estado, clave |-> k]
  BY <1>1, AlMasUnoForma DEF Inv, CargosOK
<1>9. TypeOK'
  <2>1. intentos' \in [Claves -> Intento \cup {NoIntento}]
    BY <1>2 DEF Confirmar, Inv, TypeOK, i
  <2>2. tx' \in [Procesos -> Tx]
    BY DEF Confirmar, Inv, TypeOK, Tx
  <2>3. pagados' \subseteq {l \in Claves : intentos'[l] # NoIntento}
    BY <1>1, <1>2, <1>3, <1>6 DEF Inv, TypeOK
  <2>4. QED
    BY <2>1, <2>2, <2>3 DEF Confirmar, Inv, TypeOK
<1> HIDE DEF k
<1>10. CargosOK'
  <2>1. \A l \in Claves, c \in Cargos : intentos'[l] # NoIntento /\ c \in intentos'[l].cargo =>
          cargos[c] # NoCargo /\ cargos[c].clave = l
    <3>1. ASSUME NEW c \in Cargos, c \in i.cargo
          PROVE  cargos[c] # NoCargo /\ cargos[c].clave = k
      BY <1>2, <1>8, <3>1 DEF NoCargo
    <3>2. QED
      BY <1>3, <3>1 DEF Inv, CargosOK
  <2>2. \A q \in Procesos : EnIntento(q)' => EnIntento(q) /\ q # p /\ tx'[q] = tx[q] /\ tx[q].clave # k
    BY <1>1, <1>4, <1>5 DEF Inv, CargosOK, EnIntento, k
  <2>3. \A q \in Procesos : EnIntento(q)' => intentos'[tx[q].clave] = NoIntento
    <3>1. \A q \in Procesos : EnIntento(q) => tx[q].clave \in Claves
      BY TxForma DEF EnIntento, Inv, TypeOK
    <3>2. QED
      BY <1>3, <2>2, <3>1 DEF Inv, CargosOK
  <2>4. \A q \in Procesos : EnAviso(q)' => EnAviso(q) /\ tx'[q] = tx[q]
    BY <1>4, <1>5 DEF EnAviso
  <2>5. \A q \in Procesos : tx'[q].op \in {"cobrado", "tomado"} => tx'[q] = tx[q]
    BY <1>4, <1>5
  <2>6. \A c \in Cargos : De(c) \subseteq De(c)'
    BY <1>3, <1>7 DEF De
  <2>7. \A q \in Procesos : tx[q].op = "tomado" => tx[q].cargo \in Cargos
    BY TxForma DEF Inv, TypeOK
  <2>8. QED
    BY <1>6, <2>1, <2>2, <2>3, <2>4, <2>5, <2>6, <2>7 DEF Inv, CargosOK, AvisosDe
<1>11. PagosOK'
  <2>1. ASSUME NEW l \in pagados'
        PROVE  intentos'[l] # NoIntento
               /\ \E c \in intentos'[l].cargo : Respaldo(c, l)
    <3>1. CASE l \in pagados
      <4>1. l \in Claves /\ l # k
        BY <1>7, <3>1 DEF Inv, TypeOK
      <4>2. QED
        BY <1>3, <3>1, <4>1 DEF Inv, PagosOK
    <3>2. CASE l \notin pagados
      <4>1. l = k /\ tx[p].pagar
        BY <1>6, <2>1, <3>2
      <4>2. tx[p].estado = "CAPTURADA" /\ tx[p].cargo # {}
        BY <1>1, <4>1 DEF Inv, PagosOK
      <4>3. QED
        BY <1>2, <1>3, <1>8, <4>1, <4>2 DEF Respaldo
    <3>3. QED
      BY <3>1, <3>2
  <2>2. \A q \in Procesos : tx'[q].op \in {"cobrado", "tomado"} => tx'[q] = tx[q]
    BY <1>4, <1>5
  <2>3. \A c, l : Respaldo(c, l)' <=> Respaldo(c, l)
    BY <1>6 DEF Respaldo, Confirmar
  <2>4. QED
    BY <1>6, <2>1, <2>2, <2>3 DEF Inv, PagosOK
<1>12. CargoConocido'
  <2>1. SUFFICES ASSUME NEW c \in Cargos \ perdidos, cargos[c].estado = "CAPTURADA"
                 PROVE  \/ /\ intentos'[cargos[c].clave] # NoIntento
                           /\ c \in intentos'[cargos[c].clave].cargo
                        \/ /\ intentos'[cargos[c].clave] = NoIntento
                           /\ \E q \in Procesos : tx'[q].op = "cobrado" /\ tx'[q].cargo = {c}
    BY <1>6 DEF CargoConocido
  <2>2. cargos[c].clave \in Claves
    BY <2>1, FilasForma DEF Inv, TypeOK, NoCargo
  <2>3. CASE cargos[c].clave = k
    <3>1. PICK q \in Procesos : tx[q].op = "cobrado" /\ tx[q].cargo = {c}
      BY <1>7, <2>1, <2>3 DEF Inv, CargoConocido
    <3>2. cargos[c] = [estado |-> tx[q].estado, clave |-> tx[q].clave]
      BY <3>1 DEF Inv, CargosOK
    <3>3. tx[q].clave = k
      BY <2>3, <3>2
    <3>4. q = p
      BY <1>1, <3>1, <3>3 DEF Inv, CargosOK, EnIntento, k
    <3>5. QED
      BY <1>2, <1>3, <2>3, <3>1, <3>4
  <2>4. CASE cargos[c].clave # k
    <3>1. intentos'[cargos[c].clave] = intentos[cargos[c].clave]
      BY <1>3, <2>2, <2>4
    <3>2. CASE intentos[cargos[c].clave] # NoIntento
      BY <2>1, <3>1, <3>2 DEF Inv, CargoConocido
    <3>3. CASE intentos[cargos[c].clave] = NoIntento
      <4>1. PICK q \in Procesos : tx[q].op = "cobrado" /\ tx[q].cargo = {c}
        BY <2>1, <3>3 DEF Inv, CargoConocido
      <4>2. cargos[c] = [estado |-> tx[q].estado, clave |-> tx[q].clave]
        BY <4>1 DEF Inv, CargosOK
      <4>3. q # p
        BY <2>4, <4>2 DEF k
      <4>4. QED
        BY <1>4, <3>1, <3>3, <4>1, <4>3
    <3>4. QED
      BY <3>2, <3>3
  <2>5. QED
    BY <2>3, <2>4
<1>13. ConciliaOK'
  <2>1. FaltaPagar(k, i.estado, i.venta) => k \in pagados'
    BY <1>1, <1>2, <1>6 DEF Inv, ConciliaOK, k
  <2>2. \A l \in Claves : intentos'[l] # NoIntento
                          /\ FaltaPagar(l, intentos[l].estado, intentos[l].venta)' => l \in pagados'
    BY <1>3, <1>6, <2>1 DEF Inv, ConciliaOK, FaltaPagar
  <2>3. \A q \in Procesos : tx'[q].op \in {"cobrado", "tomado"} => tx'[q] = tx[q]
    BY <1>4, <1>5
  <2>4. \A q \in Procesos : tx[q].op = "tomado" => tx[q].claves \subseteq Claves /\ k \notin tx[q].claves
    BY <1>7 DEF Inv, CargosOK, De
  <2>5. \A q \in Procesos : tx[q].op = "tomado" => \A l \in tx[q].claves : intentos'[l] = intentos[l]
    BY <1>3, <2>4
  <2>6. ASSUME NEW q \in Procesos, tx'[q].op = "tomado", NEW l \in tx'[q].claves,
               FaltaPagar(l, Clasificar(tx[q].tipo), intentos[l].venta)'
        PROVE  l \in pagados' \/ tx'[q].pagar
    <3>1. tx'[q] = tx[q] /\ l \in Claves /\ intentos'[l] = intentos[l]
      BY <2>3, <2>4, <2>5, <2>6
    <3>2. FaltaPagar(l, Clasificar(tx[q].tipo), intentos[l].venta)
      BY <1>6, <2>6, <3>1 DEF FaltaPagar, Clasificar
    <3>3. QED
      BY <1>6, <2>6, <3>1, <3>2 DEF Inv, ConciliaOK
  <2>7. \A q \in Procesos : tx'[q].op = "cobrado"
                            /\ FaltaPagar(tx[q].clave, tx[q].estado, tx[q].venta)' => tx'[q].pagar
    BY <1>6, <2>3 DEF FaltaPagar, Inv, ConciliaOK
  <2>8. QED
    BY <2>2, <2>6, <2>7 DEF ConciliaOK
<1>14. QED
  BY <1>9, <1>10, <1>11, <1>12, <1>13 DEF Inv

\* A rollback after the charge leaves it among the lost ones.
LEMMA InvAbortar ==
  ASSUME Inv, NEW p \in Procesos, Abortar(p)
  PROVE  Inv'
<1>1. tx'[p] = Libre /\ \A q \in Procesos \ {p} : tx'[q] = tx[q]
  BY DEF Abortar, Inv, TypeOK
<1>2. Libre.op = "libre"
  BY DEF Libre
<1>3. UNCHANGED <<ventas, intentos, pagados, procesados, cargos, tardias>> /\ perdidos \subseteq perdidos'
      /\ (tx[p].op = "cobrado" /\ tx[p].estado = "CAPTURADA" => tx[p].cargo \subseteq perdidos')
  BY DEF Abortar
<1>4. TypeOK'
  <2>1. tx[p].op = "cobrado" => tx[p].cargo \subseteq Cargos
    BY TxForma, AlMasUnoForma DEF Inv, TypeOK
  <2>2. perdidos' \subseteq Cargos /\ tx' \in [Procesos -> Tx]
    BY <2>1 DEF Abortar, Inv, TypeOK, Tx
  <2>3. QED
    BY <2>2 DEF Abortar, Inv, TypeOK
<1>5. \A q \in Procesos : tx'[q].op # "libre" => q # p /\ tx'[q] = tx[q]
  BY <1>1, <1>2
<1>6. CargosOK'
  BY <1>3, <1>5 DEF Inv, CargosOK, EnIntento, EnAviso, AvisosDe, De
<1>7. PagosOK' /\ ConciliaOK'
  BY <1>3, <1>5 DEF Inv, PagosOK, Respaldo, ConciliaOK, FaltaPagar
<1>8. CargoConocido'
  <2>1. SUFFICES ASSUME NEW c \in Cargos \ perdidos', cargos[c].estado = "CAPTURADA",
                        NEW q \in Procesos, tx[q].op = "cobrado", tx[q].cargo = {c}
                 PROVE  q # p
    BY <1>1, <1>3 DEF Inv, CargoConocido
  <2>2. cargos[c] = [estado |-> tx[q].estado, clave |-> tx[q].clave]
    BY <2>1 DEF Inv, CargosOK
  <2>3. QED
    BY <1>3, <2>1, <2>2
<1>9. QED
  BY <1>4, <1>6, <1>7, <1>8 DEF Inv

-----------------------------------------------------------------------------
(* Webhooks *)

\* A webhook keeps the intents of its charge that it finds.
LEMMA InvAvisoLeer ==
  ASSUME Inv, NEW p \in Procesos, NEW c \in Cargos, NEW tipo \in Avisos, AvisoLeer(p, c, tipo)
  PROVE  Inv'
<1> DEFINE t == [op |-> "aviso", cargo |-> c, tipo |-> tipo]
<1>1. tx'[p] = t /\ \A q \in Procesos \ {p} : tx'[q] = tx[q]
  BY DEF AvisoLeer, Inv, TypeOK
<1>2. tx[p].op = "libre" /\ cargos[c] # NoCargo /\ tipo \in AvisosDe(c)
  BY DEF AvisoLeer, Libre
<1>3. TypeOK'
  <2>1. t \in Tx
    BY DEF Tx
  <2>2. QED
    BY <2>1 DEF AvisoLeer, Inv, TypeOK
<1>4. UNCHANGED <<ventas, intentos, pagados, procesados, cargos, perdidos, tardias>>
  BY DEF AvisoLeer
<1>5. CargosOK'
  BY <1>1, <1>2, <1>4 DEF Inv, CargosOK, EnIntento, EnAviso, AvisosDe, De
<1>6. PagosOK' /\ ConciliaOK'
  BY <1>1, <1>4 DEF Inv, PagosOK, Respaldo, ConciliaOK, FaltaPagar
<1>7. CargoConocido'
  BY <1>1, <1>2, <1>4 DEF Inv, CargoConocido
<1>8. QED
  BY <1>3, <1>5, <1>6, <1>7 DEF Inv

\* One charge is of one intent.
LEMMA DeUno ==
  ASSUME Inv, NEW c \in Cargos
  PROVE  De(c) \in AlMasUno(Claves)
<1>1. De(c) \subseteq Claves /\ \A k, l \in De(c) : k = l
  BY DEF De, Inv, CargosOK
<1>2. QED
  BY <1>1 DEF AlMasUno

\* Taking the row of the event keeps a repeated webhook out.
LEMMA InvAvisoTomar ==
  ASSUME Inv, NEW p \in Procesos, AvisoTomar(p)
  PROVE  Inv'
<1> DEFINE claves == De(tx[p].cargo)
           paga == Clasificar(tx[p].tipo) = "CAPTURADA" /\ \E k \in claves : PorConciliar(k)
           t == [op |-> "tomado", cargo |-> tx[p].cargo, tipo |-> tx[p].tipo, claves |-> claves,
                 pagar |-> paga]
<1>1. tx'[p] = t /\ \A q \in Procesos \ {p} : tx'[q] = tx[q]
  BY DEF AvisoTomar, Inv, TypeOK
<1>2. tx[p].op = "aviso" /\ tx[p].cargo \in Cargos /\ tx[p].tipo \in Avisos
  BY TxForma DEF AvisoTomar, Inv, TypeOK
<1>3. /\ t.op = "tomado" /\ t.cargo = tx[p].cargo /\ t.tipo = tx[p].tipo /\ t.claves = claves
      /\ t.pagar <=> paga
  BY Zenon
<1>4. TypeOK'
  <2>1. t \in Tx
    BY <1>2, DeUno DEF Tx
  <2> HIDE DEF t
  <2>2. QED
    BY <1>1, <2>1 DEF AvisoTomar, Inv, TypeOK
<1> HIDE DEF t
<1>5. UNCHANGED <<ventas, intentos, pagados, procesados, cargos, perdidos, tardias>>
  BY DEF AvisoTomar
<1>6. CargosOK'
  BY <1>1, <1>2, <1>3, <1>5 DEF Inv, CargosOK, EnIntento, EnAviso, AvisosDe, De
<1>7. PagosOK'
  BY <1>1, <1>3, <1>5 DEF Inv, PagosOK, Respaldo
<1>8. CargoConocido'
  BY <1>1, <1>2, <1>5 DEF Inv, CargoConocido
<1>9. ConciliaOK'
  <2>1. ASSUME NEW k \in claves, FaltaPagar(k, Clasificar(tx[p].tipo), intentos[k].venta)
        PROVE  k \in pagados \/ t.pagar
    BY <1>3, <2>1 DEF FaltaPagar, PorConciliar
  <2> HIDE DEF claves, paga
  <2>2. QED
    BY <1>1, <1>3, <1>5, <2>1 DEF Inv, ConciliaOK, FaltaPagar, Clasificar
<1>10. QED
  BY <1>4, <1>6, <1>7, <1>8, <1>9 DEF Inv

\* A webhook pays the sale of an intent once, and only with a captured charge.
LEMMA InvAvisoAplicar ==
  ASSUME Inv, NEW p \in Procesos, AvisoAplicar(p)
  PROVE  Inv'
<1> DEFINE claves == tx[p].claves
           c == tx[p].cargo
           e == Clasificar(tx[p].tipo)
<1>1. tx'[p] = Libre /\ \A q \in Procesos \ {p} : tx'[q] = tx[q]
  BY DEF AvisoAplicar, Inv, TypeOK
<1>2. Libre.op = "libre"
  BY DEF Libre
<1>3. /\ tx[p].op = "tomado" /\ EnAviso(p) /\ c \in Cargos /\ tx[p].tipo \in Avisos
      /\ claves \in AlMasUno(Claves) /\ claves \subseteq De(c)
  BY TxForma DEF AvisoAplicar, EnAviso, Inv, TypeOK, CargosOK
<1>4. e \in Estados /\ (e = "CAPTURADA" => cargos[c].estado = "CAPTURADA"
                                             \/ tx[p].tipo = "impreciso")
  <2>1. tx[p].tipo \in AvisosDe(c)
    BY <1>3 DEF Inv, CargosOK
  <2>2. QED
    BY <2>1 DEF Clasificar, AvisosDe, Estados
<1>5. \A k \in claves : /\ k \in Claves /\ intentos[k] \in Intento /\ intentos[k].cargo = {c}
                        /\ cargos[c] # NoCargo /\ cargos[c].clave = k
  <2> SUFFICES ASSUME NEW k \in claves
               PROVE  /\ k \in Claves /\ intentos[k] \in Intento /\ intentos[k].cargo = {c}
                      /\ cargos[c] # NoCargo /\ cargos[c].clave = k
    OBVIOUS
  <2>1. k \in Claves /\ intentos[k] # NoIntento /\ intentos[k].cargo = {c}
    BY <1>3 DEF De
  <2> HIDE DEF claves, c
  <2>2. c \in intentos[k].cargo
    BY <2>1
  <2>3. QED
    BY <1>3, <2>1, <2>2 DEF Inv, TypeOK, CargosOK
<1>6. \A k \in claves : /\ intentos'[k] \in Intento /\ intentos'[k].estado = e
                        /\ intentos'[k].cargo = {c} /\ intentos'[k].venta = intentos[k].venta
  BY <1>4, <1>5 DEF AvisoAplicar, Intento
<1>7. \A k \in Claves \ claves : intentos'[k] = intentos[k]
  BY DEF AvisoAplicar
<1>8. \A k \in Claves : /\ intentos'[k] = NoIntento <=> intentos[k] = NoIntento
                        /\ intentos[k] # NoIntento => intentos'[k].cargo = intentos[k].cargo
                                                      /\ intentos'[k].venta = intentos[k].venta
  BY <1>5, <1>6, <1>7, FilasForma
<1>9. /\ UNCHANGED <<ventas, cargos, perdidos>>
      /\ pagados' = IF tx[p].pagar THEN pagados \cup claves ELSE pagados
      /\ tardias' = IF tx[p].pagar THEN tardias \ claves ELSE tardias
      /\ procesados' = procesados \cup {<<c, tx[p].tipo>>}
  BY DEF AvisoAplicar
<1>10. TypeOK'
  <2>1. intentos' \in [Claves -> Intento \cup {NoIntento}]
    BY <1>6, <1>7 DEF AvisoAplicar, Inv, TypeOK
  <2>2. pagados' \subseteq {k \in Claves : intentos'[k] # NoIntento}
    BY <1>5, <1>8, <1>9, FilasForma DEF Inv, TypeOK
  <2>3. tx' \in [Procesos -> Tx]
    BY DEF AvisoAplicar, Inv, TypeOK, Tx
  <2>4. procesados' \subseteq {d \in Cargos : cargos[d] # NoCargo} \X Avisos
    BY <1>3 DEF AvisoAplicar, Inv, TypeOK, CargosOK
  <2>5. QED
    BY <1>9, <2>1, <2>2, <2>3, <2>4 DEF AvisoAplicar, Inv, TypeOK
<1> HIDE DEF claves, c, e
<1>11. \A q \in Procesos : tx'[q].op # "libre" => q # p /\ tx'[q] = tx[q]
  BY <1>1, <1>2
<1>12. CargosOK'
  <2>1. \A q \in Procesos : EnIntento(q) => tx[q].clave \in Claves
    BY TxForma DEF Inv, TypeOK, EnIntento
  <2>2. \A d \in Cargos : De(d)' = De(d)
    BY <1>8 DEF De
  <2>3. \A q \in Procesos : tx[q].op = "tomado" => tx[q].cargo \in Cargos
    BY TxForma DEF Inv, TypeOK
  <2>4. QED
    BY <1>8, <1>9, <1>11, <2>1, <2>2, <2>3 DEF Inv, CargosOK, EnIntento, EnAviso, AvisosDe
<1>13. PagosOK'
  <2>1. ASSUME NEW k \in pagados'
        PROVE  intentos'[k] # NoIntento
               /\ \E d \in intentos'[k].cargo : Respaldo(d, k)'
    <3>1. CASE k \in pagados
      <4>1. \A d : Respaldo(d, k) => Respaldo(d, k)'
        BY <1>9 DEF Respaldo
      <4>2. QED
        BY <1>8, <3>1, <4>1 DEF Inv, PagosOK, TypeOK
    <3>2. CASE k \notin pagados
      <4>1. k \in claves /\ tx[p].pagar
        BY <1>9, <2>1, <3>2
      <4>2. e = "CAPTURADA"
        BY <1>3, <4>1 DEF Inv, PagosOK, e
      <4>3. cargos[c].clave = k /\ (cargos[c].estado = "CAPTURADA" \/ tx[p].tipo = "impreciso")
        BY <1>4, <1>5, <4>1, <4>2
      <4>4. \A d : d = c => Respaldo(d, k)'
        BY <1>9, <4>3 DEF Respaldo
      <4>5. QED
        BY <1>6, <4>1, <4>4, FilasForma
    <3>3. QED
      BY <3>1, <3>2
  <2>2. QED
    BY <1>9, <1>11, <2>1 DEF Inv, PagosOK
<1>14. CargoConocido'
  <2>1. \A d \in Cargos : cargos[d].estado = "CAPTURADA" => cargos[d].clave \in Claves
    BY FilasForma DEF Inv, TypeOK, NoCargo
  <2>2. \A q \in Procesos : tx[q].op = "cobrado" => tx'[q] = tx[q]
    BY <1>1, <1>3
  <2>3. QED
    BY <1>8, <1>9, <2>1, <2>2 DEF Inv, CargoConocido
<1>15. ConciliaOK'
  <2>1. ASSUME NEW k \in Claves, intentos[k] # NoIntento,
               FaltaPagar(k, intentos[k].estado, intentos[k].venta)'
        PROVE  k \in pagados'
    <3>1. CASE k \notin claves
      <4>1. FaltaPagar(k, intentos[k].estado, intentos[k].venta)
        BY <1>7, <1>9, <2>1, <3>1 DEF FaltaPagar
      <4>2. QED
        BY <1>9, <2>1, <4>1 DEF Inv, ConciliaOK
    <3>2. CASE k \in claves /\ ~tx[p].pagar
      <4>1. FaltaPagar(k, e, intentos[k].venta)
        BY <1>6, <1>9, <2>1, <3>2 DEF FaltaPagar
      <4>2. QED
        BY <1>3, <1>9, <3>2, <4>1 DEF Inv, ConciliaOK, e, claves
    <3>3. CASE k \in claves /\ tx[p].pagar
      BY <1>9, <3>3
    <3>4. QED
      BY <3>1, <3>2, <3>3
  <2>2. ASSUME NEW q \in Procesos, tx[q].op = "cobrado", tx'[q] = tx[q],
               FaltaPagar(tx[q].clave, tx[q].estado, tx[q].venta)'
        PROVE  tx[q].pagar
    <3>1. intentos[tx[q].clave] = NoIntento
      BY <2>2 DEF Inv, CargosOK, EnIntento
    <3>2. tx[q].clave \notin claves
      BY <1>5, <3>1, FilasForma
    <3>3. FaltaPagar(tx[q].clave, tx[q].estado, tx[q].venta)
      BY <1>9, <2>2, <3>2 DEF FaltaPagar
    <3>4. QED
      BY <2>2, <3>3 DEF Inv, ConciliaOK
  <2>3. ASSUME NEW q \in Procesos, tx[q].op = "tomado", tx'[q] = tx[q], NEW k \in tx[q].claves,
               FaltaPagar(k, Clasificar(tx[q].tipo), intentos[k].venta)'
        PROVE  k \in pagados' \/ tx[q].pagar
    <3>1. k \in Claves /\ intentos[k] # NoIntento
      BY <2>3 DEF Inv, CargosOK, De
    <3>2. CASE k \in tardias
      BY <1>9, <2>3, <3>2 DEF FaltaPagar
    <3>3. CASE k \notin tardias
      <4>1. FaltaPagar(k, Clasificar(tx[q].tipo), intentos[k].venta)
        BY <1>8, <1>9, <2>3, <3>1, <3>3 DEF FaltaPagar, Clasificar
      <4>2. QED
        BY <1>9, <2>3, <4>1 DEF Inv, ConciliaOK
    <3>4. QED
      BY <3>2, <3>3
  <2>4. QED
    BY <1>8, <1>11, <2>1, <2>2, <2>3 DEF ConciliaOK
<1>16. QED
  BY <1>10, <1>12, <1>13, <1>14, <1>15 DEF Inv

-----------------------------------------------------------------------------
\* Each charge is followed through the request or webhook that holds it, in every behaviour:
\* the invariant that the three properties follow from.
THEOREM Invariante == Spec => []Inv
<1>1. Inv /\ [Next]_vars => Inv'
  <2> SUFFICES ASSUME Inv, [Next]_vars
               PROVE  Inv'
    OBVIOUS
  <2>1. CASE RegistrarCuenta
    BY <2>1, InvQuieto DEF RegistrarCuenta
  <2>2. ASSUME NEW v \in Ventas, CrearVenta(v)
        PROVE  Inv'
    BY <2>2, InvCrearVenta
  <2>3. ASSUME NEW p \in Procesos, Pago(p)
        PROVE  Inv'
    BY <2>3, InvIntentoLeer, InvCobrar, InvRechazar, InvConfirmar DEF Pago
  <2>4. ASSUME NEW p \in Procesos, Aviso(p)
        PROVE  Inv'
    BY <2>4, InvAvisoLeer, InvAvisoTomar, InvAvisoAplicar DEF Aviso
  <2>5. ASSUME NEW p \in Procesos, Abortar(p)
        PROVE  Inv'
    BY <2>5, InvAbortar
  <2>6. CASE UNCHANGED vars
    BY <2>6, InvQuieto DEF vars, Inv, TypeOK
  <2>7. QED
    BY <2>1, <2>2, <2>3, <2>4, <2>5, <2>6 DEF Next
<1>2. QED
  BY <1>1, InvInicial, PTL DEF Spec

\* Every row, request and webhook keeps its type: a charge has at most one intent, and a
\* payment is of an intent.
THEOREM TipoDePagos == Spec => []TypeOK
<1>1. Inv => TypeOK
  BY DEF Inv
<1>2. QED
  BY <1>1, Invariante, PTL

\* No sale is credited without a capture, however late, repeated or disordered the webhooks
\* and however many intents and webhooks overlap.
THEOREM PagoConCaptura == Spec => []PagoRespaldado
<1>1. Inv => PagoRespaldado
  BY DEF Inv, PagosOK, Respaldo, PagoRespaldado
<1>2. QED
  BY <1>1, Invariante, PTL

\* A key is captured once: every captured charge is that of its intent, or of the one request
\* in flight for it, unless a request was cut after the charge.
THEOREM CapturaConocida == Spec => []CargoConocido
<1>1. Inv => CargoConocido
  BY DEF Inv
<1>2. QED
  BY <1>1, Invariante, PTL

\* A captured payment reaches the sale that existed when it was last looked for.
THEOREM CapturaConciliada == Spec => []PagoConciliado
<1>1. Inv => PagoConciliado
  BY DEF Inv, TypeOK, ConciliaOK, FaltaPagar, PagoConciliado, NoIntento
<1>2. QED
  BY <1>1, Invariante, PTL

-----------------------------------------------------------------------------
(* Precios: the charge weighs the promotions of the preview *)

\* Promotions that exist have terms that make sense.
PromosOK ==
  /\ promo \in [Promos -> Promocion \cup {NoPromo}]
  /\ \A p \in Promos : promo[p] # NoPromo => Valida(promo[p].forma)

\* A line of a cart, in whole numbers.
EsRenglon(l) == l.bruto \in Nat /\ l.precio \in Nat /\ l.cantidad \in Nat

\* The lesser and the greater of two numbers are one of them.
LEMMA MenorMayor ==
  ASSUME NEW a \in Int, NEW b \in Int
  PROVE  Min({a, b}) \in {a, b} /\ Max({a, b}) \in {a, b} /\ Max({a, b}) >= a
<1>1. \E x \in {a, b} : \A y \in {a, b} : x <= y
  <2>1. CASE a <= b
    BY <2>1
  <2>2. CASE ~(a <= b)
    BY <2>2
  <2>3. QED
    BY <2>1, <2>2
<1>2. \E x \in {a, b} : \A y \in {a, b} : x >= y
  <2>1. CASE a <= b
    BY <2>1
  <2>2. CASE ~(a <= b)
    BY <2>2
  <2>3. QED
    BY <2>1, <2>2
<1>3. Min({a, b}) \in {a, b}
  BY <1>1 DEF Min
<1>4. Max({a, b}) \in {a, b} /\ \A y \in {a, b} : Max({a, b}) >= y
  BY <1>2 DEF Max
<1>5. QED
  BY <1>3, <1>4

\* The parts numbers are counted in.
LEMMA PartesForma ==
  /\ {PartesGuardadas, PartesPedidas, PartesCentavo, PartesPunto} \subseteq Nat \ {0}
  /\ Unidad \in Nat \ {0} /\ Centavo \in Nat \ {0} /\ Cien \in Nat \ {0}
  /\ Cien * Centavo \in Nat \ {0}
<1>1. \A a, b \in Nat \ {0} : a * b \in Nat \ {0}
  OBVIOUS
<1>2. {PartesGuardadas, PartesPedidas, PartesCentavo, PartesPunto} \subseteq Nat \ {0}
  BY PreciosAssumption
<1>3. Unidad \in Nat \ {0}
  BY <1>1, <1>2 DEF Unidad
<1>4. Centavo \in Nat \ {0}
  BY <1>1, <1>2, <1>3 DEF Centavo
<1>5. Cien \in Nat \ {0}
  BY <1>1, <1>2 DEF Cien
<1>6. QED
  BY <1>1, <1>2, <1>3, <1>4, <1>5

\* r is n / d to the nearest integer.
Redondo(r, n, d) == r \in Int /\ 2 * (d * r) - 2 * n <= d /\ 2 * n - 2 * (d * r) <= d

\* A rounding is off by half of its divisor at most, and what is not negative stays so.
LEMMA RedondeoCota ==
  ASSUME NEW n \in Int, NEW d \in Nat \ {0}
  PROVE  Redondo(Redondea(n, d), n, d) /\ (n >= 0 => Redondea(n, d) \in Nat)
<1>1. ASSUME NEW m \in Nat
      PROVE  LET q == (2 * m + d) \div (2 * d)
             IN  q \in Nat /\ 2 * (d * q) - 2 * m <= d /\ 2 * m - 2 * (d * q) <= d
  <2> DEFINE q == (2 * m + d) \div (2 * d)
             x == (2 * m + d) % (2 * d)
  <2>1. q \in Nat /\ x \in 0 .. 2 * d - 1 /\ 2 * m + d = (2 * d) * q + x
    OBVIOUS
  <2> HIDE DEF q, x
  <2>2. (2 * d) * q = 2 * (d * q) /\ d * q \in Int
    BY <2>1
  <2>3. q \in Nat /\ 2 * (d * q) - 2 * m <= d /\ 2 * m - 2 * (d * q) <= d
    BY <2>1, <2>2
  <2>4. QED
    BY <2>3 DEF q
<1>2. CASE n >= 0
  BY <1>1, <1>2 DEF Redondea, Redondo
<1>3. CASE ~(n >= 0)
  <2> DEFINE m == -n
             q == (2 * m + d) \div (2 * d)
  <2>1. m \in Nat /\ 2 * m + d = d - 2 * n
    BY <1>3
  <2>2. q \in Nat /\ 2 * (d * q) - 2 * m <= d /\ 2 * m - 2 * (d * q) <= d
    BY <1>1, <2>1
  <2>3. Redondea(n, d) = -q
    BY <1>3, <2>1 DEF Redondea
  <2> HIDE DEF q
  <2>4. d * (-q) = -(d * q) /\ d * q \in Int
    BY <2>2
  <2>5. Redondo(-q, n, d)
    BY <2>1, <2>2, <2>4 DEF Redondo
  <2>6. QED
    BY <1>3, <2>3, <2>5
<1>4. QED
  BY <1>2, <1>3

\* A promotion discounts a whole number of cents, none if it does not apply.
LEMMA DescuentoNatural ==
  ASSUME PromosOK, NEW p \in Promos, promo[p] # NoPromo, NEW l, EsRenglon(l)
  PROVE  Descuento(p, l) \in Nat
<1> DEFINE f == promo[p].forma
<1>1. f \in Formas /\ Valida(f)
  BY DEF PromosOK, Promocion, NoPromo
<1>2. Beneficio(f, l) \in Int
  <2>1. /\ f.beneficio \in {"PORCENTAJE", "MONTO_FIJO", "PRECIO_FIJO", "LLEVA_N_PAGA_M"}
        /\ f.valor \in Int /\ f.compra \in Int /\ f.paga \in Int
    BY <1>1, PreciosAssumption
  <2>2. l.bruto \in Int /\ l.precio \in Int /\ l.cantidad \in Int
    BY DEF EsRenglon
  <2>3. Cien \in Int /\ Unidad \in Int /\ \A a, b \in Int : a * b \in Int
    BY PartesForma
  <2>4. CASE f.beneficio = "PORCENTAJE"
    BY <2>1, <2>2, <2>4 DEF Beneficio
  <2>5. CASE f.beneficio = "MONTO_FIJO"
    <3>1. f.valor * l.cantidad \in Int
      BY <2>1, <2>2
    <3>2. QED
      BY <2>3, <2>5, <3>1 DEF Beneficio
  <2>6. CASE f.beneficio = "PRECIO_FIJO"
    <3>1. l.bruto - f.valor * l.cantidad \in Int
      BY <2>1, <2>2
    <3>2. QED
      BY <2>3, <2>6, <3>1 DEF Beneficio
  <2>7. CASE f.beneficio = "LLEVA_N_PAGA_M"
    <3> DEFINE gratis == ((l.cantidad \div Unidad) \div f.compra) * (f.compra - f.paga)
    <3>1. f.compra >= 1
      BY <1>1, <2>7 DEF Valida
    <3>2. l.cantidad \div Unidad \in Int
      BY <2>2, PartesForma
    <3>3. (l.cantidad \div Unidad) \div f.compra \in Int
      BY <2>1, <3>1, <3>2
    <3>4. gratis \in Int
      BY <2>1, <3>3
    <3>5. Beneficio(f, l) = Cien * (l.precio * (Unidad * gratis))
      BY <2>7 DEF Beneficio
    <3> HIDE DEF gratis
    <3>6. l.precio * (Unidad * gratis) \in Int
      BY <2>2, <2>3, <3>4
    <3>7. QED
      BY <2>3, <3>5, <3>6
  <2>8. QED
    BY <2>1, <2>4, <2>5, <2>6, <2>7
<1>3. Cien * l.bruto \in Int
  BY PartesForma DEF EsRenglon
<1> DEFINE tope == Min({Cien * l.bruto, Beneficio(f, l)})
<1>4. tope \in Int
  <2>1. tope \in {Cien * l.bruto, Beneficio(f, l)}
    <3> DEFINE a == Cien * l.bruto
               b == Beneficio(f, l)
    <3>1. a \in Int /\ b \in Int
      BY <1>2, <1>3
    <3> HIDE DEF a, b
    <3>2. Min({a, b}) \in {a, b}
      BY <3>1, MenorMayor
    <3>3. QED
      BY <3>2 DEF a, b
  <2>2. QED
    BY <1>2, <1>3, <2>1
<1> HIDE DEF tope
<1>5. Max({0, tope}) \in Int /\ Max({0, tope}) >= 0
  <2>1. Max({0, tope}) \in {0, tope} /\ Max({0, tope}) >= 0
    BY <1>4, MenorMayor
  <2>2. QED
    BY <1>4, <2>1
<1>6. Redondea(Max({0, tope}), Cien * Centavo) \in Nat
  BY <1>5, PartesForma, RedondeoCota
<1>7. QED
  BY <1>6 DEF Descuento, tope

\* p goes before q on line l.
Supera(p, q, l) ==
  \/ Descuento(p, l) > Descuento(q, l)
  \/ Descuento(p, l) = Descuento(q, l) /\ promo[p].forma.prioridad > promo[q].forma.prioridad
\* Exclusive promotions and those that add up.
Unicas(ps) == {p \in ps : ~promo[p].forma.acumulable}
Acumulan(ps) == {p \in ps : promo[p].forma.acumulable}

\* The best ones, by that order.
LEMMA MejoresSon ==
  ASSUME NEW ps, NEW l
  PROVE  Mejores(ps, l) = {p \in Unicas(ps) : ~\E q \in Unicas(ps) : Supera(q, p, l)}
  BY DEF Mejores, Unicas, Supera

\* Promotions that are loaded, and their order on a line.
LEMMA Orden ==
  ASSUME PromosOK, NEW l, EsRenglon(l), NEW U \in SUBSET Promos, \A p \in U : promo[p] # NoPromo
  PROVE  /\ \A p \in U : Descuento(p, l) \in Nat /\ promo[p].forma.prioridad \in Int
         /\ \A p \in U : ~Supera(p, p, l)
         /\ \A p, q, r \in U : Supera(p, q, l) /\ Supera(q, r, l) => Supera(p, r, l)
<1>1. \A p \in U : Descuento(p, l) \in Nat
  BY DescuentoNatural
<1>2. \A p \in U : promo[p].forma.prioridad \in Int
  BY PreciosAssumption DEF PromosOK, Promocion, NoPromo
<1>3. QED
  BY <1>1, <1>2 DEF Supera

\* Of some exclusive promotions there is one that no other goes before.
LEMMA HayMejor ==
  ASSUME PromosOK, NEW l, EsRenglon(l), NEW ps \in SUBSET Promos,
         \A p \in ps : promo[p] # NoPromo, Unicas(ps) # {}
  PROVE  Mejores(ps, l) # {}
<1> DEFINE U == Unicas(ps)
           X == {T \in SUBSET U : T # {} /\ \A p \in T, q \in U : Supera(q, p, l) => q \in T}
<1>1. U \subseteq Promos /\ \A p \in U : promo[p] # NoPromo
  BY DEF Unicas
<1>2. IsFiniteSet(U)
  BY <1>1, PreciosAssumption, FS_Subset
<1>3. U \in X
  OBVIOUS
<1>4. PICK T \in X : \A V \in X : V \subseteq T => V = T
  <2> HIDE DEF U
  <2>1. X \in SUBSET (SUBSET U) /\ X # {}
    BY <1>3
  <2> HIDE DEF X
  <2>2. QED
    BY <1>2, <2>1, MinimoConjunto
<1>5. PICK p \in T : p \in U
  BY <1>4
<1> DEFINE V == {q \in U : Supera(q, p, l)}
<1>6. V \subseteq T /\ p \notin V
  BY <1>1, <1>4, <1>5, Orden
<1>7. V = {}
  <2>1. SUFFICES ASSUME V # {} PROVE FALSE
    OBVIOUS
  <2>2. \A r \in V, q \in U : Supera(q, r, l) => q \in V
    BY <1>1, <1>5, Orden
  <2>3. V \in X
    BY <2>1, <2>2
  <2>4. QED
    BY <1>4, <1>5, <1>6, <2>3
<1>8. p \in Mejores(ps, l)
  BY <1>5, <1>7, MejoresSon
<1>9. QED
  BY <1>8

\* The sum of the discounts of promotions that add up and of one more.
LEMMA SumaConUna ==
  ASSUME NEW l, NEW A, IsFiniteSet(A), NEW p, p \notin A,
         \A q \in A \cup {p} : Descuento(q, l) \in Nat
  PROVE  LET T == A \cup {p} IN
         SumFunctionOnSet([q \in T |-> Descuento(q, l)], T) =
           Descuento(p, l) + SumFunctionOnSet([q \in A |-> Descuento(q, l)], A)
<1> DEFINE T == A \cup {p}
           f == [q \in T |-> Descuento(q, l)]
           g == [q \in A |-> Descuento(q, l)]
<1>1. SumFunctionOnSet(f, T) = f[p] + SumFunctionOnSet(f, A)
  <2>1. (\A y \in A : f[y] \in Int) /\ f[p] \in Int
    OBVIOUS
  <2> HIDE DEF f
  <2>2. QED
    BY <2>1, SumaCon
<1>2. SumFunctionOnSet(f, A) = SumFunctionOnSet(g, A)
  <2>1. \A x \in A : f[x] = g[x]
    OBVIOUS
  <2> HIDE DEF f, g
  <2>2. QED
    BY <2>1, SumaIgual
<1>3. f[p] = Descuento(p, l)
  OBVIOUS
<1>4. QED
  BY <1>1, <1>2, <1>3

\* Weighing only promotions K, that hold all the ones D that were chosen among C, gives the
\* line the same discount.
LEMMA MismaLinea ==
  ASSUME PromosOK, NEW l, EsRenglon(l), NEW t, NEW C \in SUBSET Promos, NEW K \in SUBSET C,
         \A p \in C : promo[p] # NoPromo,
         NEW D \in Detalles(C, l, t), D \subseteq K, NEW E \in Detalles(K, l, t)
  PROVE  DescuentoTotal(D, l) = DescuentoTotal(E, l)
<1> DEFINE A == Aplican(C, l, t)
           B == Aplican(K, l, t)
<1>1. B = A \cap K /\ A \subseteq C
  BY DEF Aplican
<1>2. Acumulan(A) \subseteq D /\ D \in IF Mejores(A, l) = {} THEN {Acumulan(A)}
                                    ELSE {Acumulan(A) \cup {p} : p \in Mejores(A, l)}
  BY DEF Detalles, Acumulan
<1>3. E \in IF Mejores(B, l) = {} THEN {Acumulan(B)}
            ELSE {Acumulan(B) \cup {p} : p \in Mejores(B, l)}
  BY DEF Detalles, Acumulan
<1> HIDE DEF A, B
<1>4. Acumulan(B) = Acumulan(A)
  BY <1>1, <1>2 DEF Acumulan
<1>5. CASE Mejores(A, l) = {}
  <2>1. Unicas(A) = {}
    BY <1>1, <1>5, HayMejor
  <2>2. Mejores(B, l) = {}
    BY <1>1, <2>1, MejoresSon DEF Unicas
  <2>3. QED
    BY <1>2, <1>3, <1>4, <1>5, <2>2
<1>6. CASE Mejores(A, l) # {}
  <2>1. PICK p \in Mejores(A, l) : D = Acumulan(A) \cup {p}
    BY <1>2, <1>6
  <2>2. p \in Unicas(A) /\ p \in Unicas(B) /\ p \in Mejores(B, l)
    BY <1>1, <2>1, MejoresSon DEF Unicas
  <2>3. PICK q \in Mejores(B, l) : E = Acumulan(A) \cup {q}
    BY <1>3, <1>4, <2>2
  <2>4. q \in Unicas(B) /\ q \in Unicas(A)
    BY <1>1, <2>3, MejoresSon DEF Unicas
  <2>5. ~Supera(p, q, l) /\ ~Supera(q, p, l)
    BY <2>1, <2>2, <2>3, <2>4, MejoresSon
  <2>6. \A r \in A : Descuento(r, l) \in Nat /\ promo[r].forma.prioridad \in Int
    BY <1>1, Orden
  <2>7. p \in A /\ q \in A /\ p \notin Acumulan(A) /\ q \notin Acumulan(A)
    BY <2>2, <2>4 DEF Unicas, Acumulan
  <2>8. Descuento(p, l) = Descuento(q, l)
    BY <2>5, <2>6, <2>7 DEF Supera
  <2>9. IsFiniteSet(Acumulan(A)) /\ Acumulan(A) \subseteq A
    <3>1. Acumulan(A) \subseteq Promos /\ Acumulan(A) \subseteq A
      BY <1>1 DEF Acumulan
    <3>2. QED
      BY <3>1, PreciosAssumption, FS_Subset
  <2>10. SumFunctionOnSet([r \in D |-> Descuento(r, l)], D) =
           Descuento(p, l) + SumFunctionOnSet([r \in Acumulan(A) |-> Descuento(r, l)], Acumulan(A))
    BY <2>1, <2>6, <2>7, <2>9, SumaConUna
  <2>11. SumFunctionOnSet([r \in E |-> Descuento(r, l)], E) =
           Descuento(q, l) + SumFunctionOnSet([r \in Acumulan(A) |-> Descuento(r, l)], Acumulan(A))
    BY <2>3, <2>6, <2>7, <2>9, SumaConUna
  <2>12. QED
    BY <2>8, <2>10, <2>11 DEF DescuentoTotal
<1>7. QED
  BY <1>5, <1>6

\* What the till was told of a cart: the discounts of a choice among what is loaded, and the
\* promotions of that choice.
Dicho(carrito, ids, descuentos) ==
  LET lineas == RenglonesPrevia(carrito) IN
    \E d \in Elecciones(Cargadas, lineas) :
      /\ ids = Usadas(d)
      /\ descuentos = [i \in DOMAIN d |-> DescuentoTotal(d[i], lineas[i])]

\* Nothing was previewed, or it was a cart, and what was said of it holds until it is stale.
PreviaFiel ==
  \/ previa = Nada
  \/ /\ previa = [carrito |-> previa.carrito, fresca |-> previa.fresca, ids |-> previa.ids,
                  descuentos |-> previa.descuentos]
     /\ previa.carrito \in Carritos
     /\ previa.fresca => Dicho(previa.carrito, previa.ids, previa.descuentos)

InvPre == PromosOK /\ tarifa \in [Articulos -> Tarifas] /\ PreviaFiel /\ PreviaEsCobro

\* A cart is a sequence of items, of products and of units.
LEMMA CarritoForma ==
  ASSUME NEW c \in Carritos
  PROVE  /\ Len(c) \in Nat /\ DOMAIN c = 1 .. Len(c)
         /\ \A i \in DOMAIN c : /\ c[i].articulo \in Articulos
                                /\ c[i].cantidad \in Nat /\ 0 < c[i].cantidad
<1> DEFINE Item == [articulo : Articulos, cantidad : Nat \ {0}]
<1>1. c \in Seq(Item)
  BY PreciosAssumption
<1>2. \A x \in Item : x.articulo \in Articulos /\ x.cantidad \in Nat /\ 0 < x.cantidad
  OBVIOUS
<1> HIDE DEF Item
<1>3. Len(c) \in Nat /\ DOMAIN c = 1 .. Len(c)
  BY <1>1
<1>4. \A i \in DOMAIN c : c[i] \in Item
  BY <1>1, <1>3
<1>5. QED
  BY <1>2, <1>3, <1>4

\* The price of an item is that of one of its rows, if the quantity reaches any.
LEMMA PreciosForma ==
  ASSUME tarifa \in [Articulos -> Tarifas], NEW x, x.articulo \in Articulos, x.cantidad \in Nat
  PROVE  PrecioPrevia(x) \in Nat /\ (Alcanzadas(x) # {} => PrecioCobro(x) \in Nat)
<1> DEFINE a == [minimo |-> Unidad, monto |-> tarifa[x.articulo]]
           b == Volumen[x.articulo]
<1>1. Filas(x.articulo) = {a, b} /\ Alcanzadas(x) \subseteq {a, b}
  BY DEF Filas, Alcanzadas
<1>2. /\ a.minimo \in Int /\ b.minimo \in Int /\ a.monto \in Nat /\ b.monto \in Nat
  <2>1. tarifa[x.articulo] \in Nat
    BY PreciosAssumption
  <2>2. a.minimo = Unidad /\ a.monto = tarifa[x.articulo]
    OBVIOUS
  <2>3. b.minimo \in Nat /\ b.monto \in Nat
    BY PreciosAssumption
  <2> HIDE DEF a, b
  <2>4. QED
    BY <2>1, <2>2, <2>3, PartesForma
<1> HIDE DEF a, b
<1>3. ASSUME NEW F \in SUBSET {a, b}, F # {}
      PROVE  /\ \E f \in F : \A g \in F : f.minimo <= g.minimo
             /\ \E f \in F : \A g \in F : g.minimo <= f.minimo
  <2>1. CASE a.minimo <= b.minimo
    BY <1>2, <1>3, <2>1
  <2>2. CASE b.minimo <= a.minimo
    BY <1>2, <1>3, <2>2
  <2>3. QED
    BY <1>2, <2>1, <2>2
<1>4. PrecioPrevia(x) \in Nat
  <2> DEFINE F == Filas(x.articulo)
             f == CHOOSE f \in F : \A g \in F : f.minimo <= g.minimo
  <2>1. F \in SUBSET {a, b} /\ F # {}
    BY <1>1
  <2> HIDE DEF F
  <2>2. f \in F
    BY <1>3, <2>1
  <2>3. PrecioPrevia(x) = f.monto
    BY DEF PrecioPrevia, F
  <2> HIDE DEF f
  <2>4. QED
    BY <1>2, <2>1, <2>2, <2>3
<1>5. ASSUME Alcanzadas(x) # {} PROVE PrecioCobro(x) \in Nat
  <2> DEFINE F == Alcanzadas(x)
             f == CHOOSE f \in F : \A g \in F : g.minimo <= f.minimo
  <2>1. F \in SUBSET {a, b} /\ F # {}
    BY <1>1, <1>5
  <2> HIDE DEF F
  <2>2. f \in F
    BY <1>3, <2>1
  <2>3. PrecioCobro(x) = f.monto
    BY DEF PrecioCobro, F
  <2> HIDE DEF f
  <2>4. QED
    BY <1>2, <2>1, <2>2, <2>3
<1>6. QED
  BY <1>4, <1>5

\* The lines of a preview are in whole numbers.
LEMMA RenglonesForma ==
  ASSUME tarifa \in [Articulos -> Tarifas], NEW c \in Carritos, NEW i \in DOMAIN c
  PROVE  EsRenglon(RenglonesPrevia(c)[i])
<1>1. c[i].articulo \in Articulos /\ c[i].cantidad \in Nat
  BY CarritoForma
<1>2. PrecioPrevia(c[i]) \in Nat
  BY <1>1, PreciosForma
<1>3. PrecioPrevia(c[i]) * c[i].cantidad \in Nat
  BY <1>1, <1>2
<1>4. QED
  BY <1>1, <1>2, <1>3 DEF RenglonesPrevia, Renglon, EsRenglon

\* A charge of the promotions the preview named, of the same lines, gives the same discounts.
LEMMA MismosDescuentos ==
  ASSUME PromosOK, tarifa \in [Articulos -> Tarifas], NEW c \in Carritos, NEW ids, NEW descuentos,
         Dicho(c, ids, descuentos),
         NEW e \in Elecciones(Cargadas \cap ids, RenglonesPrevia(c))
  PROVE  /\ DOMAIN e = DOMAIN RenglonesPrevia(c)
         /\ [i \in DOMAIN e |-> DescuentoTotal(e[i], RenglonesPrevia(c)[i])] = descuentos
<1> DEFINE L == RenglonesPrevia(c)
           t == Bruto(L)
           K == Cargadas \cap ids
<1>1. PICK d \in Elecciones(Cargadas, L) :
        ids = Usadas(d) /\ descuentos = [i \in DOMAIN d |-> DescuentoTotal(d[i], L[i])]
  BY DEF Dicho
<1>2. DOMAIN L = DOMAIN c
  BY DEF RenglonesPrevia
<1>3. /\ DOMAIN d = DOMAIN L /\ \A i \in DOMAIN L : d[i] \in Detalles(Cargadas, L[i], t)
      /\ DOMAIN e = DOMAIN L /\ \A i \in DOMAIN L : e[i] \in Detalles(K, L[i], t)
  BY <1>1 DEF Elecciones
<1>4. \A p \in Cargadas : p \in Promos /\ promo[p] # NoPromo
  BY DEF Cargadas, NoPromo
<1>5. ASSUME NEW i \in DOMAIN L PROVE DescuentoTotal(d[i], L[i]) = DescuentoTotal(e[i], L[i])
  <2>1. EsRenglon(L[i])
    BY <1>2, <1>5, RenglonesForma
  <2>2. d[i] \subseteq Cargadas
    BY <1>3, <1>5 DEF Detalles, Mejores, Aplican
  <2>3. d[i] \subseteq K
    BY <1>1, <1>3, <1>5, <2>2 DEF Usadas
  <2>4. Cargadas \in SUBSET Promos /\ K \in SUBSET Cargadas
    BY <1>4
  <2>5. d[i] \in Detalles(Cargadas, L[i], t) /\ e[i] \in Detalles(K, L[i], t)
    BY <1>3, <1>5
  <2> HIDE DEF K, L, t
  <2>6. QED
    BY <1>4, <2>1, <2>3, <2>4, <2>5, MismaLinea
<1>6. QED
  BY <1>1, <1>3, <1>5

\* What a preview says depends on promotions and prices only.
LEMMA DichoIgual ==
  ASSUME UNCHANGED <<promo, tarifa>>
  PROVE  \A c, ids, s : Dicho(c, ids, s)' <=> Dicho(c, ids, s)
<1>1. \A p, l : Descuento(p, l)' = Descuento(p, l)
  BY DEF Descuento
<1>2. \A ps, l, t : Aplican(ps, l, t)' = Aplican(ps, l, t)
  BY <1>1 DEF Aplican
<1>3. \A ps, l : Mejores(ps, l)' = Mejores(ps, l)
  BY <1>1 DEF Mejores
<1>4. \A ps, l, t : Detalles(ps, l, t)' = Detalles(ps, l, t)
  <2>1. TAKE ps, l, t
  <2>2. PICK A, M : A = Aplican(ps, l, t) /\ M = Mejores(A, l)
    OBVIOUS
  <2>3. A = Aplican(ps, l, t)' /\ M = Mejores(A, l)'
    BY <1>2, <1>3, <2>2
  <2>4. PICK J : J = {p \in A : promo[p].forma.acumulable}
    OBVIOUS
  <2>5. Detalles(ps, l, t) = IF M = {} THEN {J} ELSE {J \cup {p} : p \in M}
    BY <2>2, <2>4 DEF Detalles
  <2>6. Detalles(ps, l, t)' = IF M = {} THEN {J} ELSE {J \cup {p} : p \in M}
    BY <2>3, <2>4 DEF Detalles
  <2>7. QED
    BY <2>5, <2>6
<1>5. \A ps, lineas : Elecciones(ps, lineas)' = Elecciones(ps, lineas)
  BY <1>4 DEF Elecciones
<1>6. \A d, l : DescuentoTotal(d, l)' = DescuentoTotal(d, l)
  BY <1>1 DEF DescuentoTotal
<1>7. Cargadas' = Cargadas
  BY DEF Cargadas
<1>8. \A c : RenglonesPrevia(c)' = RenglonesPrevia(c)
  BY DEF RenglonesPrevia, PrecioPrevia, Filas
<1>9. QED
  BY <1>5, <1>6, <1>7, <1>8 DEF Dicho

\* No promotions and no preview at the start.
LEMMA InitPrecios == InitPre => InvPre
  BY DEF InitPre, InvPre, PromosOK, PreviaFiel, PreviaEsCobro, NoPromo

\* A change of a promotion makes the preview stale, and the sale it preceded stands.
LEMMA CambiaPrecios ==
  ASSUME InvPre, NEW p \in Promos, NEW valor \in Promocion, Valida(valor.forma), Cambia(p, valor)
  PROVE  InvPre'
<1>1. PromosOK'
  BY DEF InvPre, PromosOK, Cambia
<1>2. PreviaFiel' /\ previa'.descuentos = previa.descuentos
  <2>1. CASE previa = Nada
    BY <2>1 DEF Cambia, Envejece, PreviaFiel
  <2>2. CASE previa # Nada
    BY <2>2 DEF InvPre, PreviaFiel, Cambia, Envejece, Nada
  <2>3. QED
    BY <2>1, <2>2
<1>3. PreviaEsCobro'
  BY <1>2 DEF InvPre, PreviaEsCobro, Cambia
<1>4. QED
  BY <1>1, <1>2, <1>3 DEF InvPre, Cambia

\* So does a change of price.
LEMMA FijarPrecios ==
  ASSUME InvPre, NEW a \in Articulos, NEW m \in Tarifas, FijarPrecio(a, m)
  PROVE  InvPre'
<1>1. PromosOK' /\ tarifa' \in [Articulos -> Tarifas]
  BY DEF InvPre, PromosOK, FijarPrecio
<1>2. PreviaFiel' /\ previa'.descuentos = previa.descuentos
  <2>1. CASE previa = Nada
    BY <2>1 DEF FijarPrecio, Envejece, PreviaFiel
  <2>2. CASE previa # Nada
    BY <2>2 DEF InvPre, PreviaFiel, FijarPrecio, Envejece, Nada
  <2>3. QED
    BY <2>1, <2>2
<1>3. PreviaEsCobro'
  BY <1>2 DEF InvPre, PreviaEsCobro, FijarPrecio
<1>4. QED
  BY <1>1, <1>2, <1>3 DEF InvPre

\* A preview says what it chose.
LEMMA PreviaPrecios ==
  ASSUME InvPre, NEW c \in Carritos, Previsualizar(c)
  PROVE  InvPre'
<1>1. UNCHANGED <<promo, tarifa>> /\ venta' = Nada
  BY DEF Previsualizar
<1>2. PICK d \in Elecciones(Cargadas, RenglonesPrevia(c)) :
        previa' = [carrito |-> c, fresca |-> TRUE, ids |-> Usadas(d),
                   descuentos |-> [i \in DOMAIN d |-> DescuentoTotal(d[i], RenglonesPrevia(c)[i])]]
  BY DEF Previsualizar
<1>3. Dicho(c, previa'.ids, previa'.descuentos)
  BY <1>2 DEF Dicho
<1>4. Dicho(previa.carrito, previa.ids, previa.descuentos)'
  <2>1. PICK ids, s : ids = previa'.ids /\ s = previa'.descuentos
    OBVIOUS
  <2>2. Dicho(c, ids, s)'
    BY <1>1, <1>3, <2>1, DichoIgual
  <2>3. QED
    BY <1>2, <2>1, <2>2
<1>5. PreviaFiel'
  BY <1>2, <1>4 DEF PreviaFiel
<1>6. QED
  BY <1>1, <1>5 DEF InvPre, PromosOK, PreviaEsCobro

\* A charge that follows its preview, and counts the uses of what it applied.
LEMMA CobroPrecios ==
  ASSUME InvPre, NEW c \in Carritos, NEW ps \in SUBSET Promos, CobrarCarrito(c, ps)
  PROVE  InvPre'
<1> DEFINE L == RenglonesCobro(c)
<1>1. PICK e \in Elecciones(Cargadas \cap ps, L) :
        LET calculadas == [i \in DOMAIN e |-> Calculada(L[i], DescuentoTotal(e[i], L[i]))]
            contadas == {p \in Usadas(e) : promo[p].forma.usoMaximo > 0}
        IN /\ venta' = [carrito |-> c, lineas |-> calculadas,
                        total |-> TotalVenta(calculadas),
                        segunPrevia |-> /\ previa # Nada /\ previa.carrito = c
                                        /\ previa.fresca /\ previa.ids = ps
                                        /\ L = RenglonesPrevia(c)]
           /\ promo' = [p \in Promos |-> IF p \in contadas THEN [promo[p] EXCEPT !.usos = @ + 1]
                                         ELSE promo[p]]
           /\ previa' = IF previa = Nada THEN Nada
                        ELSE [previa EXCEPT !.fresca = @ /\ contadas = {}]
  BY DEF CobrarCarrito
<1> DEFINE calculadas == [i \in DOMAIN e |-> Calculada(L[i], DescuentoTotal(e[i], L[i]))]
           contadas == {p \in Usadas(e) : promo[p].forma.usoMaximo > 0}
           sigue == /\ previa # Nada /\ previa.carrito = c /\ previa.fresca /\ previa.ids = ps
                    /\ L = RenglonesPrevia(c)
<1>2. venta'.lineas = calculadas /\ (venta'.segunPrevia <=> sigue)
  <2>1. PICK total : venta' = [carrito |-> c, lineas |-> calculadas, total |-> total,
                              segunPrevia |-> sigue]
    BY <1>1
  <2> HIDE DEF calculadas, sigue
  <2>2. QED
    BY <2>1
<1>3. tarifa' = tarifa
  BY DEF CobrarCarrito
<1>4. \A p \in contadas : promo[p] # NoPromo
  <2>1. \A i \in DOMAIN e : e[i] \in Detalles(Cargadas \cap ps, L[i], Bruto(L))
    BY <1>1 DEF Elecciones
  <2>2. \A i \in DOMAIN e : e[i] \subseteq Cargadas
    BY <2>1 DEF Detalles, Mejores, Aplican
  <2>3. QED
    BY <2>2 DEF Usadas, Cargadas, NoPromo
<1>5. PromosOK'
  <2>1. \A p \in Promos : promo[p] # NoPromo =>
          /\ [promo[p] EXCEPT !.usos = @ + 1] \in Promocion
          /\ [promo[p] EXCEPT !.usos = @ + 1].forma = promo[p].forma
    BY DEF InvPre, PromosOK, Promocion
  <2>2. \A p \in Promos : /\ promo'[p] \in Promocion \cup {NoPromo}
                          /\ promo'[p] # NoPromo => Valida(promo'[p].forma)
    <3>1. TAKE p \in Promos
    <3>2. CASE p \in contadas
      <4>1. promo'[p] = [promo[p] EXCEPT !.usos = @ + 1]
        BY <1>1, <3>2
      <4>2. QED
        BY <1>4, <2>1, <3>2, <4>1 DEF InvPre, PromosOK
    <3>3. CASE p \notin contadas
      BY <1>1, <3>3 DEF InvPre, PromosOK
    <3>4. QED
      BY <3>2, <3>3
  <2>3. promo' = [p \in Promos |-> promo'[p]]
    BY <1>1
  <2>4. QED
    BY <2>2, <2>3 DEF PromosOK
<1>6. CASE previa = Nada
  BY <1>1, <1>3, <1>5, <1>6 DEF InvPre, PreviaFiel, PreviaEsCobro
<1>7. CASE previa # Nada
  <2>1. /\ previa = [carrito |-> previa.carrito, fresca |-> previa.fresca, ids |-> previa.ids,
                     descuentos |-> previa.descuentos]
        /\ previa.carrito \in Carritos
        /\ previa.fresca => Dicho(previa.carrito, previa.ids, previa.descuentos)
    BY <1>7 DEF InvPre, PreviaFiel
  <2>2. /\ previa' = [carrito |-> previa.carrito, fresca |-> previa.fresca /\ contadas = {},
                      ids |-> previa.ids, descuentos |-> previa.descuentos]
    BY <1>1, <1>7, <2>1
  <2>3. PreviaFiel'
    <3>1. ASSUME previa'.fresca
          PROVE  Dicho(previa.carrito, previa.ids, previa.descuentos)'
      <4>1. previa.fresca /\ contadas = {}
        BY <2>2, <3>1
      <4>2. promo' = promo
        BY <1>1, <4>1 DEF InvPre, PromosOK
      <4>3. PICK k, ids, s : k = previa.carrito /\ ids = previa.ids /\ s = previa.descuentos
        OBVIOUS
      <4>4. Dicho(k, ids, s)'
        BY <1>3, <2>1, <4>1, <4>2, <4>3, DichoIgual
      <4>5. QED
        BY <2>2, <4>3, <4>4
    <3>2. QED
      BY <2>1, <2>2, <3>1 DEF PreviaFiel
  <2>4. PreviaEsCobro'
    <3>1. SUFFICES ASSUME venta'.segunPrevia
          PROVE  [i \in DOMAIN venta'.lineas |-> venta'.lineas[i].descuento] = previa'.descuentos
      BY DEF PreviaEsCobro
    <3>2. /\ previa.carrito = c /\ previa.fresca /\ previa.ids = ps /\ L = RenglonesPrevia(c)
      BY <1>2, <3>1
    <3>3. Dicho(c, ps, previa.descuentos)
      BY <2>1, <3>2
    <3>4. [i \in DOMAIN e |-> DescuentoTotal(e[i], L[i])] = previa.descuentos
      <4>1. PICK s : s = previa.descuentos /\ Dicho(c, ps, s)
        BY <3>3
      <4>2. e \in Elecciones(Cargadas \cap ps, RenglonesPrevia(c))
        BY <3>2
      <4>3. PromosOK /\ tarifa \in [Articulos -> Tarifas]
        BY DEF InvPre
      <4>4. [i \in DOMAIN e |-> DescuentoTotal(e[i], RenglonesPrevia(c)[i])] = s
        BY <4>1, <4>2, <4>3, MismosDescuentos
      <4>5. QED
        BY <3>2, <4>1, <4>4
    <3>5. /\ DOMAIN venta'.lineas = DOMAIN e
          /\ \A i \in DOMAIN e : venta'.lineas[i].descuento = DescuentoTotal(e[i], L[i])
      <4>1. \A l, x : Calculada(l, x).descuento = x
        BY DEF Calculada
      <4>2. QED
        BY <1>2, <4>1
    <3>6. QED
      BY <2>2, <3>4, <3>5
  <2>5. QED
    BY <1>3, <1>5, <2>3, <2>4 DEF InvPre
<1>8. QED
  BY <1>6, <1>7

\* Promotions, previews and charges keep the invariant.
LEMMA PasoPrecios == InvPre /\ [NextPre]_varsPre => InvPre'
<1> SUFFICES ASSUME InvPre, [NextPre]_varsPre PROVE InvPre'
  OBVIOUS
<1>1. ASSUME NEW p \in Promos, NEW f \in Formas, CrearPromocion(p, f) \/ ActualizarPromocion(p, f)
      PROVE  InvPre'
  <2>1. CASE CrearPromocion(p, f)
    <3>1. PICK x : x = [estado |-> "PAUSADA", forma |-> f, vigente |-> TRUE, usos |-> 0]
      OBVIOUS
    <3>2. x \in Promocion /\ x.forma = f
      BY <3>1 DEF Promocion
    <3>3. Cambia(p, x) /\ Valida(f)
      BY <2>1, <3>1 DEF CrearPromocion
    <3>4. QED
      BY <3>2, <3>3, CambiaPrecios
  <2>2. CASE ActualizarPromocion(p, f)
    <3>1. promo[p] \in Promocion /\ Valida(f)
      BY <2>2 DEF ActualizarPromocion, InvPre, PromosOK
    <3>2. PICK x : x = [promo[p] EXCEPT !.forma = f]
      OBVIOUS
    <3>3. x \in Promocion /\ x.forma = f
      BY <3>1, <3>2 DEF Promocion
    <3>4. Cambia(p, x)
      BY <2>2, <3>2 DEF ActualizarPromocion
    <3>5. QED
      BY <3>1, <3>3, <3>4, CambiaPrecios
  <2>3. QED
    BY <1>1, <2>1, <2>2
<1>2. ASSUME NEW p \in Promos, NEW e \in {"ACTIVA", "PAUSADA"}, CambiarEstadoPromocion(p, e)
      PROVE  InvPre'
  <2>1. promo[p] \in Promocion /\ Valida(promo[p].forma)
    BY <1>2 DEF CambiarEstadoPromocion, InvPre, PromosOK
  <2>2. PICK x : x = [promo[p] EXCEPT !.estado = e]
    OBVIOUS
  <2>3. x \in Promocion /\ x.forma = promo[p].forma
    BY <2>1, <2>2 DEF Promocion
  <2>4. QED
    BY <1>2, <2>1, <2>2, <2>3, CambiaPrecios DEF CambiarEstadoPromocion
<1>3. ASSUME NEW p \in Promos, PasarFecha(p)
      PROVE  InvPre'
  <2>1. promo[p] \in Promocion /\ Valida(promo[p].forma)
    BY <1>3 DEF PasarFecha, InvPre, PromosOK
  <2>2. PICK x : x = [promo[p] EXCEPT !.vigente = ~@]
    OBVIOUS
  <2>3. x \in Promocion /\ x.forma = promo[p].forma
    BY <2>1, <2>2 DEF Promocion
  <2>4. QED
    BY <1>3, <2>1, <2>2, <2>3, CambiaPrecios DEF PasarFecha
<1>4. ASSUME Emitir \/ UNCHANGED varsPre
      PROVE  InvPre'
  <2>1. UNCHANGED <<promo, tarifa, previa, venta>>
    BY <1>4 DEF Emitir, varsPre
  <2>2. PreviaFiel'
    <3>1. CASE previa = Nada
      BY <2>1, <3>1 DEF PreviaFiel
    <3>2. CASE previa # Nada
      <4>1. PICK k, ids, s : k = previa.carrito /\ ids = previa.ids /\ s = previa.descuentos
        OBVIOUS
      <4>2. previa.fresca => Dicho(k, ids, s)
        BY <3>2, <4>1 DEF InvPre, PreviaFiel
      <4>3. previa.fresca => Dicho(k, ids, s)'
        BY <2>1, <4>2, DichoIgual
      <4>4. previa.fresca => Dicho(previa.carrito, previa.ids, previa.descuentos)'
        BY <2>1, <4>1, <4>3
      <4>5. QED
        BY <2>1, <3>2, <4>4 DEF InvPre, PreviaFiel
    <3>3. QED
      BY <3>1, <3>2
  <2>3. QED
    BY <2>1, <2>2 DEF InvPre, PromosOK, PreviaEsCobro
<1>5. QED
  BY <1>1, <1>2, <1>3, <1>4, FijarPrecios, PreviaPrecios, CobroPrecios DEF NextPre

\* The charge gives each line the discount that the preview of the same cart showed, whatever
\* promotions and prices changed before, and however ties between promotions are resolved.
THEOREM CobroComoPrevia == SpecPre => []PreviaEsCobro
<1>1. InvPre => PreviaEsCobro
  BY DEF InvPre
<1>2. QED
  BY InitPrecios, PasoPrecios, <1>1, PTL DEF SpecPre

\* What is chosen for a line is loaded.
LEMMA ElegidasForma ==
  ASSUME NEW ps, NEW lineas, NEW d \in Elecciones(ps, lineas)
  PROVE  /\ DOMAIN d = DOMAIN lineas
         /\ \A i \in DOMAIN d : d[i] \subseteq ps
<1>1. /\ DOMAIN d = DOMAIN lineas
      /\ \A i \in DOMAIN d : d[i] \in Detalles(ps, lineas[i], Bruto(lineas))
  BY DEF Elecciones
<1>2. \A i \in DOMAIN d : d[i] \subseteq ps
  BY <1>1 DEF Detalles, Mejores, Aplican
<1>3. QED
  BY <1>1, <1>2

\* The discount of a line is a whole number of cents, and exceeds the line by half of one at most.
LEMMA DescuentoAcotado ==
  ASSUME PromosOK, NEW l, EsRenglon(l), NEW D \in SUBSET Promos, \A p \in D : promo[p] # NoPromo
  PROVE  /\ DescuentoTotal(D, l) \in Nat
         /\ 2 * (Centavo * DescuentoTotal(D, l) - l.bruto) <= Centavo
<1> DEFINE f == [p \in D |-> Descuento(p, l)]
           n == SumFunctionOnSet(f, D)
           b == l.bruto
           m == Min({b, Centavo * n})
<1>1. IsFiniteSet(D)
  BY PreciosAssumption, FS_Subset
<1>2. \A p \in D : f[p] \in Nat
  BY DescuentoNatural
<1>3. n \in Nat
  <2> HIDE DEF f
  <2>1. QED
    BY <1>1, <1>2, SumaNatural
<1>4. b \in Nat
  BY DEF EsRenglon
<1>5. DescuentoTotal(D, l) = Redondea(m, Centavo)
  BY DEF DescuentoTotal
<1> HIDE DEF n, b
<1>6. Centavo \in Nat \ {0} /\ Centavo * n \in Nat
  BY <1>3, PartesForma
<1> DEFINE x == Centavo * n
<1>7. m \in Nat /\ m <= b
  <2>1. x \in Nat
    BY <1>6
  <2> HIDE DEF x
  <2>2. \E y \in {b, x} : \A z \in {b, x} : y <= z
    <3>1. CASE b <= x
      BY <1>4, <2>1, <3>1
    <3>2. CASE ~(b <= x)
      BY <1>4, <2>1, <3>2
    <3>3. QED
      BY <3>1, <3>2
  <2>3. Min({b, x}) \in {b, x} /\ \A z \in {b, x} : Min({b, x}) <= z
    BY <2>2 DEF Min
  <2>4. Min({b, x}) \in Nat /\ Min({b, x}) <= b
    BY <1>4, <2>1, <2>3
  <2>5. QED
    BY <2>4 DEF x
<1> HIDE DEF m
<1>8. Redondo(Redondea(m, Centavo), m, Centavo) /\ Redondea(m, Centavo) \in Nat
  BY <1>6, <1>7, RedondeoCota
<1> DEFINE R == Redondea(m, Centavo)
           y == Centavo * R
<1>9. R \in Nat /\ y \in Nat /\ 2 * y - 2 * m <= Centavo
  BY <1>6, <1>8 DEF Redondo
<1>10. DescuentoTotal(D, l) = R
  BY <1>5
<1> HIDE DEF R
<1>11. 2 * (y - b) <= Centavo
  <2> HIDE DEF y
  <2>1. QED
    BY <1>4, <1>6, <1>7, <1>9
<1>12. QED
  BY <1>9, <1>10, <1>11 DEF b

\* The lines of a charge are in whole numbers.
LEMMA CobroForma ==
  ASSUME tarifa \in [Articulos -> Tarifas], NEW c \in Carritos, NEW i \in DOMAIN c,
         Alcanzadas(c[i]) # {}
  PROVE  DOMAIN RenglonesCobro(c) = DOMAIN c /\ EsRenglon(RenglonesCobro(c)[i])
<1>1. c[i].articulo \in Articulos /\ c[i].cantidad \in Nat /\ PrecioCobro(c[i]) \in Nat
  BY CarritoForma, PreciosForma
<1>2. PrecioCobro(c[i]) * c[i].cantidad \in Nat
  BY <1>1
<1>3. QED
  BY <1>1, <1>2 DEF RenglonesCobro, Renglon, EsRenglon

\* A charge stores lines whose discount is within the line, to half a cent.
LEMMA TipoCobro ==
  ASSUME InvPre, TypeOKPre, NEW c \in Carritos, NEW ps \in SUBSET Promos, CobrarCarrito(c, ps)
  PROVE  /\ venta'.carrito \in Carritos
         /\ \A l \in ToSet(venta'.lineas) :
              0 <= l.descuento /\ 2 * (Centavo * l.descuento - l.bruto) <= Centavo
         /\ comprobante' = Nada
         /\ previa' # Nada => previa # Nada /\ previa'.ids = previa.ids
<1> DEFINE L == RenglonesCobro(c)
<1>1. PICK e \in Elecciones(Cargadas \cap ps, L) :
        LET calculadas == [i \in DOMAIN e |-> Calculada(L[i], DescuentoTotal(e[i], L[i]))]
            contadas == {p \in Usadas(e) : promo[p].forma.usoMaximo > 0}
        IN /\ venta' = [carrito |-> c, lineas |-> calculadas,
                        total |-> TotalVenta(calculadas),
                        segunPrevia |-> /\ previa # Nada /\ previa.carrito = c
                                        /\ previa.fresca /\ previa.ids = ps
                                        /\ L = RenglonesPrevia(c)]
           /\ previa' = IF previa = Nada THEN Nada
                        ELSE [previa EXCEPT !.fresca = @ /\ contadas = {}]
  BY DEF CobrarCarrito
<1> DEFINE calculadas == [i \in DOMAIN e |-> Calculada(L[i], DescuentoTotal(e[i], L[i]))]
<1>2. venta'.carrito = c /\ venta'.lineas = calculadas
  <2>1. PICK total, sigue : venta' = [carrito |-> c, lineas |-> calculadas, total |-> total,
                                     segunPrevia |-> sigue]
    BY <1>1
  <2> HIDE DEF calculadas
  <2>2. QED
    BY <2>1
<1>3. ASSUME NEW i \in DOMAIN e
      PROVE  /\ 0 <= calculadas[i].descuento
             /\ 2 * (Centavo * calculadas[i].descuento - calculadas[i].bruto) <= Centavo
  <2>1. DOMAIN e = DOMAIN L /\ e[i] \subseteq Cargadas
    BY <1>1, ElegidasForma
  <2>2. DOMAIN L = DOMAIN c
    BY DEF RenglonesCobro
  <2>3. EsRenglon(L[i])
    <3>1. Alcanzadas(c[i]) # {}
      BY <2>1, <2>2 DEF CobrarCarrito
    <3>2. QED
      BY <2>1, <2>2, <3>1, CobroForma DEF InvPre
  <2>4. e[i] \in SUBSET Promos /\ \A p \in e[i] : promo[p] # NoPromo
    BY <2>1 DEF Cargadas, NoPromo
  <2>5. /\ DescuentoTotal(e[i], L[i]) \in Nat
        /\ 2 * (Centavo * DescuentoTotal(e[i], L[i]) - L[i].bruto) <= Centavo
    BY <2>3, <2>4, DescuentoAcotado DEF InvPre
  <2>6. \A l, x : Calculada(l, x).descuento = x /\ Calculada(l, x).bruto = l.bruto
    BY DEF Calculada
  <2>7. calculadas[i] = Calculada(L[i], DescuentoTotal(e[i], L[i]))
    OBVIOUS
  <2>8. QED
    BY <2>5, <2>6, <2>7
<1>4. \A l \in ToSet(calculadas) : \E i \in DOMAIN e : l = calculadas[i]
  BY DEF ToSet
<1>5. previa' # Nada => previa # Nada /\ previa'.ids = previa.ids
  <2>1. CASE previa = Nada
    BY <1>1, <2>1
  <2>2. CASE previa # Nada
    BY <1>1, <2>2 DEF InvPre, PreviaFiel
  <2>3. QED
    BY <2>1, <2>2
<1>6. comprobante' = Nada
  BY DEF CobrarCarrito
<1> HIDE DEF calculadas
<1>7. QED
  BY <1>2, <1>3, <1>4, <1>5, <1>6

\* The till, its sale and its document are well typed, and no discount exceeds its line by more
\* than the half cent of its rounding.
THEOREM TipoDePrecios == SpecPre => []TypeOKPre
<1>1. InitPre => TypeOKPre
  BY DEF InitPre, TypeOKPre
<1>2. ASSUME InvPre, InvPre', TypeOKPre, [NextPre]_varsPre PROVE TypeOKPre'
  <2>1. /\ \A p \in Promos : promo'[p] \in Promocion \cup {NoPromo}
        /\ tarifa' \in [Articulos -> Tarifas]
        /\ previa' # Nada => previa'.carrito \in Carritos
    BY <1>2 DEF InvPre, PromosOK, PreviaFiel
  <2>2. ASSUME UNCHANGED <<venta, comprobante>>,
               previa' # Nada => previa # Nada /\ previa'.ids = previa.ids
        PROVE  TypeOKPre'
    BY <1>2, <2>1, <2>2 DEF TypeOKPre
  <2>3. ASSUME Envejece
        PROVE  previa' # Nada => previa # Nada /\ previa'.ids = previa.ids
    <3>1. CASE previa = Nada
      BY <2>3, <3>1 DEF Envejece
    <3>2. CASE previa # Nada
      BY <1>2, <2>3, <3>2 DEF Envejece, InvPre, PreviaFiel
    <3>3. QED
      BY <3>1, <3>2
  <2>4. ASSUME NEW p \in Promos, NEW valor, Cambia(p, valor) PROVE TypeOKPre'
    BY <2>2, <2>3, <2>4 DEF Cambia
  <2>5. ASSUME NEW c \in Carritos, Previsualizar(c) PROVE TypeOKPre'
    <3>1. venta' = Nada /\ comprobante' = Nada
      BY <2>5 DEF Previsualizar
    <3>2. PICK d \in Elecciones(Cargadas, RenglonesPrevia(c)) : previa'.ids = Usadas(d)
      BY <2>5 DEF Previsualizar
    <3>3. Usadas(d) \subseteq Promos
      BY ElegidasForma DEF Usadas, Cargadas
    <3>4. QED
      BY <2>1, <3>1, <3>2, <3>3 DEF TypeOKPre
  <2>6. ASSUME NEW c \in Carritos, NEW ps \in SUBSET Promos, CobrarCarrito(c, ps)
        PROVE  TypeOKPre'
    BY <1>2, <2>1, <2>6, TipoCobro DEF TypeOKPre
  <2>7. ASSUME Emitir PROVE TypeOKPre'
    <3>1. comprobante' = Construido(venta)
      BY <2>7 DEF Emitir
    <3>2. \A v : Construido(v).carrito = v.carrito
      BY DEF Construido
    <3>3. UNCHANGED <<venta, previa>>
      BY <2>7 DEF Emitir
    <3>4. QED
      BY <1>2, <2>1, <3>1, <3>2, <3>3 DEF TypeOKPre
  <2>8. ASSUME NEW a \in Articulos, NEW m \in Tarifas, FijarPrecio(a, m) PROVE TypeOKPre'
    BY <2>2, <2>3, <2>8 DEF FijarPrecio
  <2>9. ASSUME UNCHANGED varsPre PROVE TypeOKPre'
    BY <2>2, <2>9 DEF varsPre
  <2>10. QED
    BY <1>2, <2>4, <2>5, <2>6, <2>7, <2>8, <2>9
    DEF NextPre, CrearPromocion, ActualizarPromocion, CambiarEstadoPromocion, PasarFecha
<1>3. QED
  BY <1>1, <1>2, InitPrecios, PasoPrecios, PTL DEF SpecPre

-----------------------------------------------------------------------------
(* Precios: the document says what was charged *)

\* A factor that is not zero keeps the order, and may be dropped.
LEMMA Escala ==
  ASSUME NEW k \in Nat \ {0}, NEW x \in Int, NEW y \in Int
  PROVE  /\ x <= y => k * x <= k * y
         /\ x < y => k * x < k * y
         /\ k * x < k * y => x < y
<1>1. ASSUME NEW a \in Int, NEW b \in Int, a < b PROVE k * a < k * b
  BY <1>1
<1>2. k * x \in Int /\ k * y \in Int
  OBVIOUS
<1>3. x <= y => k * x <= k * y
  <2>1. CASE x = y
    BY <1>2, <2>1
  <2>2. CASE x < y
    BY <1>1, <1>2, <2>2
  <2>3. QED
    BY <2>1, <2>2
<1>4. ASSUME k * x < k * y, ~(x < y) PROVE FALSE
  <2>1. CASE x = y
    BY <1>2, <1>4, <2>1
  <2>2. CASE y < x
    <3>1. k * y < k * x
      BY <1>1, <2>2
    <3>2. QED
      BY <1>2, <1>4, <3>1
  <2>3. QED
    BY <1>4, <2>1, <2>2
<1>5. QED
  BY <1>1, <1>3, <1>4

\* Whole multiples pass through a rounding.
LEMMA RedondeoExacto ==
  ASSUME NEW m \in Int, NEW d \in Nat \ {0}
  PROVE  Redondea(d * m, d) = m
<1> DEFINE r == Redondea(d * m, d)
           x == d * r
           y == d * m
           d2 == d * (m + 1)
           d3 == d * (m - 1)
<1>1. y \in Int
  OBVIOUS
<1>2. r \in Int /\ 2 * x - 2 * y <= d /\ 2 * y - 2 * x <= d
  BY <1>1, RedondeoCota DEF Redondo
<1> HIDE DEF r
<1>3. x \in Int /\ d2 = y + d /\ d3 = y - d
  BY <1>2
<1>4. x < d2 /\ d3 < x
  <2> HIDE DEF x, y, d2, d3
  <2>1. QED
    BY <1>1, <1>2, <1>3
<1>5. r < m + 1 /\ m - 1 < r
  BY <1>2, <1>4, Escala
<1>6. QED
  BY <1>2, <1>5 DEF r

\* The base of a line: unit value times quantity is what was charged, a / g in parts of a cent, to
\* less than a cent.  A unit value is off by half of its last part, which the units multiply: this
\* is where their number matters.
LEMMA BaseExacta ==
  ASSUME NEW a \in Int, NEW g \in Nat \ {0}, NEW w \in Nat \ {0}, PartesPedidas * w < Centavo
  PROVE  LET b == Redondea(Redondea(a, g * (PartesPedidas * w)) * w, PartesCentavo * PartesGuardadas)
         IN  /\ b \in Int
             /\ 2 * ((g * Centavo) * b) - 2 * a < 2 * (g * Centavo)
             /\ 2 * a - 2 * ((g * Centavo) * b) < 2 * (g * Centavo)
<1> DEFINE K == PartesPedidas
           H == PartesCentavo * PartesGuardadas
           v == Redondea(a, g * (K * w))
           b == Redondea(v * w, H)
<1>1. K \in Nat \ {0} /\ H \in Nat \ {0} /\ Centavo \in Nat \ {0} /\ Centavo = H * K
  <2>1. \A x, y, z \in Nat \ {0} : x * y \in Nat \ {0} /\ x * (y * z) = (x * y) * z
    OBVIOUS
  <2>2. QED
    BY <2>1, PartesForma DEF Centavo, Unidad
<1>2. K * w < Centavo
  OBVIOUS
<1> HIDE DEF K, H
<1>3. K * w \in Nat \ {0} /\ g * (K * w) \in Nat \ {0}
  <2>1. \A x, y \in Nat \ {0} : x * y \in Nat \ {0}
    OBVIOUS
  <2>2. QED
    BY <1>1, <2>1
<1>4. Redondo(v, a, g * (K * w))
  BY <1>3, RedondeoCota
<1>5. v \in Int
  BY <1>4 DEF Redondo
<1> DEFINE q == g * (K * w)
           X == q * v
<1>6. X \in Int /\ 2 * X - 2 * a <= q /\ 2 * a - 2 * X <= q
  BY <1>3, <1>4, <1>5 DEF Redondo
<1> HIDE DEF v
<1> DEFINE p == v * w
<1>7. p \in Int
  BY <1>5
<1>8. Redondo(Redondea(p, H), p, H)
  BY <1>1, <1>7, RedondeoCota
<1>9. b = Redondea(p, H)
  OBVIOUS
<1> HIDE DEF b
<1>10. b \in Int /\ 2 * (H * b) - 2 * p <= H /\ 2 * p - 2 * (H * b) <= H
  BY <1>8, <1>9 DEF Redondo
<1> DEFINE k == g * K
           Y == (g * Centavo) * b
           G == g * Centavo
<1>11. k \in Nat \ {0} /\ G \in Nat \ {0} /\ Y \in Int
  <2>1. \A x, y \in Nat \ {0} : x * y \in Nat \ {0}
    OBVIOUS
  <2>2. QED
    BY <1>1, <1>10, <2>1
<1>12. k * p = X
  BY <1>1, <1>5
<1>13. k * (H * b) = Y /\ k * H = G
  BY <1>1, <1>10
<1>14. 2 * Y - 2 * X <= G /\ 2 * X - 2 * Y <= G
  <2> DEFINE h == H * b
  <2>1. h \in Int /\ 2 * h - 2 * p <= H /\ 2 * p - 2 * h <= H
    BY <1>1, <1>10
  <2>2. k * h = Y
    BY <1>13
  <2> HIDE DEF p, X, h, Y, G, k
  <2>3. k * (2 * h - 2 * p) <= k * H /\ k * (2 * p - 2 * h) <= k * H
    <3>1. 2 * h - 2 * p \in Int /\ 2 * p - 2 * h \in Int /\ H \in Int
      BY <1>1, <1>7, <2>1
    <3>2. QED
      BY <1>11, <2>1, <3>1, Escala
  <2>4. k * (2 * h - 2 * p) = 2 * (k * h) - 2 * (k * p) /\ k * (2 * p - 2 * h) = 2 * (k * p) - 2 * (k * h)
    BY <1>7, <1>11, <2>1
  <2>5. QED
    BY <1>12, <1>13, <2>2, <2>3, <2>4
<1>15. q < G
  <2>1. K * w \in Int /\ Centavo \in Int
    BY <1>1, <1>3
  <2>2. QED
    BY <1>2, <2>1, Escala
<1>16. 2 * Y - 2 * a < 2 * G /\ 2 * a - 2 * Y < 2 * G
  <2>1. q \in Int
    BY <1>3
  <2> HIDE DEF q, X, Y, G
  <2>2. QED
    BY <1>6, <1>11, <1>14, <1>15, <2>1
<1>17. QED
  BY <1>10, <1>16 DEF b, v, K, H

\* Of what was charged, h / d in cents with d = e f, and a duty of o / f, rounded apart: base, tax
\* and duty add up to the total, to a cent if the duty is whole and two otherwise.
LEMMA CuadraLinea ==
  ASSUME NEW e \in Nat \ {0}, NEW f \in Nat \ {0}, NEW h \in Int, NEW o \in Int, NEW x \in Int,
         2 * ((e * f) * x) - 2 * h < 3 * (e * f), 2 * h - 2 * ((e * f) * x) < 3 * (e * f)
  PROVE  LET s == x + Redondea(o, f) - Redondea(e * o + h, e * f)
         IN  s \in -2 .. 2 /\ (o % f = 0 => s \in -1 .. 1)
<1> DEFINE d == e * f
           u == e * o
           R == Redondea(o, f)
           T == Redondea(u + h, d)
           s == x + R - T
           X == d * x
           W == d * R
           Z == d * T
<1>1. d \in Nat \ {0} /\ u \in Int
  OBVIOUS
<1>2. 2 * X - 2 * h < 3 * d /\ 2 * h - 2 * X < 3 * d
  OBVIOUS
<1>3. R \in Int /\ 2 * (f * R) - 2 * o <= f /\ 2 * o - 2 * (f * R) <= f
  BY RedondeoCota DEF Redondo
<1>4. o % f = 0 => f * R = o
  <2>1. SUFFICES ASSUME o % f = 0 PROVE f * R = o
    OBVIOUS
  <2>2. o \div f \in Int /\ o = f * (o \div f)
    BY <2>1
  <2>3. Redondea(f * (o \div f), f) = o \div f
    BY <2>2, RedondeoExacto
  <2>4. QED
    BY <2>2, <2>3
<1> HIDE DEF R
<1> DEFINE y == f * R
<1>5. y \in Int /\ e * y = W
  BY <1>3
<1>6. 2 * W - 2 * u <= d /\ 2 * u - 2 * W <= d
  <2>1. 2 * y - 2 * o \in Int /\ 2 * o - 2 * y \in Int /\ 2 * y - 2 * o <= f /\ 2 * o - 2 * y <= f
    BY <1>3, <1>5
  <2>2. e * (2 * y - 2 * o) <= e * f /\ e * (2 * o - 2 * y) <= e * f
    BY <2>1, Escala
  <2>3. e * (2 * y - 2 * o) = 2 * (e * y) - 2 * u /\ e * (2 * o - 2 * y) = 2 * u - 2 * (e * y)
    BY <1>5
  <2>4. QED
    BY <1>5, <2>2, <2>3
<1>7. o % f = 0 => W = u
  BY <1>4, <1>5
<1>8. T \in Int /\ 2 * Z - 2 * (u + h) <= d /\ 2 * (u + h) - 2 * Z <= d
  <2>1. u + h \in Int
    BY <1>1
  <2>2. QED
    BY <1>1, <2>1, RedondeoCota DEF Redondo
<1> HIDE DEF T
<1>9. X \in Int /\ W \in Int /\ Z \in Int
  BY <1>1, <1>3, <1>8
<1>10. s \in Int /\ d * s = X + W - Z
  BY <1>1, <1>3, <1>8
<1>11. \A n \in {2, 3} : d * n = n * d /\ d * (-n) = -(n * d)
  BY <1>1
<1> DEFINE ds == d * s
<1>12. ds = X + W - Z
  BY <1>10
<1> HIDE DEF d, u, X, W, Z, s, ds
<1>13. ds < 3 * d /\ -(3 * d) < ds
  BY <1>1, <1>2, <1>6, <1>8, <1>9, <1>12
<1>14. s < 3 /\ -3 < s
  <2>1. d * s < d * 3 /\ d * (-3) < d * s
    BY <1>11, <1>13 DEF ds
  <2>2. QED
    BY <1>1, <1>10, <2>1, Escala
<1>15. o % f = 0 => s < 2 /\ -2 < s
  <2>1. SUFFICES ASSUME o % f = 0 PROVE s < 2 /\ -2 < s
    OBVIOUS
  <2>2. ds < 2 * d /\ -(2 * d) < ds
    BY <1>1, <1>2, <1>7, <1>8, <1>9, <1>12, <2>1
  <2>3. d * s < d * 2 /\ d * (-2) < d * s
    BY <1>11, <2>2 DEF ds
  <2>4. QED
    BY <1>1, <1>10, <2>3, Escala
<1>16. s \in -2 .. 2 /\ (o % f = 0 => s \in -1 .. 1)
  BY <1>10, <1>14, <1>15
<1>17. QED
  BY <1>16 DEF s, R, T, u, d

\* Base and tax of what was charged, n in parts of a cent, when the price includes the tax.
LEMMA NetoConImpuesto ==
  ASSUME NEW e \in Nat \ {0}, NEW t \in Nat, NEW f \in Nat \ {0}, NEW n \in Int, NEW b \in Int,
         2 * (((e + t) * f) * b) - 2 * (e * n) < 2 * ((e + t) * f),
         2 * (e * n) - 2 * (((e + t) * f) * b) < 2 * ((e + t) * f)
  PROVE  LET x == b + Redondea(n * t, (e + t) * f)
         IN  /\ x \in Int
             /\ 2 * ((e * f) * x) - 2 * (e * n) < 3 * (e * f)
             /\ 2 * (e * n) - 2 * ((e * f) * x) < 3 * (e * f)
<1> DEFINE g == e + t
           d == g * f
           I == Redondea(n * t, d)
           x == b + I
           B == d * b
           J == d * I
           en == e * n
           nt == n * t
<1>1. g \in Nat \ {0} /\ d \in Nat \ {0} /\ nt \in Int /\ en \in Int
  <2>1. g \in Nat \ {0}
    OBVIOUS
  <2> HIDE DEF g
  <2>2. QED
    BY <2>1
<1>2. g * n = en + nt
  OBVIOUS
<1>3. 2 * B - 2 * en < 2 * d /\ 2 * en - 2 * B < 2 * d
  OBVIOUS
<1> HIDE DEF g
<1>4. I \in Int /\ 2 * J - 2 * nt <= d /\ 2 * nt - 2 * J <= d
  BY <1>1, RedondeoCota DEF Redondo
<1> HIDE DEF I
<1>5. B \in Int /\ J \in Int
  BY <1>1, <1>4
<1> DEFINE fx == f * x
<1>6. x \in Int /\ fx \in Int /\ g * fx = B + J
  BY <1>1, <1>4
<1>7. g * (2 * fx - 2 * n) = 2 * (B + J) - 2 * (en + nt) /\ g * (2 * n - 2 * fx) = 2 * (en + nt) - 2 * (B + J)
  <2> HIDE DEF fx
  <2>1. g * (2 * fx - 2 * n) = 2 * (g * fx) - 2 * (g * n) /\ g * (2 * n - 2 * fx) = 2 * (g * n) - 2 * (g * fx)
    BY <1>1, <1>6
  <2>2. QED
    BY <1>2, <1>6, <2>1
<1>8. g * (3 * f) = 3 * d
  BY <1>1
<1>9. 2 * fx - 2 * n < 3 * f /\ 2 * n - 2 * fx < 3 * f
  <2>1. g * (2 * fx - 2 * n) < g * (3 * f) /\ g * (2 * n - 2 * fx) < g * (3 * f)
    <3> HIDE DEF d, B, J, en, nt, fx
    <3>1. QED
      BY <1>1, <1>3, <1>4, <1>5, <1>7, <1>8
  <2>2. 2 * fx - 2 * n \in Int /\ 2 * n - 2 * fx \in Int /\ 3 * f \in Int
    BY <1>6
  <2> HIDE DEF fx
  <2>3. QED
    BY <1>1, <2>1, <2>2, Escala
<1>10. e * (2 * fx - 2 * n) < e * (3 * f) /\ e * (2 * n - 2 * fx) < e * (3 * f)
  <2>1. 2 * fx - 2 * n \in Int /\ 2 * n - 2 * fx \in Int /\ 3 * f \in Int
    BY <1>6
  <2> HIDE DEF fx
  <2>2. QED
    BY <1>9, <2>1, Escala
<1>11. /\ e * (2 * fx - 2 * n) = 2 * ((e * f) * x) - 2 * (e * n)
       /\ e * (2 * n - 2 * fx) = 2 * (e * n) - 2 * ((e * f) * x)
       /\ e * (3 * f) = 3 * (e * f)
  BY <1>6
<1>12. /\ x \in Int
       /\ 2 * ((e * f) * x) - 2 * (e * n) < 3 * (e * f)
       /\ 2 * (e * n) - 2 * ((e * f) * x) < 3 * (e * f)
  BY <1>6, <1>10, <1>11
<1>13. QED
  BY <1>12 DEF x, I, d, g

\* And when the tax comes on top.
LEMMA NetoSinImpuesto ==
  ASSUME NEW e \in Nat \ {0}, NEW t \in Nat, NEW f \in Nat \ {0}, NEW n \in Int, NEW b \in Int,
         2 * (f * b) - 2 * n < 2 * f, 2 * n - 2 * (f * b) < 2 * f
  PROVE  LET x == b + Redondea(n * t, e * f)
         IN  /\ x \in Int
             /\ 2 * ((e * f) * x) - 2 * ((e + t) * n) < 3 * (e * f)
             /\ 2 * ((e + t) * n) - 2 * ((e * f) * x) < 3 * (e * f)
<1> DEFINE d == e * f
           I == Redondea(n * t, d)
           x == b + I
           y == f * b
           B == d * b
           J == d * I
           en == e * n
           nt == n * t
           X == d * x
           h == (e + t) * n
<1>1. d \in Nat \ {0} /\ nt \in Int /\ en \in Int /\ h = en + nt
  OBVIOUS
<1>2. I \in Int /\ 2 * J - 2 * nt <= d /\ 2 * nt - 2 * J <= d
  BY <1>1, RedondeoCota DEF Redondo
<1> HIDE DEF I
<1>3. y \in Int /\ B \in Int /\ J \in Int /\ e * y = B /\ x \in Int /\ X = B + J
  BY <1>1, <1>2
<1>4. e * (2 * y - 2 * n) < e * (2 * f) /\ e * (2 * n - 2 * y) < e * (2 * f)
  <2>1. 2 * y - 2 * n < 2 * f /\ 2 * n - 2 * y < 2 * f
    OBVIOUS
  <2>2. 2 * y - 2 * n \in Int /\ 2 * n - 2 * y \in Int /\ 2 * f \in Int
    BY <1>3
  <2> HIDE DEF y
  <2>3. QED
    BY <2>1, <2>2, Escala
<1>5. /\ e * (2 * y - 2 * n) = 2 * B - 2 * en /\ e * (2 * n - 2 * y) = 2 * en - 2 * B
      /\ e * (2 * f) = 2 * d
  BY <1>3
<1> HIDE DEF d, B, J, en, nt, h, X, y
<1>6. 2 * X - 2 * h < 3 * d /\ 2 * h - 2 * X < 3 * d
  BY <1>1, <1>2, <1>3, <1>4, <1>5
<1>7. x \in Int /\ 2 * X - 2 * h < 3 * d /\ 2 * h - 2 * X < 3 * d
  BY <1>3, <1>6
<1>8. QED
  BY <1>7 DEF X, h, d, x, I

\* A quantity that the column keeps as it was sold, and small enough for its unit value.
Pesable(q) == q % PartesPedidas = 0 /\ q < Centavo

\* What a line of a sale is, for the totals: of integers, rounded, and with base, tax and other
\* duties near its total when its quantity is kept.
LineaOK(l) ==
  /\ l.articulo \in Articulos
  /\ {l.impuesto, l.otros, l.total, l.exacto, BaseImponible(l)} \subseteq Int
  /\ l.total = Redondea(l.exacto, Cien * Centavo)
  /\ Pesable(l.cantidad) =>
       LET s == BaseImponible(l) + l.impuesto + l.otros - l.total
       IN  s \in -2 .. 2 /\ (Otros(l) % Centavo = 0 => s \in -1 .. 1)

\* A line that is calculated is so, whatever its discount.
LEMMA CalculadaOK ==
  ASSUME NEW l, EsRenglon(l), l.articulo \in Articulos, 0 < l.cantidad, NEW d \in Nat
  PROVE  LineaOK(Calculada(l, d))
<1> DEFINE t == Tributo[l.articulo]
           q == l.cantidad
           n == l.bruto - Centavo * d
           o == Otros(l)
           c == Calculada(l, d)
           D == Cien * Centavo
           g == Cien + t.tasa
           v == c.valorUnitario
           w == Guardada(q)
           P == PartesCentavo * PartesGuardadas
<1>1. t.tasa \in Nat /\ t.icbper \in Nat /\ t.incluido \in BOOLEAN
  BY PreciosAssumption
<1>2. n \in Int /\ q \in Nat \ {0} /\ o \in Int
  <2>1. l.bruto \in Nat /\ q \in Nat \ {0} /\ Centavo * d \in Int
    BY PartesForma DEF EsRenglon
  <2>2. t.icbper * q \in Int
    BY <1>1, <2>1
  <2>3. QED
    BY <2>1, <2>2 DEF Otros
<1>3. /\ c.articulo = l.articulo /\ c.cantidad = q /\ c.otros = Redondea(o, Centavo)
      /\ c.impuesto = Redondea(n * t.tasa, (IF t.incluido THEN g ELSE Cien) * Centavo)
      /\ c.exacto = Cien * o + (IF t.incluido THEN Cien * n ELSE g * n)
      /\ c.total = Redondea(c.exacto, D)
      /\ v = IF t.incluido THEN Redondea(Cien * n, g * q) ELSE Redondea(n, q)
      /\ BaseImponible(c) = Redondea(v * w, P)
      /\ Otros(c) = o
  BY DEF Calculada, ValorUnitario, BaseImponible, Otros
<1> HIDE DEF c, n, o
<1>4. /\ D \in Nat \ {0} /\ g \in Nat \ {0} /\ P \in Nat \ {0} /\ Cien \in Nat \ {0}
      /\ Centavo \in Nat \ {0} /\ PartesPedidas \in Nat \ {0}
      /\ g * q \in Nat \ {0} /\ g * Centavo \in Nat \ {0}
  <2>1. \A x, y \in Nat \ {0} : x * y \in Nat \ {0}
    OBVIOUS
  <2>2. g \in Nat \ {0}
    BY <1>1, PartesForma
  <2>3. QED
    BY <1>2, <2>1, <2>2, PartesForma
<1>5. n * t.tasa \in Int /\ Cien * o \in Int /\ Cien * n \in Int /\ g * n \in Int
  BY <1>1, <1>2, <1>4
<1> HIDE DEF D, g, P, t, q, w
<1>6. \A x \in Int, y \in Nat \ {0} : Redondea(x, y) \in Int
  BY RedondeoCota DEF Redondo
<1>7. v \in Int /\ w \in Int /\ c.otros \in Int /\ c.exacto \in Int
  <2>1. w \in Int
    BY <1>2, <1>4, <1>6 DEF Guardada, w
  <2>2. v \in Int /\ c.otros \in Int
    BY <1>2, <1>3, <1>4, <1>5, <1>6
  <2>3. c.exacto \in Int
    BY <1>3, <1>5
  <2>4. QED
    BY <2>1, <2>2, <2>3
<1>8. c.impuesto \in Int /\ c.total \in Int /\ BaseImponible(c) \in Int
  <2>1. v * w \in Int
    BY <1>7
  <2>2. c.impuesto \in Int
    <3>1. CASE t.incluido
      BY <1>3, <1>4, <1>5, <1>6, <3>1
    <3>2. CASE ~t.incluido
      <4>1. c.impuesto = Redondea(n * t.tasa, D)
        BY <1>3, <3>2 DEF D
      <4>2. QED
        BY <1>4, <1>5, <1>6, <4>1
    <3>3. QED
      BY <3>1, <3>2
  <2>3. QED
    BY <1>3, <1>4, <1>6, <1>7, <2>1, <2>2
<1> DEFINE b == BaseImponible(c)
           s == b + c.impuesto + c.otros - c.total
<1>9. ASSUME Pesable(q)
      PROVE  s \in -2 .. 2 /\ (o % Centavo = 0 => s \in -1 .. 1)
  <2>1. PICK m \in Nat \ {0} : q = PartesPedidas * m
    <3>1. q \div PartesPedidas \in Nat /\ q = PartesPedidas * (q \div PartesPedidas)
      BY <1>2, <1>4, <1>9 DEF Pesable
    <3>2. q \div PartesPedidas # 0
      BY <1>2, <1>4, <3>1
    <3>3. QED
      BY <3>1, <3>2
  <2>2. w = m
    BY <1>4, <2>1, RedondeoExacto DEF Guardada, w
  <2>3. PartesPedidas * m < Centavo
    BY <1>9, <2>1 DEF Pesable
  <2> DEFINE x == b + c.impuesto
             h == IF t.incluido THEN Cien * n ELSE g * n
  <2>4. CASE t.incluido
    <3>1. b = Redondea(Redondea(Cien * n, g * (PartesPedidas * m)) * m, PartesCentavo * PartesGuardadas)
      BY <1>3, <2>1, <2>2, <2>4 DEF P
    <3>2. /\ b \in Int
          /\ 2 * ((g * Centavo) * b) - 2 * (Cien * n) < 2 * (g * Centavo)
          /\ 2 * (Cien * n) - 2 * ((g * Centavo) * b) < 2 * (g * Centavo)
      <4> DEFINE a == Cien * n
      <4>1. a \in Int
        BY <1>5
      <4>2. b = Redondea(Redondea(a, g * (PartesPedidas * m)) * m, PartesCentavo * PartesGuardadas)
        BY <3>1
      <4> HIDE DEF a, b
      <4>3. /\ b \in Int
            /\ 2 * ((g * Centavo) * b) - 2 * a < 2 * (g * Centavo)
            /\ 2 * a - 2 * ((g * Centavo) * b) < 2 * (g * Centavo)
        BY <1>4, <2>3, <4>1, <4>2, BaseExacta
      <4>4. QED
        BY <4>3 DEF a
    <3> HIDE DEF b
    <3>3. LET y == b + Redondea(n * t.tasa, (Cien + t.tasa) * Centavo)
          IN  /\ y \in Int
              /\ 2 * ((Cien * Centavo) * y) - 2 * (Cien * n) < 3 * (Cien * Centavo)
              /\ 2 * (Cien * n) - 2 * ((Cien * Centavo) * y) < 3 * (Cien * Centavo)
      BY <1>1, <1>2, <1>4, <3>2, NetoConImpuesto DEF g
    <3>4. x = b + Redondea(n * t.tasa, (Cien + t.tasa) * Centavo) /\ h = Cien * n
      BY <1>3, <2>4 DEF g
    <3>5. /\ x \in Int
          /\ 2 * ((Cien * Centavo) * x) - 2 * h < 3 * (Cien * Centavo)
          /\ 2 * h - 2 * ((Cien * Centavo) * x) < 3 * (Cien * Centavo)
      BY <3>3, <3>4
    <3>6. h \in Int /\ c.total = Redondea(Cien * o + h, Cien * Centavo)
      BY <1>3, <1>5, <2>4 DEF D
    <3> HIDE DEF x, h
    <3>7. LET y == x + Redondea(o, Centavo) - Redondea(Cien * o + h, Cien * Centavo)
          IN  y \in -2 .. 2 /\ (o % Centavo = 0 => y \in -1 .. 1)
      BY <1>2, <1>4, <3>5, <3>6, CuadraLinea
    <3>8. s = x + Redondea(o, Centavo) - Redondea(Cien * o + h, Cien * Centavo)
      BY <1>3, <3>6 DEF x
    <3> HIDE DEF s
    <3>9. QED
      BY <3>7, <3>8
  <2>5. CASE ~t.incluido
    <3>1. b = Redondea(Redondea(n, 1 * (PartesPedidas * m)) * m, PartesCentavo * PartesGuardadas)
      <4>1. PartesPedidas * m = 1 * (PartesPedidas * m)
        BY <1>4, <2>1
      <4>2. QED
        BY <1>3, <2>1, <2>2, <2>5, <4>1 DEF P
    <3>2. /\ b \in Int
          /\ 2 * ((1 * Centavo) * b) - 2 * n < 2 * (1 * Centavo)
          /\ 2 * n - 2 * ((1 * Centavo) * b) < 2 * (1 * Centavo)
      <4>1. 1 \in Nat \ {0}
        OBVIOUS
      <4> HIDE DEF b
      <4>2. QED
        BY <1>2, <2>3, <3>1, <4>1, BaseExacta
    <3>3. 1 * Centavo = Centavo
      BY <1>4
    <3> HIDE DEF b
    <3>4. LET y == b + Redondea(n * t.tasa, Cien * Centavo)
          IN  /\ y \in Int
              /\ 2 * ((Cien * Centavo) * y) - 2 * ((Cien + t.tasa) * n) < 3 * (Cien * Centavo)
              /\ 2 * ((Cien + t.tasa) * n) - 2 * ((Cien * Centavo) * y) < 3 * (Cien * Centavo)
      BY <1>1, <1>2, <1>4, <3>2, <3>3, NetoSinImpuesto
    <3>5. x = b + Redondea(n * t.tasa, Cien * Centavo) /\ h = (Cien + t.tasa) * n
      BY <1>3, <2>5 DEF g
    <3>6. /\ x \in Int
          /\ 2 * ((Cien * Centavo) * x) - 2 * h < 3 * (Cien * Centavo)
          /\ 2 * h - 2 * ((Cien * Centavo) * x) < 3 * (Cien * Centavo)
      BY <3>4, <3>5
    <3>7. h \in Int /\ c.total = Redondea(Cien * o + h, Cien * Centavo)
      BY <1>3, <1>5, <2>5 DEF D
    <3> HIDE DEF x, h
    <3>8. LET y == x + Redondea(o, Centavo) - Redondea(Cien * o + h, Cien * Centavo)
          IN  y \in -2 .. 2 /\ (o % Centavo = 0 => y \in -1 .. 1)
      BY <1>2, <1>4, <3>6, <3>7, CuadraLinea
    <3>9. s = x + Redondea(o, Centavo) - Redondea(Cien * o + h, Cien * Centavo)
      BY <1>3, <3>7 DEF x
    <3> HIDE DEF s
    <3>10. QED
      BY <3>8, <3>9
  <2>6. QED
    BY <1>1, <2>4, <2>5
<1> HIDE DEF s
<1>10. LineaOK(c)
  <2>1. c.total = Redondea(c.exacto, Cien * Centavo)
    BY <1>3 DEF D
  <2>2. Pesable(c.cantidad) =>
          LET y == BaseImponible(c) + c.impuesto + c.otros - c.total
          IN  y \in -2 .. 2 /\ (Otros(c) % Centavo = 0 => y \in -1 .. 1)
    BY <1>3, <1>9 DEF s
  <2>3. QED
    BY <1>3, <1>7, <1>8, <2>1, <2>2 DEF LineaOK
<1>11. QED
  BY <1>10 DEF c

\* A sale has the total of its lines; a document is that of the sale.
VentaFiel ==
  venta # Nada =>
    /\ \E n \in Nat : DOMAIN venta.lineas = 1 .. n
    /\ \A i \in DOMAIN venta.lineas : LineaOK(venta.lineas[i])
    /\ venta.total = TotalVenta(venta.lineas)
DocumentoFiel == comprobante # Nada => venta # Nada /\ comprobante = Construido(venta)

InvDoc == InvPre /\ VentaFiel /\ DocumentoFiel

\* The sum of the numbers of some lines.
LEMMA SumaDe ==
  ASSUME NEW f, NEW n \in Nat, DOMAIN f = 1 .. n, \A i \in 1 .. n : f[i] \in Int
  PROVE  Suma(f) = SumFunctionOnSet(f, 1 .. n) /\ Suma(f) \in Int
<1>1. IsFiniteSet(1 .. n)
  BY FS_Interval
<1>2. QED
  BY <1>1, SumaEntera DEF Suma

\* The total of lines rounded apart, and that of their sum rounded once.
LEMMA TotalesCerca ==
  ASSUME NEW n \in Nat, NEW f, NEW g, NEW d \in Nat \ {0},
         \A i \in 1 .. n : f[i] \in Int /\ g[i] = Redondea(f[i], d)
  PROVE  LET t == SumFunctionOnSet(g, 1 .. n)
             v == Redondea(SumFunctionOnSet(f, 1 .. n), d)
         IN  /\ t \in Int /\ v \in Int
             /\ 2 * (t - v) \in -(n + 1) .. (n + 1)
             /\ n = 1 \/ (\A i \in 1 .. n : f[i] % d = 0) => t = v
<1> DEFINE I == 1 .. n
           S == SumFunctionOnSet(f, I)
           t == SumFunctionOnSet(g, I)
           v == Redondea(S, d)
           dos == [i \in I |-> f[i] + f[i]]
<1>1. IsFiniteSet(I) /\ Cardinality(I) = n
  BY FS_Interval
<1>2. \A i \in I : f[i] \in Int /\ g[i] \in Int /\ Redondo(g[i], f[i], d) /\ g[i] = Redondea(f[i], d)
  BY RedondeoCota DEF Redondo
<1> HIDE DEF I
<1>3. S \in Int /\ t \in Int
  BY <1>1, <1>2, SumaEntera
<1>4. v \in Int /\ Redondo(v, S, d)
  BY <1>3, RedondeoCota DEF Redondo
<1>5. SumFunctionOnSet(dos, I) = S + S
  <2>1. \A i \in I : f[i] \in Int /\ dos[i] = f[i] + f[i]
    BY <1>2
  <2> HIDE DEF dos
  <2>2. QED
    BY <1>1, <2>1, SumaSuma
<1>6. SumaDifiere(dos, g, 2 * d, -d, d, I)
  <2>1. \A i \in I : /\ dos[i] \in Int /\ g[i] \in Int
                     /\ -d <= dos[i] - (2 * d) * g[i] /\ dos[i] - (2 * d) * g[i] <= d
    <3>1. TAKE i \in I
    <3> DEFINE a == f[i]
               b == g[i]
    <3>2. a \in Int /\ b \in Int /\ 2 * (d * b) - 2 * a <= d /\ 2 * a - 2 * (d * b) <= d
      BY <1>2 DEF Redondo
    <3>3. dos[i] = a + a
      OBVIOUS
    <3> HIDE DEF a, b, dos
    <3>4. (2 * d) * b = 2 * (d * b) /\ d * b \in Int
      BY <3>2
    <3> DEFINE x == d * b
    <3> HIDE DEF x
    <3>5. x \in Int /\ (2 * d) * b = 2 * x /\ 2 * x - 2 * a <= d /\ 2 * a - 2 * x <= d
      BY <3>2, <3>4 DEF x
    <3>6. /\ dos[i] \in Int /\ b \in Int
          /\ -d <= dos[i] - (2 * d) * b /\ dos[i] - (2 * d) * b <= d
      BY <3>2, <3>3, <3>5
    <3>7. QED
      BY <3>6 DEF b
  <2>2. Difieren(dos, g, 2 * d, -d, d, I)
    BY <2>1 DEF Difieren
  <2>3. 2 * d \in Int /\ -d \in Int /\ d \in Int
    OBVIOUS
  <2> HIDE DEF dos
  <2>4. QED
    BY <1>1, <2>2, <2>3, SumaEntre
<1>7. (-d) * n <= (S + S) - (2 * d) * t /\ (S + S) - (2 * d) * t <= d * n
  BY <1>1, <1>5, <1>6 DEF SumaDifiere
<1> HIDE DEF S, t, v, dos
<1>8. 2 * (t - v) <= n + 1 /\ -(n + 1) <= 2 * (t - v)
  <2> DEFINE T == d * t
             V == d * v
             N == d * n
  <2>1. (2 * d) * t = 2 * T /\ (-d) * n = -N /\ T \in Int /\ V \in Int /\ N \in Int
    BY <1>3, <1>4
  <2>2. 2 * V - 2 * S <= d /\ 2 * S - 2 * V <= d
    BY <1>4 DEF Redondo
  <2>3. /\ d * (2 * (t - v)) = 2 * T - 2 * V
        /\ d * (n + 2) = N + 2 * d /\ d * (-(n + 2)) = -(N + 2 * d)
    BY <1>3, <1>4
  <2> DEFINE y == 2 * (t - v)
  <2>4. y \in Int /\ d * y = 2 * T - 2 * V
    BY <1>3, <1>4, <2>3
  <2> HIDE DEF T, V, N, y
  <2>5. 2 * T - 2 * V < N + 2 * d /\ -(N + 2 * d) < 2 * T - 2 * V
    BY <1>3, <1>7, <2>1, <2>2
  <2>6. d * y < d * (n + 2) /\ d * (-(n + 2)) < d * y
    BY <2>3, <2>4, <2>5
  <2>7. y < n + 2 /\ -(n + 2) < y
    BY <2>4, <2>6, Escala
  <2>8. QED
    BY <2>4, <2>7 DEF y
<1>9. ASSUME n = 1 PROVE t = v
  <2>1. 1 \in I /\ I \ {1} = {}
    BY <1>9 DEF I
  <2>2. S = f[1] + SumFunctionOnSet(f, I \ {1}) /\ t = g[1] + SumFunctionOnSet(g, I \ {1})
    BY <1>1, <1>2, <2>1, SumaSin DEF S, t
  <2>3. S = f[1] /\ t = g[1]
    BY <1>2, <2>1, <2>2, SumaVacia
  <2>4. QED
    BY <1>2, <2>1, <2>3 DEF v
<1>10. ASSUME \A i \in I : f[i] % d = 0 PROVE t = v
  <2>1. \A i \in I : f[i] = d * g[i]
    <3>1. TAKE i \in I
    <3>2. f[i] \div d \in Int /\ f[i] = d * (f[i] \div d)
      BY <1>2, <1>10
    <3>3. Redondea(d * (f[i] \div d), d) = f[i] \div d
      BY <3>2, RedondeoExacto
    <3>4. QED
      BY <1>2, <3>2, <3>3
  <2>2. \A i \in I : f[i] \in Int /\ g[i] \in Int /\ 0 <= f[i] - d * g[i] /\ f[i] - d * g[i] <= 0
    BY <1>2, <2>1
  <2>3. Difieren(f, g, d, 0, 0, I)
    BY <2>2 DEF Difieren
  <2>4. d \in Int /\ 0 \in Int
    OBVIOUS
  <2>5. SumaDifiere(f, g, d, 0, 0, I)
    BY <1>1, <2>3, <2>4, SumaEntre
  <2>6. 0 * n <= S - d * t /\ S - d * t <= 0 * n
    BY <1>1, <2>5 DEF SumaDifiere, S, t
  <2>7. S = d * t
    <3>1. d * t \in Int
      BY <1>3
    <3>2. QED
      BY <1>3, <2>6, <3>1
  <2>8. QED
    BY <1>3, <2>7, RedondeoExacto DEF v
<1>11. 2 * (t - v) \in -(n + 1) .. (n + 1)
  BY <1>3, <1>4, <1>8
<1>12. QED
  BY <1>3, <1>4, <1>9, <1>10, <1>11 DEF S, t, v, I

\* The totals of the document of a sale without free lines.
LEMMA CuadraConstruido ==
  ASSUME VentaFiel, DocumentoFiel
  PROVE  ComprobanteCuadra
<1> DEFINE L == venta.lineas
           c == comprobante
           d == Cien * Centavo
           enteros == \A l \in ToSet(L) : Otros(l) % Centavo = 0
<1>1. SUFFICES
        ASSUME c # Nada, \A l \in ToSet(L) : Tributo[l.articulo].afectacion # "GRATUITO"
        PROVE  /\ 2 * (c.total - venta.total) \in -(Len(L) + 1) .. (Len(L) + 1)
               /\ Len(L) = 1 \/ (\A l \in ToSet(L) : l.exacto % d = 0) => c.total = venta.total
               /\ (\A l \in ToSet(L) : Pesable(l.cantidad)) =>
                    LET holgura == IF enteros THEN Len(L) ELSE 2 * Len(L)
                    IN  c.subtotal + c.impuesto + c.otros - c.total \in -holgura .. holgura
  BY DEF ComprobanteCuadra, Pesable
<1>2. /\ venta # Nada /\ c = Construido(venta)
      /\ \A i \in DOMAIN L : LineaOK(L[i])
      /\ venta.total = TotalVenta(L)
  BY <1>1 DEF VentaFiel, DocumentoFiel
<1>3. PICK n \in Nat : DOMAIN L = 1 .. n
  BY <1>2 DEF VentaFiel
<1>4. Len(L) = n
  BY <1>3
<1>5. \A i \in 1 .. n : L[i] \in ToSet(L)
  BY <1>3 DEF ToSet
<1>6. {i \in DOMAIN L : Tributo[L[i].articulo].afectacion # "GRATUITO"} = 1 .. n
  BY <1>1, <1>3, <1>5
<1> DEFINE base == [i \in 1 .. n |-> BaseImponible(L[i])]
           impuesto == [i \in 1 .. n |-> L[i].impuesto]
           otros == [i \in 1 .. n |-> L[i].otros]
           total == [i \in 1 .. n |-> L[i].total]
           exacto == [i \in 1 .. n |-> L[i].exacto]
<1>7. /\ c.subtotal = Suma(base) /\ c.impuesto = Suma(impuesto) /\ c.otros = Suma(otros)
      /\ c.total = Suma(total) /\ venta.total = Redondea(Suma(exacto), d)
  BY <1>2, <1>3, <1>6 DEF Construido, TotalVenta
<1>8. IsFiniteSet(1 .. n) /\ Cardinality(1 .. n) = n
  BY FS_Interval
<1> DEFINE cobro == [i \in 1 .. n |-> base[i] + impuesto[i]]
           parte == [i \in 1 .. n |-> cobro[i] + otros[i]]
           pesable(i) == Pesable(L[i].cantidad)
           entero(i) == Otros(L[i]) % Centavo = 0
<1>9. \A i \in 1 .. n :
        /\ {base[i], impuesto[i], otros[i], total[i], exacto[i]} \subseteq Int
        /\ total[i] = Redondea(exacto[i], d)
        /\ pesable(i) => /\ parte[i] - total[i] \in -2 .. 2
                         /\ entero(i) => parte[i] - total[i] \in -1 .. 1
  <2>1. TAKE i \in 1 .. n
  <2>2. LineaOK(L[i])
    BY <1>2, <1>3
  <2>3. /\ base[i] = BaseImponible(L[i]) /\ impuesto[i] = L[i].impuesto /\ otros[i] = L[i].otros
        /\ total[i] = L[i].total /\ exacto[i] = L[i].exacto
        /\ parte[i] = base[i] + impuesto[i] + otros[i]
    OBVIOUS
  <2> HIDE DEF base, impuesto, otros, total, exacto, cobro, parte, L
  <2>4. QED
    BY <2>2, <2>3 DEF LineaOK
<1>10. \A i \in 1 .. n : cobro[i] = base[i] + impuesto[i] /\ parte[i] = cobro[i] + otros[i]
  OBVIOUS
<1>11. /\ DOMAIN base = 1 .. n /\ DOMAIN impuesto = 1 .. n /\ DOMAIN otros = 1 .. n
       /\ DOMAIN total = 1 .. n /\ DOMAIN exacto = 1 .. n
  OBVIOUS
<1>12. \A i \in 1 .. n : exacto[i] = L[i].exacto
  OBVIOUS
<1>13. (\A l \in ToSet(L) : Pesable(l.cantidad)) => \A i \in 1 .. n : pesable(i)
  BY <1>5
<1>14. enteros => \A i \in 1 .. n : entero(i)
  BY <1>5
<1>15. (\A l \in ToSet(L) : l.exacto % d = 0) => \A i \in 1 .. n : exacto[i] % d = 0
  BY <1>5
<1> HIDE DEF base, impuesto, otros, total, exacto, cobro, parte, L, c, d, enteros, pesable, entero
<1>16. /\ c.subtotal = SumFunctionOnSet(base, 1 .. n) /\ c.impuesto = SumFunctionOnSet(impuesto, 1 .. n)
       /\ c.otros = SumFunctionOnSet(otros, 1 .. n) /\ c.total = SumFunctionOnSet(total, 1 .. n)
       /\ venta.total = Redondea(SumFunctionOnSet(exacto, 1 .. n), d)
       /\ c.subtotal \in Int /\ c.impuesto \in Int /\ c.otros \in Int /\ c.total \in Int
  <2>1. Suma(base) = SumFunctionOnSet(base, 1 .. n) /\ Suma(base) \in Int
    BY <1>9, <1>11, SumaDe
  <2>2. Suma(impuesto) = SumFunctionOnSet(impuesto, 1 .. n) /\ Suma(impuesto) \in Int
    BY <1>9, <1>11, SumaDe
  <2>3. Suma(otros) = SumFunctionOnSet(otros, 1 .. n) /\ Suma(otros) \in Int
    BY <1>9, <1>11, SumaDe
  <2>4. Suma(total) = SumFunctionOnSet(total, 1 .. n) /\ Suma(total) \in Int
    BY <1>9, <1>11, SumaDe
  <2>5. Suma(exacto) = SumFunctionOnSet(exacto, 1 .. n) /\ Suma(exacto) \in Int
    BY <1>9, <1>11, SumaDe
  <2>6. QED
    BY <1>7, <2>1, <2>2, <2>3, <2>4, <2>5
<1> DEFINE I == 1 .. n
<1>17. /\ 2 * (c.total - venta.total) \in -(n + 1) .. (n + 1)
       /\ n = 1 \/ (\A i \in I : exacto[i] % d = 0) => c.total = venta.total
  <2>1. d \in Nat \ {0}
    BY PartesForma DEF d
  <2>2. \A i \in 1 .. n : exacto[i] \in Int /\ total[i] = Redondea(exacto[i], d)
    BY <1>9
  <2>3. LET t == SumFunctionOnSet(total, 1 .. n)
            v == Redondea(SumFunctionOnSet(exacto, 1 .. n), d)
        IN  /\ t \in Int /\ v \in Int
            /\ 2 * (t - v) \in -(n + 1) .. (n + 1)
            /\ n = 1 \/ (\A i \in 1 .. n : exacto[i] % d = 0) => t = v
    BY <2>1, <2>2, TotalesCerca
  <2>4. QED
    BY <1>16, <2>3
<1>18. ASSUME NEW k \in {1, 2}, \A i \in I : parte[i] - total[i] \in -k .. k
       PROVE  /\ c.subtotal + c.impuesto + c.otros - c.total <= k * n
              /\ -(k * n) <= c.subtotal + c.impuesto + c.otros - c.total
  <2>1. SumFunctionOnSet(cobro, I) = SumFunctionOnSet(base, I) + SumFunctionOnSet(impuesto, I)
    <3>1. \A i \in I : base[i] \in Int /\ impuesto[i] \in Int /\ cobro[i] = base[i] + impuesto[i]
      BY <1>9, <1>10
    <3>2. QED
      BY <1>8, <3>1, SumaSuma
  <2>2. SumFunctionOnSet(parte, I) = SumFunctionOnSet(cobro, I) + SumFunctionOnSet(otros, I)
    <3>1. \A i \in I : cobro[i] \in Int /\ otros[i] \in Int /\ parte[i] = cobro[i] + otros[i]
      BY <1>9, <1>10
    <3>2. QED
      BY <1>8, <3>1, SumaSuma
  <2>3. SumaDifiere(parte, total, 1, -k, k, I)
    <3>1. \A i \in I : /\ parte[i] \in Int /\ total[i] \in Int
                       /\ -k <= parte[i] - 1 * total[i] /\ parte[i] - 1 * total[i] <= k
      BY <1>9, <1>10, <1>18
    <3>2. Difieren(parte, total, 1, -k, k, I)
      BY <3>1 DEF Difieren
    <3>3. 1 \in Int /\ k \in Int /\ -k \in Int
      BY <1>18
    <3>4. QED
      BY <1>8, <3>2, <3>3, SumaEntre
  <2>4. LET x == SumFunctionOnSet(parte, I) - 1 * SumFunctionOnSet(total, I)
        IN  (-k) * n <= x /\ x <= k * n
    BY <1>8, <2>3 DEF SumaDifiere
  <2>5. (-k) * n = -(k * n) /\ k * n \in Int
    BY <1>18
  <2>6. QED
    BY <1>16, <2>1, <2>2, <2>4, <2>5
<1>19. ASSUME \A l \in ToSet(L) : Pesable(l.cantidad)
       PROVE  LET holgura == IF enteros THEN n ELSE 2 * n
              IN  c.subtotal + c.impuesto + c.otros - c.total \in -holgura .. holgura
  <2>1. CASE enteros
    <3>1. \A i \in I : parte[i] - total[i] \in -1 .. 1
      BY <1>9, <1>13, <1>14, <1>19, <2>1
    <3>2. QED
      BY <1>16, <1>18, <2>1, <3>1
  <2>2. CASE ~enteros
    <3>1. \A i \in I : parte[i] - total[i] \in -2 .. 2
      BY <1>9, <1>13, <1>19
    <3>2. QED
      BY <1>16, <1>18, <2>2, <3>1
  <2>3. QED
    BY <2>1, <2>2
<1>20. QED
  BY <1>4, <1>15, <1>17, <1>19

\* A charge stores the lines it calculated and their total.
LEMMA CobroDocumento ==
  ASSUME InvDoc, NEW c \in Carritos, NEW ps \in SUBSET Promos, CobrarCarrito(c, ps)
  PROVE  VentaFiel' /\ DocumentoFiel'
<1> DEFINE L == RenglonesCobro(c)
<1>1. PICK e \in Elecciones(Cargadas \cap ps, L) :
        LET calculadas == [i \in DOMAIN e |-> Calculada(L[i], DescuentoTotal(e[i], L[i]))]
        IN venta' = [carrito |-> c, lineas |-> calculadas,
                     total |-> TotalVenta(calculadas),
                     segunPrevia |-> /\ previa # Nada /\ previa.carrito = c
                                     /\ previa.fresca /\ previa.ids = ps
                                     /\ L = RenglonesPrevia(c)]
  BY DEF CobrarCarrito
<1> DEFINE calculadas == [i \in DOMAIN e |-> Calculada(L[i], DescuentoTotal(e[i], L[i]))]
<1>2. /\ venta'.lineas = calculadas
      /\ venta'.total = TotalVenta(calculadas)
  <2>1. PICK total, sigue : /\ total = TotalVenta(calculadas)
                            /\ venta' = [carrito |-> c, lineas |-> calculadas, total |-> total,
                                         segunPrevia |-> sigue]
    BY <1>1
  <2> HIDE DEF calculadas
  <2>2. QED
    BY <2>1
<1>4. DOMAIN e = DOMAIN L /\ DOMAIN L = DOMAIN c /\ \A i \in DOMAIN e : e[i] \subseteq Cargadas
  BY <1>1, ElegidasForma DEF RenglonesCobro
<1>5. ASSUME NEW i \in DOMAIN e
      PROVE  LineaOK(calculadas[i])
  <2>1. EsRenglon(L[i])
    <3>1. Alcanzadas(c[i]) # {}
      BY <1>4 DEF CobrarCarrito
    <3>2. QED
      BY <1>4, <3>1, CobroForma DEF InvDoc, InvPre
  <2>2. L[i].articulo = c[i].articulo /\ L[i].cantidad = c[i].cantidad
    BY <1>4 DEF RenglonesCobro, Renglon
  <2>3. L[i].articulo \in Articulos /\ 0 < L[i].cantidad
    <3>1. c[i].articulo \in Articulos /\ 0 < c[i].cantidad
      BY <1>4, CarritoForma
    <3>2. QED
      BY <2>2, <3>1
  <2>4. e[i] \in SUBSET Promos /\ \A p \in e[i] : promo[p] # NoPromo
    BY <1>4 DEF Cargadas, NoPromo
  <2>5. DescuentoTotal(e[i], L[i]) \in Nat
    BY <2>1, <2>4, DescuentoAcotado DEF InvDoc, InvPre
  <2>6. LineaOK(Calculada(L[i], DescuentoTotal(e[i], L[i])))
    BY <2>1, <2>3, <2>5, CalculadaOK
  <2>7. QED
    BY <2>6
<1>7. \E n \in Nat : DOMAIN calculadas = 1 .. n
  BY <1>4, CarritoForma
<1>8. DOMAIN calculadas = DOMAIN e
  OBVIOUS
<1>9. comprobante' = Nada
  BY DEF CobrarCarrito
<1> HIDE DEF calculadas
<1>10. QED
  BY <1>2, <1>5, <1>7, <1>8, <1>9 DEF VentaFiel, DocumentoFiel

\* Sales keep the totals of their lines and documents those of their sale.
LEMMA PasoDocumento == InvDoc /\ [NextPre]_varsPre => InvDoc'
<1> SUFFICES ASSUME InvDoc, [NextPre]_varsPre PROVE VentaFiel' /\ DocumentoFiel'
  BY PasoPrecios DEF InvDoc
<1>1. ASSUME UNCHANGED <<venta, comprobante>> PROVE VentaFiel' /\ DocumentoFiel'
  BY <1>1 DEF InvDoc, VentaFiel, DocumentoFiel
<1>2. ASSUME NEW c \in Carritos, Previsualizar(c) PROVE VentaFiel' /\ DocumentoFiel'
  BY <1>2 DEF Previsualizar, VentaFiel, DocumentoFiel
<1>3. ASSUME Emitir PROVE VentaFiel' /\ DocumentoFiel'
  BY <1>3 DEF Emitir, InvDoc, VentaFiel, DocumentoFiel
<1>4. ASSUME NEW p \in Promos, NEW valor, Cambia(p, valor) PROVE VentaFiel' /\ DocumentoFiel'
  BY <1>1, <1>4 DEF Cambia
<1>5. ASSUME NEW p \in Promos, NEW f \in Formas, CrearPromocion(p, f) \/ ActualizarPromocion(p, f)
      PROVE  VentaFiel' /\ DocumentoFiel'
  BY <1>4, <1>5 DEF CrearPromocion, ActualizarPromocion
<1>6. ASSUME NEW p \in Promos, NEW e, CambiarEstadoPromocion(p, e) \/ PasarFecha(p)
      PROVE  VentaFiel' /\ DocumentoFiel'
  BY <1>4, <1>6 DEF CambiarEstadoPromocion, PasarFecha
<1>7. ASSUME NEW a \in Articulos, NEW m \in Tarifas, FijarPrecio(a, m)
      PROVE  VentaFiel' /\ DocumentoFiel'
  BY <1>1, <1>7 DEF FijarPrecio
<1>8. ASSUME UNCHANGED varsPre PROVE VentaFiel' /\ DocumentoFiel'
  BY <1>1, <1>8 DEF varsPre
<1>9. QED
  BY <1>2, <1>3, <1>5, <1>6, <1>7, <1>8, CobroDocumento DEF NextPre

\* The document says what was charged, to half a cent per line and another half, and exactly for a
\* line or for whole cents; its base, tax and duties add up to its total to a cent per line, two if
\* a duty has a fraction of one: whatever carts, weighed goods, rates, discounts and promotions.
THEOREM DocumentoComoCobro == SpecPre => []ComprobanteCuadra
<1>1. InitPre => InvDoc
  BY InitPrecios DEF InitPre, InvDoc, VentaFiel, DocumentoFiel
<1>2. InvDoc /\ [NextPre]_varsPre => InvDoc'
  BY PasoDocumento
<1>3. InvDoc => ComprobanteCuadra
  BY CuadraConstruido DEF InvDoc
<1>4. QED
  BY <1>1, <1>2, <1>3, PTL DEF SpecPre
=============================================================================

# TLA+ verification of pos-ventas-backend

`pos-ventas-backend` is a multi-tenant point of sale for Peruvian retailers (NestJS, Prisma,
PostgreSQL): stock by warehouse, cash registers, sales and refunds, electronic invoicing through a
provider, purchases, restaurant orders, card payments, and a platform that sells subscriptions to the
tenants. This directory models the parts whose correctness depends on the order in which requests,
workers and answers meet, checks them with TLC on small instances and proves theorems about them with
TLAPS.

## 1. The system and its hard parts

### Atomicity

Every service method runs in one interactive transaction
(`compartido/base-datos/prisma-operaciones.service.ts`, `ejecutarEnTenant`) at PostgreSQL's default
level, READ COMMITTED. Rows taken with `SELECT ... FOR UPDATE` or updated are locked until commit.
Everything else a method reads may be stale when it writes. All modules use one translation of this:

* an operation whose decisive reads are all under a lock is **one action**;
* an operation that decides on something read without a lock is **two actions** or more: `...Leer`
  evaluates the early returns and keeps in a per-process record what the method holds in local
  variables, `...Aplicar` takes the locks, writes everything and commits;
* `Abortar` (`Renunciar`, `Desistir`, ...) drops an operation in flight: unique violations, deadlocks,
  timeouts, lost connections.

A unique index is a guard of the `Aplicar` step: a second insert waits for the first and fails.

Many methods do not keep their promise under every overlap. Where that is so, the module has a
**history variable** that names the rows on which two operations met (`cruzadas`, `expuestas`,
`alternados`, ...), and the property is about the others, or says what still holds for those: "a lost
update may leave a customer owing too much, never too little". A history variable guards nothing.

### Inventory of components

| component | state | operations | interacts with | hard because |
|---|---|---|---|---|
| fiscal (`nucleo/fiscal`) | `ElectronicDocument`, `DocumentSeries.nextNumber`, `OutboxEvent` | emit, credit note, retry, worker cycle | ventas (numbers, sales), provider | external call outside the transaction, leases, crashes, retries, stale state |
| inventario | `StockBalance`, `InventoryLedgerEntry`, reservations, transfers, counts | opening, adjustment, reservation, count, transfer | ventas, compras, catalogo write the same rows | absolute and relative writes of one row, documents read without a lock |
| caja | `CashSession`, `CashMovement` | open, close, manual movement | ventas adds and takes cash | close against a sale in flight |
| ventas | `Sale`, items, payments, `SaleRefund` | create, synchronise offline, refund | caja, inventario, promociones, clientes, fiscal | idempotency, partial refunds, several tables in one commit |
| promociones | `Promotion` | create, change, preview, engine, quota | ventas | preview and charge decide apart; quota read without a lock |
| clientes, compras | receivables, payables, their instalments, receipts | sell on credit, receive, collect, pay | ventas, inventario | lost update on instalments |
| pagos | intents, transactions, webhooks, `SalePayment` | register account, charge, webhook, reconcile | provider, ventas | charge inside the transaction, webhooks early, late or twice |
| restaurante | tables, orders, items | open, add, send, cook, charge, cancel | ventas.crear | three transactions without a common key |
| onboarding, administracion-inquilino | tenant, outbox, inbox, projection | sign up, relay, project | two databases | at-least-once delivery, leases, crashes |
| planes, suscripciones | versions, features, subscription, entitlements | publish, subscribe, change, cancel | gating of usuarios and catalogo | read, then write |
| usuarios, identidad | membership, roles, permissions | invite, sign in, assign, revoke | planes (limit) | count outside the transaction, delete and create without a lock |
| facturacion | invoices of the platform, payments | invoice, pay | suscripciones | lost update |
| catalogo | products, variants, control of stock | create, archive, turn control on and off | inventario, ventas, planes (limit) | control read before every movement, written between them |
| sucursales | warehouses, default, registers | create, archive, choose the default | ventas | two statements without a lock |
| uso, empresas, proveedores, caracteristicas, webhooks, integraciones | rows | CRUD | | little order dependence |
| multitenencia, auditoria, notificaciones, archivos, reportes, compartido | | I/O, guards, queries | | outside what a model shows |

What makes each correct: *fiscal* - a queued document is delivered, its verdict is what the provider
said, one document per sale and type, a credit note only on an accepted one. *inventario* - projection
equals ledger, available equals on hand less reserved, nothing negative, final states final. *caja* -
one open session per register, the reconciliation adds up and is final. *ventas* - a retry sells once,
the state of a sale says what came back. *promociones* - the charge is the preview, use counts what is
sold; the document says what was charged. *clientes, compras, facturacion* - no debt is forgiven by a race, the balance is the debt less
the allocations. *pagos* - one charge per key, a sale is credited only with what was captured (or reported
in words that read so), no capture is lost. *restaurante* - an order is charged once or cancelled, a table is taken while its
order runs. *onboarding* - every tenant is projected once. *planes, usuarios, catalogo* - a tenant
uses what its plan offers; stock without control is not there; pieces are conserved. *sucursales* -
one default warehouse.

`PROJECT.json` lists every component and every hazard at its line, with the properties aimed at it.

## 2. Modules

| module | models | proofs |
|---|---|---|
| `Fiscal` | emission, credit notes, retry, correlatives (sales included), outbox, worker, provider | `FiscalProofs` |
| `Inventario` | all writers of balances and kardex, reservations, counts, transfers | `InventarioProofs` |
| `Ventas` | cash sessions, sales, refunds, promotion quota | `VentasProofs` |
| `Cuentas` | receivables and payables, receipts, payments with several allocations | `CuentasProofs` |
| `Restaurante` | tables, orders, kitchen, the charge in three transactions | `RestauranteProofs` |
| `CobroUnico` | abstract: an order is charged once or cancelled | |
| `Pagos` | card charges, webhooks, reconciliation with the sale | `MostradorProofs` |
| `Precios` | promotions, their engine, preview, line totals and taxes of a charge, totals of the document | `MostradorProofs` |
| `Alta` | sign-up, relay, inbox and projection | `PlataformaProofs` |
| `EntregaUnica` | abstract: an outbox with an inbox; `Segura` is its safe part, `Spec` adds liveness | |
| `Suscripciones` | versions of a plan, subscription, entitlements, gating | `PlataformaProofs` |
| `Accesos` | extends it: members, sign-in, roles, permissions, the limit of users | `PlataformaProofs` |
| `Facturacion` | platform invoices and payments | `PlataformaProofs` |
| `Sucursales` | warehouses, default, registers | `PlataformaProofs` |
| `Catalogo` | extends `Suscripciones` and `Sucursales`: products, variants, control of stock against the movements | `PlataformaProofs` |
| `Plataforma` | composes `Accesos`, `Facturacion` and `Catalogo` (with what they extend) | `PlataformaProofs` |
| `Sumas` | sums over finite sets, which stock, till, invoices and promotions need: lemmas only | itself |
| `MC...` | instances for TLC: tables, carts, symmetry, constraints | |

The `X_Slip` operators beside a definition (`Destino_SinTabla`, `Cerrar_SinEstado`, ...) are not part of
a model: each is the definition with one plausible mistake, and shows that the property it is named
with in `PROJECT.json` ("mutants") notices that mistake.

### Fiscal

State: `docs` (estado, sale, series, number, origin), `proximo` (`nextNumber`), `eventos` (outbox rows
by idempotency key `<<document, cause>>`), `proveedor` (what the provider holds, external), `api` and
`trab` (what each request and each worker has read), `ventas` (the numbers sales took), `caidas`.

* `publicadoEn`, `bloqueadoEn`, `disponibleEn` of an event are one phase: `DISPONIBLE`, `RECLAMADO`,
  `VENCIDO` (lock older than two minutes), `EN_ESPERA` (backing off), `PUBLICADO`. Time is the actions
  `VencerArriendo` and `Despertar`; durations are not modelled.
* `Tick` is a worker's cycle in its database and network steps: claim, read, send, record, close.
  `lockedBy` is not in the model because no statement of the code compares it.
* The provider (`Responder`) is external: `proveedor-nubefact.ts` answers ACEPTADO or ENVIADO, gives
  RECHAZADO for any HTTP or business error, or throws, before or after the request took effect. It
  answers the same to every send of one document.
* `puedeTransicionar` is evaluated with the state read before the send, as in `registrarResultado`.
* A document belongs to a sale; a credit note also names the document it reverses (`origen`). Its
  amounts are in `Precios`; legends are left out.

### Inventario

State: `saldo` (the four quantities), `kardex` (sum of the ledger entries of a row), `claves`
(idempotency keys in the ledger), `reservas`, `transfers`, `conteos`, `tx`.

* `Fijar` is the absolute write of adjustments, transfers and counts, which recompute `available`;
  `Sumar` is the relative one (`increment`, `decrement`) of sales, refunds and receipts.
* One key per request: a method that writes an entry per article uses `key:variant`, so either all
  its keys are new or none is.
* Methods whose only unlocked read is whether their key exists are one action: the unique index gives
  the same answer at commit.
* Lots (FEFO) add up to the line they serve and costs influence no quantity: both are left out.
* `cantidadAtendida` and `PARCIALMENTE_ATENDIDA` have no writer in the code, nor in the model.
* The state of a transfer is written together with the articles of that reception.

### Ventas

State: `sesiones`, `movs` (sum of `CashMovement` by session and type), `ventas` (by idempotency key:
state, session, quantities, payments, promotions), `devs`, `uso`, `stock`, `tx`.

* Inserting a sale or a movement takes a key-share lock on the session row, which `cerrar`'s FOR
  UPDATE waits for: the open window is between the unlocked read of the session and the insert.
* A refund is three steps: read and check; insert, put the stock back, look at the session and decide
  the state of the sale (visible to nobody yet); commit.
* Unit price 1, no tax or discount amounts, one warehouse, one line per variant; RETIRO counts as
  EGRESO_EFECTIVO; `AJUSTE_CIERRE` and `ANULADA` have no writer. Which operator may use a register
  is not modelled.
* `stock` is on hand only. A sale touches several modules, each with what it decides there: its number
  in `Fiscal`, balance and kardex in `Inventario`, debt in `Cuentas`, amounts in `Precios`, the control
  of its variants in `Catalogo`.

### Cuentas

State: `cuentas` (state, original, pending), `asignado` (sum of committed allocations), `recibos`,
`pagos` (allocations by key), `tx`. Receivables and payables are two pools of one kind: `registrarCobro`
and `pagarProveedor` are the same method over two sets of tables. A payment is as many steps as its
method has: its check of the key, then for each allocation a read of the instalment (`LeerCuota`) and
the write of the difference (`EscribirCuota`, which takes the row), then the commit. The code creates
one instalment per account and `recalcular` copies its balance: an account and its instalment are one
record. Amounts of an allocation may be negative because the DTO accepts any number; the payment as a
whole is positive.

### Pagos and Precios (the till)

`Pagos`: `intentos` (intent and transaction, by key), `pagados` (`SalePayment`), `procesados` (webhook
events), `cargos` (the provider's, external), `tx`. `crearIntento` reads, charges at the provider
(`Cobrar`, `Rechazar`) and commits (`Confirmar`); a rollback after the charge leaves it in `cargos`
(`perdidos`). A webhook reads, takes the row of its event, and writes. `interpretarWebhook` decides by
what the type of an event contains, so `Avisos` has a member for each of its answers: `exito` (contains
`succeeded`), `impreciso` (contains `creation` only, such as `charge.creation.failed`, or there is no type),
`otro`. The provider may send any of them of any charge, but never calls `succeeded` one it rejected. A
notice that is `impreciso` credits the sale of a rejected charge: `PagoRespaldado` names that case, and
says that nothing else does.

`Precios`: `promo`, `tarifa` (price of the default list), `previa` (what the till saw), `venta` and
`comprobante`. Goods may be weighed and prices have six decimals, so nothing is a whole unit or a whole
cent by assumption. Numbers are integers, in the parts the code can tell apart: a quantity in parts
1 / `Unidad` of a unit (`PartesGuardadas`, which the column keeps, 10^6 in the code, times `PartesPedidas`,
which a request may name besides: its quantity is a plain number), a price, a term or the value of a unit
in 1 / `PartesCentavo` of a cent (10^4), a percentage in 1 / `PartesPunto` of a point. What the code stores
in a column of two decimals is rounded to the cent by `Redondea`, half away from zero as `toDP` and
`numeric` do, when the code does it and not before: the discount of a line after its cap, its tax, duty and
total one by one, the total of the sale once, of the sum of the lines before they were rounded, the base of
a line of the document from a unit value and a quantity as their columns kept them. `descuentosDeLinea`,
`calcularLineas` and `constructor-comprobante` are operators over a cart, sums rather than recursive. The
price list of a product has two rows (`Filas`), one for a unit and one of another `minQuantity`; the charge
takes the last row that the quantity reaches, refuses the line when there is none (409), and the preview
takes the first row whatever the quantity. A state other than ACTIVA of a promotion is PAUSADA; the scope
VENTA is never created by the code; `usoActual` is counted only where `usoMaximo` bounds it.

What the document may differ by is what the roundings explain (`ComprobanteCuadra`): two lines of half a
kilo at an odd price say a cent more on the document, which adds up rounded lines, than on the sale. The
two are equal when there is one line or when the lines are whole cents.

### Restaurante

State: `mesas`, `archivadas`, `comandas`, `items`, `ventas` (by order, with their items), `tx`. Each
method is a read and a write; `cobrar` is `CobrarLeer`, `CobrarVender`, `CobrarCerrar`,
`CobrarLiberar`. `CobroUnico` sees an order by its sales, not by its state: `faseDe`.

### Alta

State: `codigo` (of each tenant), `reg` (sign-ups in flight), `evento` (outbox row: published, lock,
due), `slug` and `inbox` (the administration database: the projected tenants by their slug, which is unique,
and the events consumed), `relay` (claimed batch of each server and whether its first event is processed),
`ajenos` (history). Projection and inbox row are one transaction of the administration database; marking
the event published is another, in the other database. A unique violation, of the slug or of the inbox row,
ends as a duplicate and rolls the projection back (`Admite`, `Proyectar`). Two callers project: the relay
(`Procesar`), with the code of the tenant as its slug, and `POST eventos/tenant-creado` (`Consumir`), whose
user sends any slug and the id of an event, his own, another's or none's, for his own tenant. `Caer` loses
what a relay holds at any step, `Vencer` ends a lease also while its holder works, `Reprogramar` is a
failure of either step.

`EntregaUnica` is the outbox that it implements: `EntregaSegura` is the refinement of its steps (recorded,
projected, published, in that order and once each), `EntregaFiable` that of its liveness too. The promise of
a tenant ends ("sin promesa") when a request of another tenant uses its slug or its event: its projection is
then rolled back and its event published all the same (section 3).

### Suscripciones, Accesos, Facturacion, Sucursales, Catalogo, Plataforma

One tenant. `Suscripciones`: versions with their features, `sub`, `abiertos` (open entitlements; the
exclusion constraint on their ranges is a guard). EN_PRUEBA, IMPAGA and PAUSADA count as ACTIVA, as
every condition of the code does with the states it writes; `AccessPolicy` has no writer;
`GATING_ENABLED` is on; an entitlement has the limit of its version. `Accesos`: `miembro`, `roles`,
`permisos`; deleting and creating the rows of a set is `Reemplazo`, which keeps what another request
added in between; every permission of a role is PERMITIR. `Facturacion`: `factura`, `abono`.
`Sucursales`: one branch, `almacen`, `caja` (the warehouse of a register). `Catalogo`: `producto`,
`variante`, `piezas` and `transito` per variant over all warehouses, `linea` (sale lines of one piece),
`trabajo`. Openings, adjustments, receptions, dispatches, sales and refunds read the control without a lock
and write later; the arrival of a transfer and a posted count (`ContabilizarConteo`) write without asking
for it, so they may give pieces to a variant without control (`llegadas`). A refund says whether the goods
go back to stock (`restock`, yes by default). A count is one action, which sets what one warehouse holds to
a quantity found there: reading its lines first changes nothing here. `Permite` is the GatingService that
invitations and new products ask.

## 3. Runs

`tlc -config <cfg> <module>`; `PROJECT.json` names the pair of each run.

| run | instance | shows |
|---|---|---|
| `fiscal_entrega` | 1 document, 2 workers, batches of 1, 2 attempts, 1 crash, leases may run out in mid-batch; 541,330 states | `EnColaTieneEntrega`, `EstadoRespaldado`, `EntregaEventual` |
| `fiscal_emision` | 1 sale, 2 documents, an invoice and a credit-note series, 2 overlapping requests, 1 worker, batches of 2; 2,082,729 states | `NotaSobreAceptado`, `CorrelativosSinHuecos`, `TransicionLegal` |
| `inventario_carrera` | 2 warehouses, 1 variant, 3 keys, a reservation, a transfer, a count, 2 processes; 675,845 states | `KardexCuadra`, `DisponibleCuadra`, `SinNegativos` |
| `inventario_serie` | 1 process, quantities 1 and 2, 2 reservations, negative stock allowed; 153,017 states | `EnTransitoCuadra`, `ReservadoCuadra`, `EstadosFinales` |
| `ventas_carrera` | 1 register, 2 sessions, 2 sale keys, 2 refunds, 2 lines, 2 processes; 733,498 states | `TypeOK`, `UnaSesionPorCaja`, `CadaVentaUnaVez`, `SesionFirme` |
| `ventas_serie` | 1 session, 2 sales, 2 refunds of up to 2 items, manual movements, a promotion of quota 1, 1 process; 1,070,074 states | `ArqueoCuadra`, `EstadoDevuelta`, `CupoCuadra`, `DevueltoAcotado` |
| `cuentas` | 2 receivables, 1 payable, debts of 2, 3 keys, amounts -1, 1 and 2, 2 overlapping payments; 149,446 states | `TypeOK`, `DeudaNoPerdonada`, `SaldoEsProyeccion` |
| `restaurante` | 1 table, 2 orders, 2 items, 2 sales, 2 processes; left once races have reached two rows, or one in two ways; 400,395 states | `TodoCobrado`, `MesaTomada`, and the refinement `CobraUnaVez` |
| `mostrador` | `Pagos`: 2 keys, 1 sale, 2 charges, 2 processes, notices of every kind, 3 of them processed; `Precios`: 3 promotions, 4 terms, 4 products, 7 carts, weighed ones among them, in quarters of a unit and of a cent; one of the two at a time; 1,588,427 states | `PagoRespaldado`, `CargoConocido`, `PagoConciliado`, `PreviaEsCobro`, `ComprobanteCuadra` |
| `alta` | 2 tenants, 2 sign-ups, 2 relays, batches of 2, 3 attempts, 1 request to the internal endpoint, 1 failure or crash; 543,526 states | the refinements `EntregaSegura` and, liveness included, `EntregaFiable` |
| `plataforma` | 2 versions, 3 users, 2 roles, 2 permissions, 2 invoices with 3 payments, 2 warehouses, 1 register, 2 products with 2 variants; one part of it at a time; 123,080 states | `DerechosDelPlan`, `CupoDelPlan`, `PagadaCubierta`, `SinControlSinStock`, `PiezasConservadas`, `ConPredeterminado`, `ReemplazoCompleto` |

`fiscal_duplicado` ends in a violation: the duplicate guard of `emitirParaVenta` says a sale has one
document of a type (`SinComprobanteDuplicado`), and two requests that overlap both find none and both
persist one. It is the one entry under "findings".

**Sentences stated and not kept.** Some definitions state a sentence of a comment, of an error message or
of the documentation; a module keeps them to say exactly which step breaks it. They are not
among the runs; to see the counterexample, add the line to the cfg and run it:

| line | cfg | counterexample |
|---|---|---|
| `INVARIANT DevolucionDentroDeLoVendido` | `MCVentasSerie.cfg`, without its `SYMMETRY` | a refund names the same line twice |
| `INVARIANT ArqueoCuadra` | `MCVentasCarrera.cfg` | a sale reads the session open, the session is reconciled, the sale commits its cash |
| `PROPERTY RecepcionDentroDeLoPendiente` | `MCInventarioCarrera.cfg`, without its `SYMMETRY` | two receptions of one transfer both see all of it pending |
| `PROPERTY VeredictoRegistrado` | `MCFiscalEntrega.cfg`, with `SPECIFICATION Spec` | the first send fails (ERROR), the worker's own retry is ACEPTADO, the table has no ERROR -> ACEPTADO, the document stays in ERROR |
| `INVARIANT DescuentoDentro` | `MCMostrador.cfg`, with `Formas <- MCRegalos` and without its `CONSTRAINT` and invariants | "El total de descuentos no puede superar la base de la línea" (`motor-promociones.ts:180`): the cap comes before the rounding, so a unit and a half at 1.09, given away, is discounted 1.64 of 1.635 and stored with a total of -0.01 |
| `INVARIANT PublicadoEnInbox` | `MCAlta.cfg`, without its properties | "`tenant.created` events are relayed [...] into the management inbox" (`README.md:48`): another tenant sent that slug to the internal endpoint, the projection is rolled back with its inbox row, and the event is published |
| `INVARIANT VentasSinHuecos` | `MCFiscalDuplicado.cfg`, with `Ventas = {v1, v2}` | a document issued between two sales of one series: the sales have numbers 1 and 3 |

**One process and two.** Properties under "whatever requests overlap" are checked with two processes;
two are enough for the races of this code, which are between one unlocked read and one other commit.
Properties under "requests that do not overlap" are checked with one, because the code does not keep
them under overlap. They still have content: long sequences of openings, sales, partial refunds,
receptions and releases. The modules with a history variable need no such split.

**Bounds.** `Documentos`, `Claves`, `Reservas`, `Transferencias`, `Conteos`, `Sesiones`, `Devs`,
`Cargos`, `Comandas`, `Facturas`, `Abonos`, `Variantes`, ... are pools of ids; an operation that needs a
new row is enabled while the pool has one. `MaxCaidas` (crashes of a worker), `MaxFallos` (failures and
crashes of the relays), `MaxManual` (manual movements of a session), `MaxItems` (items of a refund),
`MaxSubs` (subscriptions of the tenant), `MaxCambios` (changes of plan), `MaxReactivaciones` (members
activated again) and `MaxPiezas` (pieces that come in of a variant) cap what the code leaves open. `MaxIntentos`
and `Lote` are the code's constants made small. With two of each kind every pair of operations meets
on the same row; quantities of one or two units make partial and full receptions, payments and refunds
occur. The carts of `mostrador` are chosen so that each rounding rule
matters: a total that the percentage splits in mid-cent, a bag with its own levy, a free sample, a volume
price, two weighed lines that are half a cent each, a levy on a weighed line, a quantity that its column
rounds, one with a price of its own below a unit, one that no row of the list reaches. Its four terms make
promotions that add up, exclude each other, or tie. `MaxEnvios` bounds the requests to the internal
endpoint that write; `alta` takes one of them and one failure, because liveness needs the whole graph.

**Constraints.** Three runs leave states out. `MCPocasCarreras` stops a behaviour once races have
reached two tables or orders of the restaurant, or one order in two ways: the properties are about the
rows that no race has reached. `MCAlcance` gives each promotion terms of its own and
lets one price change, under a preview; it stops a behaviour at a document, whose sale may go on without it,
and at three processed webhooks. `MCUnaParte` explores the components of `Plataforma` one after
another from a tenant that has just subscribed (`MCRecienSuscrito`): members, roles, permissions,
invoices, warehouses, products, stock; its second version of the plan is drafted once the first has
its feature (`MCConPrimera`). They are joined by the entitlements, which `CupoDelPlan` sees in
both users and products, and by the warehouses that stock and sales need.

**Deadlock and symmetry.** `CHECK_DEADLOCK FALSE` is set because the pools run out and nobody has to
send a request. Symmetry is declared only in runs without liveness.

**Fairness.** `fiscal_entrega`: `setInterval` keeps calling `tick`, so each worker is weakly fair in its
own cycle (`WF_vars(Tick(w))`), and time passes (`WF_vars(Reloj(e))`). `alta`: each relay is weakly fair in
its cycle (`TrabajoRelay(w)`), and locks and delays run out (`Vencer`, `Madurar`). Nothing is assumed of
requests, of crashes, of failures other than that they are finitely many (`MaxFallos`), or of what the
provider answers. `EntregaEventual` says the document leaves EN_COLA, not that it is accepted.

## 4. Proofs

TLAPS checks the theorems for every value of the constants, under the `ASSUME`s of each module: types of
the constants, that null values are not ids, that a pool the code counts or adds up is finite, that
quantities are positive and a cart sells something, and that there is a process to send a request (a
limit that counts the requests in flight is a limit only if there may be one). Every assumption is
evaluated by TLC in the runs.

Each theorem `Spec => []P` rests on an inductive invariant that contains `P` or gives it: what is stored,
and what the requests in flight have read and not yet written, related to what is stored by then.

### Sums

Stock, till, invoices and promotions are right when a stored number equals a sum over rows. `Sumas`
proves the algebra of `SumFunctionOnSet` that the invariants need: a sum without an element (`SumaSin`),
with one more (`SumaCon`), with one term changed (`SumaCambia`), over a part (`SumaFiltro`), of equal
terms (`SumaIgual`), of two functions added (`SumaSuma`), between so many times the least and the greatest
term (`SumaEntre`). Its definition recurs on an arbitrary element, and the induction theorems of the
library take an operator that the provers cannot instantiate. So each fact is proved by a minimal
counterexample: the subsets that refute it, were there any, would have a minimal one (`MinimoConjunto`,
from the well-foundedness of strict inclusion), which is not empty, and taking one element from it gives
a smaller one. `SumaFuncionExiste` shows in the same way that the recursion has a solution.

### Theorems

* `FiscalProofs`: `TypeCorrect`, and `DocumentoNuncaHuerfano` (`EnColaTieneEntrega`) for any number of
  workers, attempts and crashes. `EnColaTieneEntrega` is not inductive: a worker about to close an
  event must know that its document has left EN_COLA or has another event. The strengthening `EInv`
  adds to the type part (`TInv`: documents named by requests, events and workers exist) that an event
  and the work a worker holds agree with the document's state (`EventoVigente`, `CierreJusto`).
  `VeredictoDelProveedor` (`EstadoRespaldado`) and `NotaDeAceptado` (`NotaSobreAceptado`): `RInv` says
  besides that an answer a worker is about to record is in the provider's log (`RespuestaFirme`), and that
  the origin a credit note in flight was read from is accepted for good (`NotaEnCurso`): the provider takes
  no acceptance back. `TransicionesSegunTabla` (`TransicionLegal`), with one worker: by `LInv` the state it
  read before the send still holds when it writes, but for a retry of a failed document, and a retry in
  flight still finds its document retriable unless its unique key is taken already. `CorrelativosUnicos`
  (`CorrelativosSinHuecos`): sales and documents draw from one counter, and whoever draws is the only holder
  of the number (`Toma`), because nobody holds one that the counter has not passed.
* `InventarioProofs`: one inductive invariant (`InvSiempre`) gives `TipoCorrecto` (`TypeOK`),
  `KardexEsAutoridad` (`KardexCuadra`), `DisponibleCorrecto` (`DisponibleCuadra`) and
  `StockNuncaNegativo` (`SinNegativos`), for any warehouses, variants and overlapping requests. Each
  `Aplicar` step is shown to touch a row and the ledger by the same amount. What makes it inductive is
  that what a process read names rows that exist, with quantities that are not negative: rows are never
  deleted, and shipped quantities never change. Of requests that do not overlap, `ReservadoSinSolape`
  (`ReservadoCuadra`), `EnTransitoSinSolape` (`EnTransitoCuadra`) and `FinalesSinSolape` (`EstadosFinales`):
  the strengthening says that what the pending request read is still so (`TxActual`) and that a transfer
  has received no more than was sent (`TransferOK`).
* `VentasProofs`: whatever requests overlap, `TipoCorrecto` (`TypeOK`), `UnaSesionAbierta`
  (`UnaSesionPorCaja`), `SesionConciliadaEsFinal` (`SesionFirme`) and `VentasUnaVez` (`CadaVentaUnaVez`): cash
  and stock are sums over the sales and refunds that were committed, and a step changes one term of the
  sum and the stored number alike. Of requests that do not overlap, `ArqueoSinSolape` (`ArqueoCuadra`):
  the session a process has found open stays open until that process commits, which is what fails with
  two; `EstadoSinSolape` (`EstadoDevuelta`) and `CupoSinSolape` (`CupoCuadra`): the state a refund decides
  and the quota a sale read are still right when they commit. `DevueltoSinSolape` (`DevueltoAcotado`): what a
  refund in flight is about to give back, with what came back before it, fits in what was sold
  (`CabenTodas`), for the lines that no refund names twice.
* `CuentasProofs`: `TipoDeCuentas`, `DeudaNuncaPerdonada` (`DeudaNoPerdonada`) and `SaldoProyectado`
  (`SaldoEsProyeccion`). `InvSaldos` bounds every stored balance from below by what a payment in flight
  read: a lost update can only restore part of a debt, never remove more than was paid.
* `MostradorProofs`, of `Pagos`: `TipoDePagos`, `PagoConCaptura` (`PagoRespaldado`), `CapturaConocida`
  (`CargoConocido`) and `CapturaConciliada` (`PagoConciliado`), for any keys, charges, and webhooks early,
  late or repeated. The invariant follows each charge through the request or the webhook that holds it
  (`CargosOK`), and says that a webhook knows the intents of its charge unless it looked too early
  (`ConciliaOK`). Of `Precios`: `TipoDePrecios` (no discount exceeds its line by more than the half cent of its
  rounding) and `CobroComoPrevia` (`PreviaEsCobro`). The preview chooses among all the promotions, the charge among those it named.
  `MismaLinea` shows that leaving out promotions that were not chosen changes no discount: those that add
  up are all there, and the best exclusive one is still a best one (`HayMejor`: a finite order has one);
  ties may be resolved the other way, but equally good promotions discount the same. `DocumentoComoCobro`
  (`ComprobanteCuadra`), for goods counted or weighed: `CalculadaOK` bounds the roundings of a line (`LineaOK`:
  the value of a unit, the quantity the column keeps, tax, duty and total, each to half of its last
  decimal), with the tax included or on top (`NetoConImpuesto`, `NetoSinImpuesto`). `TotalesCerca` compares the sum
  of lines rounded one by one with their sum rounded once, by `SumaEntre`, for however many lines.
* `RestauranteProofs`: `TipoDeRestaurante`, and `CobroEnTresPasos` (`CobraUnaVez`): every step of the three
  transactions, and of everything else that moves an order, is a step of `CobroUnico` or a stutter.
  `OrdenOK` relates an order to its sales, `VueloOK` what a request read to the order as it is, and
  `Solo` says that an order with two requests in flight is exposed. `TodoSeCobra` (`TodoCobrado`): a charge
  in flight of every item has every item (`Completa`), because items change under it only on the orders
  that are named as mixed (`SinMezcla`). `MesaConOrden` (`MesaTomada`): a table that no race has reached is
  being opened by one request, has one order, or is being freed by one charge, and never two of these
  (`Tomada`).
* `PlataformaProofs`, for all of `Plataforma`, an invariant per part: `InvSus` gives `PlanDaSusDerechos`
  (`DerechosDelPlan`): a subscription that no two requests crossed is in the hands of one at most, which
  saw the entitlements that are open (`EnUnaMano`). `InvAcc` gives `ReemplazoEntero` (`ReemplazoCompleto`) in
  the same way. `InvFac` gives `FacturaPagadaCubierta` (`PagadaCubierta`): what a payment in flight read is
  covered by the payments recorded. `InvSuc` gives `UnAlmacenPredeterminado` (`ConPredeterminado`). `InvCat`
  gives `SinControlNoHayStock` (`SinControlSinStock`): a movement in flight of a variant without control is
  one that crossed the change, and the variant is then outside the promise, as is one that an arrival or a
  count, which do not ask, gave pieces to. With `InvPiezas` it gives
  `PiezasNoSePierden` (`PiezasConservadas`): the lines that discounted a piece which no refund put back, or was not asked to
  put back, are counted, and every request in flight has read the control the variant still has. `PlanAcota` (`CupoDelPlan`) joins parts:
  members or products and the requests in flight that counted them stay within the greatest limit.
  `PlataformaTipo` is `TypeOKPlataforma`.
* `PlataformaProofs`, of `Alta`: `TipoDeAlta`, and `EntregaNoSeAdelanta` (`EntregaSegura`), for any tenants,
  relays, leases that run out, crashes and requests to the internal endpoint: every step is a step of
  `EntregaUnica` or a stutter. `InvAlta` says that what a relay holds was recorded, that the event it is about
  to publish is of a tenant that is projected or displaced (`Apartado`), that no event was published before
  (`TrasEfecto`), and whose a slug and an event may be (`SlugsOK`). A second relay that holds the same event
  finds it projected, and its write publishes what is published.

**Hypotheses of a theorem.** `UnProceso` (in `Ventas` and `Inventario`) and `UnTrabajador` (in `Fiscal`) say
that requests do not overlap, or that one instance of the worker runs. They are the hypotheses under
which the code keeps those sentences; the runs and section 3 show the counterexamples without them. No
other theorem restricts how many processes there are, and none restricts quantities or prices. What
`ComprobanteCuadra` says of base, tax and duties is of lines whose quantity the column keeps and which have
fewer units than a unit value has parts of a cent (10,000): the unit value of the document is kept to
the millionth, and half a millionth at each of more units than that is more than half a cent.

### Model-checked only

* `EntregaEventual`, and of `EntregaFiable` what it says beyond `EntregaSegura`: liveness under fairness is
  outside the prover's reach;
* `SinComprobanteDuplicado`, which does not hold.

`TypeOK` of `Fiscal`, `Inventario`, `Restaurante` and `Pagos`, `TypeOKPre` of `Precios`, `TypeOKAlta` and
`TypeOKPlataforma` are proved and not repeated in a run.

## 5. Not modelled

Left out because order does not matter in them (one statement, or rows nothing reads for a decision):
barcodes, categories, brands, units, bundles, images, price lists and the import of products; customers
and addresses; suppliers; companies; branches themselves; the management of series; operators of a
register; the billing account; feature flags, usage events, registration of platform webhooks; custom
roles; the guide of first steps of onboarding. Purchase orders (`crearOrden` and its states) only
announce a receipt, which `Cuentas` and `Inventario` model. Left out because they are I/O, guards or
queries: identity tokens, multitenancy, audit, notifications, integrations, files, reports.

Abstractions a reader should know of:

* each module has the rows its properties need. A sale appears in `Ventas` with its cash and quota, in
  `Inventario` with its stock (`Vender`, `Ingresar`), in `Fiscal` with its number, in `Precios` with its
  amounts, in `Catalogo` with the control of its line; the code commits all of them in one transaction,
  and no module here shows them together;
* `Catalogo` counts the pieces of a variant over all warehouses, `Inventario` per warehouse;
* amounts in `Cuentas`, `Ventas` and `Facturacion` are small integers; in `Precios` they have the decimals of
  the code and its rounding, one cart at a time;
* costs, lots and expiry dates are not kept, so FEFO consumption and average cost are not checked;
* the provider, the acquirer and Google answer anything their types allow.

What could follow: a composition of `Ventas` and `Inventario` over one balance; FEFO consumption and
average cost as pure algorithms.

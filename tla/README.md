# ms-payments in TLA+

A model of the payments service of this repository, the TLC runs that check
small instances of it, and TLAPS proofs about it for every instance. Paths below
are relative to the repository's root.

## 1. The system

A NestJS service sells products: a checkout records a purchase, a payment charges
a card through an external gateway, and the gateway later reports what became of
the charge through a webhook. One Node process serves all requests; it interleaves
them at every `await`. All lasting state is in Postgres and at the gateway; a
request's own state is lost with the process.

| Component | State | Operations | Talks to |
| --- | --- | --- | --- |
| Checkout, `create-transaction.use-case.ts` | rows in `customers`, `transactions`, `deliveries` | check quantity, card and stock; upsert the customer; create the PENDING transaction; create the delivery | repositories |
| Payment, `process-payment.use-case.ts` | one request's loaded transaction and outcome | refuse a missing or final transaction; load the customer; charge; hand over the outcome | repositories, gateway adapter, fulfilment |
| Webhook, `handle-payment-webhook.use-case.ts` | one request's loaded transaction and outcome | verify the signature; find by reference; ignore or apply | signature service, repositories, fulfilment |
| Fulfilment, `transaction-fulfillment.service.ts` | none | update the status; if APPROVED decrement the stock, then assign the delivery | repositories |
| Gateway adapter, `payment-gateway.adapter.ts` | the attempt of its polling | acceptance token, card token, POST, polling | the gateway over HTTP |
| Repositories, `postgres/*.repository.ts` | the tables | one SQL statement per write, conditional only for the stock | Postgres |
| Webhook signature, `webhook-signature.service.ts` and `scripts/build-webhook-event.js` | none | resolve the listed properties, build the signed text, compare digests; the script signs by the same rule | |
| Domain, `src/domain` | none | statuses, error codes, amounts, card check | |
| REST edge, `entrypoints/rest` | none | validation pipe, error envelope, HTTP codes | the use cases |

What makes it hard:

* Payment and webhook share fulfilment and both check `isFinalized` on a copy
  loaded one or many awaits earlier, while `updateStatus` writes unconditionally.
* No database transaction spans two statements: a crash, a failed statement or a
  committed statement whose answer is lost stops a pipeline in the middle.
* Every exchange with the gateway can be refused, time out, lose its answer after
  taking effect, or bring JSON of an unexpected shape, which throws past `orElse`.
* The gateway repeats events, sends them late, and settles charges on its own.
* Checkout compares with the stock and reserves nothing.
* Validation has gaps: nested objects may be missing, environment settings are
  not checked, and a webhook body is of any shape.

What makes each part correct: an approval and a shipment are always backed by an
approved charge and by units that left the stock; stock is never oversold; a payer
told APPROVED has been served, and a client told its transaction exists has all of it;
nothing half-recorded is ever charged; a transaction left final and alone stays so;
one call of the adapter asks for the money at most once and ends; every request ends;
an admitted body can be stored, an admitted event says in the values it lists what was
signed. These hold however requests overlap. The rest is what the repository's
documentation says and holds only under conditions (section 5): a final status stays
and the answer that told it can be read back (`FinalIsFinal`, `RestoredResult`: while
requests on one transaction do not overlap; an overlapping one can put another status
in its place), it is applied once, an approval is fulfilled, and no settled charge
leaves its transaction PENDING.

## 2. Modules

| Module | Models |
| --- | --- |
| `TransactionStatus` | the status enumerations, `isFinalStatus`, `mapStatus` |
| `DomainErrors` | how a request can fail: error codes, an exception, a refused body, no answer; the HTTP status each becomes |
| `Payments` | payment, webhook, fulfilment, the rows they touch, the gateway |
| `SerialPayments` | `Payments` where requests about one transaction do not overlap |
| `TransactionLifecycle` | the abstract specification: recorded, decided once, taken once, then shipped |
| `GatewayAdapter` | one `charge()` call, exchange by exchange, under any settings |
| `Checkout` | `CreateTransactionUseCase` and the tables it writes |
| `Shop` | `Payments` and `Checkout` over one database, in one process |
| `SerialShop` | `Shop` where payments and webhook requests about one transaction do not overlap |
| `CardNumbers` | the checksum loop and the brand patterns of `CardBrandService` |
| `RequestBodies` | the decorators of the request DTOs, and what the `ValidationPipe` lets pass |
| `WebhookSignature` | property resolution, the signed text, its comparison; the script that signs |
| `Intake` | a request from the pipe to the point where its use case first awaits |
| `PaymentsProofs`, `SerialProofs`, `AdapterProofs`, `CheckoutProofs`, `ShopProofs`, `SerialShopProofs`, `IntakeProofs` | the theorems about the module each is named after (`SerialProofs`: `SerialPayments`, `AdapterProofs`: `GatewayAdapter`) |
| `FoldLemmas` | facts about recursion over finite sets and about sums, cited by the proofs above |
| `MCPayments`, `MCSerialPayments`, `MCCheckout`, `MCShop`, `MCSerialShop`, `MCIntake` | instances for TLC |

`SerialPayments` and `Shop` extend `Payments`; `Shop` has an instance of `Checkout`
that shares `transactions`, `stock` and `deliveries`, and `SerialShop` extends both.
`SerialPayments` and `SerialShop` implement `TransactionLifecycle`, `GatewayAdapter`
implements `Payments`. `Intake` extends the three
pure modules: what it admits is what `Checkout` and `Payments` begin with.

### State and code

In `Payments`, `transactions`, `stock` and `deliveries` are the tables;
`charges` and `acked` belong to the gateway (charges it accepted, and those about
which it was answered with 200); `pc`, `target`, `outcome`, `attempt` and `reply`
are what a request in flight remembers; `taken` is a history variable. A charge is
named by the payment request that opened it, since a request opens at most one.
`transactions[t].gatewayId` is the column `wompiTransactionId`.

An action is the code from one awaited call to the next. The steps of a payment
are `loadPendingTransaction`/`rejectPayment` (findById and the early returns),
`findCustomer`, `postCharge` or `chargeRefused` or `chargeThrows`, `chargeAnswered`,
`pollUntilFinal`, then those of fulfilment: `apply`, `decrementStock`,
`assignDelivery`, each with the action for its failure. A webhook request starts
with `rejectEvent`, `ignoreEvent` or `acceptEvent` and continues with the same
fulfilment. `finish` is the end of either: a payer gets its `reply`, and a webhook
request answers with the HTTP status of what happened to it (`toHttpStatus`), which
the gateway takes for an acknowledgement when it is 200. `getTransaction` is the
read-back of GET `/transactions/:id`. A read that follows a write in the same handler
and changes nothing (the product after `updateMany`) is part of the write's step; its
failure is one of that step's ends.

`authentic` is what is assumed of the events the gateway signs. First, the reference
in an event is that of the charge it speaks of. The code does not check this: the
checksum covers the values listed in `signature.properties`, in
`scripts/build-webhook-event.js` the id and the status, so it does not bind the
reference, and everything said of approvals (`ApprovedIsPaid` and what rests on it,
`PaymentsStaySound`) rests on the gateway naming its own charge's reference. Second, a
signed event reports a charge only once it is settled; events that report PENDING are
left out.

`Faults` names what the environment may do: `"db"` (a statement fails), `"lostAck"`
(a statement commits, its answer is lost), `"gateway"` (any exchange fails),
`"crash"` (the process dies). `chargeThrows` needs none of them: a body without its
card passes validation and `tokenizeCard` throws on it, and so does
`AbortSignal.timeout` on a setting that is no number. `IdempotentReference` says
whether the gateway refuses a reference it already charged; the code relies on it
without being able to enforce it, so runs use both values.

`GatewayAdapter` keeps the exchanges and the five ways one can fail apart, which
`Payments` does not. `config` is what is settled before the call: `maxPollAttempts`
(a sound value, 0, or `NaN`: nothing checks it), whether the timeout is one
`AbortSignal.timeout` takes, and whether the command has a card. `ImplementsPayer`
shows that with a sound number of polls each of its steps is one that `Payments`
allows a payer between `findCustomer` and `apply`, or none.

`Checkout` follows the four database calls of `execute`. Columns that only checkout
writes are in `orders`. Postgres refuses a row with an amount beyond an `Int`, without
its customer or transaction (the foreign keys), or under a reference that is taken
(`storesTransaction`, `storesDelivery`, `isFresh`), and the call fails. `reject` stands
for every early answer: which one it is changes nothing that follows. `Shapes` are the bodies
`Intake` shows to be possible: complete, refused by the pipe, or admitted without
their customer or delivery, which makes the call that needs it fail. In `Shop` a
client pays only a transaction whose id a checkout has answered (`isKnown`): ids are
random UUIDs and nothing lists them. `processDies` is one crash under all requests.

In `Intake` a `request` is a body or an event; it goes from `"arrived"` through the
pipe to `"handler"` and through the synchronous checks of its use case to
`"admitted"`, or it is `"refused"` with an answer. Bodies are records of field
verdicts (`"proper"`, `"malformed"`, `"null"`, `"absent"`); card numbers are
sequences of digits; event data are JSON values over a few texts. A digest is the
text it was taken of: SHA-256 is assumed to have no collisions.

Definitions marked `seeded fault` are not part of the model: each is a variant of
the definition that follows it, with a mistake the code might plausibly have made.
Replacing the definition by its variant makes TLC find the property listed beside
it in `PROJECT.json` violated, which shows that the property depends on that code.

## 3. Runs

`tlc -config <run>.cfg <module>`; the passing runs explore their state spaces
completely.

| Run | Module | Shows |
| --- | --- | --- |
| `RaceOneTransaction` | `MCPayments` | two payments and two webhook requests on one transaction, every fault, a gateway that accepts a reference twice: types, the inductive invariant `IInv`, `ApprovedIsPaid`, `ShippedIsPaidAndTaken`, `ApprovedReplyIsFulfilled`, `SettledStays` (what overlapping requests leave final stays as they left it), `StepsAreBounded` |
| `SerialShop` | `MCSerialShop` | two checkouts, two payments and a webhook request, requests about one transaction do not overlap, every fault: `FinalIsFinal`, `AppliedOnce`, `AckedIsFinal`, `RestoredResult`, their invariant `SerialShopInv`, and the refinement of `TransactionLifecycle` from the checkout on |
| `SerialRetrying` | `MCSerialPayments` | only the gateway fails, and repeats its events: `ApprovedIsFulfilled` and its invariant `FulfilmentInv`, `NeverStuckPending`, `RequestsEnd` |
| `Checkouts` | `MCCheckout` | two checkouts with colliding references, equal or different customers, amounts around the limit of a column, bodies without nested objects, every fault: `CreatedIsComplete`, `CheckoutInv` |
| `Shop` | `MCShop` | two checkouts, two payments, a webhook request, every fault: `NeverOversold`, `ChargedHasDelivery`, what payments and checkouts promise alone (`PaymentsStaySound`, `CheckoutsStaySound`), `ShopInv` |
| `Adapter` | `GatewayAdapter` | eight polls, none, and no number: at most one POST, at most eleven requests, an honest result, fewer exchanges to come after each of them, repeated polls included (`ExchangesAreBounded`), an end where the settings allow one and in any case once the charge is decided, `AdapterInv`, the refinement of `Payments` |
| `Intake` | `MCIntake` | the checksum accepts what its standard accepts and no slip of the hand, the brand patterns are the ranges they are meant to be, admitted bodies can be stored, the script's events verify, and a change of one listed value is noticed |
| `AppliedTwice`, `ApprovedUnfulfilled`, `StuckPending`, `PaidUnrecorded`, `UnvalidatedDelivery` | | expected violations, section 5 |

Bounds. Two payments and two webhook requests are the fewest with which every pair
of request kinds overlaps, including two of one kind; a third request of a kind only
repeats a race, and the proved properties hold for any number. One transaction is
enough where requests meet only through it; runs about stock use two, because
transactions meet only in the stock of a product. `Units` is 2 where both can be
served and 1 where they cannot (`ApprovedUnfulfilled`); `Shop` and `SerialShop` mix
quantities 1 and 2 over 2 units, so that a decrement can be refused with stock left.
They differ in the gateway: in `SerialShop` it accepts a reference twice, so that a
transaction can have several charges, and sends a status the program does not know.
One webhook request is enough in both, since the second one about a transaction could
not overlap (`SerialShop`) or repeats the race of `RaceOneTransaction` (`Shop`). One poll,
or two where polling must be seen to go on (`SerialRetrying`), stands for eight: a
poll changes nothing but the attempt, and `Adapter` runs the real eight. There,
`sent` is counted up to one beyond what a call may send and, where polling has no
end, `attempt` alternates between two values above the eight. `Verdicts` holds a
status that ships, one that does not, and where it matters a name the program does
not know. In `Checkouts` one unit costs 10 and `MaxInt` is 31: three units fit, their
total with fees does not; the quantity 0 is refused; stock is any value up to three.
`Shop` and `SerialShop` leave bodies complete, since `Checkouts` has the others and both end before
an id is answered. `Intake` takes every number of one to four characters, a
non-digit among them, and accepts lengths 2 and 3 instead of 13 to 19: with these
each position is once doubled and once not, and the first four digits decide the
brand. Its bodies differ from a proper one in at most two places, so that one gap
cannot hide another, and its events are over three texts of which two joined make
the third, so that concatenations can coincide, and over eight lists of up to three
of the four kinds of path: to a listed value, to a value listed twice, to the object
as a whole, to nothing (`PathLists`).

Symmetry is declared over transactions, requests and, where there are checkouts, the
names they draw from, only in runs without liveness properties
(`RaceOneTransaction` and `SerialShop` check step and refinement properties
without fairness). Deadlock is checked in the runs over `Payments` and the shops (an
idle webhook slot can always receive); in `Checkouts`, `UnvalidatedDelivery`,
`Adapter` and `Intake` the requests come to an end, and they say
`CHECK_DEADLOCK FALSE`.

## 4. Fairness

* `RequestFairness`: a started request keeps moving. Every gateway exchange ends by
  `AbortSignal.timeout` (`payment-gateway.adapter.ts:196`), every delay by
  `setTimeout`, every statement with a row or an error. That a client starts a
  request is never assumed.
* `GatewayFairness`, only in `RetryingSpec` and `SerialRetryingSpec`: the gateway
  settles every charge (weak fairness) and repeats an event until it is answered
  with 200 (strong fairness, since the one webhook slot may be busy). This is
  external; `handle-payment-webhook.use-case.ts:57` speaks of these retries.
* `FairSpec` of `GatewayAdapter`: exchanges and delays end, as above. That the
  gateway ever decides a charge is not assumed there.

## 5. Where the documentation says more than the code does

Each run finds its counterexample; none needs a database fault or a crash.

* `AppliedTwice`: README, "the outcome is applied exactly once". A payment and the
  event about it overlap, both loaded the transaction while PENDING, and both
  decrement the stock.
* `ApprovedUnfulfilled`: README, "Charge accepted. Stock decremented and delivery
  assigned". Two transactions each fitted the last unit; the second is charged,
  written APPROVED, then refused by `decrementStock`. Its payer gets
  INSUFFICIENT_STOCK and nothing can fulfil or undo the approval.
* `StuckPending`: README, "Never leaves a stuck `PENDING`". The last poll reads
  PENDING, the event is applied and answered, and the payer writes PENDING over it:
  `updateStatus` has no condition on the status. The same write changes a finalized
  transaction, which `transaction.model.ts:31` says must never happen.
* `PaidUnrecorded`: README, "If the gateway resolves a transaction after the
  synchronous call has returned ... the outcome is applied exactly once". A payment
  gives up polling; its retry is refused by the gateway, because the reference was
  used, and is recorded as ERROR; the approval that follows is acknowledged and
  ignored. Requests need not overlap.
* `UnvalidatedDelivery`: README, a checkout "persists a PENDING transaction, its
  customer and its delivery". A body without a delivery passes `ValidateNested`, and
  the transaction is left without one. `ChargedHasDelivery` shows what protects the
  shopper nevertheless: the id of such a transaction is never answered.

`SerialPayments` and `SerialShop` show how far overlap is to blame for the first and
the third: without it `AppliedOnce` and `FinalIsFinal` hold under every fault, of the
whole service too (and are proved), `NeverStuckPending` under a failing gateway.
`ApprovedIsFulfilled` needs enough stock besides, and writes that succeed: with these
it is proved, also of the whole service (`SerialShopApprovedIsFulfilled`).

## 6. Proofs

Each theorem holds for any sets of transactions, products, requests and faults that
satisfy the named assumption of its module; the assumptions only say what the
constants are (disjoint request kinds, `Null` is none of the values it is stored
beside, prices and stock natural, quantities positive). All safety invariants of the
passing runs, the refinements and the action properties are stated by a theorem; what
is left to TLC is liveness.

`FoldLemmas`. Two kinds of property are about a whole collection: sums over
transactions and texts put together character by character. The provers cannot use
an induction theorem whose parameter is an operator, so `FoldLemmas` states induction
over naturals and over finite sets with a *set* of the good ones in place of it
(`NaturalSets`, `SubsetInduction`; the bad ones would have a least member, `Least`),
derives that a fold has the value its recursion says (`FoldExists`), and from that
what a sum over a finite set is: unchanged outside the support (`SumAgree`,
`SumZero`), changed by the difference at one place (`SumUpdate`), monotone
(`SumOrder`).

`PaymentsProofs`, from `SetsAssumption`. `ApprovedIsPaid` and `ShippedIsPaidAndTaken`
are not inductive: whether the next write keeps them depends on what the writer
remembers. `IInv` adds `JobsOK` (a busy request's transaction exists; an outcome is
there to apply, and a webhook's names a charge; a payer past its POST has a charge
for its own transaction, before it none) and `ApprovalsOK` (an outcome that says
APPROVED names a charge approved for the request's transaction; past `apply` the
outcome is an approval; past `decrementStock` the units are taken). Approved charges
stay approved, since `settle` changes only PENDING ones, so what `ApprovalsOK` says
of a request stays true while it waits, and whichever request writes last writes a
genuine approval together with the charge that backs it. One lemma per action gives
`Inductive`, from which `TypeCorrect`, `ApprovedOnlyIfPaid` and
`ShippedOnlyIfPaidAndTaken`. `ApprovedAnswerIsFulfilled` adds that an answer given is
kept: charges stay approved, units are never returned and an assignment is never
undone (`FulfilmentStays`), and `assignDelivery` alone answers APPROVED. `SettledForGood`
is about what comes after: a request under way was so before, on the same transaction,
or has just loaded one that is not final (`WorkContinues`), and only a request at work
on a transaction changes it (`OnlyWorkChanges`).
`BoundedSteps` proves the measure `stepsLeft`: any step of any request, fault or
crash lowers it for the requests it moves. With `RequestFairness` this is what
`RequestsEnd` comes to; the fairness argument itself is TLC's. `StockNeverOversold`
also uses `FiniteAssumption` (the transactions are finitely many, so that a sum over
them is defined). `StockInv` adds to `NeverOversold` that what a transaction took
is recorded only for rows that exist; `decrementStock` moves one transaction's
quantity from the stock to `unitsTaken` in one step (`SumUpdate`), and every other
step changes neither (`StockFrame`).

`SerialProofs`, from the same assumption. `SerialInv` says that a request finds the
row as it left it: PENDING until `apply`, APPROVED after, units taken at most once,
an answer given is what the row says, and an acknowledged charge's transaction is
final. Only three steps write to the tables, `apply`, `decrementStock` and
`assignDelivery`, and by `oneAtATime` no other request works on the row they write;
all others are "quiet" for the invariant and stutter in the lifecycle. This gives
`SerialFinalIsFinal`, `SerialAppliedOnce`, `SerialAckedIsFinal`,
`SerialRestoredResult`, and in `SerialImplementsLifecycle` the refinement: `apply`
is `Decide` (or nothing, for PENDING), `decrementStock` is `TakeUnits`,
`assignDelivery` is `Ship`. `SerialApprovedIsFulfilled` has two hypotheses, which
section 5 shows to be needed: `WritesHold` (no failing statement, no lost answer, no
crash) and `EnoughStock` (each product's first stock covers all recorded
transactions that ask for it). It follows from `SerialFulfilment`, for which
`FulfilmentInv` says that an APPROVED row is fulfilled or a request is on its way to it
(`approvalArrives`); that request's decrement cannot be refused, because by `StockInv`
the stock is what the others have not taken, and by `SumOrder` they cannot have taken
its share. The lemmas about single steps (`FinalStays`, `OrderedKeeps`, `StepRefines`,
`ApprovalsArrive`) are about any step of `Payments` or crash, so that `SerialShopProofs`
can use them where a row may be missing.

`AdapterProofs`, from `AdapterAssumption`. `AdapterInv` ties `sent` to the step and,
while polling, to the attempt (`SentOK`), which carries the budget of `AsksOnce` and
the last poll of `ResultIsHonest` through any limit. `AdapterExchangesAreBounded` proves
the measure `exchangesLeft`, which every step of the call lowers unless polling has no
end by its settings, and which only `settle`, the gateway's own step, leaves alone; with `FairSpec` this is what `ChargeEnds` comes to.
`AdapterImplementsPayer` proves
the refinement of `Payments` action by action: the exchanges for the acceptance and
card tokens stutter, the POST that opens a charge is `postCharge`, its answer
`chargeAnswered` and a poll `pollUntilFinal`; what fails is `chargeRefused` or
`answerLost`, before or after the charge was opened, and what throws `answerMalformed`.

`CheckoutProofs`, from `CheckoutAssumption`. `CheckoutInv` adds `ProgressOK`: what a
request's earlier calls wrote is still what its body says when the next call runs,
because rows are only added and customers only replaced. It gives
`CheckoutComplete`; `CheckoutTypes` adds that what is stored fits its column.

`ShopProofs`, from `SetsAssumption` and `ShopAssumption`. `ShopInv` is `IInv` with
`CheckoutsOK` (what a checkout has still to write is not there yet) and `PayersKnow`
(a payment under way has its delivery row). A checkout therefore only adds a PENDING
row or delivery where there was none, which disturbs no part of `IInv`; every other
step is one of `Payments`, and the lemmas of `PaymentsProofs` apply. Results:
`ShopPaymentsStaySound`, `ShopChargedHasDelivery`, `ShopApprovedAnswer`,
`ShopNeverOversold` (a new row has taken nothing, so a checkout leaves the sum alone).
`ShopCheckoutsStaySound` goes the other way: payments update the rows a checkout wrote,
so the module `Checkout`, which sees no update, does not apply as it is. It applies to
the rows *as recorded* (`asRecorded`: product and quantity of the row, with the status
and charge every row starts with). `Recorded` is an instance of `CheckoutProofs` over
that view; a checkout of the service is one of `Checkout` there (`CheckoutIsRecorded`),
every other step leaves the view alone (`PaymentsKeepRecorded`), and what
`CheckoutInv` says of the view says the same of the rows, since no part of
`CheckoutsStaySound` is about status or charge (`RecordedIsSound`).

`SerialShopProofs`, from the same assumptions. `SerialShopInv` joins `ShopInv` and
`SerialInv`, and adds `AnsweredKnow`: an answered payer still has the id it named, and
since its answer can be read back under it, the row is there and no checkout can record
another in its place. A checkout adds a PENDING row no request is at
work on (`CheckoutKeepsSerial`), which in the lifecycle is `Record` (`CheckoutRefines`);
other steps are those of `SerialProofs`. Results: `SerialShopPromises` (`AppliedOnce`,
`RestoredResult`, `AckedIsFinal`), `SerialShopFinalIsFinal`,
`SerialShopImplementsLifecycle`. In `SerialShopApprovedIsFulfilled` stock must suffice in
every state, `[]EnoughStock`, because checkouts go on recording: this is what a
reservation at checkout would establish and `hasStockFor` does not. It needs no
assumption about deliveries: a payer's is there by `PayersKnow`, a webhook request's by
`ChargedHasDelivery` (`WorkersFindDeliveries`).

`IntakeProofs`, from `IntakeAssumption` and `CardAssumption`. `Intake` runs a request
in two steps; its theorems are about the data. `PassedInv` says that what got past
the pipe passed it, `CheckedInv` the same of the card check and `SignedInv` of the
signature.

* `AdmittedIsComplete`, `BrandsAreRanges`, `IntakeTypes`: by cases over the fields,
  the four digits and the failures.
* `AcceptedIsLuhn`: the loop of `isValidNumber` goes over the number from its end with
  an alternating flag; after any number of digits its sum is that of the weights so
  far and the flag tells the parity (`LoopInv`), for numbers of every allowed length.
* `SlipsAreCaught`: one changed digit changes one summand by no multiple of ten
  (`WrongDigit`), and exchanged neighbours change two (`Exchanged`).
* `ScriptAlwaysVerifies`: both implementations put the same two texts together.
* `OneChangeIsAlwaysNoticed`, for any list of paths: what is signed is a chain of
  texts (`Chain`). If the new text has another length, all chains from its place on
  have (`LongerText`); if it has the same length, nothing shifts and the place
  itself shows it (`TextAsLong`), also when the value is listed several times.

Left to TLC: liveness (`RequestsEnd`, `NeverStuckPending`, `ChargeEnds`,
`DecidedChargeEnds`), which the prover's backends do not cover under fairness. The
five violations of section 5 are TLC's by nature.

## 7. Not modelled

* Response DTOs and envelopes, `lastFour`, status messages: layout.
* `isNotExpired`: nothing calls it.
* `GET /products`: reads that no other component uses.
* Contents of headers and of the integrity signature sent to the gateway: nothing in
  the code reads them back.
* Ports, dependency injection, and the bootstrap beyond its global pipe and filter:
  wiring and framework configuration.
* Migrations and seed: `Checkout` uses the constraints of the schema; the seed runs
  before the service, not beside it.
* A webhook request without a body at all: the framework's parser decides what the
  handler sees.

## 8. Plan

Done: the core (`Payments`), the serial discipline with the lifecycle it implements,
the adapter, checkout, their composition with and without overlapping requests, the
intake, and proofs of every safety property, action property and refinement. Left, in
order:

1. What fairness adds to `BoundedSteps` and `AdapterExchangesAreBounded`, as far as it
   can be stated without liveness: a started request always has a step, unless another
   holds its transaction.
2. Liveness of `Shop` under `RequestFairness`: every checkout ends as well.
3. Several replicas of the process behind one database: `Payments` already
   interleaves requests at every await, so only `crash` would become one per replica.

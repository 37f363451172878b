# TLA+ specifications of utexo-lsp

utexo-lsp is a Lightning service provider for RGB assets: one Go process, one SQL
database and one rgb-lightning-node. It moves money between two parties that do
not trust it to get it right, across calls that may fail after they took effect,
webhooks that come late or twice, and restarts. The specifications here are about
that: what is paid, claimed, refunded and recorded, and in which order.

All paths below are relative to `src/internal/lspapi/` unless they begin with
`src/`; `README.md:n` in the modules and in `PROJECT.json` is `src/README.md`.

## The system

### Process and scheduling

`run.go` opens the database (and runs its migration), starts **one** cron goroutine
and the HTTP server. Every `CRON_EVERY` (30 s) the cron runs, one after the other,
`reconcileChannels`, `maintainUtxos`, `monitorOnchainSend`,
`monitorLightningReceive` and `runAsyncOrderOutbox` (`api.go:1004-1033`). HTTP
handlers and the node's webhooks run concurrently with it and with each other.
Nothing is shared in memory except the get_info cache, the skip map of the channel
reconciliation, and a pinned asset; everything else is in the database.

### Components

| component | state | operations | what makes it correct |
|---|---|---|---|
| lightning_send relay (`lightning_send*.go`) | `lightning_send_mappings.status`, outbox rows, HODL invoice and payment at the node | quote, claimable and payment_sent webhooks, pay job, claim job, refund | paid at most once; charged only after the payee was paid; a preimage in hand is used; refunds and answers tell the truth |
| outbox (`async_order.go`, `api.go:308-347`) | `async_rotating_invoice_outbox` | enqueue with a status, claim with a lease, done, retry | a status and the job it needs are never apart; every due job is worked on |
| APay order (`async_order.go`, `api.go:48-600`) | `async_rotating_invoices.status`, timestamps, preimage, outbox rows | two webhooks, request / send / claim jobs, startup migration | as for the relay, with a receiver that may be offline |
| hash pool and invoice slots (`async_order.go`, `lightning_address.go`) | `async_hash_pool`, `async_orders`, `async_rotating_invoices` | batches of hashes, reserve / finalize / release of a slot | a hash is used once, no index is lost, pool and invoices agree, the order stays payable |
| on-chain send (`api.go:748-824, 1262-1295`) | `onchain_send_mappings` | handler, monitor tick, `/sendrgb` | sent only if paid, once, and every paid one is sent |
| lightning receive (`api.go:826-940, 1357-1604`) | `lightning_receive_mappings` | handler, monitor tick, start / poll / retry of a delivery | delivered only if settled, never two payments, completed means arrived |
| batch commitments (`apay_batch_store.go`, `apay_merkle.go`) | `apay_hash_batch`, the `batch_id` of a pool row | commit a batch, proof for one invoice | every proof given out verifies against the committed root |
| channel reconciliation (`api.go:1035-1172, 1691-1825`) | the node's channels, the age of an account | open a channel in each supported asset to each peer | no second channel, the peer's choice of an asset is kept, who is waiting is served |
| UTXO maintenance (`api.go:1297-1343, 1965-1986`) | the wallet's UTXOs | count, create | enough free UTXOs, never more than the target |
| lightning addresses (`lightning_address*.go`) | `lnaddr_accounts` | create an account, look it up, discovery, callback | one handle per peer under races, one meaning per address |
| convertible pairs and payout asset (`convertible_asset.go`) | `lnaddr_accounts.payout_asset_id`, configuration | resolve the legs of a request, derive and pin the payout asset | only declared pairs convert; what is advertised is quoted |
| get_info cache, configuration, node client | in memory | read through, validate, call | freshness, bounds on the deltas |

Interactions: handlers write a row and answer; the node calls two webhooks
(`/internal/async_order/claimable`, `/internal/async_order/payment_sent`); a
webhook changes a status and, in the same transaction, enqueues a job; the cron
goroutine works the jobs off and calls the node. Both webhooks and the outbox
serve the APay orders and the relay: `lightningSendOwnsHash` tells them apart.

### What is hard here

* **Money before the record, or the record before the money.** `SendPayment`,
  `/claimhodlinvoice`, `/cancelhodlinvoice` and `/sendrgb` may take effect and
  their answer be lost; the status write after them may fail; the process may
  stop between them.
* **Check, then act.** Claim deadlines are checked against a height that is
  stale when the payment goes out.
* **Webhooks in any order.** `payment_sent` overtakes the job that started the
  payment; either webhook comes twice, or for a record that was given up.
* **Two copies of one fact.** Status and outbox, pool and invoices, order status
  and pool, accepted index and pool, status and timestamps.
* **Slots.** A uniqueness key and a counter that only one path moves.
* **Turns.** One goroutine, ten jobs a tick, the lowest id first.
* **Read at the start, used at the end.** A tick decides from a channel list, a
  request from an account row, a proof from three queries, while others write.

`PROJECT.json` lists every such hazard at its line, with the property about it.

## The modules

| module | models | how |
|---|---|---|
| `OutboxTable` | the outbox table | operators on a function to the rows' states |
| `OutboxSchedule` | who gets a turn of the outbox | times counted down, one action per statement |
| `FairOutbox` | what the relays assume of the outbox | abstract specification |
| `LightningSend` | the relay | see below |
| `AtomicRelay` | the promise to the one who pays | abstract specification |
| `ApayOrder` | an asynchronous payment | see below |
| `HashPool` | the hash pool of one order and its invoice slots | one action per transaction |
| `ApayMerkle` | the Merkle tree of a batch | operators, recursive functions |
| `BatchProof` | batches, stamped rows, the proof for an invoice | one action per transaction or query |
| `OnchainSend` | on-chain sends and their monitor | one action per call of the tick |
| `LightningReceive` | receives and their deliveries | one action per call of the tick |
| `AssetPairs` | legs, payout asset, accepted assets | operators |
| `AddressPayout` | accounts, pins, discovery and callback | one action per call, extends `AssetPairs` |
| `UtxoPool` | the wallet's colorable UTXOs and `maintainUtxos` | actions for the next module to compose |
| `ChannelProvisioning` | `reconcileChannels` and the rest of the tick | extends `AssetPairs` and `UtxoPool` |
| `LightningSendProofs`, `ApayOrderProofs`, `HashPoolProofs`, `OnchainSendProofs`, `LightningReceiveProofs`, `BatchProofProofs`, `AddressPayoutProofs`, `ChannelProvisioningProofs` | | theorems |
| `MC*` | | instances for TLC |

Actions carry the names of the functions they model where TLA+ allows it;
`PROJECT.json` maps each definition to its lines. Some definitions come just
before another one whose plausible bug they are (`OwnWithoutCheck` before
`OwnDelivery`): no action uses them; they are the mutants that show each property
can fail.

**LightningSend.** `status` and `jobs` are the two tables; `Advance` is
`AdvanceLightningSend`, a compare-and-set with the enqueued job in one
transaction. The cron goroutine is a program counter `pc` and the `job` it holds:
one action per database or node call, so that a webhook, a block, a failure or a
restart can come between any two. The node is what the LSP observes of it: the
HODL invoice and its HTLC (`inbound`), the claim `deadline`, the payment
(`outbound`, `outExpiry`), and the webhooks it has had answered (`acked`).
`height` is the chain, `seen` the height the running job last read. `SendPayment`
has four outcomes: accepted, reported failed, and lost with or without effect.
`Restart` may change `LIGHTNING_SEND_ENABLED`. `calls` is a history variable.

**ApayOrder** has the same shape with three jobs. `stamped` stands for the
timestamps and the preimage from which the startup migration of `db.go:355-370`
computes a status again. `inbound_cancelled` and `outbound_cancelled` do not
occur: the methods that would write them have no caller.

**HashPool** has one action per transaction; a callback request is a program counter per
request. A batch is a function from consecutive indices to hashes. `Slot` reaches
one beyond `MaxIndex` because a slot is taken before a finalization frees the
next.

**OnchainSend.** `todo` is the list a tick has read (`Limit` rows, oldest first);
the tick visits it in the order of the ids. The two calls of the handler are one
step, because an invoice whose mapping was not inserted is never shown to anyone.
`transfers` counts what the node sent.

**LightningReceive.** A visit of a due row, then start, poll and retry by a program
counter. The retry path and the first start differ only in times and messages and
share their actions. `hashKnown` is "the row has a payment_hash", which decides
between polling and starting; `doubled` records a call of `SendPayment` while a
payment was in flight or made.

**OutboxSchedule** counts `available_at` and `locked_until` down (`wait`), and the
ticker with them (`sleep`, `rang`: its channel holds one tick, a second is
dropped), so that no clock grows. Statements take no time, jobs up to `JobTime`.
`Hopeless` jobs fail whenever they run; others fail by a fault only.
**FairOutbox** is the outbox without times: `LightningSend` and `ApayOrder` take a
job by strong fairness, and `IsFairOutbox` says that the schedule grants it. In turn
`UsesOutbox` says that the two change the table only as an outbox does and hold no
job for ever, which the schedule takes for granted.

**BatchProof.** A pool is the sequence of its rows, with hash and `batch_id`;
`batches` is keyed by id over all orders, and the first insert wins. A request
stores the commitment, then merges the hashes, and a refusal rolls both back.
`BuildApayInvoiceProof` is a program counter with a query per step; the rows of a
batch come by `hash_index`, of whatever order, ties in any order. `used` is a
history variable: what an id was used for. **ApayMerkle** takes SHA-256 to be
injective: a hash is the tuple of what was hashed.

**AssetPairs** has the resolutions of the three routes (`InvoiceLegs`,
`ReceiveLegs`, `SendLegs`) as sets of legs, empty for a refusal.
**AddressPayout** has the cron goroutine and requests as actors, each with its
locals: `ensureLightningAddressAccount` with its read, mint and insert;
the payout asset read, derived from `/listchannels`, pinned, and used whether or
not the pin was written. `told`, `paidOut`, `promised`, `broken` and `lostPin` are
history variables.

**UtxoPool and ChannelProvisioning.** A tick is a `stage`: the lists, then a visit
per intent (account, pin, decision and opening), then the unspents and
`/createutxos`. Peers connect, fund and close channels between any two calls. The
decision looks at `listed`, the channels as they were at the start. `age` is the
account's `created_at` against `CHANNEL_PROVISION_GRACE`. `opening` and `usable`
count the LSP's channels by intent, so that a second one shows. An opening or a
`/createutxos` that times out may be carried out later (`lateOpen`,
`lateCreate`). Each opening and each blind receive takes a confirmed UTXO.

**AtomicRelay** states what a payer is promised: *hold*, *deliver*, *charge* only
when delivered and still held, *release* only when not charged, and final answers
that are true. `LightningSend` and `ApayOrder` both implement it, through the
mappings at the end of each module (`RelayIsAtomic`, `PaymentIsAtomic`). The relay
maps its three terminal statuses; the APay order maps only `inbound_claimed`,
since a restart can undo `failed`.

## What is abstracted

* Times: in all modules but `OutboxSchedule`, leases, retry delays and
  `next_attempt_at` become "due again some time"; wall clocks become sets of
  things that have expired; blocks are counted.
* Amounts, invoices' contents, signatures and messages.
* In `ChannelProvisioning` the intents are those of the `/listpeers` fallback
  (every connected peer, every supported asset), and one node answers for
  the two base URLs. With two nodes, `maintainUtxos` would
  count the UTXOs of the one and create at the other; the code does not exclude
  it and nothing here covers it.
* A failed call is a choice, bounded by `MaxFaults`. Where the code treats an
  error as it treats an ordinary answer, no fault is counted.
* `JobBlocks` bounds the blocks that arrive between a deadline check and the call
  it guards in the same job. The HTTP timeout (`HTTP_TIMEOUT`) is what bounds it
  in the code; without such a bound no check before a call can mean anything.
* A payment in flight resolves by the height at which its final hop expires
  (`outExpiry`): routing adds hops, which the configured margin is for.
* `InsertLightningSend` follows the HODL invoice of its own request: the node
  refuses a second HODL invoice for one payment hash, so that two requests for
  one hash are kept apart there.

## Runs

| run | instance | shows |
|---|---|---|
| `relay` | 2 hashes (one that fits the quote, one that does not), 2 faults, 7 blocks | safety, `RelayIsAtomic`, `CollectsWhileHeld`, `PreimageIsRecorded` |
| `hash_pool` | 5 hashes, 5 indices, 2 concurrent requests, batches of 2, pool of 3, 3 faults, symmetry | pool, invoices and order agree after every transaction |
| `apay` | 1 hash, 3 faults, 7 blocks | safety, `PaymentIsAtomic`, the two liveness properties, `UsesOutbox` |
| `onchain_send` | 2 mappings, 1 per tick, 2 faults | safety, `EveryMappingConcludes` |
| `lightning_receive` | 2 mappings, 2 faults | safety, `DeliveredIsConcluded` |
| `outbox_schedule` | 4 jobs, the first 2 hopeless, 3 a tick, retry 2, lease 5, tick 3, 3 faults | `EveryJobIsDone`, `IsFairOutbox` |
| `batch_proof` | 2 orders, 2 batch ids, 3 hashes, 3 indices, 3 requests, symmetry | `ProofVerifies`, `BatchIsWhole`; the tree against its definition on up to 9 leaves |
| `address_payout` | 2 peers, 2 handles, 2 mints, 3 assets, cron and 1 request, 1 fault | handles, pins and answers agree; `ChannelGetsPinned` |
| `provisioning` | 1 peer, a supported and a convertible asset, minimum 1 and target 2 UTXOs, 1 receive, 1 fault, 2 channel changes | safety and liveness of the cron's provisioning and of the pool |

Why these bounds are enough to be interesting. A double payment needs one lost
answer and one retry; a misreported relay a lost answer and a failed check: two
faults reach every pair of failures, three every pair and a crash. The deltas are
small numbers in the same order as the defaults (final delta + margin within the
budget, both buffers not zero), so that deadlines pass, checks refuse and
`DeadlineFits` holds in the same instance, and seven blocks let a held HTLC time
out after any step. Hashes do not interact except through the single cron
goroutine, which two jobs of one hash contend for already. For the pool, batches
of two and a pool of three let a batch repeat, overlap, skip, conflict and
overflow, and releases bring hashes back to a full pool. Symmetry is used only in
`hash_pool`, which checks no liveness. A tick of one row with two mappings is the
200-row limit with 201.

In `outbox_schedule` the two hopeless jobs come first, which is the worst place,
and one job fewer per tick than there are turns is left to the others; the
numbers keep the order of the defaults (retry before the next tick, lease longer
than both), and `TurnsSuffice`, asserted of the instance, is tight: with
`RetryDelay = 1` the property fails. In `batch_proof` three requests are an
append, one that repeats or is refused, and one that comes between two queries;
three indices make an odd level. In `address_payout` two handles for two peers make
every mint a likely collision and two mints let the allocation run dry; the actors
are symmetric in their database calls, so that the cron and one request have every
race of two. In `provisioning` the peer has one choice to make and one asset to
be served; several peers meet only in the pool, where openings of one peer,
receives and failures contend already. One fault is enough for each
single failure at each point of a tick; two in one tick are not covered there.

Deadlock is not checked in the runs where everything may be finished: every hash
used, the chain at its bound and every job done. In `onchain_send` a tick is always possible and
deadlock is checked.

### Disagreements found

Each of these is a run of its own, in which TLC finds the statement violated.

| run | statement | what the code does |
|---|---|---|
| `failed_means_undelivered` | "`failed` is a relay refused before delivery" (README.md:206) | a retry is refused at the deadline check after its first call was sent, and records `failed` |
| `active_order_is_payable` | the callback returns an invoice; a failed one "releases" its slot | the released row keeps its slot, which the next reservation collides with for ever |
| `expired_means_unpaid` | "mark expired unpaid invoices" (README.md:238) | the clock is asked before the node: a paid invoice is marked expired |

These were met as well; reading the code is enough to see them and they have no
run of their own:

* README.md:550 says "the outbox retries" a relay in `outbound_pending`. The retried
  job finds the status is no longer `claimable` (`lightning_send.go:428-441`) and
  is done; if the first call had no effect, the HTLC waits for its deadline
  (`StrandedForEver`, under Theorems).
* `failLightningSend` cancels the HODL invoice before it records `failed`
  (`lightning_send.go:536-545`). If that write is lost the job runs again, and may
  pay the delivery against an invoice that is gone: the "straight loss" of
  `lightning_send.go:14-16`.
* README.md:203 says both refund statuses mean that the HTLC was failed back. An
  error of the cancel call is logged, and the status is recorded all the same
  (`lightning_send.go:551-559`).
* `failed` is terminal for `IsTerminal` (`async_order.go:53`); the startup
  migration (`db.go:355-367`) takes it back.
* README.md:235 says that `UTXO_TARGET_COUNT - UTXO_MIN_COUNT` UTXOs are created;
  the code creates target less free (`api.go:1977`). If that exceeds 255 it is
  an error at every tick, and a pool far below its target is never refilled:
  `PoolIsRefilled` is checked with a target that fits.
* `convertible_asset.go:236-238` pins the payout asset "so a later channel close
  cannot change what an existing address means". A request whose pin is not
  written, or comes second, has answered with its own asset all the same;
  `AnswersAgree` and `PromisesAreKept` hold but for that (`lostPin`).
* README.md:340 describes the grace as kept for a peer that funds its own channel.
  It is not when the account could not be read in that tick (`account == nil`), or
  when the peer's channel was made after the tick had listed the channels;
  `GraceHolds` and `ChoiceIsKept` exclude these (`unread`, `missed`). A peer that
  funds a second asset before the first is pinned has no choice either (`Chooses`).
* An id of a batch is meant to be used once and nothing enforces it: two orders, or
  two batches of one order, that share one get proofs that do not verify.
  `ProofVerifies` and `BatchIsWhole` are about ids that were used for one batch.
* `apay_batch_store.go`, like most of the APay queries, speaks sqlite only
  (`INSERT OR IGNORE`, `?`), while the configuration also offers postgres.

Two more of the passing properties are stated with a condition because the code keeps
no more: `PreimageIsRecorded` of the relay needs the feature to stay enabled (a
webhook that finds it disabled is answered 200 and lost), and
`DeliveredIsConcluded` needs the payment hash to be recorded.

### Fairness

* The node repeats `payment_sent` until it is answered 200 (the handlers answer
  500 or 503 for that purpose): weak fairness of the webhook while it is not
  acknowledged. The same for the claimable webhook of the relay.
* The cron goroutine ticks as long as the process runs and a started job takes its
  next step: weak fairness of the job's steps. A due job is claimed by some tick:
  strong fairness per job, since the goroutine is busy with others in between.
  `IsFairOutbox` is the justification: with weak fairness of single statements and
  of time only, the schedule of `async_order.go:156-268` is as fair as that, as long
  as `TurnsSuffice`: fewer jobs fail for ever than a tick has turns, and the first
  of them is not due again before the last of them is done with. At the defaults
  (ten turns, a retry delay of 15 s and an `HTTP_TIMEOUT` of 15 s) that is one
  job that runs into its timeout: two of them are due again in turn and starve
  every job with a higher id until they are given up.
* In `OnchainSend` time passes; elsewhere not even that. Nobody has to pay, to
  claim, to be online or to mine a block. `LightningReceive` needs no fairness of
  the clock, so its liveness property is not satisfied by things merely expiring.
* In `AddressPayout` and `ChannelProvisioning` the cron ticks (weak fairness of its
  steps) and the node confirms what was created; peers and requests do nothing
  they are not free to leave.
* Failures are finitely many (`MaxFaults`), which is what any retry relies on.

## Theorems

`LightningSendProofs` proves, for every set of hashes, every setting of the
deltas and margins that `ConstantsAssumption` allows and any number of faults and
blocks: type correctness, `PayAtMostOnce`, `CancelledMeansUndelivered`,
`PreimageKeepsItsJob`, `DeliveryResolvesInTime`, `QuoteLeavesRoomToPay`,
`ForwardOnly`, and that `LightningSend` implements `AtomicRelay`. Some of these
are not among the properties of a run: they are proved only, and TLC checked
them on the instance of the run before.

The assumption worth naming is `FailBackBuffer + CltvBuffer <= InboundDelta`:
`Config.Validate` refuses any delta below the sum of the two buffers
(`config.go:201-224`), so that the budget of a quote is not a negative number.
`CltvBuffer` is not zero, which the quote and the deadline check differ by.

None of the properties is inductive. `IInv` has six parts:

* `TypeOK`;
* `CronInv`: the goroutine holds a leased job of the kind its position says, and a
  pay job exists only for a relay that was claimable;
* `QuotingInv`: a request between its HODL invoice and its insert is alone with
  its hash;
* `DeliveryInv`: `SendPayment` is reached only by the step that won the
  compare-and-set, and what the status says of the payment is so. This is what
  makes `PayAtMostOnce` and `CancelledMeansUndelivered` inductive;
* `ClaimInv`: the claim job exists from the preimage to the settlement, and
  settled means claimed;
* `DeadlineInv`: a deadline is set once, and what the job saw of it still bounds it
  when the payment goes out.

There is one lemma per action, with one step per part that the action can
disturb. The refinement has one lemma per action that maps it to a step of
`AtomicRelay` or to a stutter.

`OnchainSendProofs` and `LightningReceiveProofs` prove the safety properties of
their runs in the same way. For on-chain sends, `TickInv` says that a tick visits
pending mappings only, each once: the reason why an UPDATE without a condition on
the old status is safe, and only while one goroutine does it. `TransferInv`
counts: each transfer of a mapping but the last has its fault. For deliveries,
`CronInv` says that a poll precedes every start whose hash is known, and
`LegsInv` what each status says of the two legs.

`ApayOrderProofs` proves the same kind of facts of the asynchronous payment:
`AckedMeansRecorded`, `FailedMeansUnpaid`, `RequestLeavesRoom`, `WorkKeepsItsJob`,
`ForwardOnly` and the refinement of `AtomicRelay`, with the startup migration as
one of the steps. Its `IInv` has `OrderInv` (what a status says of the two legs
and of `stamped`, so that what the migration computes is true again), `JobInv`
(which jobs an invoice has in the outbox and what a finished one says of its
status), `CronInv` (what the goroutine knows at each of its steps, although a
webhook may have moved the invoice since) and `DeadlineInv` (the receiver's
invoice that is about to be recorded left room when it was looked at, at most
`JobBlocks` ago).

`HashPoolProofs` proves every property of the `hash_pool` run, for any number of
hashes, callbacks and slots. `RowInv` relates invoices and pool one to one: a
reserved or consumed index has exactly one row that holds it. `ReqInv` says what
serializes the requests: a reservation in progress is the slot after the last
active one, so that there is only one of them. That no finalization runs out of
indices is a pigeonhole argument over the rows, and `LiveHashesAreBounded` needs the
cardinality theorems: a refill is checked against the live hashes, reserved ones
included, so that a release adds nothing.

`AddressPayoutProofs` proves `HandlesAreStable`, `AnswersAgree` and
`PromisesAreKept` for any peers, assets, handles and requests: an actor tells a
handle only after it has read it, handles and pins are written once, and a
request with a payout asset either has the pinned one, or is about to pin it, or
has set `lostPin`. Of the operators of `AssetPairs` it proves that on no route do
two assets change hands that `CONVERTIBLE_PAIRS` does not declare
(`OnlyDeclaredPairsConvert`), and that what is read off a list of channels is in it.

`ChannelProvisioningProofs` proves the three safety invariants of the
`provisioning` run for any peers, assets, preferences and UTXO pools, and any number
of faults and channel changes. A tick acts on an old list, so that each part of `IInv`
ties what it may still do to that list: an intent that is ahead and not listed
has no channel (`OpenInv`); a peer with a channel in the list or a pin is past the
grace, has funded a channel or was unread (`GraceInv`); a choice that is not
pinned is the only asset of its peer's channels, and of those listed unless the
tick missed it (`ChoiceInv`). That a pin written in between agrees with the
choice rests on the lemmas about `PayoutFromChannels`. `NoStacking` needs an invariant
of its own, `PoolInv`: between the count and the creation the free UTXOs exceed what was
counted by no more than what came back or came late.

`BatchProofProofs` has two halves. The first is about the tree of `ApayMerkle`, for
any number of leaves: `merkleVerify` accepts the path of `merkleProof` against the
root, odd levels included (`PathLeadsToTheRoot`); whatever path verifies, its leaf is
one of the committed ones (`VerifiedLeafIsCommitted`, which needs that a leaf is never
the hash of two nodes: the domain prefix of `apay_merkle.go`); one path proves one
leaf; and one root of one size binds all leaves. The recursive functions are unfolded
by an induction of the module's own (`Induction`, `StrongInduction`): the least
number outside a set is found in the well-founded order of the numbers, so that the
property is a set and no operator has to be instantiated. The second half is the
state machine. `Kept` says of an id that was used for one batch that its commitment and
the rows stamped with it are that batch, an interval of one order's indices;
`BatchInv` says it of every id, and `BuilderInv` that what a half-built proof has read
is still so: rows are appended and never change. As an interval has only one
listing by `hash_index`, the leaves a request computes are the committed ones.
From it follow `ProofVerifies` and `BatchIsWhole`, and `NoOtherHashVerifies`, which no run
can check: no path of any shape proves a hash, an index or a receiver that is not
the pool's. All three are about ids used for one batch.

`LightningSendProofs` and `ApayOrderProofs` also prove the safety part of
`UsesOutbox` (`KeepsToTheOutbox`): each step is a step of `FairOutbox` or leaves rows
and held job alone, a job that enqueues the next one included. With `IsFairOutbox`
this closes the circle between the users of the outbox and its schedule: what the one
side assumes is what the other is shown to do.

The schedule's half of it is the last section of `ApayOrderProofs`, which takes
`OutboxSchedule` by an instance of its own: `ScheduleTypes`, and
`ScheduleKeepsToTheOutbox`, by which every step of the schedule, with its limit per
tick, its order by id, its delays, leases and restarts, is a step of `FairOutbox` or
leaves rows and held job alone. Both hold for any ids, times and limits that
`ConstantsAssumption` allows. `LeaseOutlivesEveryJob` has the hypothesis
`JobTime < Lease`: the row of a running job is then not due, because what is left of
its lease and what is left of the job's time shrink together (`LeaseInv`). One call of
a job is bounded by `HTTP_TIMEOUT`, 15 s by default, and the lease is five minutes
(`async_order.go:185`); a timeout set above that would break it, and nothing in
the configuration forbids one.

### What is true of the refuted statements

Three runs refute a statement of the documentation. These theorems say how much
of each the code does keep, and what becomes of it afterwards.

* `FailedMeansUndelivered`: `FailedNeedsFault` proves it as long as no call has failed
  and the process has not stopped. A pay job then runs once, so that no call was
  made before the check that refuses it.
* `ActiveOrderIsPayable`: `PayableWithoutFault` proves it under the same condition,
  for any number of concurrent callbacks. `NoSecondChance` is the converse: once a
  reservation is given up, its slot is blocked, and no batch, request or restart
  frees it. Every failed invoice ends its order.
* `ExpiredMeansUnpaid`: `ExpiredIsOverdue` proves that a paid mapping is expired in one
  way only, by the LSP's own clock. Of the other statuses `ConcludedAsSent` proves
  what one expects: `completed` has a transfer, exactly one without faults, and then
  `failed` and `expired` have none.
* README.md:550, "the outbox retries": `StrandedForEver` proves that it does not. A
  relay whose job is done and whose payment was never made, or whose payment
  failed after it was accepted, never leaves that state: no job runs for it again,
  no refund starts, and the only webhook that could move it brings a preimage that
  does not exist.

TLC checks every inductive invariant's consequences on the instances above; the
invariants themselves were checked as invariants on the same instances.

What stays with TLC: liveness (the prover handles neither fairness nor ENABLED), hence
`IsFairOutbox`, the fair part of `UsesOutbox` and every `~>`. `UsesOutbox` is checked in
`apay`; that of the relay was checked on the instance of `relay`, which does not list it
because it takes as long as everything else there. Every invariant and every action
property of a passing run is a theorem. No module here has a recursive operator: the
tree, its paths and the fold of a verification are recursive functions.

## Not modelled

* Amounts, of the relay's two legs, of deliveries and of channels; BTC channels and
  BTC quotes, for which nothing is resolved; the address attestation, which is
  stored and handed out unread. No signature of a batch is verified by the LSP.
* The metadata cache of `convertible_asset.go`: an asset's metadata never changes.
* The get_info cache (one mutex and a TTL; a stale answer is what it is for), the
  memo that mutes repeated skip messages, the configuration (constants of the
  modules), the HTTP client (its failures are the faults of every module),
  logging and formatting.
* More than one process on one database: the service runs as one, and nothing in
  it but the outbox leases is meant for two.
* A quote for an address whose payout asset is unknown is passed through in the
  asset that was asked for; `AnswersAgree` is about known payout assets.

## Plan

Done: the core (`OutboxTable`, `LightningSend`, `AtomicRelay`, `HashPool`,
`ApayOrder`, `OnchainSend`, `LightningReceive`), then `OutboxSchedule` and
`FairOutbox`, `ApayMerkle` and `BatchProof`, `AssetPairs` and `AddressPayout`,
`UtxoPool` and `ChannelProvisioning`, and the eight proof modules, the last of the
proofs being those about `OutboxSchedule` and the refuted statements. Left, in this
order:

1. A composition of the two users of the outbox with both webhooks, where
   `lightningSendOwnsHash` decides, and one hash is used by both.
2. `provisioning` with two peers that contend for the pool, once the state space is
   reduced far enough to check it.
3. The validation of amounts and expiries of the two invoices of a mapping against
   each other (`api.go:957-1002, 1844-2100`), with the width of its integers.

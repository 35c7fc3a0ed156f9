# openx402 in TLA+

openx402 is an x402 payment facilitator for Stellar: resource servers send it
payments to verify and settle; it pays the network's fees, keeps the promise of at
most one payment per identifier across replicas, crashes and lost replies, and keeps
a searchable catalog of paid resources. Around it are an MCP server that lets agents
spend from a budget, the Soroban contracts of the `upto` scheme, and the tools that build,
grade and release the benchmark of the search.

These modules model that code; TLC checks them on small instances, and TLAPS proves
theorems for every instance. All paths are relative to the repository.

## Inventory

| component | state | operations | what is hard | what makes it correct |
|---|---|---|---|---|
| state store `facilitator/src/db/state.ts` | idempotency records, channel accounts, daily sponsor usage | claim, lease, store, mark, complete, release, sync | every operation is a transaction, but their sequence is not; leases run out | one hash per payment, one envelope per channel at a time, budgets bound the fees |
| orchestrator `orchestrator.ts` | none but the call stack | verify, settle, recover | many awaits; the reply of `sendTransaction` is lost; polling ends before the ledger | answers are true, final and agree |
| lifecycle `server.ts`, `runtime.ts`, `embedded.ts` | timers | boot, recovery timer, shutdown | boots reset channels other replicas hold; recovery loops overlap | nothing is left undecided |
| mechanisms `stellar/exact.ts`, `upto.ts` | none | verify, prepareSettlement | an RPC node behind the ledger | an envelope pays exactly the terms |
| simulation semaphore `semaphore.ts` | active count, waiters | run | a slot handed to a waiter that a newcomer takes too | at most `maximum` run, nobody waits for ever |
| managed keys `db/keystore.ts` | keys | rotate, disable | rotation beside traffic | no key leaves while a settlement needs it |
| embedding jobs `db/search.ts`, `search/worker.ts` | generations, jobs, vectors | enqueue, claim, store, fail, discard, revive, activate | leases and stale workers, content that changes meanwhile | every current document gets a vector of its current content |
| catalog `db/catalog.ts`, `bazaar/cataloger.ts`, `http/discovery.ts` | resources, versions, payment options, a version counter | observe, sweep, set status, list by cursor | declarations come back, rivals declare, clients read page by page while writers write | one active version, only owners change a listing, snapshots lose nothing |
| MCP budget `mcp-server/src/budget`, `tools/callResource.ts` | spent and reserved amounts, reservations | reserve, reconcile, release, mark unknown | a payment whose outcome is unknown | the budget is never overspent |
| `upto` contract, reconciling policy `x402-stellar-upto/contracts` | nonces, reservations, windows | settle, enforce, on_settled | reservations of several settlements | a payer pays at most the actual amount, once |
| benchmark grading `handwritten-evals/tools/lib/grading-pipeline.ts` | files: packs, mappings, judgments, summaries | prepare, adjudicate, finalize, owner-review | people change sources between the calls; a call dies between two files | every judgment is independent, current and complete |
| benchmark release `tools/lib/{manifest,pool-snapshot,release-run-ledger,report}-v2.ts`, `tools/cli` | freeze, pool, snapshot, ledger, drafts, reports | freeze, build pool, start, draft, finalize, complete, fail, gates | several release runs over files that change | what passes the gates was judged on what is there; a completed report stands |
| HTTP, configuration, analytics, bazaar extraction, ranking and evaluation, frontend, SDKs | none, or append-only facts | | | not modelled, see below |

### Interaction

`/settle` calls the orchestrator, which claims the payment's record, leases a channel
account, lets the mechanism build and sign an envelope for it, stores envelope and
hash together with the budget reservation, submits it, and polls. All replicas share
the tables in PostgreSQL and nothing else. The recovery loop of each replica polls the
hashes that have no response, through RPC, then Horizon, then the clock of the latest
ledger. After the decision the catalog and analytics are written as a side channel that
may fail without consequence. The MCP server is a client of the facilitator's search
and, through a signer, of the resource servers that use its `/settle`. The facilitator
submits `upto` payments to the settlement contract, which pulls from the payer and tells
the policy of an agent's account what was paid. The benchmark's tools share nothing with
the services but the rankings of the production search, which they pool and score.

## Modules

### The settlement core

| module | models | correspondence |
|---|---|---|
| `SettlementDomain` | the values both sides share | a lease `<<channel, token>>` is granted once, so it also names the envelope that was built under it: its hash |
| `StateStore` | the tables of `db/state.ts` | `rec` are idempotency records, `ch` channel accounts, `spent` the sponsor usage; each operation has the name of the method and is one database transaction; `alive` says that a lease's end is in the future |
| `Stellar` | the network, external | `tx` are the envelopes, `ledSeq` the sequence numbers of the channel accounts; an envelope is applied at most once, in sequence and in time, and the payer's nonce lets one envelope of a payment succeed |
| `PaymentPromise` | abstract specification | one promised hash per payment; one answer, given once; "success" only after the payment, "failed" only if it never happens |
| `Settlement` | `orchestrator.ts`, the timer of `server.ts`, boots and crashes | `call` holds the position (`pc`) of each `/settle` request between two awaits and its locals, `sweep` the same for each replica's recovery loop; every action is the code from one await to the next |
| `SettlementInv` | the invariants that the proofs use | |
| `SettlementProofs` | theorems in every environment, lemmas about steps | |
| `PromiseProofs` | theorems where a record has one owner, the refinement, amounts and budgets | |
| `MCSettlement` | instances for TLC | symmetry of calls and of replicas (safety runs only) |

The program counters of a call, with the lines of `orchestrator.ts` they stand for:
`claim` (143), `wait` (157), `lease` (163), `prepare` (178), `store` (191), `release`
(180, 186, 200), `fail` (182, 188, 208, 318), `reload` (211), `send` (311-315), `mark`
(321, 323), `poll` (331), `giveup` (348). Those of a recovery loop: `next` (217),
`horizon` (382), `expiry` (385).

Some transitions are merged because nothing can come between them that matters:
a final status never changes once it is read, so reading it and `complete` are one
action; the same holds for "the maximum time is past". Where that is not so the reads
are apart: the status of an envelope (`horizon`) and the clock (`expiry`) are two steps,
and the reads of `listUnresolved` are the items the loop goes on to work on, however
old they are.

### The budget of the MCP server

| module | models | correspondence |
|---|---|---|
| `BudgetStore` | `budget/postgresBudgetStore.ts` and its tables | `reservation` and `usage` are rows; each operation has the name of the method and is one transaction; the limit of a call is the least that the agent and the operator set |
| `CallResource` | `tools/callResource.ts`, `budget/budgetPolicy.ts` | `inv` holds the position of each invocation between two awaits, `auth` what became of the authorization it signed; the seller and the ledger, which pay or refuse it at any time, are external |
| `CallResourceInv`, `CallResourceProofs` | invariant and theorems | |
| `Sums` | lemmas about sums over finite sets, for the books here and in `UptoProofs` | |
| `MCCallResource` | instances for TLC | symmetry of agents and of invocations |

The positions are `reserve` (137), `sign` (146), `paid_call` (164), `release` (156, 180,
187), `unknown` (169, 183, 191), `settle` (198). `Afford` reads the usage of the day and
`Reserve` comes later, in another transaction, after which the invocation may crash at any
position. `Midnight` changes the day under all of them.

### Embedding jobs

| module | models | correspondence |
|---|---|---|
| `EmbeddingJobs` | the jobs, documents and vectors of `db/search.ts`, `indexVersion` of `db/catalog.ts`, `search/worker.ts`, the commands of `cli/index-search.ts` | `doc`, `job` and `vec` are the tables, one entry per version (and generation); `writing` is the catalog transaction that is open; `worker` the position of each replica's worker, with the claim it works on |
| `JobsProofs` | theorems | |
| `MCEmbeddingJobs` | instances for TLC | no symmetry where liveness is checked |

A boot is one action per statement: `activateGeneration`, `propagateStaleness`, then the
three statements of `enqueueMissing` (`Adopt`, `Discard`, and `Snapshot` with `InsertFound`,
for what PostgreSQL reads when the statement starts and the rows it updates when it has
their locks). Fencing tokens are compared for equality and nothing else, so a new token is
one that nobody holds; this keeps the state space finite without a bound on claims.

### Payments of the `upto` scheme

| module | models | correspondence |
|---|---|---|
| `ReconcilingPolicy` | `contracts/reconciling-policy` | `pol` is the contract's storage: `rule` the rules it is attached to, `res` the reservations, `active` the one whose approval is expected; an entry point is a condition (it does not panic) and an operator from storage to storage |
| `UptoPayments` | `contracts/upto-settlement`, `facilitator/src/stellar/upto.ts`, the signing client | `Settles` is `settle` in the order of the code, with the authorization by the host before it; `PrepareSettlement` is the simulation of now, `SettleSucceeds` and `SettleFails` the ledger of later |
| `UptoProofs` | theorems | |
| `MCUptoPayments` | the instance for TLC: its offers and endowments | symmetry of signatures and of submissions |

A transaction of a ledger happens entirely or not at all, so `settle` is one action; its
steps (pull, pay, refund, hook, both comparisons of balances) are operators from balances to
balances. The token is external and its `approve` may add to an allowance or set it; the
constant `Additive` holds both. A hook other than the policy is `Meddler`, which takes from
the recipient what it can. Agents add and remove rules (`ConfigureAccount`) and payers
withdraw and approve (`Withdraw`, `ApproveAside`) between simulation and execution.

### Catalog

| module | models | correspondence |
|---|---|---|
| `Catalog` | `db/catalog.ts`, the choices of `bazaar/cataloger.ts`, the listing of `http/discovery.ts` | `resource`, `version`, `option`, `document` are the tables; `watermark` the version counter; `walk` a client with its cursor, `declaredBy` remembers who paid for which declaration |
| `CatalogProofs` | theorems | |
| `MCCatalog` | the instance for TLC | symmetry of declarations, terms and keys |

Every writer takes a version from the counter's row and holds its lock until the commit
(`002_catalog.sql:23`), so writers are serial and each is one action. A reader is in no
transaction: the two statements of a page are `CountRows` and `ReadRows`. The
conditions of the listing are split as they are in the code: what a snapshot pins
(`Snapshot`) and the lifecycle, which is read as it is at the moment (`Visible`).

### Benchmark

| module | models | correspondence |
|---|---|---|
| `Grading` | `lib/grading-pipeline.ts`, `cli/run-grading-pipeline.ts` | `disk` are the files, `said` the judgments that graders hand in, `src` what is edited by hand; each phase is an action |
| `ReleaseRuns` | the freeze, the pool and its snapshot, release runs with their ledger, drafts and reports, the gates | extends `Grading`: one `disk`; `ledger`, `draft`, `report`, `final` are the files of release runs; `Judged` and `Ready` the gates |
| `ReleaseInv`, `ReleaseProofs` | invariant and theorems | |
| `MCReleaseRuns` | the instance for TLC | symmetry of queries, grades, runs and those agents who are not authors |

Equal values stand for equal hashes. A call creates all files of a bundle and then writes
them in order; one that dies leaves `Torn` files. What is hard about these tools is not
parallelism but order: calls are made by hand, on files that change and are removed. A
change of the sources, a call that dies and a removal without need count as troubles
(`MaxTroubles`).

### What the environment may do

The constant `Hazards` says how bad the surroundings are. Everything else that is hard
happens in every run: crashes, boots, leases of channels that run out under their
holder, lost and duplicated submissions, RPC nodes behind the ledger, time-outs before
the final status, reads that fail.

* `"duplicate"`: a request is retried at the same replica while the first is still
  running. The code does not exclude it: `claimSettlement` compares replicas, not calls.
* `"slow"`: a call takes longer than its record's lease (30 s) before it stores an
  envelope. The code does not renew the lease.
* `"straddle"`: a ledger applies an envelope between the two reads of the recovery.

* `"inconclusive"` (budget): a seller passes on `success = false` for a settlement whose
  status its facilitator does not know, which is what the orchestrator answers when polling
  ends without a decision (`orchestrator.ts:349`).
* `"otheramount"` (budget): the amount in a seller's answer is not the one accepted. The
  code compares them nowhere, although its comment (`callResource.ts:175`) says so.
* `"overlap"` (embedding): a catalog transaction is open while a replica activates its
  generation, or commits between what `enqueueMissing` reads and what it writes.

With `Hazards = {}` the specification is the system as its documentation assumes it to
be used; the findings below are what the code does when it is not.

## Runs

Bounds, in all runs: leases per channel (`MaxToken`), crashes, failed recovery reads
(`MaxOutages`), and requests (`Calls`) in the settlement. Two calls, two replicas, and two leases are the
least in which a successor overtakes its predecessor; a third lease brings no new pair.
Deadlock is not checked: when all calls are done and all leases used up, the model stops,
and so does a facilitator without traffic.

| run | question | instance |
|---|---|---|
| `settlement_base` | types; answers, hashes, quarantine and ledger agree; `PaymentPromise` is implemented | one payment, two calls, two replicas, one channel with two leases, a crash, an outage |
| `settlement_channels` | does one channel, and one budget, serve two payments? | two payments of two principals; each principal's limit is one envelope, the global one two |
| `settlement_hazards` | what holds even in the worst surroundings, on any terms? | all hazards at once, two fingerprints, two amounts, a crash, a pending limit of one, so that backpressure happens |
| `settlement_live` | is every hash decided, does every channel return? | weak fairness, one call |
| `call_base` | is the limit kept, do the books balance, is every payment covered? | three invocations of two agents, two days, prices below, at and above the limit of a call, a day's limit of 3, a crash |
| `jobs_base` | is no text lost, and every text embedded? | one version with two texts, two workers, three writes or commands, two attempts, two crashes or outlasted leases, fairness |
| `upto_base` | do funds, budgets, identifiers and allowances stay in step? | a wallet and an agent, two authorizations of five offers, two submissions, four rules, three ledgers, two acts besides |
| `catalog_base` | does each resource have one listing, that only its owner changes and no snapshot loses? | two resources of two declarations and two terms, an owner and a rival, pages of one row; three writes with a client or two resources, five without |
| `release_base` | is what passes the gates judged independently and on what is there, and does a completed report stand? | two queries, one resource, an author and three other agents, two grades, two preparations, two final runs, one trouble |

Three invocations let two of one agent compete while one of another agent must not
matter; two days are what midnight needs; two texts are enough for one that comes back.
One version suffices for the jobs, whose statements treat versions independently.

Two submissions of one authorization race for its nonce, and of two for a budget or an
identifier; four rules are the two that an account starts with and one budget with its approval
that come later; a window of two ledgers starts again within three. A resource needs three
writes for a declaration that comes back and five for one that comes back twice, with terms
changed between; only the client needs a second resource. Two queries fill both
splits, three agents are the least for two graders and an adjudicator, two release runs
compete for one canonical report. A run of `release_base` starts only when there is something to open, and
fails only after its draft: earlier it is the same history with one run fewer.

Safety properties, each stated with its definition in `Settlement`: `TruthfulSuccess`,
`Anchored` (what is in the queue is what the record holds: hash before submission),
`ChannelExclusive`, `QuarantineEnds`, `SequenceConfirmed` (the stale-sequence guard never
refuses a fresh envelope), `BudgetBoundsLedger`, `PaidAsClaimed`, `FailedIsUnpaid`; of steps `NeverRebuilt`, `QuarantineKept`; of behaviours `PromisesDecided`,
`ChannelsReturn`, and the refinement `KeepsPromise`.

`PaidAsClaimed` is checked where the amount can differ and owners overlap (in the baseline
a record has one owner, and what is built has the owner's amount anyway).

For the budget: `LimitKept`, `BooksBalance` (the usage of a day is the sum of its
reservations, over midnight), `Covered` (what may still be charged is reserved or spent).
For the jobs: `VectorTrue`, `DoneIsIndexed`, and of behaviours `NewerTextEmbedded`.

For `upto`: `FundsConserved`, `CommittedIsPaid` (a budget has committed exactly what was paid under it
in its window), `PaidOncePerId`, `NoRouteAroundBudget` (nothing is left pending that would
let the account's permission to approve be used alone), `VerifyCoversSettle` (what verify accepts
at the maximum settles at any amount up to it); of steps `NothingStaysApproved`,
`WindowsMoveForward`.

For the catalog: `OneOfEach`, `OwnersOnly`, `DocumentCurrent` (the text that is searched speaks of
the terms that are listed), `WalkComplete` (a client told that it has everything has);
of steps `SnapshotsKeep`.

For the benchmark: `JudgedIndependently`, `FinalStands`, `LastFileCommits` (the last file of
a bundle is whole only if the others are).

`KeepsPromise` maps the promise of a payment to the hash in its record, the payment to
what ledgers applied, and the answer to the response in its record.

### Fairness

A started call goes on; the recovery timer of a running replica fires and its loop ends;
a replica that crashed is started again; leases run out and maximum times pass. No
fairness is assumed of ledgers: no payment need ever be applied, and no outage repeats for
ever (`MaxOutages`). The code justifies the rest by its own timers (`server.ts:42`, the
deadlines of `poll` and of the Horizon request), and by the restart that every deployment
in `deploy/` configures.

For the jobs: open transactions end, replicas boot again, worker timers fire, embedding ends
or fails, and jobs are claimed in the order of `next_run_at`, hence strong fairness of a
claim of each version by a worker of the active generation. Embedding outlasts its lease
finitely often (`MaxFaults`): nothing renews a lease and a lost lease is no attempt, so two
workers whose embedding always outlasts `lease_ms` would take one job in turns for ever.

### Findings

In each of these runs TLC finds the property violated that a text of the repository states.

| run | what happens |
|---|---|
| `call_inconclusive` | the reservation of a payment that is made later is released, because every `success = false` counts as conclusive (`callResource.ts:187`) |
| `jobs_overlap` | a job written under generation 0 after the first boot adopted such jobs is never claimed (`catalog.ts:433`); likewise `enqueueMissing` may give a job the hash of its older snapshot (`search.ts:209`), which is then embedded again and again and never stored |
| `catalog_rollback` | a declaration that was observed earlier becomes active again, and the listing chooses the newer, superseded one by its number and drops it: the resource is in no listing (`catalog.ts:793`) |

### Other disagreements

Where a property is named it is defined in the module (the release properties too), fails,
and is in no run.

Settlement:

* with `Hazards = {"straddle"}`, `FailedIsUnpaid` fails: recovery answers `failed` for a payment that
  a ledger makes between its read of the status and its read of the clock (`orchestrator.ts:384`),
  where `spec/scheme_upto_stellar.md:312` says "MUST poll that known hash to a definitive status";
* with `Hazards = {"duplicate"}`, `Anchored` and `NeverRebuilt` fail: a retry at the same replica
  owns the record too and replaces its stored hash (`state.ts:157`, `:242`), where
  `README.md:239` says that an unknown settlement is never rebuilt with a new sequence number;
* records in `preparing` count as unresolved but are never recovered (`state.ts:353`, `:385`),
  so the rotation of a sponsor may refuse for ever;
* `unresolvedCount` is read well before the claim (`orchestrator.ts:131`), so concurrent calls
  pass `maxPendingSettlements` together: the limit is soft;
* a channel leaves quarantine without `SUCCESS` or `FAILED`, when the maximum time is past
  or a submission was an `ERROR`, contrary to `README.md:240`;
* `markPending` and `markUnknown` may come after recovery finalized the record and set its
  status back (`state.ts:291`, `:341`), which then counts as unresolved;
* `facilitator/README.md:55` says that Horizon is used only at startup, and recovery uses
  it too (`orchestrator.ts:418`);
* `mcp-server/README.md:97` speaks of a poll that resolves an unknown settlement, and no
  code does: the reservation is held for its day;
* with replicas that serve two models at once, `VectorTrue` and `DoneIsIndexed` fail in an instance with
  `Generations = {1, 2}`: the jobs of the inactive generation do not follow the text, and
  an old text's vector is stored under a hash that has come back;
* both fail as well, with one model, if a catalog transaction overlaps a boot (`Hazards = {"overlap"}`).

Budget: an error of `getSigner`, outside of the `try` block (`callResource.ts:146`), leaves the budget
of an unsigned payment reserved for its day.

Catalog:

* a rival that declares exactly what is stored violates the uniqueness of `(resource_id,
  declaration_hash)`: the transaction is rolled back and logged as a failure, where
  `CATALOG-TRUST.md:108` has it quarantined;
* `NothingTwice` fails: a resource that is shown again by a status change while a client walks
  shifts the rows of its snapshot, against `CATALOG-TRUST.md:166`;
* an option that is taken back keeps the `created_version` of its first time (`catalog.ts:497`), and
  so is in older snapshots at which it was retired; `SnapshotsKeep` says that nothing is lost;
* with `index_on = settled` a payment that is merely verified changes the options of the active
  version and not its document; `DocumentCurrent` says so for `verified`;
* an owner who takes up a declaration that a rival had put aside gets its old row, with its old
  `created_version`: the resource leaves the snapshots between (the exception in `SnapshotsKeep`).

Benchmark:

* `CurrentReportPasses` fails whenever there is a judgment: the report's hash of the judgments is taken over
  records with sorted keys (`report-v2.ts:359`) and the summary's over records as they are
  (`grading-pipeline.ts:460`), and the gate asks that they be equal (`release-gates-v2.ts:408`). No
  release can pass the gates that read the report, against `reports/README.md:20`. `JudgedIndependently` is
  therefore stated for the gates that do not read it (`Judged`);
* `CompletedIsReport` fails: a `finalize-report` that dies after it created its files leaves two empty
  ones, whose bytes agree, and the run may be completed with them (`release-run-ledger-v2.ts:257-262`);
* "all paths are new, or none remain" (`grading-pipeline.ts:1387`) does not hold for a call that dies;
* the gates never compare the hash of the raw judgments that the owner's review records
  (`source_hashes.raw_qrels`), so they do not see a review of a grading that was done again;
* the gate "holdout-ledger" calls the ledger hash-chained, and its own header
  (`release-run-ledger-v2.ts:228`) says that it is not, nor locked; the model appends atomically.

## Proofs

### Settlement

For every value of the constants and every set of hazards:

* `TypeCorrect`: `Spec => []TypeOK`;
* `SuccessTruthful`: `TruthfulSuccess`. Nobody is told "success" of a payment
  that no ledger made, even when leases are lost and hashes replaced;
* `AmountClaimedIsPaid`: `PaidAsClaimed`; `BudgetsBoundLedger`: `BudgetBoundsLedger`.
* `UndecidedIsListed`: a record whose hash is durable and that has no response is a row of `listUnresolved`, so
  no interleaving of claims, marks and retries takes it out of recovery's sight. This is the safety half of
  `PromisesDecided`; its invariant `RowsListed` needs `AmountsAgree`, as only a row that was claimed is safe from
  `registerIdempotency`, which sets the status of a row without a fingerprint.

If a record has one owner at a time (`OneOwner`: `Hazards` holds neither `"duplicate"` nor `"slow"`):

* `HashBeforeSubmission`: `Anchored`; `HashNeverRebuilt`: `NeverRebuilt`;
* `QuarantineHasAnEnd`: `QuarantineEnds`; `QuarantineIsKept`: `QuarantineKept`;
* `LastSequenceConfirmed`: `SequenceConfirmed`; `OneEnvelopePerChannel`: `ChannelExclusive`.

If besides no ledger closes between the two reads of the recovery (`"straddle"`):

* `FailedStaysUnpaid`: `FailedIsUnpaid`;
* `PromiseKept`: `Spec => KeepsPromise`, the refinement of `PaymentPromise`.

Neither hypothesis can go: on the instance of `settlement_base` TLC finds each of the eight properties
violated under `"duplicate"` alone, and under `"slow"` alone; and the last two under `"straddle"` alone.

`SuccessTruthful` is not inductive by itself. `Inv` of `SettlementInv` strengthens it by what calls
and loops have at hand (`CallShape`, `SweepShape`), by the uniqueness of leases
(`LeasesUnique`: a token is granted once, so no two calls build under one lease and no
envelope is built twice), and by `ReferencesMatch`: every reference to an envelope, in a
record, a call, or an item of a recovery loop, is to an envelope of the payment it stands
for. With it a final `SUCCESS` that somebody polls is the payment they answer for, and
`Paid` never becomes false. The proof follows the actions: lemmas that say what a step
may do to records, calls and loops (`RecordFrame`, `CallFrame`, `SweepFrame`, `NetworkFrame`),
then one step lemma for each part of `Inv`, put together in `InvStep` and `InvAlways`.

`PromiseProofs` adds to `Inv`:

* `OwnerInv`. Of a payment a replica runs one call (`OneCallEach`); a call that may still store an
  envelope owns its record, which has no hash yet (`RecordsOwned`); a hash that somebody has in hand is
  the record's (`HashesHeld`), and only the call that stored an envelope submits it (`OneSender`).
  A quarantined channel and an undecided record name each other (`Quarantined`), and what is on
  ledgers is behind the channel's sequence (`Sequenced`). What a step may do to an envelope is
  `EnvelopeMoves`; to the tables it does nothing of weight, completes a record, or stores an
  envelope (`StepKinds`); a record is completed only for one of the causes of `CauseJustified`;
* `AnsweredIsOver`: the envelope of an answered payment is on a ledger, past its maximum time, or
  with nobody left to submit it (`Over`). A time-out and a lost reply are no such causes. This
  is what frees a channel only when its envelope can do nothing more, and what makes "failed" final once it is true;
* for that it is true, `DecisionInv`: recovery goes on to the clock only with an envelope that no ledger has
  (`Watched`), so that no payment that "failed" was made (`FailedNotPaid`);
* the refinement. `AbstractPromise`, `AbstractDecide` and `AbstractPay` map the steps that store a hash,
  complete a record, and apply an envelope; every other step is a stutter (`AbstractStep`);
* in every environment, `AmountsAgree`: an owner that may still build, and each envelope, has the amount of the
  record; and `ChargedOnce`: the envelopes that were stored and may get to a ledger are no more than were charged.

### Budget

`CallResourceProofs` proves, for any agents, invocations, limits, prices and number of days:

* `TypeCorrect`: `Spec => []TypeOK`, whatever sellers report;
* `LimitRespected`: `Spec => []LimitKept`, if sellers report the amounts accepted;
* `AlwaysCovered`: `Spec => []Covered`, if reported failures are conclusive;
* `BooksBalanced`: `Spec => []BooksBalance`, whatever sellers report.

`LimitKept` alone is not inductive: that `reconcile` spends no more than was reserved needs
that the reservation of an exact payment is for its price (`Priced`), which needs that an
invocation in mid-course owns its reservation (`Staged`). `Inv` is their conjunction. The
methods of the store keep the limit by themselves (`ReserveKeeps`, `ReconcileKeeps`,
`ReleaseKeeps`, `MarkUnknownKeeps`); the actions of an invocation use those lemmas and say
what they leave alone (`OthersKept`). `AlwaysCovered` adds `Freed`: what is released was not
signed, or is void.

`BooksBalanced` is about sums over the reservations of a day. `Booking` adds that they are finitely many;
a transaction changes one row and the usage of one day, by what that row counts for before and
after (`HeldPart`, `PaidPart`, `Rebooked`), and the other agents and days keep theirs (`OthersBooked`).

What is known of sums is in `Sums`: a sum is a number, what it is when one member is added or changes
(`SumSplits`), and that it depends on its members only (`SumsApart`). The induction theorems of the library, which
the provers cannot instantiate, are not used: that a sum is determined by how it unfolds follows from a
smallest set on which two such functions would differ (`SumsUnique`, by the well-foundedness of inclusion
on finite sets), and that it is what one expects by counting units: the pairs of a member and a number
below its value (`SumIsUnits`).

### `upto`

`UptoProofs` proves, for any accounts, offers, rules, limits, periods, lifetimes, and both
kinds of token:

* `UptoTypeCorrect`: `UptoSpec => []UptoTypeOK`; in particular nothing becomes negative;
* `BudgetsKept`: no budget commits more than its limit, however rules come and go;
* `AgentPaysOnce`: `PaidOncePerId`; `BudgetIsOnlyRoute`: `NoRouteAroundBudget`;
* `AllowanceConsumed`: `NothingStaysApproved`; `WindowsMoveOn`: `WindowsMoveForward`;
* `VerifyCovers`: `VerifyCoversSettle`;
* `FundsAreConserved`: `FundsConserved`; `CommitmentsArePaid`: `CommittedIsPaid`.

`Inv` is the types with `Idle` (between transactions no reservation is pending), `Referenced` (what
was submitted was signed), `PaidOncePerId`, `BudgetKept` and `ContractKeepsNothing`. Lemmas say
what a settlement does to the storage of the policy (`PolicySettles`, `PolicySettleStep`), to balances
(`PaymentBalanced`, `MoneySettleStep`) and to what was paid (`PaidOnceStep`).

The last two are about sums. `Accounting` joins them, that the settled payments are finitely many, and
`Windowed`: what was settled under a budget was settled before its window ends, so that a window that
moves on has nothing paid in it yet, and a rule that paid is never one that could be added again. A settlement
adds one payment to the sum of a recipient and to those of the budgets it was charged to (`PaidMore`,
`ChargedRule`); moves of the token keep the sum of all balances (`SumChanges`, `MoveTyped`), for
which accounts are assumed to be finitely many, as they are on a ledger.

### Catalog

`CatalogProofs` proves, for any resources, declarations, options, sellers and page size, and any
number of writes:

* `CatalogTypeCorrect`: `Spec => []CatalogTypeOK`;
* `OneOfEachAlways`: `OneOfEach`; `RivalsChangeNothing`: `OwnersOnly`;
* `DocumentsFollow`: `DocumentCurrent`; `SnapshotsStand`: `SnapshotsKeep`;
* `WalksComplete`: `WalkComplete`.

`Inv` is the types and, for each resource, `SoundAt`: what is active is what the row of the resource
says and has a row itself (`OneActive`, `ActiveStored`), what may be listed was declared with a payment
to the owner (`Declared`), a slot has one live option and nothing is retired in the future (`OneLive`,
`Past`), and the document of the active version is compiled from its live options (`Compiled`). A
write touches one resource (`Touches`, `TouchesStep`), so each write has one lemma about it
(`CreateStep`, `QuarantineStep`, `RefreshStep`, `ChangeStep`, `LifecycleStep`).

`SnapshotsStand` is about steps: a second lemma for each write says what becomes of its rows
(`Evolves`), and `Termed`, that a candidate has had terms ever since it was stored, makes the
version that a candidate's activation puts in a snapshot one that has something to show there.

`WalksComplete` counts rows. What a page holds is decided by the rank of a resource among those that
are visible. A resource gets its date from the counter, so no two have the same (`Dated`),
ranks differ (`RanksDiffer`), and the rows of a page follow each other (`PageRanks`). `Walking` says of an
undisturbed client: its offset is the number of rows it was shown; these are in its snapshot, and those still
visible rank before the offset; and if nothing was hidden when the rows were counted, all that are shown or
visible are among as many as were counted. Rows that vanish move others forward (`RankShrinks`), which is
why a client may miss some, and `partialResults` then says so.

### Embedding jobs

`JobsProofs` proves, for any versions, texts, workers and number of attempts, crashes and writes:

* `JobsTypeCorrect`: `Spec => []TypeOK`, for any models and all hazards;
* `VectorsTrue`: `VectorTrue`; `DoneJobsIndexed`: `DoneIsIndexed`; both if one model is served and
  no catalog transaction overlaps a boot (`OneModel`); without either assumption TLC finds both violated.

`Inv` is the types, that a job has a document (`Documented`), and that a worker at work has what its
position needs (`Positioned`). Tokens are taken from a finite range, and that one is always free follows from
there being more tokens than workers (`TokenFacts`, by the pigeonhole theorem). Of the two
properties neither is inductive: `Current` adds that jobs are for the text of now, that a job that is done
has a ready vector, and that a claim whose token still stands holds the text of its
hash. One lemma for each action and for each of the two invariants (`ClaimStep`, `ClaimCurrent` and so on).

### Benchmark

`ReleaseProofs` proves, for any queries, resources, agents, grades, release runs, preparations and troubles:

* `BundlesCommitted`: `LastFileCommits`; `FinalReportStands`: `FinalStands`;
* `JudgmentsIndependent`: `JudgedIndependently`.

The gates look at files that were written by calls long ago. `Inv` of `ReleaseInv` says that a
phase's files are there only while what they follow from is: packs before answers (`GradersAnswer`), both
answers before an adjudication (`AdjudicatorAnswers`), the raw judgments as those in charge
gave them (`RawIsSelected`), the audit with the sources of the mapping (`AuditIsMapped`), a review of the raw
grades (`ReviewIsOfRaw`), one moment's sources in a manifest and its pool (`FreezeAgrees`). It holds because
no phase overwrites a file and who starts over (`StartOver`) removes what follows too. Release runs add
`ReportOfRun` and `EndsOnce`.

### Assumptions, and what is not proved

Assumptions are those of the constants: `None` is not among the values it is beside, the
bounds and limits are natural numbers, `"global"` is no principal, the accounts of the `upto` scheme
that play different parts are different, and the declarations and keys of a catalog, the workers, the accounts of
a ledger, and the queries and resources of a benchmark are finitely many. Beyond these, theorems name the
hazards they exclude.

With these every safety invariant, every property of steps and the refinement that a passing run checks is also a
theorem. Only model-checked is liveness (`PromisesDecided`, `ChannelsReturn`, `NewerTextEmbedded`), as it needs
fairness, which TLAPS does not treat here.

## Not modelled

In the settlement: the day rollover of the sponsor budget; the per-minute simulation window, which is a
nondeterministic refusal; failures of the database other than those a crash shows; a channel
whose key is gone (`orchestrator.ts:171`, which `leaseChannel`'s list of addresses excludes);
rows of the audit trail. Recovery rounds of one replica do not overlap with each other in
the model; those of two replicas do.

In the budget: `MemoryBudgetStore` (one process, forgets at its end); what `callResource` does
before it reserves, which changes no state.

In the embedding jobs: batches of several jobs, which are stored in one transaction and fail
together; documents that disappear, as no code deletes one; versions that are superseded; a
database without pgvector.

In the `upto` payments: several tokens or settlement contracts (the policy is bound to one of each), events,
the extension of time to live, fees, and the signatures that a verifier contract checks.

In the catalog: the extraction and the sanitizing of declarations, the filters and the ranking of
searches, the log of observations (append-only), and the signature and the expiry of cursors.

In the benchmark: the schemas of records, rationales and review statuses, queries without a result, the
sharding of packs, the agreement statistics, the audits of the corpus (distribution, forbidden
capabilities, unpooled judgments) and their gates, milestone runs in the checked instance
(`Purposes` admits them), and scores. A pipeline's id is taken to be fresh: the operator
chooses it.

Whole components: the HTTP layer, the guards and the discovery tools of the MCP server, the configuration, the SDKs (they
keep no state between requests); managed keys (commands that an operator gives one at a time);
analytics (append-only facts, written after the decision); the extraction, ranking and the metrics of
search evaluation (functions of text and floating-point numbers, without a state that their callers
share); the frontend (presentation); the semaphore (a refused or delayed simulation is a call that
`Settlement` lets fail or wait at any time). Of the code of the repository most is of these kinds,
and of schemas, command lines and pages: modelling it would restate it.

## What is left

1. `EmbeddingJobs`: superseded versions, with `Catalog` as the writer.
2. Key rotation beside `Settlement`; the semaphore, where a waiter that is woken does not look at
   the count again (`semaphore.ts:8`).

# TLA+ models of CellRoute

CellRoute is a payment and asset platform on the Nervos CKB blockchain. It has two programs:

- `rust-service`, an axum service over PostgreSQL. It authenticates wallets, keeps merchant orders,
  indexes the assets of a wallet, tracks transactions and watches a Fiber (payment channel) node.
- `portal`, a React application. It connects wallets, builds and sends CKB transactions (transfers,
  tokens, Spores, locks), can run a Fiber node inside the browser, and calls the service.

The models ask what these programs promise when their parts interleave. In the service every handler
is a sequence of SQL statements and RPC calls. No handler opens a transaction or takes a lock, every
statement commits on its own, and axum drops a handler whose caller closes the connection. So each
statement, and each call to a node, is an action of its own, handlers interleave between them, and a
handler may end between any two. In the portal one thread runs, but an asynchronous function lets others
run at each `await`: so each await is an action, and between two of them the user clicks, the wallet
changes and answers arrive in any order.

## Inventory

| Component | State it keeps | Operations | Interacts with | What makes it correct | Model |
|---|---|---|---|---|---|
| Merchant orders (`handlers.rs` 485-655) | `merchant_orders`, `fiber_payment_attempts`, `audit_logs` | create, update, record an attempt | the merchant page, which retries | a key names one order; nothing is fulfilled unpaid; statuses follow the lifecycle; changes are audited | MerchantOrders, OrderLifecycle |
| Indexer (`indexer.rs`, `repository.rs`) | `indexed_assets`, `indexer_runs` | sync a wallet | the CKB node; the asset page reads the rows | after a sync the rows are the live cells; a sync ends | IndexerSync |
| Wallet authentication (`auth.rs`, `handlers.rs` 31-130) | `wallet_auth_challenges` | challenge, verify, clean-up | the portal's login; every endpoint with a token | one token per challenge, only for the signer | AuthChallenges |
| Transaction tracking (`handlers.rs` 194-349) | `tracked_transactions` | track, status, stream, dashboard | the CKB node | a final status is true; wrong rows are repaired; streams end | TransactionTracking |
| FiberOps (`fiber_ops.rs`, worker in `main.rs`) | `fiber_channel_snapshots`, `fiber_incidents`, `fiber_reconciliation_runs` | scan, reconcile | the Fiber node | incidents agree with the channels and the payments; a mismatch is not hidden | ChannelHealth, ChannelVerdicts, Reconciliation |
| Asset page (`AssetPortfolioPage.tsx`) | React state, a generation counter | load, sync | the indexer endpoints, the wallet | shows one wallet's rows, the current one's | AssetPortfolio |
| Browser session (`AuthProvider.tsx`, `backend.ts`, `useWallet.ts`) | the token in localStorage, the session and the wallet that are shown | login, logout, check, 401 | the authentication service, the wallet, other tabs | a session is signed for by its wallet; what is not the connected wallet's for a while is put right | BrowserSession, WalletSnapshot |
| Reviewed transactions (token, Spore and transfer pages) | React state: review, flags, generation | prepare, discard, confirm, submit | the wallet, the CKB node, the asset service | what is sent was reviewed, by that wallet, once, and confirmed if it destroys something | ReviewedTransactions |
| Token accounting (`token.ts`, contract `sudt`) | cells on the chain | mint, transfer, burn | the token page, the token script | no token is made or lost that the review does not name | TokenCells |
| Spore and DOB (`lifecycle.ts`, `Studio.tsx`) | cells, a transaction that is followed | create, transfer, melt, verify | the node, an indexer that lags | what is called verified has happened | SporeCells |
| Hash-lock lab, data page (`SimpleLockLabPage.tsx`, `StoreDataPage.tsx`) | fields, cells, a prepared unlock | derive, fund, list, unlock; store, read | the wallet, the CKB node | what is shown belongs together | SimpleLockLab, StoreData |
| Browser Fiber runtime (`runtime.ts`, `FiberRuntimeContext.tsx`, `funding.ts`) | the WASM node, its identity in IndexedDB, a start promise, a funding draft in localStorage | start, stop, reset, call; open, sign and submit a channel's funding | the WASM worker, the wallet, other tabs | one node per tab, with the stored identity; only frozen funding is submitted | FiberRuntime, ExternalFunding |
| Fiber payments (`fiber.rs`, checkout, merchant and console pages, two-node lab) | React state, an invoice in localStorage | invoice, dry run, pay, cancel | the node, merchant orders, another tab | an order has the state of its invoice; answers are of the invoice shown | FiberPayments, FiberLab |
| RGB++, iCKB and SSRI inspectors (`features/rgbpp`, `features/ickb`, `features/ssri`) | the query and its answer | look up, refresh, preview, cancel | two chains, public services | an answer is of the query, of one chain, and as deep as it says | RgbppInspector, IckbInspector, SsriInspector |
| Developer console (`dev-console`) | bounded logs of bounded scopes | begin, end, clear, evict, pause | every page | what was cleared or evicted does not come back | DevConsole |
| Assistant (`ai.rs`, `mcp.rs`) | `fiber_runtime_snapshots`, `ai_knowledge_chunks`, `ai_chat_audit` | ask, retrieve, prune | FiberOps, a language model | only the newest snapshots stay | not modelled: one INSERT and one DELETE; the rest is text |
| Configuration, transport (`config.rs`, `main.rs`, `error.rs`) | none | start-up | | | not modelled: sequential, nothing interleaves |

The hard behaviours, in the order of what they can cost:

1. *Check, then write.* `merchant_order_update` reads the status in one statement and overwrites it in another;
   `auth_verify` and the idempotency key do the same but the database decides (a conditional UPDATE, unique indexes).
2. *Late answers.* Every handler of transaction tracking writes what the node said some time ago; every page
   gets promises of an earlier wallet.
3. *Half-done work.* A handler that ends between two statements leaves a change without its audit entry, rows
   marked stale and not yet restored, a snapshot without its incident; a page that is left, a channel without funding.
4. *Retries.* The portal gives a call up after 12 s while its handler may have done its work.
5. *Loops that must end.* Scans of a growing chain, streams of a transaction that never becomes final.
6. *Several sources.* A node and an indexer that lags, two chains that reorganise while they are read, three answers of
   three moments.
7. *One place, several writers.* Two tabs share a draft, an invoice and a token; operations of a page share its flags.

`PROJECT.json` lists the hazards line by line with the properties that cover them.

## The modules

Every module names its code's functions and tables. A history variable (`reached`, `watch`, `sent`, ...) is read
by no guard; it only lets a property speak about the past.

### OrderLifecycle and MerchantOrders

`OrderLifecycle` is the promise: an order appears, and then moves along the edges of `valid_order_transition` *from
some status it has had*. It is this weak because the code is: `merchant_order_update` checks the edge from a status it
read, and writes over whatever is there by then. `MerchantOrders` has the three endpoints, one action per statement
(`LookUpKey`, `InsertOrder`, `ReadStatus`, `WriteStatus`, `CheckOwner`, `RecordAttempt`, `WriteAudit`), the unique
indexes (`Conflicts`), and `Abandon` for a handler that ends early. An order is named after the request that creates it,
as its UUID is fresh. It implements `OrderLifecycle` under the mapping in `Lifecycle`.

### IndexerSync

`sync_wallet`: begin a run, mark the owner's rows stale, fetch pages (the chain moves between them), upsert the cells
one at a time, finish. The chain (`Commit`, `Page`) is external. A page is the next cells after a cursor, and the node returns
the cursor of its last cell, or none, or the one that was sent (`Cursors`): then the scan goes on, begins anew, or stops
at `next_cursor == cursor`. A page that is short or the last one that the bound allows ends it too (`LastPage`). Two
syncs share the table. Decoding a cell is abstracted to typed or not.

### AuthChallenges

`auth_challenge` and `auth_verify`: store a challenge, delete the expired ones, check, consume by a conditional
UPDATE, issue. Signatures are perfect: a pair of a key and a challenge. `Tick` is the clock both read. The wallet of the
user may be another one when it signs.

### TransactionTracking

The four handlers that ask the node for a status and write it later, each with its own fallback when the node does not
answer (`track` writes `pending`, `status` writes nothing, a stream sleeps and asks again up to `sse_max_polls`, the
dashboard keeps the row). Rows of an earlier service may exist at the start. The chain is external: a transaction that is
committed stays so; a rejected one may be sent again.

### AssetPortfolio

`AssetPortfolioPage`: the effect that loads the rows of the signer, the sync button, and the generation every step
compares before it touches the page.

### ChannelHealth and Reconciliation

`analyze_channels` as the native worker and a request of `GET /fiber-ops/channels/health` run it: list the channels,
judge each, then write snapshot and incident channel by channel. The channels change, open and close (`NodeMoves`,
external). The scan writes channels in any order, as the node lists them in any. A channel that closes is listed no
more: its snapshot and its open incident stay, and nothing in the code resolves them. No property claims otherwise.

`ChannelVerdicts` has the verdicts on one channel: `Health` is `analyze_channel` of the service, `BrowserHealth` the portal's
copy for its own node. They divide differently. The service makes an f64 of both balances and of their quotient
(`ToFloat`, `Quotient`: the nearest float, the even one of two) and compares it with the floats nearest to 0.15 and 0.30;
the portal has bigints in ten-thousandths, rounded down. `Significands` is 2^53 in the code, and `Scales` are the powers of
two of its exponents. TLC has floats of 8 bits (`Significands` 256, scales up to 2^12), for which a total of 257 is large; the
theorem is about every size. A reading is in the range of the floats, as u128 balances are, and a total below the bound
where the code saturates.

`Reconciliation` is `reconcile`: three questions at once (`Answered`), in any order and each with a failure that counts
as "unknown", then the row of the run, then the incident. Statuses that both verdicts treat alike are one status. The
readiness verdict is a function of one answer and writes nothing. `FiberOps` composes scans and reconciliations, one at a
time; `MCChannelHealth` is its instance.

### ReviewedTransactions

The token page, the Spore studio and the CKB transfer behind one set of actions, since all three prepare, review and
send; where they differ an action says so by `page`. An operation (`ops[o]`) holds what its closure captured: the
signer, the generation, the fields, and when it submits, the review. `FieldsEnabled` and `MaySubmit` are the `disabled`
attributes of the pages, `Finally` their finally blocks. One page runs at a time. An operation that ended with nothing to
show is forgotten, so that few names serve long runs.

### TokenCells, SporeCells, SimpleLockLab, StoreData

What those pages do to cells, over a chain that commits late and that others use. `TokenCells` is a preparation of the
token page (`mint`, `move`, then `complete`, where the library may add any live cell of the wallet) and its submission,
with the token script as the node runs it (`simple_udt`): the script allows the issuer everything and everybody to burn,
so what keeps the tokens is `assertTokenAccounting`, and what keeps the cells of other assets is the look at the types of
the inputs (`Others`). Data in a cell without tokens is kept by neither: there the page relies on the library, which
adds no cell with data. `SporeCells` follows a Spore or a cluster from preparation to
evidence, over a node whose answers are of the moment and an indexer that lags (`Index`); several verifications run at
once. `SimpleLockLab` derives a lock, lists its cells and unlocks one; whoever knows a preimage may be faster. `StoreData`
lets stores and reads overlap, since neither button waits.

### BrowserSession, WalletSnapshot, DevConsole

`BrowserSession` is one stored token and its users: a login (network and challenge, a signature by whatever account the
signer has by then, the verification), the effect that checks a found token whenever the wallet is another one or another
object, any other request that gets a 401, expiry, and tabs that write the same storage. The wallet is the address of
the account that would answer now: `switchAccount` changes it without an effect, as the signer object stays, but a
check that is under way may see either address. `WalletSnapshot` is `useWallet`: reads side by side that are not told apart when
they end, and none for a switched account. `DevConsole` is the store
of bounded logs with generations and its panel.

`WalletPages` composes the asset page and these seven, one at a time (`route`), as the router shows one page; each begins
in its initial states and the state of the others is constant. `MCWalletPages` is its instance for TLC.

### FiberRuntime, ExternalFunding, FiberPayments, FiberLab

`FiberRuntime` is the object of the document (`startInternal` with its one promise, `stop`, `resetIdentity`) under the
state of a page's provider, which every visit makes anew while the operations of the page before go on. It is the node of
one tab: another tab of the profile could reset the identity in the shared IndexedDB, which is not modelled. `ExternalFunding`
has two tabs, the nodes of two profiles and the one draft of the browser, from `openChannel` to the submission, with
every failure and reload between. `FiberPayments` has the checkout, the merchant page and the transfer console over a
node's invoices and the server's orders, whose statuses move as `OrderLifecycle` allows. `FiberLab` is the two-node lab,
whose tabs share an invoice by storage events. `BrowserNode` composes the four, one at a
time; `MCBrowserNode` is its instance.

### SsriInspector, RgbppInspector, IckbInspector

Queries of many requests, each with a timer and an abort signal, under fields that stay editable. The answers of the
services are anything that the parsers accept or refuse; the SSRI client makes one error of every failure to decode.
`RgbppInspector` and `IckbInspector` read chains that grow and reorganise between the requests. The proof of a Bitcoin
transaction is three requests side by side, answered at three moments in any order (`Inclusion`). A fork of the CKB
chain lies below the header of an iCKB snapshot or above it (`common`), when the header is canonical on both branches
(`InChain`); growth beyond the header changes no answer. `Inspectors` composes the three, one at a time, as the router
shows one page; `MCInspectors` is its instance.

## Runs

Sizes are distinct states. Every run checks deadlock off: requests, clicks and the bounded environment do come to an
end, and the system may rest then. Type invariants are conjuncts of another invariant of their module, except where
they are proved (below).

| Run | Instance | States | What it shows |
|---|---|---|---|
| `merchant_orders` | 3 requests, 1 old order, 2 merchants, 1 key, 1 hash | 1019383 | `SameKeySameOrder`, `FulfilledWasPaid`, `AuditGapsAreLostHandlers`, `ImplementsLifecycle` |
| `merchant_transition` | same, 1 merchant | violation | `EachChangeIsAValidTransition` fails: two updates that overlap take PAID to CANCELLED |
| `indexer_sync` | 2 owners, 3 cells, pages of 1, 2 pages, 2 syncs | 804297 | `SoloSyncIsFresh`, `OverlapLosesNoCell`, `EverySyncEnds` |
| `indexer_resurrection` | 2 cells | violation | `ConsumedStaysGone` fails: an older scan makes a consumed cell's row live again |
| `auth_challenges` | 2 challenges, 2 verifies, 2 wallets, clock 0..4 | 280241 | `OneTokenPerChallenge`, `TokensAreSigned` |
| `transaction_tracking` | 1 transaction, 2 wallets, 2 requests, 2 polls | 149324 | `FinalRowsAreEarned`, `DashboardRepairs`, `OnlyLateAnswersReopen`, `RequestsEnd` |
| `channel_health` | 2 channels, 6 readings, floats of 8 bits, worker and 1 request, 1 move, 1 failure of the worker; 2 reconciliations, 2 moves | 700154 | `LoneScanSettles`, `PortalIsKnown`, `WorkerHeals`; `LoneRunSettles`, `MismatchesStayReported` |
| `reviewed_transactions` | 3 pages, 2 wallets, 2 accounts, 2 forms, 3 operations, 3 generations | 907360 | `SentByItsWallet`, `SentOnce`, `ReviewIsCurrent`, `MeltsAreConfirmed`, `NeverLocked` |
| `token_burn` | the token page, 1 change of wallet | violation | `BurnsAreConfirmed` fails: the box ticked under one burn sends another |
| `inspectors` | 2 queries; a chain of 4 blocks and 2 branches; 2 reorganisations | 100210 | `ShownAnswersTheForm`, `ThresholdIsEarned`, `SnapshotIsOneChain`, `BusyEnds` |
| `browser_node` | 3 operations, 2 instances, 3 identities; 2 tabs, 2 profiles, 2 channels; 2 invoices; 3 shared invoices | 753613 | `OneNode`, `OnlyFrozenFundingIsSubmitted`, `NoOrphanWithoutCause`, `OrdersFollowTheirInvoice`, `AnswersAreOfTheInvoice` |
| `wallet_pages` | 2 signers, 2 accounts, 2 operations; the instances of `MCWalletPages` | 845597 | `ShownIsTheCurrentWallet`, `SessionIsSigned`, `SessionHeals`, `ShownAnswersTheForm`, `TokensAreKept`, `EvidenceIsEarned`, `LogsAreOfOneGeneration`, `SpinnerStops` |

What the properties of the composed runs say:

- `ShownAnswersTheForm` (`inspectors`): an answer of edited fields, or of a query that was cancelled, is never shown.
  (`wallet_pages`): data and transaction, address and digest, unlock and fields belong together.
- `ThresholdIsEarned`: "threshold reached" is said only when the transaction lies that deep at that moment, although
  the tip was read first and the block last. `SnapshotIsOneChain`: rate and code of an iCKB snapshot were read from
  chains that its header is in, if the chain reorganised at most once meanwhile; with two reorganisations there and
  back the code cannot tell.
- `EverySyncEnds`: a node that fills every page, or loses the cursor and begins anew, is left at the page limit. In the run
  a page is full with one cell, so each cell of an owner fills one, and the second full page meets the limit.
- `OneNode`: one node runs, with the stored identity, and is the one shown, *unless* a stop met what an earlier page
  had begun, a reset failed half way, or two refreshes shared the loading flag (`disturbed`). Those exceptions are real:
  a stop during a start sees no node, and the start completes. The run does not follow a tab beyond them;
  the theorem does.
- `NoOrphanWithoutCause`: a channel that waits for its funding has the draft or a tab that works on it, unless a
  request failed, its page was loaded again, or another tab took the one draft (`lost`). `OnlyFrozenFundingIsSubmitted`
  holds without exception.
- `OrdersFollowTheirInvoice`: the merchant page works with a list that has aged; still an order is PAID, cancelled or
  expired only if its own invoice is. `AnswersAreOfTheInvoice`: in the lab, unless another invoice arrived while an
  answer was awaited (the parse writes the older one back); and the checkout pays only what its dry run went through for.
- `SessionIsSigned`: every token was given for a signature of its own wallet's key, and a session that is shown is
  that of a wallet with a token, although the wallet and its account change at every step of a login. It does *not*
  say that the session is of the connected wallet, for it need not be: a late login, a switched account or another
  tab's login shows or stores another wallet's, and a 401 of an older token drops a newer one. `SessionHeals`: none of
  this stays. Once the wallet stays the same and no token is given or expires, and the effect that checks the session
  is run to its end again and again (as pages are visited), the session that is shown and the token that is stored
  come to be of that wallet for good; and the address of the wallet snapshot too, once its reads end well again and
  again.
- `TokensAreKept`: the supply is what it was, with what reviews mint and without what they burn. `EvidenceIsEarned`:
  the transaction was committed and left the asset where the review said. `LogsAreOfOneGeneration`: an end of a cleared or
  evicted log is not written.
- `LoneRunSettles`, `MismatchesStayReported`: a reconciliation that was alone leaves its verdict in both tables; a
  mismatch is only ever hidden by a request that got no answer to a question or an answer from before.
  `PortalIsKnown`: the portal's channel verdict differs from the service's in two cases only. Where the share of a
  large channel is nearer to 30 % than a float can tell (`AtTheBound`), one says HEALTHY and the other WARNING, and
  *either* may be the stricter; otherwise the portal is milder, because it reads less. Its payment verdict is milder
  only where both sides have ended, since it compares stages and no outcomes (an invoice that is paid with a payment
  that failed is consistent to it).

Why the bounds are enough. A race of these programs needs two actors and something they share; a third adds a request
that was in flight before both. So there are two requests where each has many steps, and three where the third matters
(`merchant_orders`: a create, its retry and an update; `reviewed_transactions`: a stale operation and two current
ones; `FiberRuntime`: an operation of a page that was left, a stop, and a start). Two wallets, profiles or tabs are
the least at which something can belong to the wrong one. `IndexerSync` has pages of one cell and two pages at most,
so that scans of one page and of two occur, and full pages at the limit with a cell beyond it. The clock of
`AuthChallenges` goes past expiry and retention of the first challenge. The readings of `ChannelHealth` lie on the
bounds of 15 and 30 per cent and of 3 and 10 TLCs, with 77 of 257 and 79 of 263, which floats of 8 bits round to the
other side of 30 per cent; the statuses of a payment move twice, so that invoice and payment can both move between two
questions. Numbers of the code are scaled where only their order matters: `openChannel` has 2 attempts to find the
cell deps and not 3 (a first and a last one); a u128 is 0..2 in `TokenCells`, so that sums reach its bound with two
cells; `DevConsole` keeps 2 scopes of 3 entries and not
80 of 250, so that both evict; the constants of iCKB are small numbers around each of its bounds; a Bitcoin
transaction needs 2 confirmations and lies at different heights of the two branches. `SporeCells` follows one sent
transaction, while others move the asset. Symmetry is used only in runs without liveness properties, over sets of
model values no definition tells apart.

### Fairness

Only liveness properties need it, and it is weak fairness of the steps of one handler, page or worker, never of
the environment or of a user.

- `IndexerSync`, `TransactionTracking`: tokio polls every task that can make progress, and every RPC call is cut off by
  the client's timeout, so a handler's next step is taken.
- `AssetPortfolio` (in `wallet_pages`): the awaits of a sync settle. Requests carry a timeout of 12 s, the wallet answers
  for its own address.
- `ChannelHealth`: the worker's loop has no exit and sleeps a bounded time. Requests get no fairness.
- The inspectors: every request has a timer or an abort signal that ends it. Edits and clicks get no fairness.

`SessionHeals` assumes no fairness of the specification: what it needs, that effects and reads run to their ends and
that the wallet rests, are premises of the property itself. The other modules have only safety properties: a wallet
may let a signature wait for ever.

## What the models found

1. *Order status* (`merchant_transition`). The handler refuses an unsupported transition, but only from the status it read.
   PENDING → PAID and PENDING → CANCELLED can both pass and the row goes PAID → CANCELLED. What does hold, checked and
   proved, is that no order is fulfilled that was never paid, and that each status was earned from one the order had.
2. *Consumed cells* (`indexer_resurrection`). A sync writes what it scanned even if a later sync has finished since.
   `OverlapLosesNoCell` shows the damage is one-sided: overlap may show too much and never too little.
3. *Burns* (`token_burn`). The token page unlocks its fields in the finally of any operation, also of one of the
   previous wallet. Two burns can then be prepared at once, and the second takes the place of the first under the
   ticked box. The Spore studio does not have it: its finally skips other generations (`MeltsAreConfirmed`).

Short of a finding: on the transfer page a preview that arrives after a change of wallet is shown and then refused
when it is sent (`SentByItsWallet` holds, `ReviewIsCurrent` claims nothing of that page's signer); and on the token
page the fields may change while a preparation that was unlocked runs, so `ReviewIsCurrent` claims nothing of its
fields. The exceptions of `OneNode`, `NoOrphanWithoutCause` and `MismatchesStayReported` name what the code lets
happen, as `SessionHeals` lets a session be wrong for a while and `PortalIsKnown` lets the portal be the stricter; no
text of the repository says otherwise.

Known, and without a property: a service that stops during a sync leaves its row of `indexer_runs` RUNNING; a `track` of
a transaction that another wallet tracks takes the row over.

## Proofs

TLC checks the instances above. TLAPS proves these for every value of the constants. `LateAnswers_proofs` is about
`ReviewedTransactions` (where it says `Spec`) and about `Inspectors`.

| Theorem | Statement |
|---|---|
| `MerchantOrders_proofs!OrdersTyped` | `Spec => []TypeOK` |
| `!KeysNameOneOrder` | `Spec => []SameKeySameOrder` |
| `!OrdersFulfilledWerePaid` | `Spec => []FulfilledWasPaid` |
| `!OrdersAreAudited` | `Spec => []AuditGapsAreLostHandlers` |
| `!OrdersImplementLifecycle` | `Spec => ImplementsLifecycle` |
| `!StatusesAreEarned` | `Spec => []Lifecycle!Earned` |
| `AuthChallenges_proofs!AuthTyped` | `Spec => []TypeOK` |
| `!ChallengesYieldOneToken` | `Spec => []OneTokenPerChallenge` |
| `!TokensSpeakForSigners` | `Spec => []TokensAreSigned` |
| `!DeletionIsSafe` | `Spec => ChallengesAgeOut` |
| `FiberOps_proofs!ReconciliationsTyped` | `Spec => []TypeOK`, of `Reconciliation` |
| `!LoneRunsSettle` | `Spec => []LoneRunSettles` |
| `!MismatchesAreSeen` | `Spec => MismatchesStayReported` |
| `!LoneScansSettle` | `OpsSpec => []LoneScanSettles` |
| `!PortalJudgesAsKnown` | `OpsSpec => []PortalIsKnown` |
| `LateAnswers_proofs!SendersPrepared` | `Spec => []SentByItsWallet` |
| `!ReviewsAreSentOnce` | `Spec => []SentOnce` |
| `!ReviewsAreCurrent` | `Spec => []ReviewIsCurrent` |
| `!MeltsWereTicked` | `Spec => []MeltsAreConfirmed` |
| `!LocksHaveAHolder` | `Spec => []NeverLocked` |
| `!InspectorsAnswerTheForm` | `InspectorsSpec => []ShownAnswersTheForm` |
| `!ThresholdsAreEarned` | `InspectorsSpec => ThresholdIsEarned` |
| `!SnapshotsAreOfOneChain` | `InspectorsSpec => SnapshotIsOneChain` |
| `TransactionTracking_proofs!FinalRowsAreRight` | `Spec => []FinalRowsAreEarned` |
| `!DashboardsRepair` | `Spec => []DashboardRepairs` |
| `!OnlyTheLateReopen` | `Spec => OnlyLateAnswersReopen` |
| `IndexerSync_proofs!SoloSyncsAreFresh` | `Spec => []SoloSyncIsFresh` |
| `!OverlapsLoseNoCell` | `Spec => []OverlapLosesNoCell` |
| `WalletPages_proofs!AssetsAreOfTheWallet` | `Spec => []ShownIsTheCurrentWallet`, of `AssetPortfolio` |
| `!SessionsAreSigned` | `PagesSpec => []SessionIsSigned` |
| `!AnswersAreOfTheForm` | `PagesSpec => []ShownAnswersTheForm` |
| `!NoTokenIsLost` | `PagesSpec => []TokensAreKept` |
| `!EvidenceIsOfTheChain` | `PagesSpec => []EvidenceIsEarned` |
| `!LogsAreOfTheirGeneration` | `PagesSpec => []LogsAreOfOneGeneration` |
| `BrowserNode_proofs!OneNodePerTab` | `NodeSpec => []OneNode` |
| `!FrozenFundingIsSubmitted` | `NodeSpec => []OnlyFrozenFundingIsSubmitted` |
| `!OrphansHaveACause` | `NodeSpec => []NoOrphanWithoutCause` |
| `!OrdersAreOfTheirInvoice` | `NodeSpec => []OrdersFollowTheirInvoice` |
| `!AnswersFitTheInvoice` | `NodeSpec => []AnswersAreOfTheInvoice` |

Each invariant was checked by TLC on the instance of its run before it was proved. Where a run checks a composition on
small instances, the theorem is about the module it extends: the specification of the run (`MCSpec`) only pins what the
parts that do not run begin with, and the bounds of the environment, so its behaviours are among those of `PagesSpec`,
`NodeSpec` and `InspectorsSpec`, and every state that it reaches is one the theorem speaks of.

*The argument for merchant orders.* None of the properties is inductive, since each depends on what a handler learned in
an earlier statement. `IInv` records it phase by phase. `HandlerOK`: a handler about to write holds a status the order
has had (`reached`) and an edge from it. `HistoryOK`: the status is in `reached`, and an order that ever was paid, being
fulfilled or completed has a payment time. That is the heart: `reached` only grows and `paidBy` is never cleared, so a
write from an outdated status is still covered, and an edge into FULFILLMENT_PENDING or COMPLETED starts from a paid
status. `RowOK` and `AnswerOK` tie a request to its row, `KeyUnique` is the unique index, and `AuditOK` says that whoever
has not audited is either about to or lost. There is one lemma per action, and `NextInv` combines them. The refinement
uses the same invariant: `WriteStatus` is a `Move` because the edge starts in `reached`, everything else stutters.

*The argument for challenges.* A row is deleted a day after it expires, so the table forgets which challenges were
used. `Used` is what survives: the challenge is done being asked for, and has no row or a used one. As a nonce is
drawn once, no row returns. `OneConsumer` then says that a challenge has one handler that is to issue, or one token.

*The argument for reconciliations.* The last request that began alone is, while it is under way, the only one: whoever
comes next ends its claim. So nobody writes between its two statements, and `Written` carries its verdict from the first to
the second. `VerdictIsContradiction` says that the arms of `reconcile_states`, in their order, find exactly the pairs that
exclude each other; with it, a request that resolves an incident had other answers than the statuses that stand.

*The argument for scans* is the same in the other half of `FiberOps`: while the scan that was alone works, no other
does (`LoneOK`), so each channel it listed is either settled, or still on its list as it was listed. The verdicts on a
channel are proved for all readings and all sizes of a float. Rounding to the nearest errs by at most one part in
`Significands` (`RoundedIsClose`), three times over for the quotient (`ErrorOfRatio`) and once for the literal
(`ErrorOfBound`); so a float that falls on the other side of 0.30 is of a share `AtTheBound` (`NearTheBound`). Where
the total is less than a fifteenth of `Significands`, no integers are that near without being equal, and equal ratios
round alike (`SameQuotient`). With this the scores of service and portal agree elsewhere (`SharesDiffer`), and the
rest is a case analysis.

*The argument for reviewed transactions.* A review that is shown was prepared by an operation that is over
(`ReviewOK`), so its wallet and its fields do not change any more. What matters is who may still touch the page:
`InPlay` names the operations whose finally will look at the flags. Outside the token page there is at most one, and
it holds the lock (`LockOK`); in the studio it is of this generation. `SubmitOK` says what a submission has checked
by each phase, and that a review that was sent is not on the page, or can no longer be submitted from it; with
`OneSubmission` it follows that it is sent once. On the token page two operations can be in play, which is why `LockOK`
says less of it, and why the burns of finding 3 are not among the theorems.

*The argument for tracking.* A handler writes what the node said some time ago. `Known` is what is still true of any
answer: that a commit stays, and that a rejection once was. `LateOK` and `FreshOK` say what the handler's history adds,
when no failure and no move of the chain came between; `AloneOK` says that the table still is what a lone dashboard
read of it.

*The argument for syncs.* `ScanOK` is a statement about cursors: what a scan has not found up to its cursor did not
stay live, because a page holds the *first* cells after the cursor; a cursor that the node lost begins the statement
anew, from 0. A scan is whole only after a short page, so one that stopped at the page limit, or at a cursor that was
sent back, claims nothing of the rest. The cells found are kept page by page, as a cell that two pages list is written
twice. From there on only SQL matters. `AloneOK`: the live rows of a lone sync are what it found and has written.
`CoverOK` is the overlapping case: once any sync has marked an owner's rows stale, a cell is live in the table, or
some sync has it still to write, or one of them failed or was not whole.

*The arguments for the wallet pages.* `PagesInv` is one invariant per part; the steps of a part leave the others alone.
Assets: at most one sync of the current generation runs, and its address is the one shown. Session: at most one check
is active; a token is stored for the signature of its own wallet only, and tokens are never taken back, so a session that was
shown of a wallet with a token stays so. Data page and lock lab: the digest, the cells and the prepared unlock are what
the fields say, since every edit drops them (`AddressOK`, `ListedOK`, `PreparedOK`). Spore Studio: `TxOK` is what a
preparation guarantees for good: an output continues an input of the same asset or creates the transaction's own, and an
immortal input has a successor. `AssetsOK` is what follows on the chain: an asset has one live cell at most, and exactly
one if it is immortal; `BroadcastOK` and `PoolOK` connect them, over commits in any order. `VerifyingOK` then carries the
evidence through a verification that asks three times. Console: `CallOK` says that a call that is open in a log of its
generation began in that log; the eviction of entries is why `LogOK` excepts full logs.

*The argument for tokens.* `TokenInv` is about sums: `Worth(x, A)` is the sum of the token amounts of the cells A.
`Accounted` holds of a transaction from its draft to its commit: what comes out is what its action makes of what goes
in, and nothing foreign is among either. A commit then changes the sum of the live cells by the difference of the two,
which is what it does to `supply`; a spending by another program keeps the sum. The script is not needed for it:
`Accounted` holds also where an issuer's cell makes the script check nothing. The facts about sums (that they add up
over disjoint sets, grow with the set, and follow a renaming of the cells) are proved from the definition of the fold
of the community modules. They need an induction over finite sets, which is taken in the form of a least
counterexample: `LeastNatural` from the well-foundedness of the order, a theorem about sets and not about operators;
`FiniteInduction` for the sets of subsets that satisfy the claim.

*The arguments for the inspectors.* `InspectorsInv` is one invariant per page.
- SSRI: a query of the page that was not aborted is the active one and of the fields as they are (`SsriQueryOK`), so
  whatever it shows answers them; an evidence query is of a method that has evidence.
- RGB++: `RgbppLookupOK` says the same, and what a lookup knows of the Bitcoin chain: the tip it started from is the
  present one, or will never be again, since tips only gain height; and once the block is read, an unchanged tip means
  that it still holds the transaction, whatever the three answers of the proof saw. So a threshold is only reported of
  a chain that stood still in between (`RgbppThreshold`).
- iCKB: `IckbQueryOK` ties a refresh to the page, and a preview to its fields and to a snapshot that exists.
  `HeaderOK` carries the branches: as long as the chain has not changed since the refresh began, it is on the header's
  branch; and after at most one change, being on that branch means that everything was read there; a header that is
  common to both branches is in whatever was read. The estimate is bounded by the amount because a rate is at least
  `AR0` (`Part`, `ReceiptBound`).

*The arguments for the Fiber pages.* `NodeInv` has four parts.
- The node of a tab: `BusyOK`, one operation of a page holds the buttons; `StartOK`, a start that is under way has
  somebody who awaits it, and no node yet; `EndingOK`, while a stop or a reset works, nobody starts; so `RunningOK`, what
  runs is what the runtime knows, under the stored identity. The last two hold unless `disturbed`, like the property; the
  first do not need it.
- Funding: `Known` says of every transaction that a tab or the draft holds, that its channel has frozen this very one;
  so whatever is submitted is frozen. `PreparingOK` says that a channel that openChannel still works on is nobody
  else's; `SubmittingOK` that the draft remains until the submission has ended. The lemmas `FundingMove` and its
  variants say when a step leaves no orphan.
- Payments: what an operation relies on, that an invoice was made, an order created, an invoice settled, is never
  undone (`Grows`), so an order follows its invoice however late it is written.
- The lab: an answer is of the invoice in the field while one is awaited (`Waits`), until another one `crossed` it.

The assumptions are those the modules name, each evaluated by TLC in a run: that `None` is no element of the other
sets, that bounds are naturals, that a page or a log has room for something. Some say more. `TokensAssumption` gives
the first cells their form and the amounts their range (a u128); `InspectorsAssumption` has heights, rates and amounts
that are naturals, a rate `AR0` and a cap above 0, and a fee that is a part of its base, as `model.ts` fixes them.
`ReconciliationAssumption` and `ChannelsFit` give the statuses and channels their types; `VerdictsFit` says that
balances, quotients and the literals are in the range of the floats. `BrowserNodeAssumption` says that whatever
identities the running nodes have, there is another one: `resetIdentity` draws 32 random bytes, and no two draws
agree.

Only model-checked, because the prover has neither: liveness under fairness (`EverySyncEnds`, `RequestsEnd`,
`WorkerHeals`, `SessionHeals`, `SpinnerStops`, `BusyEnds`) and whatever needs ENABLED. Every other property of a
passing run is a theorem. No module declares a RECURSIVE operator.

## What is left out, and why

- Chain reorganisations except in the two inspectors that defend against them, and the three attempts inside an RPC
  call: one answer or one failure.
- The contents of transactions, cells and messages, unless a property depends on them; capacity and fees except in the
  hash-lock lab; byte, decimal and address encodings. Cryptography is perfect.
- Checks of a deployment or of a network that a page makes before it goes on: one failure among others.
- A second tab of the profile that resets the identity of the browser's node.
- Two networks at a time. A service serves one, so the network columns are constant.
- The read-only endpoints, the readiness verdict, rendering, DOB decoding, the parser of SPV proofs: no state that
  another step relies on. Message signing keeps nothing.
- The assistant: its retention is one DELETE after one INSERT, the rest is prompts, embeddings and MCP framing. Start-up,
  routing and error mapping. The one-shot scripts that deploy contracts or verify them against a node.

## Plan

1. BrowserSession composed with AuthChallenges, so that the token of a late login is followed into the service.
2. FiberPayments over MerchantOrders in full, statement by statement, in place of its statuses alone.
3. The extended-xUDT lab and the live verification scripts of the contracts, which drive the same token cells.

## Running

`tlc -workers 2 -config <cfg> <module>` for a run of `PROJECT.json`, `tlapm <module>_proofs.tla` for a proof. The MC
modules define operator values of constants and symmetry sets; the `.cfg` files give the rest.

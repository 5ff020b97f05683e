# 1delta-X in TLA+

1delta-X is an intent-settlement system: a maker signs an order off chain, a
filler delivers what the order asks for, and the `Settlement` contract moves the
maker's side. Around the contract stand token and position allowances
(`Permit3`), modules that touch lending markets and bridges, an orderbook, an
auction, and fillers that send transactions. This directory holds TLA+ modules
that model the system's own logic, TLC configurations that check them on small
instances, and theorems that TLAPS proves for every value of the constants.

- [Inventory](#inventory): the parts of the system and what makes each correct
- [Modules](#modules): which module models which code, and how
- [Runs](#runs): what each TLC run asks and shows, and its bounds
- [Proofs](#proofs): what is proved and along which argument
- [What the code does otherwise](#what-the-code-does-otherwise): where code and words differ
- [Left out](#left-out): what is only checked, and what is not modelled
- [Plan](#plan): the order of the work, and what is still to do

Paths below are under `src/packages/`.

## Inventory

### Settlement (`core/src/settlement`)

State: `filled[hash]` (anchor units filled, `MAX` once dead), the nonce bitmap
and floor of each maker, standing order approvals, and the expiry until which a
delegate may sign for a maker. One transient lock.

Operations: `fill`, `fillUpTo`, `fillWithPermit`, `fillWithPermitTake`,
`batchFill` (a try/catch around `fillSelf` per entry), `matchSettle`;
`cancelOrder`, `cancelOrders`, `invalidateNonceWord`, `rollbackNonces`,
`approveOrders`, `revokeOrderApproval`, `setOrderSigner`,
`setOrderSignerWithSig`.

Interaction: a fill pulls from makers by Permit3, calls modules, validators,
token hooks and the filler's callback. Every one of those may call back; only
the fill entries take the lock, so the registry calls can land in the middle of
a fill.

Within a fill, outputs go from the filler to their receivers (or are measured
there), items fund and draw on the maker's positions, and inputs are paid to the
filler from what items produced and then from the maker's wallet.

What makes it correct: each receiver gets its slice and the maker pays no more,
never out of what belongs to another order; an order pays no more than its total;
it pays out only on the maker's authority, though from the second fill on no signature is asked for;
whatever kills an order kills it for good; fill-once orders and brackets pay
once; a reverted or caught fill leaves no trace.

`matchSettle` nets several orders against the contract's own balance along a
schedule that the *matcher* chooses (PULL, ITEM, DELIVER, PRESEND, CALL). What
makes it correct: whatever the schedule, no maker pays more than its order owes
or gets less than its order asks, the matcher earns the spread and nothing
else, and each maker's `ItemPolicy` is kept.

### Permit3 (`core/src/permit3`)

State: token and taker allowances with expiries, unordered nonces, strict mode (a
maker's refusal that Settlement fall back to its plain ERC-20 approval). Operations:
approve, spend, revoke, lock down, and the signed forms. Correct when nothing
moves past a live allowance, a signature is good once however often it is presented,
and a revoke by its maker stops a fill that is under way.

### Pricing (`DutchAuction`, `Pricing`, `Proportional`)

No state: what an order owes and asks at a given time and fill. Correct when
every rounding favours the maker and partial fills add up to no less than the
whole.

### Modules (`modules`)

Code a fill calls: lending adapters, price and NFT modules, `OcoGroupModule`
(the first of a group to settle claims it), the bridge modules. The bridge has
state of its own:

- `BridgedOrderInbox` credits tokens that a bridge delivers to a commitment,
  activates an order of its own against it, follows `Settlement.filled` to see
  what was spent, and refunds the rest. Correct when the tokens it holds cover
  what it owes, per token, whatever order the deliveries, fills, settlements
  and rescues come in.
- `PositionFunnel` holds a position on one owner's behalf and spends it by
  grants.

### Order flow off chain (TypeScript)

Single-threaded, and every `await` is a place where another call may run.

- `orderbook`: `book.ts` (state: entries, per-maker counts, soft-cancel tombstones,
  dirty set) admits, replaces, evicts and rechecks orders, each after awaiting the
  chain. Correct when caps hold however calls interleave, a maker's retraction
  sticks, also across a restart, and the dead leave. `fills.ts` (records, log keys,
  last totals) indexes fill events from a live subscription and a backfill,
  through reorganisations; correct when no amount counts progress twice.
- `orderbook-worker`: a Durable Object with the same book and a fill ledger in SQL,
  fed by an alarm that scans confirmed logs and by reports of fillers. Correct
  when the ledger is the chain's behind the cursor, and the cursor gets there.
- `orderbook-server`: HTTP, storage and rate limits.
- `auction`: `round.ts` runs a round of bids per order, `auctioneer.ts` the
  rounds and the signing of quotes. Correct when the outcome is the rule's on
  everything that was bid, whatever arrives while signatures are verified.
- `beta-filler`: `engine.ts` ticks: it resolves what is outstanding, then sweeps
  the book with holds, a round-robin cursor and a total cap. `guard.ts` keeps a hot
  wallet within hourly budgets of gas and outflow and with at most one transaction
  outstanding, through crashes, drops and replacements. Correct when that holds
  whatever the node answers, nothing is filled twice, no order is starved, and no
  transaction stalls the wallet for good.
- `filler-worker`: the same filler loop as a Durable Object with alarms.
- `sdk`, `app`, `raffle-admin`, `docs-site`: encoding, user interface,
  documentation.

### Periphery, solvers, validators, lib

`periphery` has views and the ERC-7683 adapters, `solvers` example solver
contracts with guards around them, `validators` stateless conditions a fill can
be made subject to, `lib` the helpers that modules share.

## Modules

### `OrderState`: storage, and the operators that read and write it

`Ledgers` is the contract's storage as a record; `Terms` gives each order's
signed fields that the fill state reads (total, nonce, minimum fill, fill-once,
balance-sized, module-carrying, expiry). Each storage-writing function of
`NonceManager` and `OrderState` is an operator from a ledger to a ledger
(`BurnNonces`, `RollbackNonces`, `ApproveOrders`, `RevokeOrderApproval`,
`CancelOrder`, `SetOrderSigner`, `RelaySigner`, `OpenFill`), each gate a
predicate (`FillStateOpen`, `NonceOpen`, `FillFits`, `CanOpen`, `Verified`).

A signature is a key of a small set, or `EmptySig` or `JunkSig`; which keys
signed which order is part of `Terms`. Nonces are naturals, in words of
`WordSize`, and nomination permits burn in the namespace above `SignerNonceNS`.
`MaxUint` stands for `type(uint256).max`, the sentinel of a dead order.

Six fields of the ledger are ghosts, written and never read by an action:
`moved` (units paid out), `fills` (settlements), `granted` (orders whose
maker's authority was shown), `signed` (those among them shown by a signature or a permit),
`dead` (orders killed), and `wound` (delegates a maker has shortened).

### `OrderFills`: the state machine

A fill is a *frame*. Between the gates' reads of `filled` and its write the code
makes only static calls, so opening is one step (`Fill`, `FillUpTo`, …). The
frame's *window* is everything after: deliveries, items, hooks, the filler's
callback. Any function without the lock may be called from there (`CanCall`).
Then `Close` pays and frees the lock, or `Revert` puts the saved storage back.
A `batchFill` is a record of its own around the frame of its current entry; a
`matchSettle` opens several orders into one frame before its window.
`fillWithPermitTake` opens an order that still *owes* its authority; the frame
cannot close until `TakeByPermit` has shown it.

`Tick` and `SignNomination` are the world: time between transactions, and the
permits makers sign. A permit is good for anyone from then on.

### `OrderPromise`: what the contract promises

One action, `Transact`: a transaction settles some live orders, within their
totals, on authority shown, whole orders once and rivals not at all. `OrderFills`
implements it, read at the last committed storage (`Committed`).

### `MatchSettle`: the netting of one match

Starts where the orders are open, with their slices computed. `Pull`, `Deliver`,
`Item`, `Presend` and `Call` are the steps of the schedule in any order, `Flush`
the final checks, refunds and sweep. The `pool` is Settlement's balance.
Ghosts record per order and token what was drawn, gained, paid and returned, so
that the properties are stated from what moved, not from the contract's books.

The match itself is chosen in `Init`, from `Plans`, and never changes.

### `BridgedOrderInbox`: the destination end of a bridged order

The contract's storage is one variable per mapping: `commits` (the record of a row),
`activeRow` of an order, `liability` and `orphaned` per token, the registered
(`live`) and queued (`pending`) compose sources, the queued `strayRescue`s. A row is
a commitment: order, beneficiary, token. Anybody may write one, so a stranger's
row beside the user's on the same order is an input like any other. `balance`,
`filled` and `orderApproved` are the inbox's entries in the token and in Settlement.

Across delivers tokens and message in one call (`HandleV3AcrossMessage`).
LayerZero delivers tokens first (`LzReceive`, external) and the message in a
later transaction, or never: `flight` holds what is still to be composed, with
its arrival time, and `LzCompose` credits, orphans or refuses it. `Sync` follows
`Settlement.filled`, `SettleRow` refunds, `Rescue` and the stray-rescue actions
are the owner's two ways to take what is nobody's.

A fill is one step here. The inbox is a maker like any other to Settlement, and
its own entries are locked against one another, so that nothing of a fill's
window reaches a row; the owner's calls are transactions of their own. A source is
registered only for the token it delivers, which the contract cannot check and
its owner must. The ghosts record what fills drew, and when a source was last removed.

### `FillerGuard`: the wallet and the chain

`mem` is the engine's state and `disk` its last snapshot; `pc` tells at which
await each caller stands and with which local copy of the record. Every await of
`broadcast` and `resolvePending` is an action boundary, so a block, a crash, a
failed save or another caller may come between any two. Where an RPC may fail, the
failing answer is an action or a disjunct of its own.

The node the filler asks holds `node`; `network` is what any node holds. `Evict`
takes a transaction out of the first only: our node then truthfully says that it
does not know it, and another may still mine it. `MineForeign` is a transaction
sent by hand from the same wallet. Budgets are one map from transaction to gas,
reservation and age, since both are charged at one moment; an age stands for a
date, and `Pass` advances every age while no call is under way: a tick is short
against the unit of time, one minute.

It may do so between a send that failed and the question whether the bytes arrived
(`guard.ts:481`): the proxy timed out after relaying, or the question reached another
backend. `AskedUnknown` then undoes charges and record of a transaction that may mine.
The ghost `undone` holds the sends taken back so, those that some node had at that moment
and no others: `OneOutstanding` and `WithinBudget` hold of everything else. A send that no node had
and that comes back with a restart, since undoing it was not saved, is not excused.

### `AuctionRound`: bids, rounds and quotes

`rounds` is the list of round objects, `current` the one the auctioneer's map
holds: a submission keeps the object it began with, so it may come back to a
round that was settled, pruned or followed by another. `Submit` is `submit` up to its
awaits, `Verified` the rest. `Displaced` and `MayPlace` are `placement` (whose place a bid
would take, and whether it may), `Placed` the round after it, `SelectQuote` the SDK's rule.
`Settle` freezes a round, `Mint` signs its quote after an await that may fail.
The ghost `heard` keeps every authentic bid that reached a decision.

### `FillIndex`: the orderbook's index of fills

`chain` is a sequence of blocks that may lose its last one, `feed` the logs the
subscription has delivered and the queue not taken. `job` is the record
`ingestLive` is completing, `scan` the backfill: what it asked for is captured
when asked (`Ask`) and applied when it comes (`Answer`). `Resolve` and `HeadRead`
are the two readers of `filled`. The ghost `unseen` holds fills lost before the
subscription began, whose removal nobody hears of.

### `Book`: the orderbook node

A book is a record, so that `admit`, `evict`, `tombstone` and `applyVerifiedCancel`
are functions from a book to a book, as they are synchronous in the code, and an action
is what happens between two awaits. A `task` is a call that awaits: its verdict is
taken from the chain in `LensAnswers`, and applied later. A recheck captures
*objects*: `same` loses those that leave the book meanwhile. `store` is the
transport's history, which `Restart` replays topic by topic. A replace whose cancel has
expired is refused before any await. Three ghosts: what its makers took off this node
while it was listed, and the history and the time of the last restart.

### `WorkerFills`: the worker's durable book and ledger

The SQL tables are the variables `orders`, `graves`, `fills` and `pending`; they
survive `Restart`, the jobs do not. `applyLogs` is a job (`work`), run by the alarm
over a range and by a reporter over a receipt, with a step at each of its awaits;
`cumulativeAt` may answer for the block, for the head, or not at all. A block may
be reorganised only while it is not confirmed. The ghost `relisted` holds the orders
admitted again after their grave said that they were filled.

### `Engine`: the filler's tick

The fate of the outstanding transaction is one variable here; `FillerGuard` is what
lies behind it. `tick` carries the sweep: the line of orders, the book's figures
when it was fetched, what was spent and evaluated. `saved` is the last snapshot,
and only what the code saves is in it. `own` is a ghost: orders whose fill
landed while the book serves the figure it was sized by. The orders a tick goes
through are any line that `OldestFirst` and `RoundRobin` allow, which say of a line
what the code's sorts leave.

### `Pricing`: ticks and slices

The views of `DutchAuction`, `Pricing` and `Proportional` as operators. A function that
may revert is the set of its results, empty where it does: `Bumps` of a curve or clock, a
bid or a module's answer; `Resolve` of a marker against a balance. `OutTick` and
`InTick` are the price of a leg at a bump; `OutputAt` and `InputOwed` the slice of one
fill, which a context (`FillCtx`) describes. Overflow of a product reverts in the
code, so that it removes fills and changes none; the operators leave it out.

### `SlicedFill`: an order filled in slices

One order out of `Orders` (`OrderTerms`: what orders are, and what is assumed of them),
its counter, and what each leg has received or given. `FillSlice` takes a size and a
moment of the filler's choosing, prices every leg with `Pricing` and adds it up. Which
fills are open is `OrderState`'s business; this module asks what they add up to. It is the
abstract specification of `TokenFlow`.

### `Permit3`: the allowance hub

Its storage is a record; an operation that may revert is the set of its results. The
token book and the taker book follow one library (`Allowance.sol`), so they are one map,
and the kind of the key tells them apart. `Spend` is the only way down, `Approve` and
`Granted` (a signed batch) the ways up; one bitmap of nonces serves batches, one-shot takes
and signature transfers alike (`UseNonce`).

### `TokenFlow`: the tokens of one order

`world` is what a transaction may change: balances, Permit3's books, plain
approvals, the maker's position, the counter. `todo` is the calls that the open fill has
left, laid out by `Plan` for each way to fill (outputs first or inputs first; pulled by
either approval; with a permit batch; with a one-shot take), and empty between fills; `frame`
is what else that fill remembers, the world to restore among it. `Open`
is `_fillCore` up to the first call, then each of `Deliver`, `RunItem` and `Pay` is one leg or
one item, whole: the pull with its fallback, the funding of an item before it is drawn
(`ForSlice`), the proceeds since the snapshot and their surplus. `Revert` may come at any
call and restores the world, what others did in the fill included.

Between any two calls, and between fills, `Others` act, up to `Quota` times: anybody
sends tokens to anybody (a measured delivery is one such gift), or submits the maker's
signed batch; a Dapp draws on its own entries or permits; the maker locks down,
invalidates nonces, turns strict, revokes, or grants again. The lending pool is a number
per token that a module raises and lowers. Ghosts: `delivered` and `paid`, measured at the
receiver; `held`, what lies with Settlement or a module and is no order's; `net`, what was
drawn on each entry less what was granted anew; `uses`, `elsewhere`.

### MC modules

Each `MC…` module is the instance of its module for TLC: orders of each kind, the
plans of the matches, the bids, the events of a chain. Where a behaviour could have
too much of everything, `Weathers` lists what it may have of each (sends, faults,
restarts, …), and one is chosen at the start: every kind of trouble is met, and
not all of them together.

Definitions headed "Mutant" are wrong versions of the definition after them. They
are used by no specification; each is a plausible bug that a property must see.

## Runs

| run | shows |
|---|---|
| `order_fills` | A balance-sized order drawn by a permit and two fill-once orders on one nonce, one of them balance-sized too, filled singly, up to, in one match and in strict and best-effort batches whose entries fail at a gate or in their window, against every way to kill an order, from inside callbacks too. Whole orders and brackets pay once; nothing revives; committed transactions keep `OrderPromise`, so that nothing is paid on nobody's authority. |
| `order_authority` | An order with a module signed by a delegate, who is named directly and by relayed permits, shortened, revoked and lapses, against partial fills, entries that fail, approvals and revocations. The counter tells exactly what was paid, a part-filled order stands on somebody's authority, a wind-down is final. |
| `match` | Four plans, every schedule of each: *netted*, three orders of two makers with an over-producing borrow, shared finite allowances, a fee-on-transfer token and a donated balance; *ladder*, an ORDERED and a CANONICAL order beside a free one; *group*, an ATOMIC group of three items; *cycle*, two orders each funded by the other's borrow. Nobody is overdrawn or short, and the matcher earns the spread. |
| `inbox` | A stranger's row and the user's on one order, and rows of an order of the wrong shape that can never fund one; Across and LayerZero deliveries, orphans, donations, fills, refunds; announced rescues overtaken by deliveries and fills; sources queued, applied, removed and queued again. Each row keeps to its own money, what an order may spend is there, the balance covers every debt and stays covering it through a rescue, no source is trusted sooner than the delay. |
| `guard` | Two transactions through RPC errors, lost answers, failed saves, a crash, evictions other nodes do not share, and a nonce another hand takes. But for a send taken back while another node had it (`undone`): one outstanding, in memory and on disk, and the hour's real spending within both budgets. A transaction the node holds is never let go; and whatever is outstanding is resolved in the end. |
| `guard_admin` | *Violation.* An operator's rebalance call and a tick overlap at their nonce reads and leave two transactions in flight. |
| `auction` | Three fillers, room for two bids, a forged bid, a forged declaration and a bid of another round; two submissions in flight while the round closes, settles, is voided, pruned, opened again. What was kept decides as what was heard would; a settled round passes the audit; quotes go to who earned them. |
| `book` | Announces, soft cancels and a replace of two makers with two calls awaiting at once, deaths on chain whose events are late or lost, a node that errs, a restart. Caps and counts hold; what a maker took off stays off to its deadline; what the replayed history took away stays out after a restart; the dead leave in the end. |
| `fill_index` | A backfill beside the live feed, or reorganisations under the live feed, in a ring of two rows. No amount counts progress twice; no row stays of a fill the chain lost. |
| `worker` | The scan through a node that refuses ranges, fails and reorganises, passes cut short, restarts, reports, posts, expiries and rechecks. No hole behind the cursor; the scan's amounts fit; a grave says what happened; the scan gets to the head. |
| `engine` | Three orders, a tick that evaluates one, rivals, reverts, lost transactions, throwing strategies, unpriced fills, a restart. The cap is overshot by one fill at most; a fill just landed is not quoted again; every order has its turn. |
| `flow` | Orders of each way to be priced, cut into fills in every way, each at any moment and with or without the premium of an outsider; and, while others act between any two calls, orders that lever up on each kind of funding, repay ahead of the call, withdraw in one piece for two legs, have their outputs measured, hang on approvals of every kind, or bring their grants with them. What is delivered and paid is `SlicedFill`'s; no token is counted twice or taken from another's; a loan never outruns its collateral; nothing is drawn beyond what was granted; a complete revoke holds, in the middle of a fill too. |

### Bounds

For the settlement, totals of 1 and 2 units with a minimum of 1 give first and last
fills; one nonce word of 2 bits gives a neighbour to burn by mistake; two clock
ticks give before, at and after an expiry; two entries in a batch give one that
fails before one that stands; two makers give a stranger. The proofs of
`OrderFills` do not depend on any of them. `MaxPermits`, `MaxBatch`, `MaxMatch`
and `MaxTime` bound what the world does, and nothing in the storage.

For the match, three orders are enough for one to fund, one to be funded and one
to be robbed; amounts up to 4 give a leg under-, exactly and over-credited.

For the inbox, one order with two rows is the smallest contest, and an order of the
wrong shape has rows that can never fund it; two deliveries of one or two units
give a row that is short, exact and over-credited, and a clock of three ticks an
expiry, its edge and a whole delay. One token is enough: the books are per
token, and a row of a token other than its order's can no more be activated than
one of the odd order.

For the guard, two sends are one transaction and what may follow it, at its nonce too where it was
undone; the ages keep the order of the code's times (a minute, two, fifteen, an hour), the timeout and the
drop being due at one age and met by two ticks; one re-broadcast is enough to run out of them before the drop;
`MaxUpsets` bounds crashes and foreign transactions together.

For the auction, room for two bids and three fillers make a bid that displaces,
one that is displaced and one refused, and two submissions at once make every
race of two; two rounds of one order let a submission outlive its own. For the
book, room for two orders of two makers has every cap in play, with two
calls, two tombstones and a maker's cap of one or of two; the clock passes one deadline and not another. For the two
indexes, four events in three blocks of at most two give an earlier row, a
neighbour in the same block and a later total; a ring of two rows and chunks of
two blocks end in the middle. For the engine, three orders (one permitted, one
nobody takes) and one evaluation a tick are the least in which a cursor matters.

For the flow of tokens, each shape of order is a behaviour of its own, so that shapes add
up and do not multiply. The priced ones, with nobody else about, have anchors of 4 and 5
cut in every way, and amounts so that no division comes out even; five ticks under
three blocks' fees stand before, at, within and after a decay and every segment of a curve
(of which the proofs bound none). The others have anchors of 1 and 3, allowances that
cover one slice and not two, or are short by one, an expiry between the two ticks, and
`Quota` interventions: two, since an attack on a revoke is one revoke and one act after it,
and a grant drawn twice is two draws. A gift of 2 is a measured output, or enough to be
mistaken for proceeds. `Unlimited` is above every amount.

### Fairness and deadlock

The contracts, the auction and `FillIndex` have safety properties only: nothing
obliges anybody to call them.

- `guard`: ticks keep coming and end (weak fairness of the ticker: an alarm re-arms
  itself), time passes between them (strong, since each tick holds it up), the
  node answers now and then with what it knows (strong fairness of `ReceiptFound`
  and `KnownAbsent`; errors may come between), and what nodes hold is mined or forgotten
  by all (weak). Nothing is assumed of saves, sends, evictions or crashes, of which
  there is a last.
- `book`: the interval timer of `start` fires (weak fairness of `Revalidate`) and a
  call that awaits is answered or errs (weak, per task). Errors are bounded;
  events may all be lost.
- `worker`: the object's alarm re-arms itself in every outcome (`do.ts`,
  `ensureAlarm`), so its steps go on (weak); failures are bounded.
- `engine`: ticks go on (weak), an outstanding transaction is mined or lost, the
  book indexes what happened, and holds run out (weak). Restarts, rivals and
  failures are bounded, and nothing says which order a strategy takes.

Deadlock is checked where the world never stops: `order_fills`, `order_authority`,
the inbox, the guard. A settled match, a complete order after the last intervention, an
auction past its last round and a chain at its bound have nothing left to do, and their
runs do not check it.

## What the code does otherwise

`guard_admin` violates a statement of the repository, quoted in `PROJECT.json`: ticks
are serialised with ticks, and the two administrative calls are not serialised
with either. Both transactions carry one nonce, so one of them mines, and the
budgets charge both, but the record of the first is lost. It lets no maker be overdrawn.

The rest was met while modelling. The models do what the code does; the
properties are stated so as to hold of it, and this list says what they leave out.

- `BridgedOrderInbox.sol:725`: the note above the stray rescue promises that it never
  reaches a delivery in flight. The delay protects those in flight when it was
  *queued*; one that arrived a moment before it is executed is taken (`AlwaysRefundable`
  and `Backed` speak of tokens whose debts the balance covers).
- `DutchAuction.sol:378`: a pair of curve points that is flat or falls is refused by name,
  which cannot happen: the first point later than now stands after one that is not
  (`CurveAlwaysPrices`). An ill-ordered curve is priced, by the segments it still has.
- `guard.ts:481`: after a send that failed, one "not found" undoes the charges and the record, as it
  "proves the node refused the bytes" (`guard.ts:478`). Another node may have them:
  `src/tasks/22-filler-send-error-rollback.md`, open, says that this "leaves a tx that mines
  uncounted; the next tick may sign another tx at the same nonce". The model does so, and without
  `undone` in them TLC finds `OneOutstanding` and `WithinBudget` violated: two transactions in
  the network of which one is on record, and an hour's spending above a cap. (Both
  speak of the sends not in `undone`.) `Engine` has no fill that lands after its record was let go,
  undone or dropped: such a fill never counts towards the total cap.
- `guard.ts:470`: budgets hold one entry per hash. When a dropped transaction is signed
  again with the same bytes and that send fails, undoing it removes the first charge
  as well, though the first may still mine. (`WithinBudget` excludes it: no two
  sends have the same bytes in its run.)
- `round.ts:188`: after the awaits, settled and voided are asked again and closed is
  not: a bid verified after the close is placed in a round not yet settled
  (`round.ts:44`). Among equal bumps a full round may keep other bids than the tie
  rule would choose, so that winners may differ among equals (`OutcomePreserved`
  speaks of the price). An empty round that closed stays open and is never
  pruned (`auctioneer.ts:147`); a failed minting is not tried again by `settleDue`.
- `book.ts:186`: a cancel published between the history query and the subscription of
  its topic is lost. `book.ts:828`: a recheck evicts by hash, and may so evict
  an entry announced again while it awaited; it can be announced once more. After
  a restart, tombstones of listed orders come back as pending ones, which a
  flood may flush. And the tombstone of an order not seen yet is bounded by
  `maxTtlSeconds`; the comment at `book.ts:494` says that it is extended to the order's
  deadline once the order is seen, which only `admit` does, and an announce reaches
  `admit` only past `precheck`, which refuses what is soft-cancelled (`book.ts:294`): the
  extension happens only when the cancel comes during the announce's awaits. (`HistoryStaysOut`
  speaks of the time such a tombstone lives.)
- `fills.ts:136`: the live queue checks for a duplicate before its awaits and pushes
  after them, and the backfill may have pushed the log meanwhile: a fill can have two
  rows. One of them carries the amount. `fills.ts:211`: an answer the backfill asked for
  before a reorganisation is stored without asking again; where the live queue has handled the
  removal in between, `retract` found no row, and the row of a fill the chain lost stays. (The
  run of `FillIndex` has a backfill or reorganisations, not both.)
- `core.ts:1106` (worker): two reports of transactions of one block both find it not
  sized and both count its progress (README of the worker, 208: only one does). A
  report of block 1 and one of block 3 leave block 3 sized against block 1; the scan
  of block 2 then sizes itself against block 1 too. A reported receipt that is
  reorganised out leaves its row. `core.ts:1161`: where the node serves no historical read the
  total at the head stands in for the total at the block, and `applyLogs` differences it like
  any other; the README of the worker (155) says that the amount is then left `null`, which is so
  only where the earlier total is the one missing. (`LedgerMatchesChain` sums the amounts of
  orders that the scan alone has sized, from totals at their blocks.) `core.ts:563`: the
  grave of an order listed again by a post that was under way when it filled up is replaced by the
  next reason to evict it. (`GraveTellsFate` leaves such orders out.)
- `engine.ts:388`: a fill that cannot be priced never counts towards the total cap.
  `engine.ts:501`: an order whose permit stage fails does not move the cursor, so a dead
  permit at the head of the round is met every tick. `engine.ts:558`: between the commit
  of a fill and the save of its `bookFillable` a crash loses the hold.

## Proofs

TLC evaluates every assumption below in the runs of its module.

### `OrderFills`

`OrderProofs` proves every
property of `OrderFills` for any number of orders, makers, amounts, batches and
any interleaving. Assumed, in `OrderState`: `TermsAssumption` (an order's fields have
their types), `WidthAssumption` (totals are at most `MaxUint`), `SizedAssumption` (a
balance-sized order carries no module), `NonceAssumption` (order nonces lie below
the namespace of nomination permits), `SigAssumption` (an empty or junk signature
is no key); in `OrderFills`: `InputAssumption` (inputs have their types).

`TypeCorrect` is inductive as it stands, and includes that an idle contract has
an empty frame.

None of the others is. The reason is the first-fill skip: a part-filled order is
opened without a signature, so that it was *authorised* must be carried from its
first fill, through revocations (which kill it), through reverts (which restore a
storage that must itself have been sound) and through nested registry calls. The
inductive invariant `Inv` says of one storage that it is sound (`Sound`), given
the orders a frame owes and has open, and demands it of three storages: the
live one, the one the frame saved and the one the batch saved. `Sound` is a
conjunction of named parts: the counter equals paid plus open; part-filled orders
stand on a signature or approval; paid orders are granted; a whole order that
paid is dead; the dead are marked; wound delegates' permits are unusable. Each
storage operator gets lemmas on the parts it may disturb, each action a step.

`Refinement` shows that a step which changes `Committed` is a `Transact`, and any
other a stutter. Its invariant relates the live storage to the saved one
(`Since`): what was paid since belongs to orders that were alive when the
transaction began, and what died stays dead.

### `BridgedOrderInbox`

`BridgedOrderInboxProofs` proves, for any commitments, tokens, orders, amounts
and delays: `TypeCorrect` (no subtraction goes below zero), `Funding`
(`FillableIsFunded`), `Isolation` (`RowIsolation`), `TrustIsSlow`
(`NoSuddenTrust`), `RefundsSucceed` (`AlwaysRefundable`) and `PoolStaysBacked` (`Backed`).
Assumed: `TermsAssumption` (an anchor is positive and below the
sentinel), `BoundsAssumption` (types), `FiniteAssumption` (there are finitely many orders and
beneficiaries, so that rows can be summed), `NoneAssumption`.

Funding and isolation are not inductive. `Invariant` proves `Inv`, which ties the
three books the contract never compares: an order's active row, Settlement's
`filled`, and what the row has accounted. `OrderSound`: an order with an active row
is approved at Settlement and backed by that row (`Backs`: the anchor is there net
of refunds, and what fills drew on the row is exactly `filled`); an order without
one is not approved, and untouched or dead. `RowSound`: a row marked approved is
its order's active one, and any other is fully accounted and within its credits.
`SentinelIsLate`: an order is dead only when its expiry has come, so no activation
can follow. `Undrawn`: an order never filled drew from nobody. The actions
that touch a row each have a lemma; the others leave `Still` alone.

What the pool holds is compared with sums. `BooksBalance` shows that the liability of a token
is the sum of what its rows are owed, row by row; from it follows that no row is owed more
than the liability, so that a refund never runs below zero, and that a step which leaves a token
short can only be the execution of a stray rescue.

### `Pricing` and `SlicedFill`

`TokenFlowProofs` begins with prices: it proves of every order, moment, balance and size what
TLC checks on small ones. Assumed: `OrdersAssumption` (orders have their types, a premium is at most
`BPS`). It goes from arithmetic up: ceiling division (`CeilDivBounds`), the bump whatever
moves it (`BetweenItsPoints`, `CurveAlwaysPrices`, `BumpInRange`), the ticks
(`TicksInBand`, `QuoteFloorSound`), the proportional markers (`ProportionalRoundTrip`,
`ResolvedIsCapped`), and the sum of the slices (`SumsHold`, of the specification `Slices` that
`TokenFlow` refines).

`SlicesAddUp` is not inductive: that a complete order's fixed side is exact says nothing
of an incomplete one. `Due` says what a fixed leg has moved at every `filled`: the
floor or ceiling of its share so far, of which each slice is the difference. The
floors and ceilings are inductive (`SlicesInv`), each slice being rounded the maker's way.

### `Permit3` and `TokenFlow`

`TokenFlowProofs` goes on to prove of every state of the books: what a spend takes and leaves
(`SpendIsBounded`); that a nonce lets one permit through, of whatever kind
(`NoncesAreSpentOnce`); that shut books give nothing to anybody (`ShutBooksGiveNothing`).
And, for any order that has the types of its fields, any books, any
gifts, grants and number of interventions: `OnlyTheGranted` (`GrantedOnce`), `RevokeStands`
(`RevokeHolds`) and `TokensFollowTheSlices` (`Implements`). Assumed of the books:
`UnlimitedAssumption` (the greatest amount is positive), `KeysAssumption` (no key is of both
books). Assumed besides, and with what
`OrderTerms` assumes: `ShapesAssumption` (types; no output of the order goes to its
filler) and `ActorsAssumption` (the maker, its filler, Settlement, the module and the
treasury are different accounts).

The argument goes by what a transfer may do. `Even` says of two worlds that a nonce which let
one permit through lets no second one, and that counter and ledgers are as they were;
`Fair` adds that a sealed maker stays sealed and loses nothing. Both compose, so a
call made of several transfers (a pull with its fallback, a funded deposit, a draw and its
surplus) needs each of them to be fair, and each call has one lemma (`…Result`). A draw from
the position is not fair in itself: the lemma of the draw shows that its authorisation
cannot come from a sealed maker.

`GrantedOnce` bounds what was drawn, and not what may still be. What is inductive is that,
of every entry and in every storage a revert may go back to, what was drawn of it, what is left on it
and what batches whose nonce is fresh still promise of it come to no more than was given:
a batch that goes through moves its promise to the entry, a draw moves it on.

That the tokens follow the slices is not inductive: mid-fill some legs have moved and
others have not. `Inv` says of an open fill that its context is one `SlicedFill` allows
(`Admitted`), and that each leg has moved by exactly what it is due if its call is no
longer left, and not at all if it is (`Moved`); which needs that no call is laid out
twice (`Distinct`). The last call leaves none, and the step that makes it is a
`FillSlice` of `SlicedFill`; any other step leaves `Settled` as it was. `SumsHold` then
carries over to the tokens: floors, ceilings and the exact fixed side.

Where the tokens are, `NothingStays` (`PoolIsNobodys`) and `MakerComesOut` (`MakerIsPaid`)
prove of every order that `LeavesNothing`: no output goes to Settlement, what is drawn to it is
of a token that an input pays (both are what the lens asks of an order before it is signed), and an
output to the module is pulled, for an item that spends it. TLC checks of the orders of
the run that they do. Such an order parks nothing where no fill takes it from; one that does not
is its maker's loss, and the two properties are false of it. An output that is *measured* at
the module is left out because there the books cannot tell a delivery from a gift:
`held` counts both as nobody's.

Both properties are of a fill's end. `BooksInv` is what they are in the middle of one, and in
the world that a revert goes back to. `Estate` is what a maker has (`Purse`: wallet, position, and what lies
at Settlement and the module) against what the books say of it (`Booked`); transfers between the four
places leave it, a pulled delivery and a payment change both sides by the same. `Pool` says
what lies at Settlement and the module beside what is nobody's: while an
input is still to be paid, its proceeds since the snapshot; at the module, what legs sent ahead
that no item used. `SentAhead` gives each such leg an item that is still left, for which items must run
after all deliveries and before all payments (`Ordered`, of every plan). A *measured* delivery is credited
before anybody may have moved a token in the contract's sight: until its call, the estate is above what is owed by what
the maker's balance has risen since the fill opened (`Solvent`), and no second leg measures the same
balance (`Measurable`). `Apart` is what interventions leave of all this: a gift to Settlement is nobody's unless
it comes while its token is measured, and what a Dapp takes is booked as taken.

### Sums

`SumProofs` is what the books of the other proofs rest on: what `SumFunction` and
`SumFunctionOnSet` of the community modules give over a finite set. The fold behind them is an
operator's argument away from the library's induction, so the induction is made by hand: any set of
subsets that holds the empty one and, with each, one element more, holds the whole set
(`SubsetsOneByOne`, by a largest counterexample). From it the sum's type, its
step by one element, its change in one element, splitting and monotonicity.

### `MatchSettle`

`MatchSettleProofs` proves for every plan of finitely many orders, every schedule and every
balance to begin with: `MakersAreWhole`, `OnlyTheSpread`, `OnlyTheGap`, `GroupsStayWhole` and
`PresendSparesObligations`. Assumed: `PlansAssumption` (a plan has finitely many orders, whose
fields have their types), `BalancesAssumption` (balances and allowances are amounts).

They are properties of a match that *settles*, after the checks of `Flush`; what makes the
checks enough has to be carried through the schedule. `IInv` has a part for each book:
`Rows` (an order's credit is what was drawn and gained for it, and a token that
is no leg of it goes straight back), `LedgerSums` (`outstanding` is the sum of what the orders are
due), `Conserved` (pool, matcher and what was burnt are what they were, and what orders put in
and have not got back). At the flush no order is due anything, so that the pool holds the
spread and the donations, and the sweep takes them. `Gaps` and `Groups` say of a partial schedule
what the item policies demand of the whole.

### `FillerGuard`

`FillerProofs` proves `OneAtATime`, `BudgetsHold` and `OnlyTheGone` for any keys, limits,
caps, tries and times. Assumed: `TimesAssumption` (a
drop is later than a timeout and earlier than the budgets' hour), `CapsAssumption` (types, a gas
limit is positive), `NoneAssumption`. Their hypothesis is `Senders = {Ticker}`: with a second caller of
`broadcast` the first is false, as `guard_admin` shows, and the engine's tick is the only caller a
deployment has unless its operator uses the administrative calls. `TypeCorrect` needs no such hypothesis.
Nothing is assumed of the nodes: what a "not found" makes the guard take back while another node has it
is what `OneOutstanding` and `WithinBudget` leave out, by name (`undone`).

None is inductive. `Inv` adds to `OneOutstanding` what the ticker knows at each of its awaits
(`Outstanding`, `Informed`: what was true when asked is so when used), that a transaction is
numbered before it is seen (`Numbered`), what a node or the chain may hold (`Mempool`); and of
both ledgers, since a restart swaps one for the other, that each covers what may still be
spent, `undone` apart, and stays within the caps (`Ledgers`), with the room that a transaction about to
be committed still needs.

### `AuctionRound`

`AuctionRoundProofs` proves `CappingPreservesOutcome`, `SettledRoundsCheck` and
`QuotesAreEarned` for any bids, cap, rule, number of clients and rounds. Assumed:
`RoundAssumption` (a cap of one at least, of two under the second-price rule; `MinBidders` is no
more than the cap), `BidsAssumption` (types), `NoneAssumption`.

What a round keeps says nothing of what it refused; the invariant does: of every bid heard, a better
one of its filler stands, or the round is full of better ones (`Covers`). `KeptDecides` is the
theorem within: by `Covers` the two lowest of all fillers are, in their bumps, the two lowest kept,
and if anybody was left out there are at least `MinBidders` of either. A round that is settled does
not change again, nor what is quoted of it (`QuotesStay`).

### `Engine`

`FillerProofs` goes on to prove `CapIsKept` (`CapKept`) and `OwnFillsAreHeld` (`OwnFillHeld`) for any
orders, values, cap, means of a tick and number of upsets. Assumed: `EngineAssumption` (orders
are finitely many numbers, in the order of their hashes; sizes, values and bounds are amounts;
`Nothing` is neither an amount nor a transaction).

Neither is inductive, because what was done and what is known of it are apart for most of a tick: a
transaction lands, is priced, counted, and saved, with a restart possible between any two. `Recorded`
says how memory and disk may differ: only from the landing of a transaction to the save that counts
it. `Counted` then says of the real total that it is the counted one, plus the value of the
transaction on disk if that was mined; and that nothing is on its way but below the cap, so that
one fill at most goes past it. `OwnHeld` says of every fill that landed, in memory and on disk
separately, that it is held at the figure the book serves, or that its transaction is still the
outstanding one; a restart swaps one for the other. `NotInLine` carries it from the fetch of the book to the
sweep: what is held is in no line.

### `Book`

`BookProofs` proves `BookWithinCaps` (`CapsHeld`) and `RetractedAreOut` (`RetractedStaysOut`) for any
orders, makers, messages, caps, tombstone bounds, clocks and number of upsets. Assumed:
`BookAssumption` (the orders are finitely many and `None` is not one of them; the types of what is
known of an order; bounds of one at least).

The invariant `Inv` is about every book that a call computes on its way, since a cancel is an eviction, a run
of tombstones and a trim in one step. `Control` types the calls, `Calls` says of one that
waits what it still may rely on, and `Kept` has three parts:

- `Exact`: the counts that the caps are checked against are those of the orders listed. A
  replacement may pass a cap while its predecessor is still listed (`AdmittedResult`: what is within
  the caps is the book without it), and it leaves in the same step.
- `Stands`: a tombstone of an order that was withdrawn lasts to that order's deadline. Trimming takes
  the tombstones that are only pending first, and `FewReal` (by the pigeonhole) says that while
  the retracted orders fit, there is a pending one to take (`TrimmedResult`, `TrimStands`). Pruning and
  a later time keep it (`Marks`).
- `StaysOut`: what stands is not listed, at admission and at the replay after a restart.

A cancel names a set of orders, which are buried one by one in an order that the code does not
fix: `RetractResult` is an induction over the subsets buried so far (`SubsetsOneByOne`).

## Left out

Only model-checked:

- `CollateralKept` of `TokenFlow`: it speaks of orders whose items leave the collateral's and the
  loan's token to the one that levers up, and of sums of slices rounded in opposite
  directions, which has not been worked out call by call;
- `HistoryStaysOut` of `Book`: it needs an account of every message of the history through
  the three topics of the replay;
- `RowsFollowChain` of `FillIndex`, `LedgerMatchesChain` and `GraveTellsFate` of `WorkerFills`: these two
  modules have no proofs;
- `DeadLeave`, `CatchesUp`, `ComesUp` and `Resolves`: liveness, which the prover does not do.

Not modelled in `OrderFills`: what a single order's window moves (one `Close` here, call by
call in `TokenFlow`), its prices (in `Pricing`), and validators and
exclusivity, which can only refuse a fill. Gas, encoding and hashing are left
out; a hash is the order itself. A nested fill from inside a window is excluded
by the lock, and the model has the lock.

Not modelled in `Pricing`: the bytes of legs and curves, and overflow.

Not modelled in `TokenFlow`: SETTLE items, the callback executor, invariants (post-checks) and
validators of an order, amounts past a `uint160` (refused, as here those past `Unlimited`),
a payee other than the filler, tokens that charge for a transfer (in `MatchSettle`). The
lending pool lends whatever it is asked to. That a maker has approved Permit3 itself for its
tokens is assumed. In `Permit3`: the forms of `transferFrom` and of signature
transfers that take many at once, the bytes of signatures and witnesses, and the taker
book's re-entrancy lock.

Not modelled in `MatchSettle`: decoding and validation of a plan
(`_collectTokens`), the opening of its orders, which is in `OrderFills`, and the refusal of a leg
addressed to the executor (`Batch.sol:718`), which can only refuse a match.

Not modelled in `BridgedOrderInbox`: the two-step handover of ownership, the bytes
of commitments and orders (`_staticShapeOk` is a field of `Terms`). Its tokens
move what they say: a fee-on-transfer token is not modelled here.

Not modelled in `FillerGuard`: the backoff schedule and the gas-price ceiling, which
only keep a send from happening; what is sent and why; the pre-audit total, which is
`Cap` in `Engine`; a reorganisation of the chain, which the code does not handle either:
a receipt once read is final.

Not modelled in `AuctionRound`: the progress a quote is bound to, and its deadline. In
`FillIndex`: the replayed price and time of a row. In `Book`: shape and token policy of
admission, invalid signatures (which leave no trace), the order of equals. In
`WorkerFills`: caps, soft cancels and rate limits of a post, the bodies of rows, the ring
bound of the ledger. In `Engine`: the dry run, the expiry margin, the rebalancer, quotes.

The components that have no module yet, and those that will not get one, are listed in
`PROJECT.json` with the reason.

## Plan

1. Fill state, authority, batches (`OrderState`, `OrderFills`, `OrderPromise`) with
   proofs. *Done.*
2. Netting (`MatchSettle`). *Done, with proofs.*
3. `BridgedOrderInbox`: credits, activation, fills, settlement and rescue. *Done,
   with proofs.*
4. `FillerGuard`: reservations, broadcast, crash, drop and replacement. *Done, with proofs
   of its safety.*
5. `FillIndex`, `Book` and `WorkerFills`: reorganisations, backfill, scan, recheck. *Done, with
   proofs of `Book`'s caps and of what is retracted.*
6. `AuctionRound`: deadline, settlement, late bids. *Done, with proofs.*
7. `Engine`: the sweep, the total cap, holds. *Done, with proofs of the cap and of the holds.*
8. `Pricing` and `SlicedFill`: bumps, ticks and rounding. *Done, with proofs.*
9. `Permit3` and `TokenFlow`: the books, and the tokens of one order under them.
   *Done, with proofs of grants, of a complete revoke, of the refinement and of where the tokens are.*
10. `Oco` (the claim of a bracket, over the steps of `MatchSettle`), `PositionFunnel`,
    ERC-4626 withdrawals, the inventory solver's budgets. *To come.*

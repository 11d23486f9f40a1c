# A TLA+ model of polymarket-btc5m

`polymarket-btc5m` is a terminal program that trades Polymarket's "up or down"
markets of five and fifteen minutes, and of a day.  It follows a market from one
window to the next, shows the order books and the user's position, places orders
by key press or by itself (auto-trading), gives positions back through a trailing
stop, a stop loss or a take-profit order, and redeems what resolved.

Almost everything that can go wrong with it is a question of order: the same
fill arrives over three channels, an order is on the wire while the market rolls,
a stop trips while another SELL is being placed, an answer of the old market
comes after the new one is shown.  This directory models that: the bookkeeping of
one process with one event loop, the tasks it spawns, and the services it talks to.
Beside it stands the arithmetic that turns an intent into the two amounts of a
signed order.

| file | what it is |
|---|---|
| `FillSync.tla` | one execution is booked once: POST response, user WebSocket, REST load |
| `AutoTrading.tla` | the auto-trading ledger, the buy runners and their retries |
| `TrailingExit.tla` | trailing stop to FAK SELL, beside the stop loss and the user's SELLs |
| `TrailingStop.tla`, `Ratchet.tla` | the lock-free ratchet, and what it implements |
| `TakeProfit.tla` | the resting SELL of a position: consolidation, merge, open-orders ledger |
| `OrderMath.tla`, `TradeRows.tla` | prices, sizes, fees and roundings; what a trade row is read as |
| `OrderLife.tla` | one order from the intent to the position a restart finds |
| `OrderSign.tla` | what an order's signature covers, for each type of wallet |
| `ClobClient.tla` | concurrent callers of the trading client: credentials, orders, lists, waiters |
| `Claims.tla` | what may be claimed and the transactions that redeem it |
| `Redeem.tla` | claims, approvals, deployment and the balance panel over relayer and chain |
| `Gamma.tla`, `Discovery.tla` | slugs and lookups of a market; the task that announces the next one |
| `BookFeed.tla` | the order-book WebSocket, its books, the coalescer and the flusher |
| `MarketWatch.tla` | the composition: wizard, event loop, supervisor, user channel, spot feed |
| `*MC.tla`, `*.cfg` | the instances TLC checks |
| `*Proofs.tla` | theorems, checked by TLAPS; `TrailingExitProofs` also holds those of `TrailingStop` |
| `PROJECT.json` | components, hazards, runs, definition-to-source map, findings |

`BookFeed` extends `Discovery`, which extends `Gamma`; `MarketWatch` composes them.
`OrderLife` extends `TradeRows` and that `OrderMath`; `ClobClient` extends
`OrderSign`; `Redeem` extends `Claims`.

Run a check with `tlc -config FillSync.cfg FillSyncMC.tla`, a proof with
`tlapm FillSyncProofs.tla`.  Paths such as `app.rs:1973` are below `src/src/`.

---

## 1. The system

### 1.1 How the parts are connected

```
 profile watch --> discovery --markets (8)--> supervisor --MarketRoll, PositionsLoaded--+
                       |            |  starts and aborts                                |
                       |            +--> book WebSocket -> coalescer -> flusher --Book--+
                       |            +--> poll of the top holders --Sentiment------------+
                       +--PriceToBeatRefresh--------------------------------------------+| bounded
 spot price feed --Price----------------------------------------------------------------+| channel
 user WebSocket --UserChannelFill, AutoTradingBuyOrderClosed----------------------------+| (2048)
 order tasks --OrderAck, RequestTrailingArm, *Done--------------------------------------+|
 buy runners --AutoTradingBuyDone-------------------------------------------------------+|
 balance panel, claim task --BalancePanelLoaded, RedeemDone-----------------------------+|
                                                                                         v
   snapshot, bundle, tokens, symbol (watches) <---- event loop: AppState, keys, renderer-+
   UserTradeSync, UserOpenOrdersLedger (mutexes)             spawns tasks
```

One tokio process.  A single event loop (`main.rs`, the `select!` that ends in
`apply_app_event` and `AppState::apply`) owns `AppState` and handles one event at
a time.  Everything that waits for the network is a spawned task that reports
back with an event.  These pieces of state are shared with tasks rather than
owned by the loop: `UserTradeSync` (one mutex, taken by the WebSocket task, the
supervisor and the loop), `UserOpenOrdersLedger` (likewise, and by the take-profit
and stop-loss tasks), the API credentials of the trading client and the lock under
which they are derived, the registry of fill waiters, and the watches the loop
publishes: the auto-trading snapshot (read by the runners), the profile (discovery),
the tokens (supervisor), the user bundle (user WebSocket) and the symbol (spot feed).

The channel is bounded.  Feeds drop what does not fit or wait; order tasks wait.
The loop itself never waits for room in its own channel (it spawns a task or uses
`try_send`), so it cannot block itself.

### 1.2 Components

| component | state | operations | what makes it correct |
|---|---|---|---|
| fill de-duplication (`feeds/user_trade_sync.rs`) | `seen_trades`, `pretask_claimed`, two bounded wait lists with an 8 s life | pre-check, guard, commit, before/after ack, seed, clear | one execution changes the position once, on whichever channel it comes first |
| positions and fills (`app.rs`) | position per outcome, fill rows (64), claimed trade ids | `UserChannelFill`, `OrderAck`, `PositionsLoaded`, `MarketRoll`, `StartTrading` | shares shown = shares held; nothing of another window |
| order sizing, fees, stop-loss arithmetic (`app.rs`, `main.rs`, `fees.rs`, `stop_loss.rs`, `trading.rs`) | none | clamp, snap, size, fee, `amounts_for` | what is signed is what was asked for, at a price of the market |
| trade rows (`trading.rs`, `app.rs`) | none | reading of both channels, replay, merge with the chain | the user's own leg and side; a restart finds the wallet |
| auto-trading ledger (`app.rs`, `main.rs`) | reserved tokens, open lots, resting orders | reserve, book, release, remember, clear | at most `AUTOTRADING_MAX_POSITIONS`; ledger agrees with wallet |
| trailing stop and stop loss (`app.rs`, `main.rs`) | pending arms, sessions, queue, in-flight markers | arm, promote, trip, dispatch, report, re-arm | one SELL at a time per position; a position is not left without a trail |
| trailing-stop ratchet (`trailing_stop.rs`) | best price, stop, armed and triggered bits, all atomic | tick, reset | the stop never falls; triggers once |
| take profit (`main.rs`, `take_profit.rs`) | resting SELLs in `UserOpenOrdersLedger`, a lock per outcome | consolidate after a BUY, merge rows | one resting SELL for the whole position |
| CLOB client (`trading.rs`, `poly1271.rs`) | credentials and their lock, fill waiters | sign, POST with retries, lists by page, cancel, balance, diagnostic | one intent, one order; signed as sent; an answer that is given holds |
| discovery (`market_discovery_gamma.rs`, `gamma.rs`) | last emitted slug and price, window end, profile watch | resolve, poll, roll, refresh, sleep | each window announced, none goes back |
| supervisor (`main.rs`) | shown pair, last spawned tokens, running tasks | roll, load, restart feeds, watch tokens | feeds and state follow the market that is active |
| order books (`clob_ws.rs`, `market_data_coalescer.rs`) | a book per token, latest snapshots | connect, apply a frame, submit, drain | the books shown are the exchange's |
| user WebSocket (`clob_user_ws.rs`) | subscriptions, open orders | connect, sync, parse, forward | the server has the markets that are needed; every fill is forwarded |
| spot feed (`chainlink.rs`) | symbol, latest tick | connect, switch, forward | the price is the chosen asset's |
| redeem and relayer (`redeem.rs`, `polymarket_relayer.rs`) | one in-flight flag and its cool-down | check, approve, sign, submit, wait | one claim at a time, no batch that must revert |
| balances (`balances.rs`, `data_api.rs`) | last claimable amount | multicall, payouts, panel | what is claimable is seen |
| deposit wallet, approvals (`deposit_wallet*.rs`, `deploy_wallet_cmd.rs`) | none | derive, deploy, approve | signed by the wallet that executes |
| signals, strategy | none | pure functions | numeric |
| bridge, round log, replay, training | append-only files | HTTP, write, read offline | no path back into trading |
| configuration, network, UI, scripts | none of interest | | |

### 1.3 The hard behaviours

* **One fill, three reports, in any order.**  The POST response carries an order
  id and no trade id; the user channel carries both and sends each trade twice
  (MINED, CONFIRMED); the REST load lists trades.  Matching is by (order,
  quantity, price) within eight seconds.
* **Check, then act, under different lock acquisitions.**  The WebSocket task
  checks before it sends, the loop checks again when it handles, and commits in a
  third step; an `OrderAck` or a roll may come in between.  A claim checks the
  approvals, waits, and checks them again.
* **Windows roll with messages under way.**  Orders, loads and reports of the old
  window are handled in the new one.  `UserTradeSync` is cleared by the
  supervisor, `AppState` by the event loop, at different times; the feeds follow
  through watches of their own.
* **Retries without idempotence.**  A POST whose response is lost is sent again,
  with a new salt; a relayer's transaction whose answer is lost is executed all
  the same.
* **Two owners of one position.**  Trail, stop loss, take profit and the user all
  sell the same shares and keep each other away with markers whose owner may
  fail, be refused, or be reported late.
* **Liveness through messages.**  A reservation or a marker is only released by a
  report; the screen only follows a market that is announced.
* **Rounding in several places.**  A price is clamped and snapped, a size derived
  from it and bumped, dollars rounded to cents, each by code of its own.

`PROJECT.json` lists 40 hazards, each with its line and the properties that would
catch it; those without a property say why.

---

## 2. The modules

Conventions.  A behaviour chooses a *scenario* from the constant `Scenarios` (of the
same role are `FaultSets`, `Scripts`, and `Intents` with `QuirkSets`): the faults of
the environment that are switched on, what the user may do, how much of it.  With no
fault a module is the system on a well-behaved network and a user who does one thing
at a time; with all of them it is what the code accepts.  One run has many scenarios
that way, and every property names the faults under which it is claimed; where a
fault really breaks a property that the repository promises, a run of its own shows it
(section 4).  Counters have bounds named in the constants; no handler is ever cut
short by a bound, only new external stimuli are (`MaxWindow`, `MaxRunners`,
`left[...]`, ...), apart from the channel capacity, which is in the code too.
A definition whose comment reads "mutant of D" is a plausible mistake in D, used to
show that the properties depend on it.

### 2.1 FillSync

Actors: exchange, order tasks, WebSocket task, supervisor with its load task,
event loop.

| state | code |
|---|---|
| `seen_trades`, `pretask_claimed`, `ack_wait`, `ws_wait` | fields of `UserTradeSync` |
| `serial`, `expired` | `Instant`s of wait slots and `MATCH_TTL`: a slot is stale when it was created before rank `expired` |
| `chan` | the `AppEvent` channel |
| `pc`, `ev` | how far the event loop is inside a handler, between two locks |
| `market`, `bundle`, `pos`, `fills`, `seen_fill_trade_ids` | `AppState`, and the bundle it publishes |
| `window`, `supPc`, `fetching` | supervisor and load tasks |
| `wsPending` | the WebSocket task's fill between check and send |
| `log`, `posted`, `responses`, `deliveries` | exchange and order tasks |

| action | code |
|---|---|
| `WsReceive`, `WsSend` | `before_ws_user_fill_apply`, then the send |
| `ReceiveFill`, `GuardFill`, `CommitFill` | `UserChannelFill`: claim and `fill_already_committed`; `ack_claimed_for_ws_fill`; position, row, trim, reconcile and `after_ws_user_fill_committed` |
| `ReceiveAck`, `ApplyAck` | `OrderAck`: `before_order_ack_apply`; position, row, `after_order_ack_applied` |
| `ApplyLoaded` | `PositionsLoaded`: seed, rows, position, reconcile |
| `RollBegin`, `RollSend` | the supervisor's `on_market_roll`, then `MarketRoll` and the load task |
| `LoadPositions` | the load task's answer, which may lag behind the exchange, fall back to balances, or end for want of credentials |
| `ApplyRoll`, `PublishBundle` | `MarketRoll` in `AppState`, then the bundle |
| `PickMarket`, `ApplyStart` | the wizard, `StartTrading` |
| `TtlElapses` | eight seconds pass for the oldest slots |
| `Post`, `MakerMatch`, `SendAck` | order task and exchange |

Faults: `ttl`, `rest_covers_acked`, `rest_outlives_window`, `sell_unseen`,
`balance_fallback`.

What comes before a restart (`Past`): a trade is executed once, an order that has traded
is not placed again, and without `sell_unseen` nothing was sold.

Abstractions: one outcome token (the two outcomes are independent copies of the
same code); one price per order, so lots of an order differ by quantity only; a
POST matches at most one trade; rows carry no timestamp, so *any* surplus row may
be the one a trim removes, which includes the one the code's sort would choose.
Prices and the cost of a position are TradeRows' subject; realized PnL is not modelled.

### 2.2 AutoTrading

Actors: event loop, buy runners, exchange, user channel.

| state | code |
|---|---|
| `in_flight`, `open`, `resting` | `autotrading_in_flight`, `autotrading_open`, `autotrading_resting_buy_orders` |
| `market`, `signal` | `AppState.market` and the strong signal of the published snapshot |
| `runner` | `run_autotrading_limit_buy_with_retries`: `check` before an outer attempt, `post` inside it, `tries` over both |
| `done`, `acks`, `wsq` | reports on their way; those of the user channel in order |
| `acked` | the part of `UserTradeSync` that recognises a SELL already acked |
| `live`, `held`, `sells` | the exchange |

Every handler ends with `Publish`: the loop publishes the snapshot and may
reserve a token and start a runner (`try_spawn_autotrading_buy`).  `DoneEffect`,
`Bought`, `Sold` and `Closed` are what the handlers do to the ledger.  `Check`,
`Rejected`, `Accepted` and `Unheard` are a runner's steps.  The other actions are
the exchange and the user.

Faults: `partial`, `lost_response`, `straddle`, `sell_ws_first`, `sell_early`,
`close_first`, `manual_maker`, `ws_outage`.  Without `sell_early` lots are sold only when
the ledger has booked all BUYs of their token (`Unbooked`): a SELL that runs between two
BUYs of one token, one of them booked, is early too, as the report of the SELL may come
before the second BUY's.

Abstractions: an order is `LotsPerOrder` lots; prices, sizes and the time window
only decide *whether* a strong signal is bought, which is left open; that one
report reaches the ledger once per channel is FillSync's subject.

### 2.3 TrailingExit

Actors: event loop, one task per order, exchange, user channel.

`tok[t]` gathers what `AppState` keeps of a token in eight maps: position,
pending arm, session (`plan`, `tracked`, `triggered`), `pending_trailing_sells`,
`trailing_sell_in_flight`, the grace after a partial fill,
`manual_fak_sell_in_flight_depth`, `stop_loss_sell_in_flight`.  The operators on
such a record carry the code's names in short form: `Unarmed`
(`remove_trailing_and_pending_arm_for_token`), `Cleared`
(`clear_trailing_on_sell_token`), `Installed` (`install_trailing_session`),
`AfterSell` (`rearm_trailing_after_partial_sell`), `Bought`
(`refresh_buy_trailing_from_position`), `Busy`
(`trailing_sell_queued_or_in_flight`), `Tripped` (`apply_trailing_book_tick`),
`Rehydrated` (what `PositionsLoaded` does to trails).

`Book` is a whole book tick: promotion of pending arms, the trailing tick, then
the stop loss or else the dispatch of a queued exit.  A task runs from `post`
through `ack` (its `OrderAck`) to `done` or `fail` (its `*Done` event);
`RequestTrailingArm` follows a BUY's ack.

Faults: `buy_in_exit`, `manual_fails`, `sells_overlap`, `late_fill`,
`lost_response`, `reload`, `cancel_stop`, `worthless`.

Abstractions: prices are free choices of a tick; shares are whole lots; one exit
is dispatched per tick (more of them are dispatched by more ticks); trails of a
market left in the background are not modelled here (MarketWatch has their
subscriptions); `trailing_stop.rs` itself is reduced to its triggered bit.

### 2.4 TrailingStop and Ratchet

`TrailingStop` is `on_price` called by any number of threads, one action per
atomic operation in the order of the code: the load of `triggered` (`Call`), the
activation gate (`Gate`, `ArmRace`, `StoreBest`, `StoreStop`), the two
compare-and-swap loops (`LoadBest`, `CasBest`, `LoadStop`, `CasStop`; a weak
exchange may fail for no reason) and the breach check (`Breach`, `TriggerRace`).
`tick[h]` holds a call's local variables, its result, and, as history, the stop
that was published when it began.  `Ratchet` is the promise: armed once, moved in
favour of the position only, triggered once.

`ArmDisturbed` says whether another thread may come between the arming CAS and
the two plain stores that follow it.  The code allows it, and then the stores may
overwrite a better best and stop (`trailing_stop.rs:215`): the refinement and
`NoMissedBreach` break.  What is checked and proved is the code without that
interleaving, which covers every stop the program makes: it only uses
`Activation::Immediate` (`app.rs`, `install_trailing_session`), where nothing is
armed by a print, and it ticks a stop from one task.

Abstractions: prices are ticks, the grid the code rounds to; a percent trail is a
number of basis points; atomics are sequentially consistent;
`FavorableDistance(d)` is `Price(entry + d)`.

### 2.5 TakeProfit

Actors: event loop, tasks that take the lock of one outcome, the order task of a
BUY, the user channel, the exchange, the user.

| state | code |
|---|---|
| `ledger` | the SELL rows of `UserOpenOrdersLedger`, remaining size per order |
| `lock` | `TP_RESTING_SELL_OP_LOCK_UP` or `_DOWN` |
| `task[t]` | the local variables of a consolidation, a merge, a stop loss or a BUY's order task |
| `rest`, `clearing` | the load task's orders before `replace_from_rest`; a cancel-all between its answer and `clear_resting_orders` |
| `pos`, `chan` | position of the outcome, the events that concern it |
| `held`, `open`, `made`, `wire` | the exchange, and its reports under way, in order |

A task goes through `lock`, `cancel`, `post` and `insert`.  `Lock` takes the snapshot
of the ledger and decides what will be asked for (`Want`), as the code does before
it cancels; `Cancel` is one of the concurrent cancels; `Cancelled` ends the task or
goes on to the POST, and gives the lock of a merge back there; `Insert` writes the
row before the lock of a consolidation is given back.  `UserChannel` is one frame of
`run_session`: ledger, fill, then the request to merge.  `Handle` reads the position
when it spawns, not when the task gets the lock.

Faults: `overlap`, `busy_fill`, `crossing`, `slow_channel`, `fast_channel`,
`split_trades`, `cancel_fails`, `post_fails`, `lost_response`, `priced_out`,
`manual_sell`, `stop_loss`, `cancel_all`, `late_rest`.  A behaviour chooses its set
from `FaultSets`.

Abstractions: one outcome, shares in lots, no prices; a fill is booked once
(FillSync); the lock is given to any waiting task, though the runtime's is first
come first served; one market window, at whose end `roll_market` empties the ledger.  The
exchange reports the orders that a cancel-all removes in any order.

### 2.6 OrderMath, TradeRows, OrderLife

`OrderMath` is the arithmetic from an intent to the two amounts that are signed,
operator by operator: `ClampProb`, the fee and the take-profit price (`fees.rs`), the
stop-loss trigger (`stop_loss.rs`), the price and size of a market BUY and SELL
(`resolve_market_order`), of an automatic BUY, a trailing SELL, a stop-loss SELL and a
take-profit, and `amounts_for` for GTD and FAK.  Prices are whole 1/10000 dollars,
shares 1/1000.  Floats are exact but for the step whose error decides a result: a
whole number of cents times 100.0 may come out just below or above it (the constants
`Below`, `Above`), which the code's floor and ceil then miss.  The instance has the
cents that miss below 803, more than any amount it rounds; what is proved holds for
any two such sets.

`TradeRows` is what a trade is taken for: `WsFills` is
`try_parse_user_channel_trade` (whose leg, whose side, which token), `Replayed` and
`Position` the replay of the REST rows, `Merged` the merge with the chain balance and
the shares that open SELLs hold back.

`OrderLife` takes one order through both: `Resolve`, `Sign`, the exchange's `Post` and
`MakerMatch` (alone, beside another maker's leg, on a mint), `Progress` of a trade on
the chain, `Frame` of the user channel, and `Load` after a restart.  The exchange is
external.  `quirks` are the ways its answers differ: `no_amounts`, `echoed_side`,
`no_leg_side`, `two_own_legs`, `no_key`, `chain_fails`, `rest_lags`.

### 2.7 OrderSign, ClobClient

`OrderSign` treats a hash as the term that is hashed and a signature as key and hash,
so that what is signed can be compared with what is sent: contract and domain by
market, maker and signer by type of wallet, the nested signature of a deposit wallet
(`poly1271.rs`), the L1 signature for credentials.

| state | code |
|---|---|
| `creds`, `lock` | `TradingState.creds`, `creds_derive_lock` |
| `task[u]` | a caller inside `TradingClient`: where it is, its attempt, its POSTs, the last answer, the page it reads |
| `pending` | `FillWaitRegistry` |
| `exchange` | external: the key it knows, open orders, fills, cached balance, frames under way |

`Creds`, `Lock`, `Derive`, `Create` are `ensure_creds`; `PostAccepted`,
`PostRefused`, `PostLost`, `PostAgain`, `PlaceAgain`, `Returned` the two retry loops,
of `place_order` and of `place_limit_with_retries` around it; `Placed`,
`WaitTimesOut`, `Report` the fill waiters; `Page` the lists by offset; `Cancel`,
`CancelAll`, `Warm`, `ReadBalance` and the diagnostic the other requests.  A fault is
an answer that is lost, or a refusal for no reason.

An order of the program is named by its caller, the attempt and the POST in it
(`OrderIds`), which is what the random salt is for; that two salts never meet is an
abstraction.  Orders that a script lists as resting, or cancels, are older than its calls
(`OlderOrdersAssumption`).  `Fill` and `Remaining` are what a trade and a cancel do to the
exchange's fills and list, written with functions only so that the prover can expand them.

### 2.8 Claims, Redeem

`Claims` is pure: the rows of the Data API up to its largest offset, what the panel
adds up from them and from the multicall (`Claimable`, with the fallbacks where a call
failed), the operations that redeem them (`RedeemOps`), their chunks, calls and
digests.

| state | code |
|---|---|
| `app` | `redeem_in_flight`, and whether `AUTO_REDEEM_MIN_INTERVAL` has yet to pass |
| `task[t]` | a claim (two slots), a batch of approvals, a deployment |
| `poll` | the balance panel's task and the event it sent |
| `relayer`, `chain`, `api` | external: accepted and not yet executed, allowances, balances and payouts, listed rows |

A claim goes `Fetch`, `Check`, then `Nonce`, `Submit` or `Refused` or `Lost` per chunk;
for a deposit wallet that lacks an approval first the batch, `Wait` and `Recheck`.
`Fails` is any request of it that fails.  The key `b` and a claim use one submission
path.  `Mine` executes what the relayer accepted, if the nonce and the approvals are
right and the chain knows the result of every condition redeemed, and uses up the nonce of
everything else that read it.

Abstractions: a nonce is the wallet's next one or a used one; the rows are read at one
time though they come in pages; one batch of approvals at a time; three transactions at
most wait for execution (`MaxQueue`).

### 2.9 Gamma, Discovery, BookFeed, MarketWatch

`Gamma` is `gamma.rs` without its HTTP: slugs, windows, `FindCurrent` (rolling, with
the starts it tries, and daily), `FetchNext`, and the `ActiveMarket` made of a record.
`Discovery` is the task: `Turn` is the top of its loop, `FindAnswered` and
`NextAnswered` its two ways to ask, `Resolved` decides between a roll, a refresh of the
price to beat and nothing, `WakeAfterDelay` and `WakeByProfile` end its sleep.
`BookFeed` has the book task's connection, a frame's way into `BookDb` (`Slots`,
`Upsert`), the coalescer (`Submit`) and the flusher.

`MarketWatch` adds what follows the market:

| state | code |
|---|---|
| `app` | phase, profile, market, tokens of trailing sessions, books, spot, holders, latched price |
| `tokenW`, `bundleW`, `symbolW`, `watch` | the watch channels, and whether their value is yet unseen |
| `sup` | the supervisor: pair shown, tokens last spawned, the `MarketRoll` it is sending |
| `holders` | the market the poll of the top holders asks for |
| `session`, `feed` | the user channel's session and what the server has of it; the spot feed |
| `now`, `gamma`, `exchange` | external: the clock, what Gamma answers, the books |

`Publish` ends every handler of the event loop, as the code's loop body does: it prunes
the books to the watched tokens and sends the lists that changed.  `RestartBooks` is
`restart_book_ws` with its early return.  A step of the supervisor is what it does
between two waits: `TakesMarket` aborts and spawns, `SendsRoll` waits for room in the
channel.

Assumptions on timing, where the code relies on a delay: a refresh of the price to beat
comes a round trip to Gamma after the roll of its market and does not overtake it
(`Refresh`); a sleep of 15 s is longer than a roll takes to reach the event channel
(`WakeAfterDelay`); a connection takes longer than the supervisor's send of the roll it
was opened for (`TaskConnects`); while Gamma answers, a window does not end before the
task knows it (`Tick`).

---

## 3. Properties and passing runs

Nine runs pass, each with its properties, and each property has a mutant in
`PROJECT.json` that violates it.  Types and a few facts that hold under every fault are
proved and not run (section 5); most safety properties are both, checked on the instances
below and proved for every value of the constants.

### 3.1 `fills` (FillSync, 539k states)

| property | says |
|---|---|
| `FillRowsOnce` | a trade id has at most one row, under every fault |
| `NoCrossedSlots` | an ack and a fill of one lot never both wait for each other, under every fault |
| `SettledExact` | without faults: when all reports are processed, position = net of the trades heard of |
| `SettledNotShort` | the same as a lower bound, under every fault, where nothing was sold (`NothingSold`) |
| `AckBooked` (liveness) | the fill of a POST reaches the position, unless the market rolls first |

Scenarios: two windows of buying, `o1` filled at once by `t1` and later as a maker by an
*equal* lot `t2`, the case the matching by quantity cannot tell apart, then `o4` in
the next window, every trade delivered twice; a restart with `o1` half filled, the rest
as a maker, then a taker SELL and a maker SELL with each trade delivered once, or one of
the two SELLs with each delivered twice; and these with one fault each (the fault
`rest_covers_acked` in one window at a time).

Bounds.  Channel and wait lists of length two force senders to wait and slots to be
evicted.  A cap of one row makes every second row of the buying scenario trim the
deque; the others keep all rows, so that their exact count is meaningful.  One fault at
a time is what a run of a few minutes has room for; the invariants, which two faults
could break together, are proved for any set of them (section 5).

Why `SettledExact` is not claimed under faults: `rest_covers_acked` and `ttl` count a lot
twice, `rest_outlives_window` brings rows of the old window in, `sell_unseen` brings
sold shares back.  In the gap between the supervisor's clear and the loop's
`MarketRoll` a repeated report of the old window is applied again; the panel shows it
for as long as the roll is in the channel, and then zeroes the position.

### 3.2 `buys` (AutoTrading, 622k)

| property | says | claimed under |
|---|---|---|
| `WithinCapacity` | reserved and open tokens together stay within the limit | SELLs reported first or early, early closes, lost reports |
| `ExposureReserved` | a token with lots in the wallet or an order in the book is in the ledger | early SELLs and closes, lost reports |
| `LedgerSettled` | with nothing under way, ledger = wallet | partial fills, early closes, manual maker fills |
| `ReservationReleased` (liveness) | no reservation is kept for ever | no fault |

Scenarios: two windows, three tokens, two runners with two inner and two outer attempts,
two SELLs; one window with each fault alone, and one that rolls with reports under way.

Bounds.  Two runners on two tokens with a limit of one are what competes for the
last place; 2 x 2 attempts exercise the re-check between outer attempts and the
end of both loops; two lots per order allow a partial SELL and, under the fault, a
partial fill.

What breaks them: `partial` books the filled lots and drops the reservation while the
rest of the order is in the book; `lost_response` leaves an order the runner does not
know of; `straddle` lets a `Done` of the old window into the new ledger; `manual_maker`
books lots that were never reserved; after `ws_outage` nothing tells the ledger.

### 3.3 `trail` (TrailingExit, 1.14M)

| property | says | claimed under |
|---|---|---|
| `TrippedExits` | a tripped trail with shares left is queued, under way, or being sold by the user | all but `manual_fails`, and not `sells_overlap` and `reload` together |
| `Protected` | while the market is on, arm and session cover the position at every moment, also in the middle of an exit, as long as only exits sold | `manual_fails`, `sells_overlap`, `cancel_stop` |
| `ExitStartsAlone` (action) | an exit starts only when no other SELL of the token is being posted or rests | all but `sells_overlap`, `reload`, `buy_in_exit` |
| `ExitReported` (liveness) | no in-flight marker is kept for ever | all |

Scenarios: one token with three trades and three tasks without a fault, and two trades
and two tasks with each fault.  A BUY, a partial exit and a second exit need three
trades; two lots allow a partial fill; two attempts reach both the retry and its end.
Tokens only meet through `MaxParallel`, and every operator on a token's record looks at
that record alone, so one token is enough for these properties; the proofs hold for any
number.

What breaks them.  A refused market SELL of the user leaves a trail that tripped
without anything to sell it (section 4).  With `sells_overlap` and `reload` a SELL of the
market's earlier life ends in its new one and takes the marker of the user's next SELL
along.  A BUY that is booked beside a running exit (`buy_in_exit`) replaces the session by a
pending arm (`app.rs:1481`); the fill of the exit then finds no session to re-arm
(`app.rs:1499`) and clears arm and marker, so `Protected` fails.  And as the marker is gone
before the exit has reported, its `TrailingExitDispatchDone` may take the marker of the next
one (`app.rs:2456`), beside which a third may start (`ExitStartsAlone`; this takes three
tasks and three trades).

### 3.4 `ratchet` (TrailingStop, 2.3M up to the symmetry of threads)

| property | says |
|---|---|
| `RatchetSpec` (refinement) | `TrailingStop` implements `Ratchet` |
| `NoMissedBreach` | a print at or through the stop published when its call began is never answered with `NoOp` or `Trailed` |

Three threads are the fewest in which one thread's exchange can fail because of a second
while a third publishes; five prices, twelve stops: long and short, armed at once or at
a price, percent, absolute and empty trails.

### 3.5 `take_profit` (TakeProfit, 732k up to the symmetry of tasks)

| property | says |
|---|---|
| `OneTakeProfit` | at most one open order was posted by a consolidation, and it has its row by the time the lock is given back |
| `LedgerInStep` | the ledger, with the reports under way applied, is what the exchange has open |
| `Covered` | with one fill at a time, the whole position rests as soon as it has the size of an order |
| `DuplicatesMerged` | when nothing is under way there are not two SELLs worth merging |

Two BUYs of up to three lots, an order size of three lots, four SELLs, two attempts per
POST, two tasks; no fault, every single one, every pair of all but `manual_sell`, and
larger groups.  With two tasks every pair of kinds meets at the lock; three lots allow a
fill that leaves less than an order, which the next BUY cancels and cannot replace; four
orders are a take-profit, two orders of the user and their merge.  When the bound on
orders is reached a task stays at its POST, which cuts the behaviour short and lets
nothing hold that would not otherwise, except that it never becomes quiet.

What each property excludes is what breaks it.  `cancel_all` and `late_rest`: a late
`clear_resting_orders` or `replace_from_rest` drops a row that is newer than it.
`fast_channel`: a report that overtakes the answer to the POST is overwritten by the
insert, and the row of an order that is gone makes every later cancel fail until the
roll.  `overlap` (for `Covered`): each task counts the fill of its own BUY and the
position or rows of its own moment, so two fills may ask for more than there is;
the exchange refuses, after the old SELL was cancelled.  `split_trades`: the size
that refines the fill is that of the order's first trade (`main.rs:4270`), less than
the fill if there were several.

### 3.6 `order_life` (OrderLife, 982k)

| property | says |
|---|---|
| `AsAsked` | the two signed amounts are those of the intent: a limit price the market's nearest, a market limit kept to a tick and the cent, a BUY's dollars, a SELL's whole position |
| `TakeProfitEarns` | a take-profit that is hit earns its basis points after both fees, or there is no higher price |
| `AckIsFill` | what the answer of a POST books, and what its take-profit is for, is what was filled |
| `RowsRight` | from a trade the user channel takes the user's own leg, order, token and shares, and its side where the row or the ledger says it |
| `PositionIsWallet` | a restart finds at least the wallet's shares, and exactly those when the rows are complete and say whose leg is whose |

242 combinations of kind, price, size, slippage and tick: prices that are inexact
times 100, ticks of a dime (where a market order's price may round to a dollar or to
nothing), a cent and a tenth of a cent, a position with and without a fraction of a
lot, dust; two trades per order; one quirk at a time.  The search
for a BUY's share ticks is cut at 20 of 50,000 steps; no search of the instance gets
that far.

### 3.7 `client` (ClobClient, 592k)

| property | says |
|---|---|
| `AtMostOnce` | a call places one order, and a limit order one more for each answer that was lost |
| `SignedAsSent` | the exchange never refuses a signature, for any type of wallet and contract, nor an attempt as a repeated one |
| `AnswersHold` | a call ends without credentials only for a cause; shares a later order is sized with were bought by that order; a list that did not move was read whole; a cancelled order does not rest |
| `CallsEnd` (liveness) | nobody waits for ever, for the lock or for a fill that is not reported |

Three callers (one derives, lists or loads while the others post or cancel), 22 scripts,
three types of wallet, pages of two rows with up to four orders, one lost or refused
answer at any point.  Two attempts at a limit order and the four of a SELL reach the end
of both loops.

### 3.8 `redeem` (Redeem, 186k)

| property | says |
|---|---|
| `OneRedeem` | the flag is set exactly while a claim is at work, and there is one at most |
| `ApprovedFirst` | no batch that a deposit wallet's claim submits calls an adapter that is not approved |
| `PanelCovers` (action) | the claimable amount that a full multicall reads is at least what the chain pays for the rows that were read |
| `GateReleased` (liveness) | the flag is cleared again, whatever fails |
| `AllRedeemed` (liveness) | with auto-trading on, all that is worth it is redeemed in the end |

Ten scenarios: Safe, deposit wallet with and without approvals, one not yet deployed, a
funder that is not the key's, a row whose condition the chain has no result for, no relayer
key, an EOA.  Up to six rows in chunks of two
(8 in the code), five rows served by the Data API (10,500), two attempts at a busy wallet
(18), one failure.  Three conditions make two chunks, the fewest in which a nonce can
be stale.

### 3.9 `watch` (MarketWatch, 145k)

| property | says |
|---|---|
| `HoldersOfShown` | the holders' sums on the screen are the shown market's |
| `RollsForward` (action) | a market is never replaced by an earlier one of its profile |
| `MarketShown` (liveness) | the screen ends up with the market of the chosen profile whose window is not over |
| `BooksFollow` (liveness) | the books shown end up as the exchange's |
| `UserChannelFollows` (liveness) | the server of the user channel ends up with exactly the markets that are needed |
| `SpotFollows` (liveness) | the price shown ends up as the chosen asset's |
| `PriceToBeatFollows` (liveness) | the price to beat ends up as the site's, within the noise that is ignored |

Eleven scenarios: a profile from the command line and a switch to another asset or
timeframe, three choices in the wizard; windows that roll, an outage of Gamma, a failed
and a refined price; each of the four services reachable, with drops, changes of a book
and a trailing session.  At most three windows; capacities of 2 (of 2048) for events
and 1 (of 8) for markets, so that senders wait; four book slots (32): two markets.  One
service at a time keeps the run small: the services meet only through the event channel
and `AppState`, and a full channel is reached without them.

### 3.10 Fairness

* FillSync: weak fairness of the event loop, which the runtime polls for ever;
  strong fairness of each order task's send, because tokio's semaphore hands out
  permits in the order they were asked for and the channel keeps being drained,
  so a sender that is repeatedly able to send does send.  Nothing is assumed of
  the network, the supervisor or the user.
* AutoTrading: each runner takes its next step and each POST has an outcome (the
  HTTP client has a timeout); every report is handled; a resting GTD order is
  filled or expires.
* TrailingExit: the POST of an exit has an outcome; `OrderAck` and
  `TrailingExitDispatchDone` are handled.
* ClobClient: every caller takes its next step; its requests have an outcome or time out.
* Redeem: every task, the panel's included, goes on; the relayer executes what it took and
  unlocks the wallet, the Data API lists and drops rows, the cool-down passes; the panel
  becomes due again (strongly, as it sleeps in between).
* MarketWatch: every task takes a step when it can, a sender that waits for room when
  there is room again and again (as above); Gamma lists its markets and comes back, the
  servers accept connections and send prices, the clock goes on.  A tick of the spot feed
  is lost when the channel is full; only one that gets through is owed.  Nothing is
  assumed of the user, of drops, of changes of a book or of the holders poll.

---

## 4. Where the code and its documentation differ

Three runs end in a counterexample.  Each checks one sentence of the repository
against the code; `PROJECT.json` quotes it and describes the trace.

| run | property | in short |
|---|---|---|
| `buys_sell_twice` | `ExposureWithinCapacity` | a partial SELL reported by the user channel before its ack leaves the ledger twice, and a second position is opened (`app.rs:2187`) |
| `trail_and_stop_loss` | `StopLossOwnsExit` | one tick trips trail and stop loss; the stop loss starts, the exit stays queued and the next tick starts it too (`main.rs:718`) |
| `watch_daily` | `RollsForward` | after noon the screen goes back to the daily market that ended, and forth, for as long as Gamma calls it open (`gamma.rs:328`) |

The first is a race between a network answer and a report; the second needs no
unusual timing, only two things at once; the third happens every day between the close
of a market and the moment Gamma marks it closed.

Cases without a run of their own.  The first five are reached by adding the fault to the
faults their property allows:

* An order posted while the REST load of its window is under way is booked from its
  ack and again from the load: ack rows have no trade id the load could recognise
  (`app.rs:1980`; `SettledExact` under `rest_covers_acked`).
* A REST load answered after the next roll puts the old window's shares into the new one:
  `PositionsLoaded` names no market and the load is not aborted (`app.rs:1973`,
  `main.rs:2320`; `SettledExact` under `rest_outlives_window`).
* A market SELL of the user removes the queued exit before it is posted
  (`app.rs:925`); refused, it leaves a trail that has tripped and never will again
  (`TrippedExits` under `manual_fails`).
* Overlapping BUYs can leave the position without any take-profit (`Covered` under
  `overlap`); `trading.rs:2084` speaks of "retries + clamp" that recover a refused
  SELL, but the clamp below it is commented out.
* `app.rs:187` says that a consolidation is told the same quantity as the preceding
  `OrderAck`; `main.rs:4270` replaces it by the size of one trade (`Covered` under
  `split_trades`).
* Two chunks of a deposit wallet's claim may be signed with one nonce, as the nonce is
  read when the chunk before was accepted, not executed (`redeem.rs:539`); the second is
  rejected after the claim has reported success.  The panel's next claim makes up for it
  (`AllRedeemed`); a claim by key does not.
* The repository's `README.md:171` says that the redeem of a deposit wallet is not
  implemented; `redeem.rs` implements it, and the model has it.
* After an outage longer than a window the task polls for a successor that is closed by
  then, for ever: the inner loop looks neither for a later market nor at the watch of the
  profile (`gamma.rs:311`, `market_discovery_gamma.rs:93`).
* A profile that is chosen again gets no market before its next window, as its slug was
  emitted already (`ChosenOnce` in `MarketShown`); a StartTrading is lost when the event
  channel is full (`main.rs:3817`).

---

## 5. Proofs

Theorems are `Spec => []Inv` for a state property, `Spec => A` for an action property or
the refinement, for every value of the constants allowed by the modules' assumptions (sets
and functions of the right type, bounds that are naturals, positive where the code needs
it; *any* set of scenarios, so any faults together and any numbers of tokens, orders,
tasks and callers).  A property that names the faults under which it is claimed is proved
for every mix of those.

| theorem | module | property |
|---|---|---|
| `SyncTypeCorrect` | `FillSyncProofs` | `SyncTypeOK` |
| `FillRowsOnceHolds` | | `FillRowsOnce` |
| `NoCrossedSlotsHolds` | | `NoCrossedSlots` |
| `SettledNotShortHolds` | | `SettledNotShort`, as long as the deque holds every row (`Uncut`) |
| `SettledExactHolds` | | `SettledExact`, as long as deque and wait lists hold every lot (`Uncut`, `Roomy`) |
| `LedgerTypeCorrect` | `AutoTradingProofs` | `TypeOK` |
| `ReservedOrHeldHolds` | | `ReservedOrHeld`: a token is reserved or open, never both |
| `InFlightWithinCapacityHolds` | | `InFlightWithinCapacity`: reservations alone stay within the limit |
| `WithinCapacityHolds` | | `WithinCapacity` |
| `ExposureReservedHolds` | | `ExposureReserved` |
| `ExposureBounded` | | the tokens bought or on order at the exchange stay within the limit, under the faults of `ExposureReserved`: what `buys_sell_twice` refutes with a SELL reported ahead of its ack |
| `LedgerSettledHolds` | | `LedgerSettled` |
| `TrailTypeCorrect` | `TrailingExitProofs` | `TypeOK` |
| `QueuedOnceHolds` | | `QueuedOnce`: queued at most once, and not while its exit runs |
| `InFlightBackedHolds` | | `InFlightBacked`: a marker has a task that will report |
| `QueuedWithinPositionHolds` | | `QueuedWithinPosition`: a queued exit is never for more than the position |
| `TrippedExitsHolds` | | `TrippedExits` |
| `ProtectedHolds` | | `Protected` |
| `ExitStartsAloneHolds` | | `ExitStartsAlone` (action) |
| `StopTypeCorrect` | | `StopTypeOK` |
| `NoMissedBreachHolds` | | `NoMissedBreach` |
| `RatchetImplemented` | | `RatchetSpec` (refinement) |
| `TypeCorrect` | `TakeProfitProofs` | `TypeOK` |
| `LedgerInStepHolds` | | `LedgerInStep` |
| `OneTakeProfitHolds` | | `OneTakeProfit` |
| `CoveredHolds` | | `Covered` |
| `DuplicatesMergedHolds` | | `DuplicatesMerged` |
| `AtMostOnceHolds` | `ClobClientProofs` | `AtMostOnce` |
| `SignedAsSentHolds` | | `SignedAsSent` |
| `AnswersHoldProved` | | `AnswersHold` |
| `OneRedeemHolds` | `RedeemProofs` | `OneRedeem` |
| `ApprovedFirstHolds` | | `ApprovedFirst` |
| `PanelCoversHolds` | | `PanelCovers` (action) |
| `AsAskedHolds` | `OrderLifeProofs` | `AsAsked`, if no market BUY meets a book above 0.99 (`BookSignable`) |
| `TakeProfitEarnsHolds` | | `TakeProfitEarns` |
| `AckIsFillHolds` | | `AckIsFill` |
| `RowsRightHolds` | | `RowsRight` |
| `TypeCorrect` | `MarketWatchProofs` | `TypeOK` |
| `HoldersOfShownHolds` | | `HoldersOfShown` |
| `RollingNeverBack` | | from a rolling market to one of its series: never to an earlier window |
| `RollsForwardHolds` | | `RollsForward` (action), in behaviours that show rolling markets only |

Where the library's induction would need an operator as its parameter, the proofs go by a
least counterexample (`LeastNatural`, from the well-foundedness of `<` on the naturals).

**FillSync.**  `LoopTypeOK` (types of `UserTradeSync`, channel, loop and rows) is
inductive by itself.  `FillRowsOnce` is not: the handler pushes a row in
`CommitFill`, two steps after it claimed the id.  `ClaimInv` adds what carries
the claim over the gap: a trade with a row has been claimed, and the fill between
`ReceiveFill` and `CommitFill` is claimed and has no row yet.  `NoCrossedSlots`
needs `CheckedInv`, the same idea for the wait lists: a handler about to push a
slot has found no fresh twin on the other list, and no other actor can have put
one there since, because only the event loop pushes.  That a twin cannot come
back to life is `FreshShrinks`: time only moves forward.

The two properties of the position rest on `Counted`: the program is done with a trade
when its id is settled, or claimed with nothing under way.

* `NotShortInv`, for `SettledNotShort`, under any mix of faults.  `ShareInv`: a trade that
  is counted has a row of its own, or is the one lot that the row of its order's POST
  response stands for (`OnAck`), and no two trades share such a row; while the slot of a
  response waits, its row stands for no trade.  `PosInv`: the reconcile after every push
  keeps the position at or above the rows.  So BUYs map to rows one to one, and a sum over
  trades is at most the sum over rows (`SumInjection`).  Around it stand the order of
  rolls, loads and reports on the channel (`WinInv`, `LoadInv`, `Untouched`, `SteadyInv`)
  and what rows and slots may be there at all (`AckInv`, `RowsInv`, `SellInv`).
* `SettledInv`, for `SettledExact`, has the converse.  `MatchInv`: a row of a trade is there
  because the trade is counted, a row of a response because its slot still waits or a trade
  without a row of its own took it; a slot that waits is fresh, and its trade is not counted;
  while a load is under way no response is.  `LoadsWhole`: a load lists every trade it counts.
  `SoldInv`: the rows of BUYs cover all SELLs executed, so that neither the cut at zero in
  `Position::apply_fill` nor the reconcile, which only ever raises, is off (`RowsCovered`,
  `BookExact`).  `ExactInv` then follows the position from step to step, and at rest the
  trades heard of and the rows are renamings of one another (`SumRenamed`).

Sums are defined by a recursion over subsets; `SumsExist` and `SumsUnique` prove it well
defined, `SumRemove` that its order does not matter.

`Uncut` and `Roomy` compare the caps of the code (64 rows, 32 slots) with the trades and
orders of a whole run, the largest number there can ever be in the deque or the lists.
Beyond them both properties are only model-checked: one scenario of buying has a deque of
one row, and all have wait lists of two slots.

The attempts at these proofs led to five corrections of the model.  The log before a restart
may not list a trade twice, nor one of an order that the program is yet to place, nor,
without `sell_unseen`, a SELL (`Past`).  A SELL needs the panel to show the market it is in
(`BuysBooked`): after StartTrading rows of a market may remain that the panel left.
StartTrading, like a roll, comes before a REST load is answered only under
`rest_outlives_window` (`PickMarket`).  And under that fault `SettledNotShort` fails if
something was sold in an *earlier* window, as its late load may bring the SELL alone into
the new one (`LateSells`).  On the other hand the properties used to be claimed only for
states in which the BUYs that a SELL closes had been heard of; that condition proved
unnecessary and was dropped.

**AutoTrading.**  Every handler computes a ledger and hands it to `Publish`, so the proofs
do too: `LedgerOK(l)` is what a handler owes, there is one lemma per handler that it pays
(`BoughtOK`, `DoneOK`, `ClosedOK`, ...), and `PublishKeeps` is proved once.  `IInv` is
`TypeOK`, the shape of runners and messages, and the two ledger facts of every fault.
The three properties that exclude faults need more.

* `BuyInv`, for `WithinCapacity`.  A BUY's claim on its reservation passes through stages:
  the runner posts, its report is on the way, the order rests and is remembered, its last
  report is in the user channel.  A BUY is at one stage only, a claimed token is reserved,
  and no two BUYs claim the same token, so no report can release what another BUY
  reserved, and none can book lots of a token that is not reserved.
* `ExposureInv`, for `ExposureReserved`: with the lots sold and not yet taken off the
  ledger added, the wallet has no more of a token than the ledger has open, or, while a BUY
  claims it, than what that BUY has filled.  SELLs are numbered, their two reports tell the
  same, and the ack is applied first.
* `BalanceInv`, for `LedgerSettled`: open lots and those of BUYs to be booked are the lots
  held and those of SELLs to be taken off, and the latter are never more than open, which
  is what makes the ledger's cut at zero harmless.  Lots under way are counted as the
  elements of the set of pairs of a report and a number up to its size, so a sum is a cardinality.

The proof of `LedgerSettled` failed under the guard that lots are sold only when ledger and
wallet agree: a SELL under way may make the two agree by chance while a BUY is unbooked.
That is why `SellLots` asks for `Unbooked` instead.

**TrailingExit.**  `Good(x, market)` says of one token's record that its queue
has at most one entry, none while an exit is in flight, and not more than the
position; each operator on records has a lemma that it preserves it.
`InFlightBacked` relates the records to the tasks; a marker is set in the step
that starts a task and cleared at the latest by that task's report.  On top of these:

* `TripInv`, for `TrippedExits`: a trail that tripped with nothing queued or under way
  has a SELL of the user whose fill is still to come, and `manual` counts at least the
  SELLs at work.
* `CoverInv`, for `Protected`: arm and session cover the position, or an exit runs,
  one of a token at most, and until its fill is booked the session still covers what it
  sells; a fill of an exit that is not booked belongs to a task that will book it.
* `AloneInv`, for `ExitStartsAlone`: the markers outlast what they stand for.  A task of
  the user is counted, an exit at work is marked, a stop loss that posts has its marker,
  nothing queued and nothing resting next to it, and nothing rests while an exit is queued.

Two of these properties were first stated too strongly: the attempts at a proof led to the
interleavings of a BUY with a running exit that 3.3 describes.

**TrailingStop** (at the end of `TrailingExitProofs`, which extends both modules; they share
no name).  Under `~ArmDisturbed`, for any number of threads.  `StopInv` says three things the
code relies on without saying so.  `ArmInv`: before arming nothing is set, while one thread
arms nobody ratchets, afterwards the stop is set.  `TickInv`: the stop only ever lies behind
the best print, and a call that won the exchange of the best print lies beyond the stop it
started from, which is why a call that skips the breach check because it moved the stop
itself misses nothing.  `FireInv`: the number of calls told to sell is the triggered bit.
Each step then maps to `Arm`, `Trail`, `Trigger` or a stutter (`StepRefines`).

**TakeProfit.**  `BaseInv` is the types, the orders of the exchange (no more than is held,
no report older or smaller than its order) and the lock: a task that cancels, posts or
inserts holds it.  `StepInv`, for `LedgerInStep`: for every order, the last report under way
brings its row in step, or, without one, the row is in step; an `Insert` that comes after
the order moved has such a report behind it.  `OneInv`, for `OneTakeProfit`: what
consolidations have open is about to be cancelled by the holder of the lock, has been, or
is the one it has just posted.  `CoverInv`, for `Covered`: one fill at a time means one
task at a time, and that task, or the report that will start it, goes through the phases
of a consolidation, each with what is wanted, what is open and what is still to be told.
Sums over the open orders (`Total`) have lemmas for one order that is added, removed or
changed.

`MergeInv`, for `DuplicatesMerged`: two SELLs of which the user channel has told every report
are about to be merged (`AsksMerge`).  A consolidation is *promised* (a fill under way, an
acknowledgement or a take-profit that is still to come), a merge is asked for, or a task
that cancels has both on its list.  A second SELL comes to be shown only by a report, which
asks for a merge; whoever takes the lock finds both in the ledger (`RowsShown`, for which a
row is never inserted with less than is open, `Inserts`).  The case that a test would hardly
reach is a request that the loop drops because it has no position: then a fill is not
booked yet (`Booked`: the position and what is to be added are at least what is held and
what is to be taken off), and whatever is not booked starts a consolidation (`Acks`).
Quantities under way are counted as in AutoTrading.

**ClobClient.**  For any callers, scripts, page sizes and numbers of attempts.
`AtMostOnce`: a task is *calm* while the exchange has nothing of its present attempt
(nothing was posted, or it was refused), *in doubt* when the answer was lost.  `Counted`
bounds the orders of a caller by what its task knows: calm, by the answers lost before, if
it is a limit order, and by none otherwise; in doubt, by the answers lost, or one; at any
time by one more than when calm.  That is what the two loops keep: a POST is repeated from
a refusal only, a limit order also from doubt, which costs a fault.

`SignedAsSent` and `AnswersHold` share `AnswerInv`.  Every order and signature the exchange
knows belongs to an attempt that was made before, so a new attempt is always fresh, and
what is signed verifies for each wallet and contract.  No report tells of more than was
filled, and a waiter waits for the last POST of its caller, so what a caller uses was
filled; orders only fill further.  The pages read are a beginning of the list as long as
the list has not moved; a settled balance stays settled; an order that was cancelled does
not rest, as no new order can have its name.  `CredsOnce` gives the cause for a call
without credentials: the caller that derives them holds the lock, and one whose creation
was refused because a key exists has failed before, as no one else created it meanwhile.

**Redeem.**  For any chunk sizes and attempts, and any scenarios with finite sets of rows
and tokens, amounts that are naturals (in hundredths of a cent, or no finite number), and a
chain that knows the conditions they name.
`GateInv` is the shape of the records with `OneRedeem`; the flag is set in the step that
spawns a claim and cleared by its report only, and no other step moves a task from or to
`none`.  `AllowInv` carries the check of the approvals over the steps until the batch is
executed: a claim of a deposit wallet that is past its check, or past the check
after its own batch, has all adapters of *all* its operations approved; what is queued
calls adapters of a chunk of them (`SubSeq` of the operations); and executing
anything only adds approvals.  That the operations are finitely many rows is what the
sequence of them needs.

`PanelCovers` is about what the panel has just read by a multicall of which every call
succeeded (`PanelShows`; a failed call may show less, until a later refresh), so its
invariant is only that the rows listed, those still to be listed, the rows read and the
chain stay well-formed (`PanelInv`); executing a claim empties balances and leaves payouts alone.
The argument is about the sums.  The code adds by pairs of condition and asset that the rows
name, each read from the chain or else taken from the API; the chain pays by token.  Each
token of a row that was read has a pair of its own, which is worth at least what the token
pays (`WorthPaid`), so the one sum covers the other (`SumCovered`), and the total of the API
that the panel may show instead is a larger one.  The proof needed a correction of the model: `Pays` divided by zero for a
condition the chain has no result for, and `Executes` burned the tokens of one, where the
contract rejects the whole transaction.

**OrderLife.**  For any intents with amounts that are naturals, one of the four ticks and a
book that has a price (`IntentOK`), any quirks of the exchange and any cents that a float
misses (`Below`, `Above`).  `OrderInv` is what makes
the two properties of amounts facts about a function: from `Resolve` on the order is
`Sized(intent)`, from `Sign` on the amounts are `Amounts(order)`.

* `AsAsked` then goes rounding by rounding.  `SizedWell`: what an intent is sized to is in
  range.  `SnapNearest`: snapping gives the price of the market nearest to the one asked
  for, also where the clamp has the last word.  `LimitSigned`, `BookBuy`, `BookSell`: what
  the amounts are for a limit order, a market BUY and a market SELL, each of whose two
  roundings (`RoundedUp`, `RoundedDown`, `CentsUp`) moves them by less than a tick or a
  cent.  `LotsCost` bounds what the search for share ticks adds.  A BUY whose book is above
  the highest price the program signs for is clamped to a price below its book, and the
  search alone would have to make up for the difference, up to its limit of steps: hence
  `BookSignable`.
* `TakeProfitEarns` needs that the net proceeds of a SELL grow with its price although the
  fee first grows too (`NetGrows`), so that the least price that earns enough, which
  fees.rs looks for, stays enough after it was snapped up to half a tick away (`ProfitPrice`,
  `PriceOfShares`).
* `RowsRight` rests on `TradesInv`: every trade's row is one the exchange writes for the
  order, as taker (`TakerRight`) or with the user's leg among its legs (`MakerRight`), and
  says what the trade moved; and on `BookedInv`: what was taken from a frame is one of the
  shares its trade moved.  Reading the row finds that leg and no other (`LegPicked`).
* `AckIsFill` rests on `AnswerInv`: an answer that succeeds tells of the one trade the
  POST made, or of none if the order rests.

An attempt at `AsAsked` corrected the property.  It claimed that a limit order is signed
within half a tick of the price asked for, which the instance satisfied and the code does
not: with a tick of a dime, 0.04 is signed as 0.10, the lowest price of that market.  It now
says what the code gives, the price of the market's range that is nearest.

**MarketWatch.**  `HoldersInv`: the event channel is in order, so an event with sums comes
behind the roll of the market they are of and before the next, and applied in turn finds
that market shown; the supervisor ends the poll before it sends a roll.  `ForwardInv`
numbers the places a market passes through, from the one shown over the event channel,
the roll the supervisor holds and the queue of markets to the one discovery has found: of
two markets of a series the one further back never closes before the one in front
(`OrderInv`), and what discovery will find next is not before any of them (`DiscoveryInv`).
That Gamma lists windows in order, and closes a market when it is over (`GammaInv`), is the
assumption on scenarios; the daily lookup lacks the check that the rolling one has, which is
what `watch_daily` shows.

What is only model-checked:

* liveness (the prover has no ENABLED and no fairness);
* `SettledExact` and `SettledNotShort` where the deque is cut, and `SettledExact` where
  a wait list evicts a slot (see FillSync above);
* `PositionIsWallet` of OrderLife: the replay folds the rows of a whole history, so what it
  computes for every history is an induction over data.

Neither checked nor proved is `AsAsked` for a market BUY that meets a book above 0.99 (see
OrderLife above): no intent of the instance has one.

---

## 6. What is not modelled

* Strategy and signals: a floating-point score of one market snapshot, with
  transcendental functions and no state that outlives the snapshot.  AutoTrading lets
  any token carry the strong signal at any time.
* HTTP itself, the HMAC headers, the bytes of hashes and frames, pings and back-off:
  requests have an answer, an error or none.
* Trailing sessions of markets in the background (their dispatch shares the code of
  TrailingExit), prints of public trades, the realized PnL of the panel, the limit modal.
* Round log, replay, training: append-only diagnostics and offline tools; bridge
  deposits: one request shown in a modal; configuration, proxies, drawing, scripts.
* The Chainlink Data Streams feed: another source of the same price through a vendor's
  SDK, behind the forwarder that MarketWatch has.
* Interaction of the order modules.  They share only `AppState` and the channel;
  what FillSync promises (a report reaches the ledger once) is what the others
  assume, except for the one place where `OrderAck` acts before it asks
  `UserTradeSync`, which AutoTrading models as it is (`acked`).

## 7. Plan

In this order:

1. **Several trades per POST** in FillSync, at several prices, where `close_enough` meets
   an average (`user_trade_sync.rs:243`).
2. **The lower half of `PositionIsWallet`**: a restart never finds fewer shares than the
   wallet, whatever the replay made of the rows, as the merge with the balances raises them.

# NexoCrypto: specifications and proofs

TLA+ modules of the core of NexoCrypto, the TLC configurations that check them on small
instances, and theorems about them that the TLAPS proof system checks. Paths below are
relative to `src/`; `API` is `services/api/src/nexocrypto_api`, `ENGINE` is
`services/engine/src/nexocrypto_engine`, `CONNECTORS` is
`connectors/src/nexocrypto_connectors`, `WORKER` is
`services/worker/src/nexocrypto_worker`, `INGEST` is
`services/telegram_ingest/src/nexocrypto_telegram_ingest` and `CONTROL` is
`services/telegram_control/src/nexocrypto_telegram_control`.

## 1. The system

NexoCrypto scans markets, turns strategy signals into trade proposals that a risk engine
accepts or refuses, queues the accepted ones for a human, and carries out what the human
approves as a market order on the Bitunix futures venue.

| component | state | operations | interacts with | what makes it hard | modelled in |
|---|---|---|---|---|---|
| decision endpoint, execution coordinator (`API/routes.py`, `API/execution_coordinator.py`) | none of its own; `_IDEMPOTENCY` in process memory | approve, reject, continue, close, breakeven, protect | store, execution engine | concurrent requests, five separate writes after a venue write, values read before awaits | `ApprovalExecution` |
| execution engine, idempotency store (`ENGINE/execution`, `ENGINE/risk/idempotency.py`) | claimed keys with an expiry | open_position, close_position, try_acquire | connector | timeouts, retries, restarts forget claims | `ApprovalExecution` |
| PgStore (`API/pg_store.py`, `supabase/migrations`) | approvals, orders, trades, audit_logs, mode_state, exchange_connections, risk_profiles, fee_schedules, strategies, tenants, signals | one SQL statement or two per call, autocommit, a connection per call | every service | each call is a transaction of its own; check-then-insert | `ApprovalExecution`, `ScanDaemon`, `AccountTables` |
| in-memory store (`API/store.py`) | the same in dictionaries | the same | tests, development | differs from PgStore on decided rows and on duplicates | `ScanDaemon`, `ControlBot`, `AccountTables` |
| Bitunix REST connector (`CONNECTORS/bitunix/connector.py`) | none | place_order, reads | venue | an error does not say whether the order exists | `ApprovalExecution`, `MarketDesk` |
| Bitunix websocket (`CONNECTORS/bitunix/ws.py`) | socket, heartbeat task, subscriptions | connect, subscribe, unsubscribe, messages, aclose | venue | coroutines interleaving over `_ws` and `_subscribed` | `PublicSocket` |
| risk engine (`ENGINE/risk`) | none (account, profile and claims are passed in) | authorize_new_entry | scanner, paper engine | order of the gates, boundaries, a stale account | `RiskEngine` |
| protected profit (`ENGINE/risk/protected.py`) | peak and floor, held by the caller | advance_protected_floor, should_trigger, breakeven | no caller yet | the ratchet | `ProtectedProfit`, `Replay` |
| scanner, daemon, CLI (`WORKER`) | per-tick claims, stop event, one connector | scan_once, the tick loop | connector, risk engine, store | three transactions per signal, concurrent symbols, stop, crash | `ScanDaemon` |
| telegram ingest (`INGEST`) | seen hashes | start, stop, handle_message | telegram, a consumer | marked seen before delivered | `TelegramIngest` |
| telegram control bot (`CONTROL`) | handler table | register, dispatch, send | telegram, store | redelivered clicks, actions without a handler | `ControlBot` |
| backtester, fills, metrics, paper engine (`ENGINE/backtest`, `ENGINE/paper`) | trade list, equity | run, simulate fills, summarize, tick | strategies | stop before target in one bar, look-ahead | `Fills`, `Replay` |
| strategies, indicators (`ENGINE/strategy`) | none | evaluate | - | warmup, alignment | `Indicators`, `Strategies` |
| risk profiles, fees, strategies, modes, connections (`API/routes.py`, both stores) | their tables | get and put | store | several statements per call, seeding on a read | `AccountTables` |
| tenants, admin, SSO (`API/admin.py`, `API/sso.py`, `API/auth.py`) | tenants table; tokens held by browsers | provision, pause, landing, logout, current_user_id | store | concurrent provisioning, tokens that outlive a logout | `AccountTables`, `Sessions` |
| market routes (`API/routes.py`), Coinglass and CryptoPanic connectors | a client per request | klines, indicators, markets, coinglass, orderbook, news | venues | several awaits of one client, partial failure | `MarketDesk` |
| LLM analyst, other connectors, dashboard, shared types | none | I/O | - | - | not modelled |

What makes each correct: an approval buys at most one position and only while the live
gate is open; the books never claim a position that is not there, and a position reaches
the books; decisions are final; every outcome is audited; a refused entry burns no key;
the exposure caps hold; the floor never falls; a backtest trades what paper trading would
and sees no bar of the future; what a tick reports is what it stored; a daemon told to stop
does; a closed socket is quiet and its record agrees with the venue; a signal is handed over
once; a decision is a click's; a tenant is created once; a session ends; a client is closed. `PROJECT.json` lists the hazards, each
at its line, with the properties that cover it or the reason why none does.

## 2. Modules

| module | what it is |
|---|---|
| `ApprovalExecution` | the pipeline from the approve click to the booked order: store, coordinator, engine, claims, venue, faults |
| `ApprovalLedger` | what the pipeline promises, without handlers, keys or clock |
| `MCApprovalExecution` | the small instances TLC checks |
| `ApprovalExecution_proofs` | proofs of the safety invariants, of the refinement, that a timely approval buys at most once, and that outcomes are audited |
| `RiskEngine` | `authorize_new_entry` with its gates and the account it judges by |
| `MCRiskEngine` | the small instance TLC checks |
| `RiskEngine_proofs` | proofs of its bounds on entries, losses, margins and claims |
| `Indicators`, `Strategies`, `Fills`, `ProtectedProfit` | operators: the indicator library, the three `evaluate`s, the fill model and the summary, the ratchet; each extends the one before |
| `Replay` | one market read by the paper engine, a protected position and the backtester; composes the four |
| `MCReplay`, `Replay_proofs` | its instance; proofs about types, indicators, signals, trades, stops, funding, drawdowns and floors |
| `ScanDaemon` | the daemon's loop and the concurrent ticks of `scan_once` with their writes |
| `DecisionQueue` | what the scans promise of the tables, without ticks, rounds or crashes |
| `PublicSocket` | the websocket, its callers, its heartbeat, its reader and the depth-book stream |
| `TelegramIngest`, `ControlBot` | messages in, clicks in |
| `MCFeeds`, `ScanDaemon_proofs`, `Feeds_proofs` | the instance of those four; proofs |
| `AccountTables` | the account routes over either store, statement by statement |
| `AccountRegistry` | what the routes promise of modes and tenants, in single steps |
| `Sessions` | launch tokens, landings, cookies and `current_user_id` over a clock |
| `MarketDesk` | the market routes and the outcome of each connector call |
| `MCDesk`, `AccountTables_proofs`, `Desk_proofs` | the instance of those three; proofs |
| `Recursion_proofs` | lemmas the proofs share: least and smallest counterexamples, recursive functions, folds, maxima and minima |

### The pipeline in `ApprovalExecution`

A *request* is one POST of `approve` to `/approvals/{id}/decision`. `pc[r]` is the awaited
call its handler is suspended in. PgStore opens a connection per call with autocommit
(`API/pg_store.py:41-42`), so a handler suspends at every store call, other handlers run in
between, and each call commits by itself: one action is one store call together with the
code up to the next suspension. `InMemoryIdempotencyStore.try_acquire` never suspends
(`ENGINE/risk/idempotency.py:27-33`), so the claim and the start of `place_order` are one
action, `OpenSend`.

| state | code |
|---|---|
| `approval[a]` | `approvals.status`; "absent" before the scanner's insert |
| `account`, `connected` | the row of `mode_state`; a bitunix row in `exchange_connections` |
| `trades`, `orders`, `audit` | the rows of those tables; `orders` is keyed by the unique `idempotency_key` and holds the `trade_id` |
| `pc`, `idem`, `epoch`, `now` | suspended handlers, `_IDEMPOTENCY._keys`, process incarnations, `time.monotonic()` |
| `wire` | the `place_order` call at the venue: none, sent, accepted, rejected, lost |
| `started`, `sawOpen`, `sentAt`, `sentIn`, `settledBy` | history the code does not keep; no guard reads it except the `Latency` bound of `Tick` and the request's age |

| action | code |
|---|---|
| `AddApproval`, `Decide`, `SetMode`, `UnlockLive`, `SetLock`, `AddConnection` | scanner insert and operator endpoints |
| `Receive`, `GetApproval` | `API/routes.py:62-90` |
| `GetMode`, `ResolveInert` | gate and non-live path, `API/execution_coordinator.py:70-90` |
| `GetConnection`, `OpenBlocked`, `FactoryFails` | `:92-139` |
| `OpenDuplicate`, `OpenSend` | `ENGINE/execution/executor.py:109-141` |
| `VenueAccepts`, `VenueRejects`, `OrderLost` | the venue and the network |
| `Reply`, `NoReply` | `executor.py:178-195`, the connector's timeout and error paths |
| `AddTrade`, `AddOrder`, `ResolveLive`, `AddAuditLog` | booking, `execution_coordinator.py:154-220` |
| `StoreFails`, `Crash`, `Tick` | a store call raises; the one uvicorn process restarts; the clock |

Abstractions. One user and one venue: rows of other users are never read. A quantity is
present and positive or it is not (`HasQty`); prices and the rest of the order are dropped.
`SetMode` merges the read and the write of `set_mode`: the read looks at `live_unlocked`,
which no code clears; `AccountTables` has the two as steps and proves it (`ModeGated`). `full_auto` is refused by `set_mode`, so it is not a mode of the
account. The executor's REJECTED report cannot occur, since the coordinator checks mode and
quantity first. `mode_state.account_protection_lock` has no writer in the repository; it is
set and cleared at will. The venue may accept or refuse any order, one with a `clientId` it
has seen included: the code relies on neither. A store write whose acknowledgement is lost
is the write followed by `StoreFails`.

### The risk engine in `RiskEngine`

The engine keeps no state: `authorize_new_entry` is given an `AccountState`, a `Signal`, a
`RiskProfile` and the store of claimed keys. Its answer matters when it is an approval, and
an approval is the one action of the module, `Authorize`; a refusal changes nothing. The ten
gates are the disjuncts of `Refused`, in the code's order, then the claim of the key.

An approved entry is not a position yet: a human decides it (semi_auto), or the next bar
fills it (paper), and meanwhile the engine judges other signals by an account that does not
show it. `stage` has such entries as `queued`; `Pending` bounds how many there may be. In
`scan_once` every strategy of a tick is judged by the same snapshot, so `Pending` is at
least the number of strategies.

| state, operators | code (`ENGINE/risk`) |
|---|---|
| `account` | the scalar fields of `AccountState` (`types.py:67-85`) |
| `Cardinality(In("open"))`, `Exposure(In("open"))` | `open_positions_count`, `total_exposure_bps` |
| `idem` | the claims of the `IdempotencyStore` |
| `GateUnmet`, `Stale`, `CoolingDown`, `LossLimitReached`, `AtCap` | `guards.py` |
| `LiquidationTooClose` | `liquidation.py` |
| `TargetTooClose`, `Margin`, `RiskAmount`, `SizeRefused` | `sizing.py` |
| `CostsBps`, `ExpectedValue`, `ValueRefused` | `ev.py` |
| `Execute`, `Drop`, `Settle`, `Keep` | external |

No code of the repository updates an `AccountState` (the scanner makes a fresh one per tick,
the paper engine leaves it to its caller). The external actions are the least the fields
mean: a fill adds to the trades of the last hour, a close moves equity, the day's and the
week's result and the peak, and stamps a loss; the flags and stamps change at will. A
position loses at most what it was sized to lose, which is what `sizing.py:3-6` sizes for;
fees, slippage and funding are on top of the bounds below, and a gap through the stop is
outside them. The margin of an entry, in bps of equity, stays what it was at its approval.

Abstractions. Decimals are integers: ratios are cross-multiplied, so that the comparisons
are the code's own, and the instance's margins divide exactly. `min_rr` is in tenths, win
rates in per cent. `min_qty` is 0 at the only call, so the size is refused only when it is
not positive. The maintenance margin rate is a natural number: the code refuses others.

### Replay: strategies, paper engine, backtester and protected profit

`Indicators` has every function of `ENGINE/strategy/indicators.py` as a function from a
sequence of bars to a sequence of the same length; `Strategies` has the `evaluate` of the
three strategies; `Fills` the fill model and the summary; `ProtectedProfit` the ratchet. A
`Decimal` is an integer and a division rounds down; a fraction among the parameters is a
pair and is cross-multiplied. `None` is the warmup value and the absent signal.

| state | code |
|---|---|
| `bars` | the `klines` seen so far |
| `ticks` | the `PaperTickResult` of each bar |
| `position`, `exited` | a `PositionState` as its fields ask to be kept, and the last one closed |
| `i`, `trades`, `report` | the locals of `Backtester.run`, and its result |

| action | code |
|---|---|
| `Arrive` | the market: the next bar, of one of `Shapes` relative to the last close |
| `PaperTick` | `PaperEngine.tick`; the risk engine answers as it likes (`RiskEngine` has its gates) |
| `Mark` | `protected.py`: net gain, `advance_protected_floor`, the exit test. No code of the repository calls them; one position at a time is marked at each close |
| `TestSkip`, `TestTrade`, `TestDone` | one pass of the `while` of `Backtester.run`, and its end |

What reading the code showed: the ADX is written one bar behind the bar it is computed
from, and when two or more leading bars have a smoothed true range of zero, which are left
out of the DX series (`indicators.py:137`) while the result is placed by position (`:153`),
at bars *earlier* than that, so it looks ahead; `IndicatorsCausal` names this exception. A stop is filled at the
stop even when the bar opened beyond it, so a "stopped" trade may gain; `StopsLose` names
that one. `protected.py:11` says the floor never reaches the peak; with a peak of zero or
less it does, and `FloorBelowPeak` says what holds.

### ScanDaemon

`ticks[s]` is the tick of a symbol: where it is suspended, its time and the outcome of each
strategy so far. `Fetch`, `Evaluate`, `AddParsedSignal`, `AddValidatedSignal`, `AddApproval`
and `Report` are `scan_once` in its order; `Fail` is any exception, which `_tick` prints and
drops (`WORKER/daemon.py:37-38`). A write that committed may still fail for its tick.
`StartRound` and `EndRound` are the `gather`, `Wake` the wait for the interval, `Stop` the
signal handlers, `Interrupt` what happens where there are none, `Crash` and `Restart` the
process and its supervisor. The daemon never passes `mode`, so it scans in paper mode and
queues no approval; the other use of `scan_once`, a caller in semi-auto that may run a
tick again under its old time, is the same loop under another `setup` (nothing in the
repository but tests does so yet). `approvals` counts rows: Postgres has one for a key,
the in-memory store appends. `parsed_signals` is not unique on its hash, so a re-run tick
duplicates rows there; the model keeps sets.

### PublicSocket

One owner connects and closes (`owner`), tasks subscribe and unsubscribe (`calls`), the
heartbeat and the reader run beside them; every `await` is a point between two actions.
`lines` are the connections ever made, with what the venue sends on each; `ws`, `heartbeat`
and `recorded` are `_ws`, `_heartbeat_task` and `_subscribed`. `usage` is a plain socket or
a `BitunixDepthBooksStream`, whose `__aenter__` subscribes: when that raises or is cancelled
nobody calls `__aexit__`, and connection and heartbeat stay (`owner = "abandoned"`).
Assumed: two tasks never handle the same channel, and a plain subscriber is not cancelled
while it sends; without the first, the order of two sends and of their two records may
differ. The cap is compared before the send and the record extended after it, so concurrent
subscribers overshoot it by what the others have in flight. `aclose` keeps `_subscribed`, so
after a reconnect the cap counts channels nobody sends. After a drop `connect()` returns
early, since `_ws` is still set, and the heartbeat ends at its next ping; `ClosedIsQuiet` is
about closes and judges neither this nor an entering that fails. Nor does the second part of
`SubscriptionsCounted`, which is about the time until a reconnect. A malformed level
raises in `decode_depth_books`, though its docstring says None, and ends the reader.

### TelegramIngest and ControlBot

A text is what the parser's expressions find in it: the pair, the direction words, the
labelled number, the one after the side, the stop. `HandleSignal` is `handle_message` up to
its first `await`, check and mark included; `HandedOver` is the consumer's return or
exception. A corrected stop has the same `dedup_hash` and is dropped.

The bot keeps a handler table; `posted`, `updates`, `resolving` are the chat, the updates on
their way and the handlers that run. Telegram may deliver a click again until it is
answered. The handlers are the caller's; here they do what the bot's docstring asks,
`resolve_approval` in either store. The in-memory store keeps the raw action and overwrites
decided rows.

### AccountTables, Sessions and MarketDesk

A request of `AccountTables` asks for one operation and goes through its statements; `Cut`
loses it between two. Operations of the in-memory store are one step. `tables` is the store,
the other variables the tables. `profiles` are in the order of their random ids, of which
`get_risk_profile` reads the first; `get_exchange_connection_enc` reads the newest row in
Postgres and the oldest in memory. A seeding of the strategies that is cut stays partial,
because only an empty table is seeded. `provision_tenant` is said to be idempotent
(`admin.py`); the loser of two concurrent calls gets a unique violation, a 500, and the right
token on its next try, which no property forbids. `TablesWhole` says what the code keeps to when a
request is cut: it confines a partial upload to the first rows of the request that was cut
and a partial seed to a seeding that was cut or runs, and does not forbid them.

`Sessions` has the launch tokens Nexo AI signed, the session tokens minted here, the browser's
cookie and a clock in hours. A request may present any minted token: a copy outlives the
logout. In jwt mode a cookie decides, even an expired one beside a valid bearer. A tenant's
`paused` status is not read by `current_user_id`. Signing is the assumption that only tokens
in `launched` and `minted` verify.

A request of `MarketDesk` is its route, the client it opened and the outcomes of its calls.
Each call answers with what its connector makes of the wire: rows, a `ConnectorError`, or
another exception (`r.json()` and `row[...]` are outside every `try`). The account routes
and market routes check a caller before anything; a caller turned away is `Refuse`, `TurnAway`.

## 3. What TLC checks

| run | instance | shows |
|---|---|---|
| `faults` | two clicks on one approval, all faults, one restart, clock to 2, TTL 2 | `SendsSpaced`, `BooksBacked`, `ExecutedIsBooked`, `SendsSawOpenGate`, `DecisionFinal`, the inductive invariant `IInv` with the type invariant in it, and that the pipeline implements `ApprovalLedger` |
| `timely` | two clicks on one approval, no fault, TTL 3, requests of at most 1 tick, clock to 5 | `AtMostOnePosition`, `EveryOutcomeAudited`, and under fairness `PositionsBooked` |
| `answered` | one click on an approval with a quantity, one on an approval without; lost replies, failing store calls | under fairness `ClicksAnswered` |
| `duplicate` | reply fault | *violated*: `AcceptedNotResent` |
| `lock` | no fault | *violated*: `LockStopsEntries` |
| `rejected` | no fault | *violated*: `RejectedNotExecuted` |
| `unaudited` | factory fault | *violated*: `EveryOutcomeAudited` |
| `caps` | four entries, three signals, two positions at once, two undecided approvals, clock to 2 | `EntriesBounded`, `LossesBounded`, `ExposureBounded`, `KeyHeldByApproval`, type correctness of `RiskEngine` |
| `asset` | two entries, one undecided approval | *violated*: `AssetCapHolds` |
| `replay` | every market of up to six bars of four shapes, under each of three strategies | `IndicatorsCausal`, `SignalsHaveSides`, `TradesDisjoint`, `ExitsAtFirstTouch`, `StopsLose`, `FundingIsDue`, `BacktestIsPaper`, `DrawdownIsDeepest`, `FloorBelowPeak`, `FloorNeverFalls` |
| `feeds` | daemon: two symbols, two strategies, two rounds, a crash; socket: two tasks with two channels a call, a cap of two, two or three connections; ingest: six messages delivered twice, two starts; bot: two approvals, a position, three clicks | `StoredAsReported`, `SubscriptionsCounted`, `ClosedIsQuiet`, `HandedOnce`, `DecidedAsClicked`, that the scans implement `DecisionQueue` (`ImplementsQueue`), and under fairness `EndsWhenTold` |
| `desk` | three requests to the account tables of either store; two tokens of either kind over four hours; two market requests | `TablesWhole`, `SessionBounded`, `EveryClientClosed`, and that the tables implement `AccountRegistry` (`AtomicAccounts`), which has `ModeGated` as a consequence |

`replay`, `feeds` and `desk` check their type invariants too (`TypeOK`, `FeedsTypeOK`,
`DeskTypeOK`).

Bounds. Two requests are the interesting number: every property relates one request, or two
of the same key, and the theorems below show that the invariants do not depend on the number.
The clock bound of `faults` equals TTL, so that a claim made at 0 expires and a retry is
sent; the bound of `timely` lets a request be followed by two more lifetimes and by the expiry of its
claim. One restart is enough for a claim to be forgotten while its order is alive. With
`TTL = 2 * Latency` in `timely`, TLC finds a second position: the strict inequality in
`Timely` is sharp. The real values are a TTL of 60 s and a 5 s client timeout, but store
calls have no timeout, so `slow` requests are among the faults.

In `caps`, an equity of 100 with a risk of a tenth makes three losses cross every limit, the
two margins make two entries fit under the total cap or not depending on which they are, and
four entry slots are one more than the bound of `EntriesBounded` allows, so that a cap that
fails has room to show it. Equity is bounded above by a win that is not booked; below, the
drawdown limit bounds it.

Every run of the pipeline sets `CHECK_DEADLOCK FALSE`: a request is answered once, approvals are finitely
many and the clock is bounded, so a behaviour may end.

Fairness. `FairSpec` has weak fairness of each handler and of the venue's answer to each
order: the event loop resumes a handler whose awaited call has ended, store calls and HTTP
calls end (by an answer or by an exception), and a venue answers what it received. Nothing
is assumed of operators, the clock, crashes or faults. `ClicksAnswered` needs the client's
timeout (`NoReply`): without it a lost order hangs its click. `PositionsBooked` is checked
without faults because a failing store call or a crash after the send does leave a position
outside the books; `BooksBacked` says that the error is only ever on that side.

What the caps promise. The engine sees open positions only. So the caps are not hard limits,
and the properties say how far they may be passed: by `Pending - 1` entries
(`EntriesBounded`), by one asset cap of margin for each of those (`ExposureBounded`), and for
losses by one risk amount for each position that was live when the limit was not yet reached
(`LossesBounded`). With `Pending = 1` the first two are the configured caps themselves.

In `replay` the parameters are short (periods of one to three bars, lookback of three) so
that every strategy fires within six bars; the shapes are a flat bar without volume, which
leads to the zero divisors, a gap up, a gap down, and a bar that spans both ways and touches
stop and target at once. Backtests run over five and six bars, so a market may hold two
trades. Every market is a behaviour: 4^6 of them for each strategy, with the risk engine's
answers. `IndicatorsCausal` compares each indicator on a prefix with itself on the longer
market; `DrawdownIsDeepest` compares the fold with the definition over all pairs of trades.

In `feeds` and `desk`, the components of an instance share no state and no property relates
two of them; `process` and `part` choose one at the start, since interleaving them would
multiply the states and add no behaviour of any. Two symbols and two strategies are what
`StoredAsReported` relates, two rounds make a re-run tick, one crash a restart. Two tasks
with two channels each pass a cap of two; a third task would only repeat the second, and the
bound of `SubscriptionsCounted` names their number. Two connections make a record older than
its line; a stream needs a third to be refused by its own record. Two deliveries and two
starts make a duplicate and a forgotten hash; two clicks decide an approval twice, the third
is elsewhere. Of three requests two race and the third reads what they left; one user and
one tenant suffice, since rows of others are never touched. Tokens last one and two hours of
four, so a session is minted, outlives its launch token and ends.

`feeds` and `desk` stop when their bounds are used up, and a stopped daemon stays so; a
market ends after `MaxBars`. Their runs set `CHECK_DEADLOCK FALSE` for that.

Fairness of the daemon: weak fairness of each tick, of `EndRound`, `Wake` and `Exit`.
Requests have client timeouts, database calls end by an answer or an exception, the event
loop runs what is ready, and the wait has a timeout of its own. Nothing is assumed of
`StartRound`, of signals or of crashes. `EndsWhenTold` lets a crash answer instead.

### Where the repository says otherwise

* `duplicate`: `executor.py:133-134` promises that a retry "is dropped, not re-sent". A
  timeout after the venue accepted the order is reported FAILED, the row stays pending, and
  a retry after the claim's 60 s sends the same key again. What does hold is `SendsSpaced`.
* `lock`: `execution_coordinator.py:5-6` promises no execution under an account-protection
  lock. The lock is read once, three awaits before the order. What holds is
  `SendsSawOpenGate`: the gate was open at some moment of the request's life.
* `rejected`: `0003_approvals.sql:4-6` says the status is flipped before any exchange
  write. The live path flips it last, and a row rejected meanwhile is executed.
* `unaudited`: `execution_coordinator.py:13` promises an audit row for every outcome. A
  connector that cannot be built (line 139) raises out of the handler.
* `asset`: `sizing.py:75-77` explains the per-asset cap as what an asset may use in all. The
  code compares it with the new order alone; `exposure_per_asset_bps` is never read.

## 4. What is proved

For every set of requests and approvals, every TTL, latency and bound, and every set of
faults (`ConstantsAssumption` only gives the constants their types):

| theorem | states |
|---|---|
| `TypeCorrect` | `Spec => []TypeOK` |
| `Inductive` | `Spec => []IInv` |
| `SendsAreSpaced` | `Spec => []SendsSpaced` |
| `BooksAreBacked` | `Spec => []BooksBacked` |
| `ExecutionsAreBooked` | `Spec => []ExecutedIsBooked` |
| `SendsPassTheGate` | `Spec => []SendsSawOpenGate` |
| `DecisionsAreFinal` | `Spec => DecisionFinal` |
| `PipelineImplementsLedger` | `Spec => ImplementsLedger` |
| `TimelyIsInductive` | `Timely` implies `Spec => []TimelyInv` |
| `TimelyApprovalBuysOnce` | `Timely` implies `Spec => []AtMostOnePosition` |
| `OutcomesAreAudited` | without failing store calls and factory, `Spec => []EveryOutcomeAudited` |

`IInv` is the conjunction of `TypeOK` and three parts, each inductive relative to the type
invariant:

* `SendInv`: before `open_position` nothing was sent; a send of the running process holds
  its key until TTL after it. `SendsSpaced` alone is not inductive: a state in which the
  claim of a sent order is missing would allow a close second send.
* `BookInv`: each booking point knows the step before it happened (`add_order` a trade row,
  `resolve_live` an order row), and a row is settled exactly when somebody settled it.
* `GateInv`: past the gate check, `sawOpen`; and whoever is in flight while the gate is
  open has seen it open.

`TimelyInv` is the strengthening for `TimelyApprovalBuysOnce`: requests are young, a live order's
handler is at work or its approval is settled, whoever passed the status check began at
most `Latency` after the live order's handler did, and a key has one live order. The step
that matters is `OpenSend`: if another order of the key were alive, the sender would have
begun within `Latency` of it and be at most `Latency` old, so the claim, `TTL > 2 * Latency`
long, would still stand.

The refinement maps the ledger's `outcome` to `settledBy` and its `positions` to the orders
the venue accepted; handler steps, claims, faults and the clock stutter.

For the risk engine, for every set of signals, every profile with positive limits, every
`Pending` and every set of results (`RiskAssumption`):

| theorem | states |
|---|---|
| `TypeCorrect` | `Spec => []TypeOK`: margins and risk amounts are never negative |
| `EntriesStayBounded` | `Spec => []EntriesBounded` |
| `LossesStayBounded` | `Spec => []LossesBounded` |
| `KeysAreHeldByApprovals` | `Spec => []KeyHeldByApproval` |
| `ExposureStaysBounded` | `Spec => []ExposureBounded` |

`EntriesBounded` is inductive as it stands: an approval is given below both caps and below
`Pending`. `LossesBounded` needs `RisksFit`: the risk of every live entry is at most the
profile's share of the peak, which holds because equity never passes the peak and the peak
never falls. With `Slack` the number of entries that could still be added, the argument
is that an approval is given below the limit itself, so that the bound holds for any `Slack`
(`AuthorizeLosses`); a close adds at most one risk amount to a loss and one to `Slack`
(`SettleLosses`); nothing else adds to a loss. The products are handled by `LossKept`,
`LossKeptOrGone` and `LossGrows`.

`ExposureBounded` bounds a sum over a set, which is a fold. `ExposureIsTotal` reads the fold
as the recursive function it is; `TotalTypeAndTake`, `TotalSame` and `TotalBeside` say that
the order in which the members are taken does not matter, that only their values do, and
that a new member adds its own. `ExposureInv` adds that no entry's margin is over the asset cap. It is
preserved action by action: an approval is given when the open positions and its own margin
are within the total cap, and whatever is undecided beside it is at most `Pending - 1`
entries of at most an asset cap each.

For the replay, for every set of bar shapes, any strategy parameters and fill model, any
giveback from 1 to 100 per cent and any bounds (`ReplayAssumption` and the assumptions of the
modules it extends):

| theorem of `Replay_proofs` | states |
|---|---|
| `FloorsStayBelow` | `Spec => []FloorBelowPeak` |
| `FloorsOnlyRise` | `Spec => FloorNeverFalls` |
| `OnePositionAtATime` | `Spec => []TradesDisjoint` |
| `FirstTouchEnds` | `Spec => []ExitsAtFirstTouch` |
| `BacktestsArePaper` | `Spec => []BacktestIsPaper` |
| `ReplayKeepsItsTypes` | `Spec => []TypeOK` |
| `IndicatorsAreCausal` | `Spec => []IndicatorsCausal` |
| `StopsLoseAtPrices` | with `FillModel.funding >= 0`, `StopsLose` whenever the trades are `Priced` |
| `DrawdownsAreDeepest` | `DrawdownIsDeepest` whenever the equity curve of the report stays above zero |
| `TradesPayTheirFunding` | `Spec => []FundingIsDue` |
| `SignalsKeepTheirSides` | with stop and target multiples above zero, `SignalsHaveSides` whenever all bars are `Moving` |

`PositionInv` has the position's peak nonnegative and its floor below it unless both are zero.
`MarketInv` says that each tick has the signal the strategy gives on the bars before it;
`TradesInv` that every trade is opened at the bar after its decision, closed at `ExitBar`,
and that the backtester is past the last of them. These proofs never expand `Evaluate`, so
they hold for any strategy that reads the bars it is given. That `ExitBar` is the least
touching bar rests on `Least`, by well-founded induction on the naturals.

The type invariant is about what every indicator and strategy answers: that a mean, a true
range or a smoothing of whole numbers is a whole number or the warmup value, that a signal
has whole prices and a trade whole costs (`TypesInv`, one lemma per operator). Sums, maxima
and the equity curve are folds or recursive functions. The prover has no induction over
data, so the argument is always the same one, made once in `Recursion_proofs`: the graph of
the recursion exists up to every length (`RecursionExists`, `FoldExists`), and two functions
that solve the same recursion differ at no index, because they would differ at a least one
(`Least`). `IndicatorsAreCausal` is that argument for two series of which one is a cut of the
other: `EmasAgree`, `SmoothsAgree` and `SumsAgree` for the three kinds of average. For the
ADX, `DxSeriesGrows` says that one more bar adds at most one DX, so that the value placed at
a bar is the same unless two bars or more were left out of the series, which is the
exception `IndicatorsCausal` names.

Three theorems need a hypothesis the code does not check, and state it. `StopsLoseAtPrices`:
`FillModel` takes any funding rate and `Trade` any price, and a trader who receives funding,
or pays fees on a negative price, may gain by a stop; `BookedInv` ties each trade to the
signal and the bars it was made of. `DrawdownsAreDeepest`: `Summarize` keeps the highest
equity so far and compares each equity with that alone, and the fall from the highest is the
largest share of any earlier equity only while all are positive; `DrawnInv` ties a report to
its trades and `DrawdownFolds` the loop's state to the curve. TLC finds both hypotheses to
hold in every state of the `replay` run, whose properties are stated without them.
`SignalsKeepTheirSides`: a stop is a multiple of the average true range away from the entry,
so in a market without any range, or with a stop multiple of zero, it is at the entry, and
the mean reversion target, the VWAP, is a price only if prices are not negative. `Moving`
says that prices are not negative and that the ranges the strategies take are above zero
once they are known; `TrendSides`, `MeanRevSides` and `FvgObSides` then give each strategy's
signal its sides from its own entry conditions. A mean reversion stop must also be at least
one range away, because here a division rounds down; the code's does not. Signals of all
three strategies occur in `replay` with all bars `Moving`.

`FundingIsDue` says which number of intervals a trade pays, and `funding_paid_for_hold` how
it is computed: truncated, one added for a remainder, one at least. `CyclesAreFewest` is the
lemma that the two agree.

For the feeds, for any symbols, plans, callers, batches, caps, texts, ids and bounds:

| theorem | states |
|---|---|
| `ScanDaemon_proofs.TablesAgreeWithReports` | `ScanSpec => []StoredAsReported` |
| `ScanDaemon_proofs.StopsQuietly` | `ScanSpec => []StoppedQuietly`, the safety half of `EndsWhenTold` |
| `Feeds_proofs.ClosingIsComplete` | `SocketSpec => []ClosedIsQuiet` |
| `Feeds_proofs.SubscriptionsAreCounted` | `SocketSpec => []SubscriptionsCounted` |
| `Feeds_proofs.MessagesAreHandedOnce` | `IngestSpec => []HandedOnce` |
| `Feeds_proofs.DecisionsAreClicks` | `BotSpec => DecidedAsClicked` |
| `Feeds_proofs.FeedsKeepTheirTypes` | `MCSpec => []FeedsTypeOK`, whichever of the four processes runs |
| `ScanDaemon_proofs.ScansFillAQueue` | `ScanSpec => ImplementsQueue` |

`ScanInv` knows at each write point which of the tick's earlier writes are in the tables, for
the signal at hand and for those before it, and that no tick runs between rounds.
`DecisionQueue` keeps no ticks: a signal is recorded, decided after that, and waits after its
approval; nothing is taken back; and whoever is told of a verdict is told of one that is
kept. The mapping takes the three tables as they are and, as what is told, the outcomes of
the ticks that are done. `QueueStep` takes the actions one by one: each write is one of the
queue's steps, because `ScanInv` has the earlier writes of the signal in the tables; a tick's
report, a new round and a crash are `Tell`; all else stutters.
`SocketInv` has at most the last line open and says what `_ws` and the heartbeat are wherever
the owner is. `IngestInv` ties the counts to `seen` and each kept signal to a start.
`BotInv` has every update and running handler come from a click. `CountInv` is what
`SubscriptionsCounted` needs: while a task is in a call its channels are on no later
connection, and on that one as its frame left them (`ChannelsInv`); and the record with what
is asked for beside it stays within the cap and a batch for every task but one (`CapInv`),
since a subscription is let in when the record has room for its batch, without a look at the
batches under way. What is asked for is counted by the places of the batches, a finite set,
and not by a sum; `WithoutIs` says what the record keeps after an unsubscription.

For the desk, for any requests, users, tenants, rows, keys, lifetimes and bounds:

| theorem | states |
|---|---|
| `AccountTables_proofs.ModesAreGated` | `TablesSpec => []ModeGated` |
| `AccountTables_proofs.TablesAreWhole` | `TablesSpec => []TablesWhole` |
| `AccountTables_proofs.AccountsAreAtomic` | `TablesSpec => AtomicAccounts` |
| `Desk_proofs.SessionsAreBounded` | `SessionsSpec => []SessionBounded` |
| `Desk_proofs.ClientsAreClosed` | `DeskSpec => []EveryClientClosed` |
| `Desk_proofs.DeskKeepsItsTypes` | `MCSpec => []DeskTypeOK`, whichever of the three parts runs |

`TablesInv` has a request between the read and the write of `set_mode` still find its gate
open, the rows of an upload be the first ones up to its step, every key a seeding has
inserted be in the table, and every answer of a provisioning the token in the one row.
`SessionsInv` adds that every minted token is of a launch token and ends `SessionTtl` after
it; `MarketInv` what the client and the outcomes are at each point of a route.

`AccountRegistry` has no requests under way. The mapping takes a mode and a gate as they are,
the tokens and the statuses of an external id from its rows, and as an answer the token a
provisioning that is done was given. The step of the registry is the write: `WriteMode`, since
the gate that was read open is still open (`ModesStep`); the insert, or the read that finds
a row (`ProvisionStep`); the update of a status, which without a tenant changes nothing
(`StatusStep`). Reads that lead to a write, the unique violation of the later of two
inserts, `Cut`, and the operations on other tables stutter (`OthersStay`).

Only model-checked: `PositionsBooked`, `ClicksAnswered` and the liveness half of
`EndsWhenTold` (liveness under fairness is out of the prover's reach); and `StopsLose`,
`DrawdownIsDeepest` and `SignalsHaveSides` without the hypotheses of their theorems, on the
instance's parameters and markets.

## 5. Not modelled

* LBank, CoinMarketCap and Binance-data connectors, and the order and account reads of the
  Bitunix connector: used by no route and no worker; decoding of answers without state.
* The LLM analyst: text in, text out, and its answer gates nothing.
* `breakeven_plus_fees`: a formula without state or caller. The list routes and `list_*`
  reads: they change nothing. `queue_backtest` answers without doing anything, `/stream`
  yields one event.
* Cryptography (vault, request signing, JWT signatures) and row-level security: the models
  assume that only the signer makes tokens that verify, and read the rows of one user.
* The dashboard, logging, message texts and the reason texts of signals and refusals.
* `_ensure_user` of PgStore, an insert that does nothing on conflict.

Not composed: the scanner with the pipeline. `AddApproval` of `ApprovalExecution` inserts an
approval at any time, which allows all that `ScanDaemon` does; `ImplementsQueue` is what is
known of the decision behind one.

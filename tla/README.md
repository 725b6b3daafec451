# Golden Waterfall: a TLA+ verification project

Golden Waterfall is a trading program in Go: strategies are trained on an
archived history (walk-forward), replayed (backtest), and run live in front of
a broker. This directory models the parts of it whose correctness depends on an
order of events, or on two pieces of code that must agree: the live engine and
the gateways that execute its orders, the connection cycle, the account's
figures and limits; the history, the bars, the news and the settings the program
decides on; the labels, the trees, the calibration and the walk-forward that
make the strategies; the interface and the event bus that link them to their
user. TLC checks the models on small instances; TLAPS proves the core properties
for every instance.

- [The system](#the-system)
- [Modules](#modules)
- [Runs](#runs)
- [Proofs](#proofs)
- [Disagreements with the documentation](#disagreements-with-the-documentation)
- [Not modelled](#not-modelled)
- [Plan](#plan)

## The system

```
 history ──> training ──> models ──┐                     ┌── replay gateway
    │        (walk-forward)        v                     │   (simulated broker)
    └──────> backtest          strategy                  │
                                   │                     │
 ticks ─ gateway.OnTick ─> Engine.HandleTick             │
                             aggregator, horizon, news   │
                             risk manager                │
                             gateway.PlaceOrder ─────────┤
 reports <─ gateway.OnExecution <────────────────────────┤
    └─> Engine.HandleExecution ─> journal (store)        └── Interactive Brokers
                                                             gateway ── TWS
 Runtime: connect, disconnect, kill-switch, poll account; event bus ─> interface
```

| component | state | operations | what is hard | what makes it correct |
|---|---|---|---|---|
| live engine `live/engine.go` | kill-switch, order in flight, tracked entry and last week-end try per symbol | `HandleTick`, `HandleExecution`, `SetEnabled` | called from several goroutines, releases its lock around the strategy, `Positions`, `PlaceOrder` and `AppendTrade`; reports before the order's return | the journal holds only real round trips; no symbol blocked; exits at the horizon and before the week-end |
| replay gateway `broker/replay.go` | simulated positions, last price, connection | `PlaceOrder`, `checkBarriers`, `Disconnect` | a goroutine per symbol, synchronous reports, disconnection in the middle of a callback | reports every execution once; disconnection ends |
| IB gateway `broker/interactive_brokers.go` | followed orders, brackets and their file, positions received, report queue, timers | socket handlers, `PlaceOrder` (bracket, exit), `checkProtection`, reconnection | asynchronous answers, duplicates, omissions, timeouts, orders that outlive the process | an open position has its barriers; an exit never meets a living barrier; each execution reported once |
| runtime `live/runtime.go` | current gateway and engine, last account and positions | `connect`, `disconnect`, toggles, `pollAccount`, `Snapshot` | connection cycle against poller and callbacks | one engine per connection, none left running; a lasting session shows its own figures |
| risk manager `risk/manager.go` | rejection counters | `Evaluate` | caps shared by symbols that decide concurrently | exits never blocked, caps respected |
| time rules `core/horizon.go` | none | `WeeklyClose`, `AtWeekEnd`, `HoldExpired`… | off-by-one at boundaries, known only from bars already begun | the last bar before a deadline is recognised without the next one |
| aggregator `live/aggregator.go` | open bar per symbol | `Add`, `Reset` | late ticks, ticks out of order inside a bar, sides missing | one bar closed at a time, in order, and the bar the history will hold |
| event bus `core/bus.go` | subscriptions and their buffers | `Publish`, `Subscribe`, `Close` | `Close` against `Publish`, full buffers | never blocks a producer, never sends on a closed channel, counts what it drops |
| backtest `backtest/engine.go` | cash, position | the bar loop | order of the exits on a bar, gaps, the last bar | cash = capital + trades; no position over the week-end; what it pays is what the label says |
| labels `label/sided.go` | none | `ExecutionWindow`, `Sided` | a second writing of the backtest's exits, with a cursor that never goes back | the same bar, barrier and gain as the trade of the backtest |
| training `training/*.go` | runs on disk | folds, final model, catalogue | parallel folds, failed folds, two programs on one `models/`, runs killed or deleted | no test bar in a training set; a session takes a finished model; the folds end |
| news `news/*.go` | archive by week, published gate | `Refresh`, `Import`, `Check` | writers of two programs, partial writes | a covered week holds what a source said of it |
| history `data/*.go` | one file per symbol and year | download, convert, import | failed requests, a kill between two files, two writers of one year | no cut file, nothing lost, a complete year has no hole |
| store `storage/store.go` | trades, armed symbols, day's equity | `AppendTrade`, `SetTrading`, `SetDayStartEquity` | restart within a day | the day's loss survives a restart |
| configuration `config/*.go`, `view/settings.go` | settings, `config.yaml`, draft | load, repair, edit, save | variables over the file, repairs in passes, two programs and an editor on one file | runs on what was asked or announces it; no variable gets into the file |
| interface `tui/*.go` | screens, works, channel of messages | keys, messages | lost messages, foreign messages, what a screen believes to be running | `q` ends no work; a work's end is shown |
| Colibri `strategy/colibri` | model, cache of probabilities | `Train`, `Warmup`, `OnBar` | one instance for several pairs, a buffer that slides, models replaced | fresh probabilities, the pair's own model, a split without overlap |
| Troglodyte `strategy/troglodyte` | rule | `Train` (calibration), `OnBar` | a simulation of the engine in a loop of its own | the engine makes the simulated trades |
| boosting `ml/gbdt` | trees | bins, growth, prediction | recycled histograms, missing values | a tree reads a row as it was grown on it |
| indicators, features | none | numerical | numerical | left to the tests |
| IB protocol, export, command line | none | encoding, formatting, arguments | | left to the tests |

Interactions. A gateway calls the engine back for each tick and each execution;
the engine calls the gateway's `Positions`, `Account` and `PlaceOrder` from
inside a tick. With the replay gateway the report is delivered before
`PlaceOrder` returns, in the same goroutine; with Interactive Brokers it comes
later, from the single goroutine (`deliverLoop`) that also delivers the ticks.
The operator's actions come from the interface's goroutine. The store outlives
engines; `ib_brackets.json` outlives processes; orders outlive both.

## Modules

| module | models | role |
|---|---|---|
| `MarketTime` | `core/horizon.go`, `Timeframe.Floor` | operators over minutes of market time |
| `TradingRules` | `core/domain.go`, `ApplyReversal`, `Manager.Evaluate` | operators: what a signal closes, who may enter |
| `LiveEngine` | `live/engine.go`, `live/aggregator.go` | the engine's variables and one action per critical section; no gateway |
| `AnyGateway` | `broker/gateway.go` | the engine in front of every gateway the interface allows: the abstract specification |
| `EngineProofs` | | lemmas: the types through the sections of a tick and of `HandleExecution`, the orders a tick has left |
| `AnyGatewayProofs` | | theorems of `AnyGateway` |
| `ReplayTrading` | `broker/replay.go`, `live/runtime.go` | engine + replay gateway + operator; implements `AnyGateway` |
| `ReplayProofs` | | theorems of `ReplayTrading` |
| `IBGateway` | `broker/interactive_brokers.go` | the IB gateway, TWS (external) and a caller that behaves as the engine |
| `IBGatewayProofs` | | theorems of `IBGateway` that hold whatever TWS repeats, omits or delays |
| `IBRoundProofs` | | theorems about an entry, its barriers and its exits |
| `Labels` | `label/sided.go`, `LastBarsOfWeek` | operators: the window and the outcome of a trade opened at each bar |
| `Backtest` | `backtest/engine.go` | the bar loop of one symbol, on the rules of `TradingRules` |
| `BacktestProofs` | | theorems of `Backtest` and `Troglodyte` |
| `Session` | `live/runtime.go` | callers that connect and disconnect, the pollers of the sessions, the figures shown |
| `DayStart` | `dayStart`, `dayStartEquity`, `storage/store.go`, `dailyLossReached` | the day's starting equity and the loss limit, with restarts and midnight |
| `History` | `data/download.go`, `migrate.go`, `parquet.go`, `store.go`, `csvimport.go` | the year files of a pair, and the download, the conversion and the import that write them |
| `Bars` | `live/aggregator.go`, `data/timeframe.go`, `live/engine.go` (buffer) | the bars of the history and those made of ticks |
| `News` | `news/archive.go`, `service.go` | the weekly files, their writers, the gate of each program |
| `Bus` | `core/bus.go` | publishers, subscriptions, `Close` |
| `Config` | `config/config.go`, `repair.go`, `view/settings.go`, `app.go` | settings from their file and variables to the screen and back |
| `Interface` | `tui/tui.go`, `tui/view/*.go` | screens, works, keys, channel |
| `GoroutineProofs` | | theorems of `Session`, `History`, `Interface` and `Training` |
| `Training` | `training/walkforward.go`, `catalog.go` | the runs of the walk-forward and the choice of a model |
| `Trees` | `ml/gbdt` | bins, growth and reading of a tree, early stopping |
| `Colibri` | `strategy/colibri` | split, codes, models and cached probabilities of a session |
| `Troglodyte` | `strategy/troglodyte` | calibration and replay of the decision rule |
| `MCAnyGateway`, `MCReplayTrading`, `MCIBGateway` | | instances for TLC |
| `Sorting` | the sorts of the library | the numbers of a set in order, for `Bars`, `Colibri` and `Trees` |
| `InputsProofs` | | theorems of `DayStart`, `News`, `Config`, `Bus`, `Colibri`, `Bars` and `Trees` |
| `MCJobs` | | small instance of `Session`, `History`, `Interface` and `Training` |
| `MCInputs` | | small instance of `Backtest`, `DayStart`, `Config`, `News`, `Bus`, `Bars`, `Trees`, `Colibri`, `Troglodyte` |

### LiveEngine

A tick of a symbol goes through `call[s].stage`:

```
idle --CheckWeekend--> weekendGates --WeekendGates--> submit ... --> aggregate
     \________________________________________________________________/
aggregate --Aggregate--> gates --BarGates--> submit --Decide--> reserve
                                     --Reserve--> place --(gateway)--> confirm --Confirm--> idle
```

Each arrow is what the code does under one hold of `Engine.mu`, or between two
holds; the values a section reads (`enabled`, `blocked`, `overdue`, the side
held) stay in `call[s]` until they are used, exactly as local variables of
`onBarClosed` and `submit` do. That is where the interleavings are: between two
arrows the other symbols, the operator and the gateway act. `HandleExecution`
is two sections, `Release` and `Pair`, with the report between them in
`rep[s]`. `fills` and `journal` record what was reported and what was written.

`inFlight` is `""`, `"pending"` (reserved before `PlaceOrder`) or `"placed"`
(the order identifier). `openLeg[s].fill` is the index of the report the entry
came from: the code has the price and the time there.

The strategy is any signal (or none). Prices, quantities and the formulas of
the risk manager are left out; what they decide, an entry refused, is an answer
of the account (`AccountAnswers`).

### AnyGateway

The abstract specification: any answer of `Positions` and `Account`,
`PlaceOrder` accepted or refused, reports of any status and side at any moment,
connected or not at any moment. Its invariants rest on nothing the broker does.
`Report` allows one report at a time per symbol: both gateways deliver from one
goroutine per symbol, or one for all.

### ReplayTrading

`feed[s]` is the goroutine of the symbol: bars read, and whether it waits, holds
a bar whose tick is to be delivered, or has stopped. `NextBar` is `replaySymbol`
with `checkBarriers`; `PlaceOrder` is its locked section; `emit[s]` is the
report about to enter `HandleExecution`. `Disconnect` and `Disconnected` are the
two halves of the call that waits for the goroutines. `closes`, `late` and
`toggles` count what the properties speak of. `late[s]` counts the entries executed while
`s` may not trade, since its switches were last touched: the engine reads the kill-switch
at the close of the bar and the symbol's switch after it, so each touch may let one
decision through, and an operator who disarms the symbol, turns the kill-switch off and
arms the symbol again has two entries after the first of the three (TLC shows it with three
toggles). What the code promises, and `SwitchDrains` says, is one entry per touch.

`OnTime` speaks of what the code knows at a tick. `Dense` is a history with a usable tick
in every bar; `Prompt`, one where the guard of the close does not begin between the start of
a bar and its first tick: such a tick closes the previous bar, whose end is not yet in the guard, and
an entry made on it goes out at the next tick only.

### IBGateway

One symbol. `book`, `net`, `wire` and `posDue` are TWS: the orders it holds, the
position, the messages it has sent and not yet read. `orders`, `bracket`,
`held`, `timers` and `queue` are the gateway's fields of the same meaning.
An order goes through `call.stage`, one stage per look at the shared state, and the
reader goes on between any two: `place`, once `submit` has read `Positions` and
decided (`Enter`, `Exit`); then what `PlaceOrder` makes of it under its own lock,
`entering` (`placeBracket`), `exiting` (`placeExit`) or `naked` (`placeSimple`, an
entry without barriers); `bracket` while the three orders of an entry go out; `cancel`,
`wait` and `exit` for those of an exit. The strategy always asks for both barriers, so `naked` is
reached one way only: an exit decided on a position that a barrier has closed before
`PlaceOrder` looked, and whose bracket went with it (`Overtaken`). Every assignment
to the bracket is saved in the same locked section, so `bracket` is also the file.

What is assumed of TWS, from the comments of the gateway and `docs/brokers.md`:
barriers wait for their entry; when one executes the other is cancelled (OCA);
cancelling an order that is over or unknown is answered by 10147 or 10148, which
the gateway only logs (`OnGone`: a code from 2100 is a warning, the first case of
`onOrderError`, before the one written for these); messages arrive in order. What varies is a constant: `Silent` (a cancellation
may stay unanswered for ten seconds), `Terse` (executions repeated, without
commission, or known by their status only), `LatePositions` (the position comes
after the execution), `Rejectable`, `MaxLosses` (barriers IB cancels by itself),
`MaxBreaks` (connections lost, crashes), `Hasty` (an entry may be decided before
the reports of the last round trip are delivered). A timer (3 to 10 s) fires only
when what TWS owes has come and been read; an exit's times out when an answer may be
missing (`Silent`, no connection) or when TWS has none to give that would end the wait
(`NothingToCome`). TWS answers the orders of one step in any
order (`OfEach`). `call.parent` is the identifier of the bracket being sent: the code takes the three
identifiers under one lock and sends the three orders without it.

Left out: partial executions, entries with a single barrier, a failed write of
the file, the 1100/1102 notices, and the timers of a gateway that has been
replaced.

### Backtest and Labels

The loop of `Run` is two steps per bar: `ReadBar` is what closes the position
without asking the strategy (a barrier, the maximum hold, the week-end, the end
of the series, in that order), and `Abstain`, `Exit` or `Enter` is the decision
at the close. The account is kept in the quote currency of the pair, so that a
price difference is an amount of the account; prices are integers. The margin
refusal and the sizing by risk read the cash and the equity of the moment, as the
code does.

`Labels` is the other writing of the same exits, in the package the training uses:
`ExpiryCursor` is the cursor that `ExecutionWindow` moves forward only, and
`Sided` scans the window for the first barrier. Nothing is shared between the two
writings but the clock rules of `MarketTime`, so `LabelIsDelivered` compares two
independent translations. A week of the model is an ISO week: the history has no
Saturday or Sunday bar (`data.IsWeekend`), so the ISO week and the trading week
hold the same bars.

Left out: the bars that only warm the strategy up, an error of the strategy
(the run and its result are abandoned), the counters of the news gate, and the
statistics computed from the trades.

### Session and DayStart

`Session` numbers the sessions in the order of their connection. A caller of
`Connect` or `Disconnect` goes through `lock`, `drop`, `hangup`, `clear` (the
four steps of `disconnect`, which `connect` begins with), then `dial`,
`subscribe` and `install`; `connMu` is held from `Lock` to `Return`. Everything
`connect` does before `gw.Connect` is one refusal or nothing: it touches no field
of the runtime. `poll[g]` is the `pollAccount` of session `g`: it asks the
session the runtime has at the tick (`via`), which need not be its own, and
writes later under `accMu`. `shown` says of which session each figure is, which
the code does not keep: that is what `FiguresCatchUp` speaks of.

In `DayStart` a reader is the poller or the engine of a symbol. `ReadAccount`,
`LookUp` and `SetStart` are `gateway.Account`, the store's read and the store's
write; the broker moves the account, the day changes and the process restarts
between any two. A reader that has found no start measures the loss from its own
reading, as the code does, so it sees none: `LossLimitHolds` speaks of the other
decisions. `opening` is a history variable, the first equity the day knows each
account by. With one account it is the store's figure; with two it is not, since
the store's key is the day alone (`day_start_accounts`).

### History

`gwb`, `parquet` and `tmp` are, per year, the file of either format and the file
being written; a file is, per unit of its source (a day for Dukascopy, a week for
FXCM), whether it holds nothing, the bid or both sides, with what its header
declares missing. `job` is at most one download, one conversion and one import;
`fd` says where the inode each has open now is, since the temporary name is one
per year and a rename moves the inode another job may hold. `Ask`, `Answer`,
`Retry`, `Lose`, `EndFetch` and `Abandon` are `fetchYear` with its requests in
flight and its context; `Create`, `Write`, `Rename` and `DiskError` are
`WriteSeries`, for whoever calls it. `Crash` kills the program, and the files stay.
With `Shared` false the conversion does not run beside the other writers;
with `Shared` true it does, as the key `m` allows.

### Bars

`market` is what the supplier will publish, minute by minute, and `history` the
year files made of it; `Trade` is a tick of the market, handed to the aggregator
when the gateway is the market's and maybe late, and `Replay` a bar of the replay
gateway. `Merge` is the loop of `Resample`, `Prolong` the body of `Aggregator.Add`:
two writings of one rule, which `LiveIsHistory` compares on bars whose ticks came
in order. `buffer` is the engine's, seeded by `ConnectFeed`. A minute that trades late rewrites
the bar of its minute, and a download the file of its year.

### News and Bus

In `News` a file is an inode that may bear a name, the temporary one or none;
`OpenTemp`, `Write` and `Rename` are the steps of `Save` for one week of a batch. What
a source says of a week is a number, and `said` remembers every one: a gate that
covers a week with anything else has read half a file or invented the week.

In `Bus` each step is what is done under one hold of the subscription's lock or of
the bus's. `deliver` is three steps under the lock (`Deliver` takes it, `Send` and
`Resend` leave it), so that the subscriber, which needs no lock, may take an
event between any two.

### Config

`Launch`, `Pass`, `Fix` and `Written` are `Load`, the passes of `loadRepaired`,
the registries' repair and the writing of the file; `Edit`, `RestoreDefault`,
`Save` and `Reload` the Settings screen. A value is valid, refused or garbled;
five settings stand for all, chosen for the rules that differ: those a variable
may force, one only the registries judge, two that constrain each other. The loop of
`loadRepaired` is bounded by 20 passes in the code and in the model.

### Interface

`job` says what each goroutine is at and `busy` what the screens believe; the two
differ from the end of a job to the delivery of its last message. `queue` is the
channel, of which the room is 256 in the code and `Cap` here. `Take` gives a
message to every screen, as `Update` does for a worker's. A message of another
origin passes for a worker's and starts one more listener (`Foreign`).

### Training

`dirs` is `models/`: a folder per run, with the models written, the summary being
written or whole, and whether it is being deleted. A model is the run that trained it
and the bars it has seen of each symbol, a result the model that was read back
and the bars it was tested on: `OutOfSample` compares those sets. `TakePlace`, `Train`,
`Test` are the three stages of a fold, behind `Workers` places; `Join` waits for
them, `TrainFinal` makes the production model and `Summarise` writes what
`Listed`, `Covering` and `Selected` (`ListRuns`, `ProductionCoverage`,
`SelectModel`) read. `gw train` and `gw backtrain` may run at once.

### Trees

A data set has a numeric and a categorical column. `NewTree` draws the columns,
`Grow` cuts a leaf at any cut the counts allow (the gain is left out, so every cut
that could be the best is tried), fills the smaller child's histogram from the
pool and deduces the other. `Predict` reads the finished tree on raw values, with
the missing ones and the categories, where growth used bins. Values that are infinite
and losses that are not numbers (an empty validation set) are left out.

### Colibri and Troglodyte

`Colibri` has a training (`Fit`, with the split of the samples and their purge,
then `PublishModel`) and a session: `Connect` and `Warm` load for each pair the model
the catalogue gives it, `OnBar`, `Prepare` and `Compute` are a decision in three
steps between which the buffer may slide, another pair be computed or the
session be shut down. A decision remembers the model and the bars it rests on.

`Troglodyte` observes a series (`Observe`), calibrates a rule on it (`Train`, with
`SimulateTrades`) and has the backtest engine play it (`ReplayBar`, which asks
`Signalled`, the `OnBar` of the strategy).
`SimulationIsBacktest` compares the two lists of trades.

### MCJobs and MCInputs

These parts share no state: a behaviour picks one of them (`part`) and leaves the
others out, so that one run answers for all the works of a process (`MCJobs`), and
another for all that a decision rests on (`MCInputs`). A part that is not
picked stays as it begins, and the fairness is that of the parts, one by one.

## Runs

| run | instance | what it shows |
|---|---|---|
| `any_gateway` | one symbol, 2 times, 3 reports, 2 connections | the journal and the tracked entry follow the reports whatever they are |
| `replay` | a week of 12 minutes, guard 2, horizon 2: 8 bars with a prompt tick each or 5 with holes and one without a usable price; 1 toggle, 2 connections, fair | engine and broker agree after each tick; every close journalled; exits on time (`OnTime`: at the horizon and before the week-end, or at the first tick that allows it); nothing left behind (`NothingLeft`: no reservation, no more than one decision after a switch is touched); orders settle; `Disconnect` returns; `ReplayTrading` implements `AnyGateway` |
| `ib_bracket` | 2 entries in a row on either side, their exits | until a barrier overtakes an exit: nothing done twice (`NeverDoubled`: no reversed position, one order in flight); no open position without its barriers |
| `ib_settlement` | 1 entry, terse TWS, late positions, 1 barrier lost, fair | each execution reported once, in the end; the loss acted upon |
| `ib_restart` | 1 entry, 3 exits, silent TWS, exits refused, 1 crash or lost connection, fair | `PlaceOrder` returns, even when TWS no longer has the barriers; the next session cancels the barriers of the previous one before its exit |
| `jobs` | `Session`: 2 callers, 3 calls, 2 sessions; `History`: 2 years of 2 units, 1 fault, 2 commands; `Interface`: 5 keys, a channel of 2; `Training`: 2 runs of 2 folds and 1 place; fair | no orphan gateway, calls return, figures catch up; files whole and honest, conversions lose nothing; `q` ends no work, ends are shown; folds are out of sample, the model selected is a finished one; works end |
| `inputs` | `Backtest`: 2 histories of 5 bars over two weeks, 5 shapes of bar; `DayStart`: 1 account, 2 days; `Config`: 2 programs, 7 files, 4 environments, 3 steps; `News`: 3 writers, 2 weeks, 3 batches; `Bus`: 2 publishers, 2 closers, 4 events, a buffer of 2; `Bars`: 5 minutes, 4 ticks; `Trees`: 4 rows, 2 bins, 4 leaves, 2 rounds; `Colibri`: 2 pairs, 2 trainings; `Troglodyte`: 4 bars | the cash accounts for every trade, fills are those of the labels, sizes those of the journal; the calibration simulates the engine; models, bars, news, events, settings and the loss limit are what their users take them for |
| `ib_race` | as `ib_bracket` | *violation*, see below |
| `day_start_accounts` | `DayStart` with 2 accounts | *violation*, see below |
| `colibri_other_model` | `Colibri` as in `inputs` | *violation*, see below |
| `live_buffer` | `Bars` as in `inputs` | *violation*, see below |
| `history_shared` | `History` with `Shared` | *violation*, see below |

Bounds. A week has one close, one guard and bars on both sides of it, so every
position of an entry relative to the close occurs; the pairing of fills involves
two consecutive fills and a session boundary, which three reports and two
connections contain; the IB gateway keeps one bracket per symbol, so one entry,
its exits and a second entry exhaust what it can confuse. In the backtest the bars are
one that stays inside the barriers, one that touches both, one that ends at the
upper and a gap beyond each; the capital is small enough for a loss to change
the size of the next entry, to make it too small to place, or to leave it
without margin. Two sessions are what a stale
poller needs, and three calls put a third one between any two; with a limit of
10 %, equities of 9 and 10 are on the limit of each other and above it. In
`History` a year of two units may be whole, half or empty, and a fault may fall at any
step of one job while another runs; in `Training` the second history has a hole
that leaves a single bar before the first block, and one place for two folds
makes the second wait. A channel of two is full with the messages of one job. In
`Bus` four events overflow a buffer of two twice. In `Trees` the numeric column is every
multiset of three numbers and missing values over four rows, more distinct values
than bins. In `Colibri` the buffer slides once it has two bars; in `Troglodyte` the bars
are a quiet one, one that opens below the stops and one that opens above them and
falls through. The counters
(`MaxFills`, `MaxSessions`, `MaxToggles`, `MaxEntries`, `MaxOrders`,
`MaxLosses`, `MaxBreaks`, `MaxCalls`, `MaxDays`, `MaxFaults`, `MaxCommands`, `MaxKeys`,
`MaxForeign`, `MaxSteps`, `MaxBatches`, `MaxEvents`, `MaxTicks`, `MaxRuns`) bound the
inputs, never what the program does with them; `MaxRetries` and `MaxPasses` are the
code's. Deadlock is not checked where the run ends by itself: the inputs are
finite and the user has a bounded number of actions.

Each property has been run against a bug put in the code's translation
(`PROJECT.json`, mutants): a dropped guard, a missing reset, a swapped order. The
definitions of those bugs stand before the ones they change, and no specification
uses them.

Fairness. `ReplayTrading`: each replay goroutine goes on (they only wait for
locks held for a bounded time), and `Disconnect` returns once they have ended;
the operator owes nothing. `IBGateway`: the reader, the timers, `deliverLoop`
and a `PlaceOrder` under way go on, and TWS executes or refuses an order at the market; it owes no answer to
a cancellation and no barrier ever has to execute. `Session`: a caller and a poller
that can go on do so in the end, and a caller that can take `accMu` again and again takes it
in the end (strong fairness: a Go mutex is not refused for ever to a goroutine that
waits for it); links and calls owe nothing. `History`: the three jobs go on, each as
a whole; a request may fail, but `MaxFaults` bounds how often. `Interface`: the loop
delivers the messages there are; keys and jobs owe nothing, so `EndIsShown` says that what
has ended is shown, not that it ends. `Training`: a run goes on, fold by fold; nobody has to
start, cancel or kill one. In `EndIsShown`, `CallsReturn` and `WorkEnds` the form is "again
and again": since the number of requests is bounded, it says that the last of them
ends too.

## Proofs

`AnyGatewayProofs` proves, for every set of symbols, every calendar, every
number of reports and connections, and every behaviour of the gateway:

| theorem | statement |
|---|---|
| `TypeInvariant` | `Spec => []TypeOK` |
| `JournalInventsNothing` | `Spec => []NoInventedTrade` |
| `FillsSpentOnce` | `Spec => []NoFillSpentTwice` |
| `TrackedEntryIsLast` | `Spec => []LegIsLastFill` |

`ReplayProofs` proves, for every set of symbols, every set of histories of bounded
length, every strategy, every number of toggles and of connections:

| theorem | statement |
|---|---|
| `TypeInvariant` | `Spec => []TypeOK` |
| `TracksTheBroker` | `Spec => []TracksThePosition` |
| `EveryCloseIsJournalled` | `Spec => []JournalsEveryClose` |
| `NothingIsLeft` | `Spec => []NothingLeft` |
| `ExitsAreOnTime` | `Retry = 1` gives `Spec => []OnTime` |
| `ReplayIsAGateway` | `Spec => ImplementsAnyGateway` |

`BacktestProofs` proves, for every history, every shape of bar, every barrier
distance and every setting of the account, and for every series and rule of Troglodyte:

| theorem | statement |
|---|---|
| `TypeInvariant` | `Spec => []TypeOK` |
| `OnePositionAtATime` | `Spec => []TradesFollow` |
| `NothingCrossesTheWeekend` | `Spec => []OutBeforeTheWeekend` |
| `CashIsTheJournal` | `Spec => []CashReconciles` |
| `SizesFitTheAccount` | `Spec => []SizedOnTheJournal` |
| `FillsMatchTheLabels` | `Spec => []FillsAreHonest` |
| `TradesAreThoseSimulated` | `TroglodyteSpec => []SimulationIsBacktest` |

`IBGatewayProofs` and `IBRoundProofs` prove, for every number of entries, of orders and of
exits, either side, and every order of the messages:

| theorem | assumes of TWS and of the engine | statement |
|---|---|---|
| `GatewayTypes` | nothing | `Spec => []TypeOK` |
| `ToldAtMostOnce` | nothing | no order is reported twice, connections and crashes included |
| `ReportsAreTrue` | no break | an order reported as executed did execute |
| `ExecutionsAreReported` | no break, `~Terse` | `Spec => []ReportedOnce` |
| `PositionNeverReversed` | `Orderly` | `Spec => [](Overtaken \/ NeverReversed)` |
| `BarriersNeverReverse` | `Orderly`, `~Exits` | `Spec => []NeverReversed` |
| `ExitsWait` | `Orderly` | `Spec => [][~Overtaken => FollowsCancels]_vars`: the step of `ExitsFollowCancels` |
| `NothingTwice` | `Orderly`, `~Terse` | `Spec => []NeverDoubled` |
| `PositionProtected` | `Orderly`, `~Silent`, no exit refused | `Spec => []Protected` |

`GoroutineProofs` proves, for every number of callers, calls and sessions, of keys and
works, of training runs, folds and places, and for every set of years, pairs and sources and every
number of faults:

| theorem | statement |
|---|---|
| `TypeInvariant` | `Spec => []TypeOK`, of `Session` |
| `NoGatewayIsOrphan` | `Spec => []NoOrphan` |
| `QuitSparesWork` | `InterfaceSpec => []QSparesWork` |
| `MeasuredOutOfSample` | `TrainSpec => []OutOfSample` |
| `ProductionIsSelected` | `TrainSpec => []SelectedIsProduction` |
| `FilesStayWhole` | `~Shared` gives `HistorySpec => []NeverTorn` |
| `ConversionsKeepHistory` | `~Shared` gives `HistorySpec => KeepsHistory` |
| `CompleteYearsAreWhole` | `~Shared /\ WeeksAreCounted` gives `HistorySpec => []HistoryHolds` |

`InputsProofs` proves, for every number of accounts' readers, of processes, writers and weeks, every set
of files and variables, any number of publishers, subscriptions and closers, every session and training,
every timeframe, quote and delay, and every data set and setting of the boosting:

| theorem | statement |
|---|---|
| `LossLimitKept` | `OneAccount` gives `DaySpec => []LossLimitHolds` |
| `FiltersTellWhatWasSaid` | `NewsSpec => []CoveredIsKnown` |
| `SettingsAreKept` | `ConfigSpec => []ConfigHolds` |
| `NobodyPanics` | `BusSpec => []BusHolds` |
| `OneModelOneCode` | `ColibriSpec => []ColibriHolds` |
| `LiveBarsAreHistory` | `BarsSpec => []BarsHold` |
| `TreesReadAsGrown` | `FewCategories` gives `TreesSpec => []TreesHold` |

Each rests on the named assumptions of its module's constants, which TLC evaluates in the runs, and on what
its statement names. `~Shared` has the jobs of a pair exclude one another, and must: the run
`history_shared` shows the file torn without it. `WeeksAreCounted` says that the weeks a source
has are among those `missingMarketWeeks` counts, and must too: see the disagreements below. `OneAccount` is what
`day_start_accounts` shows necessary. `FewCategories` gives every category of the training set a bin
("about thirty pairs at most", dataset.go:210-213): those past `MaxBins` are binned with the missing values
and read as unseen categories, which `UnseenIsMissing` below tells apart. `Retry = 1` is `weekendRetryInterval`, a minute;
with a longer one an exit refused as the week ends is not asked for again in time. What is assumed of TWS
is in the section on `IBGateway` below.

In `AnyGatewayProofs` the inductive invariant `IInv` adds `ReportIsLastFill` to the four:
between its two sections `HandleExecution` has released the lock, and what makes the pairing right when
it takes it again is that the report it holds is the last one recorded, of the
session that is still the current one. None of the three properties is inductive
alone: the journal's needs the tracked entry to be the last fill paired, and
`NoFillSpentTwice` needs the order of the indices both give. `BySymbol` splits
the invariant by symbol, four lemmas follow the pairing (`RecordFill`,
`PairOpens`, `PairEnds`, `PairNothing`), and `StepPreserves` has a step for each
action.

In `ReplayProofs` the two properties speak of a symbol at rest, and `IInv` of every moment.
`Followed` says what the engine and the broker have in common with a fill on its way (executed
by `PlaceOrder` or a barrier, not yet paired) and without one; `Placed`, that a report comes
from inside `checkBarriers` or inside `PlaceOrder`, one at a time, and that a reservation lives
only there, until the report of its order frees it; `Fed`, that a callback runs between the
read of its bar and the next. Of a symbol, only its own goroutine changes any of it
(`Elsewhere`), so `StepPreserves` has a lemma for each action and one for the operator.

`NothingIsLeft` adds `Spent`: after a late entry the call in progress, if any, sends no further
one while the switches stay as they are (`Drained`), since what the gates read before the touch has been
used. `ExitsAreOnTime` adds `Timely`, a conjunction of five: `Ticking`, what the tick, the
open bar and the last week-end try have to do with the history; `Deciding`, that an entry is not
decided on the last bar of a week and that an exit faces the position it was decided on; `Entered`, that
what is tracked was entered outside the guard; `Untouched`, that the switches are as the
program set them; `Prompted`, that a position that should have gone is being closed by the call in
progress. The arithmetic of the calendar is four lemmas (`FloorBelow`, `CloseIsMultiple`,
`CloseMonotone`, `ClearOfTheGuard`): the close of a week is a multiple of the bar, so a bar that
ends before the guard begins leaves its next prompt tick before it.

The refinement maps the broker's actions to stutters, a section of the tick to the same
section, `Report` to `Report`. `AnyGateway` has a bound on the reports, and what is to be seen
is that the replay stays under it: `Counted` says that the reports handled, the one on its way
and the orders the tick has left are at most three for each bar read (its barrier, the exit of
the week-end, the decision), over all connections (`Room`). With it, what `AnyGatewayProofs`
proves of the journal and of the tracked entry holds of the replayed trading, for every
value of the constants.

In `BacktestProofs` the argument is about the moment between two bars. `Carried`
says that a position still open once the exits of a bar are done was opened in
the week of that bar and, if the loop is about to read the next one, that the
next one exists and is of the same week: `ReadBar` has closed it otherwise
(`WeekEnd`), and `Enter` is never reached on such a bar, which is `Deciding`.
`InOrder` relates the trades to the position that follows them. The week-end
theorem then needs only that a step of `Carried` moves by one bar.

The account needs sums over the journal. `Total` is a recursive function, and what it gives
(`Total(f, k + 1)` is `Total(f, k)` and one more term, a trade appended leaves the earlier totals)
follows by induction, in the form the provers can use: a set that has 0, and `n + 1` with `n`, has every number
(`SetInduction`, from the well-foundedness of `<`). `Journal` then adds `SizedAtEntry` to the two
properties: the size of an open position fits the account as it was at its entry, and no trade is
journalled while it is open.

The labels need the life of a trade. `Fate` says that every bar an open position has come through was
`Quiet` (no barrier touched, no hold expired, no week ended), and that a closed one came through quiet bars
up to its exit, which was `Due` for the reason journalled. On the other side, `WindowIs` says what the
cursor of `ExecutionWindow` finds: the first bar past the hold or last of its week, by induction
on the bars, since the cursor never goes back and need not (`CursorIs`). The two agree bar by bar (`LabelIs`),
and the fills do by the four formulas of `StruckIs`. Besides `BacktestAssumption`, the two placeholders
`None` and `Undefined` are assumed to be no exit, no position and no label.

For Troglodyte, the simulation is a recursive function of the bars: that one exists and grows by
`SimulateBar` is proved by the same induction (`SimulationGrows`). The invariant then says that what
the engine holds and has made is what the simulation has at that bar (`TroglodyteInv`), and the
step is `SameBar`: the reversal the simulation writes as an opposed entry is the one `ApplyReversal` turns into
an exit (`SameExits`), and the two formulas of a stop agree for a position that has a side. Nothing is asked of the
prices, the slopes or the rule; `Length` is a natural number.

In `GoroutineProofs`, `NoOrphan` is not inductive: it says who holds a connected
gateway, not that nobody else is about to overwrite it. `Custody` adds what
`connMu` guards: only its holder is past `lock`, the runtime has no session from
`Drop` to `Install`, and a caller's gateway is one it opens or closes.
`CallTypes` and `CallKeeps` have a case for each step of a call; the pollers and
the links change nothing it speaks of, except by closing gateways.

In `IBGatewayProofs`, `Always` needs no assumption: `Heard`, that nothing is said of an order
before it is sent; `Placed`, that the bracket being sent has not executed; `Once`, that a
report is told or waits in the queue, never both, and its order is never followed afresh, by
the next session either. `Sound` is what one session knows of TWS: each order it follows TWS has, with the
same role and side (`Followers`, `Planned`); what is said and noted of it is what became of it
(`Truthful`, `Noted`); and what is not known yet is on the wire, on a timer or in the queue
(`Owed`). With nothing left to read or to time out, `Owed` leaves only what has been reported.

`IBRoundProofs` follows one round, an entry `r` with its two barriers and the exits that come
after it: `InRound(r)`, or `Blank` before the first; `PlaceBracket` begins the next. The invariant is `Overtaken \/ Rounds`:
the race of `ib_race` ends what can be said, since the naked entry is then a position of no
round. `NeverDoubled` and `Protected` except it in the same word, and the theorems show that it is the only
exception: under `Orderly` a reversal starts with an overtaken exit, and an engine that sends no exit (`BarriersNeverReverse`) has none. `Net`, `Opening` and `Closed` tie the position to
what executed; `Bracketed` and `Barred` say that the bracket is that of the entry and that its
barriers are cancelled for an exit or with the position; `Positions` and `First`, that the gateway
knows the position or is about to read it, and before the execution that closes it; `InTurn` and `Leaving`,
that an exit is the only living order when it is sent and that a decided entry finds
nothing left of the last round. `Strict` and `Shielded` are used by
`NothingTwice` and `PositionProtected` only.

`Orderly` is `MaxBreaks = 0`, `MaxLosses = 0`, `~LatePositions` and `~Hasty`, and each is needed: TLC finds
the position reversed, with no exit overtaken, when any of them is dropped. A connection lost with an exit in
flight, or a barrier IB cancels by itself, has a second closing order sent; a position that comes after the
execution that closed it, or an entry decided before the reports of the previous round
are delivered, has an order decided on a position that is no more, and the settlement of the
old exit may even delete the new bracket. A terse or silent TWS, and any order refused, change nothing
to it. `NeverDoubled` also says that the engine has one order in flight, which a terse TWS breaks, and `Protected` fails when a barrier is
cancelled in vain: the timeout said that it still protected, or the exit was refused.
The constants of `ib_bracket` satisfy all of these; those of `ib_restart` and
`ib_settlement` do not, and there TLC alone answers.

For the history, the argument is what a writer knows of its year (`Fits`): alone, it has the
inode behind the temporary name, which holds nothing until it is written and the whole file
afterwards, and the year is still what it was when the writer decided to write it. Whether the
download, the conversion or the import is interrupted, refused by the disk or killed, the name
the reader opens is then either the old file or the whole new one. `CompleteYearsAreWhole` follows what a
year says of itself from the requests to the file (`Honesty`): the fetch notes as absent only what the source
does not have, what it has lost is in the count, and what a job is about to write is as honest as
what it was read from.

For the interface, `q` asks the screens and not the goroutines. `LivesIsBusy` says that a
work that lives is busy for its screen; it stays so because the message that clears it is sent
when the work has ended, once, and no older one waits in the channel (`Queued`).

For the walk-forward, `TrainingIInv` says of each run and of each folder what the runs do to one
another. A run that works in a folder has it alone (`Alone`): `MakeDir` creates a name
nobody has, and `Delete` only begins with a folder whose `run.json` is whole, that of a run that
ended (`Kept`). So the models a run reads back are those it has saved (`Trained`), and a result, once
measured, speaks of the run and the history only (`Measured`). That the name is found within the
runs is a count: each name found taken is that of another run (`Tried`), and there are fewer of
those than runs. `MeasuredOutOfSample` then needs that the blocks follow one another (`Cut`, from
the arithmetic of `splitFolds`: `BlocksRise`, `CutsFollow`), `ProductionIsSelected` that a `run.json`
is written after the models it speaks of, and that a deletion alters none of those it leaves. `TrainingAssumption` numbers the runs,
gives a strategy a warm-up and a request symbols that have a history, and says that a history is
finite; that a finite set of times has a first and a last is `FirstAndLast`.

In `InputsProofs` the seven parts share nothing. For the day's start, `OpensOnBase` says that the figure
a day knows its account by is the one in the store, so that what `submit` measures against the store is
measured against the day's start; a reader that found no start and comes back late finds the other's
(`OpensNothingNew`), and a restart only loses the readers.

For the news, two writers of one week share a temporary name, so one may rename the file
the other has open. What saves the filter is that no inode ever belongs to two weeks (`OneWeekEach`,
by its name, its temporary name or a writer that has it open), and that what it holds was said of
its week or is torn, which `Load` refuses (`FilesTell`, `WriterTells`).

For the settings, `Process` follows a load. What it has not announced is as it was asked for (`LoadsAsked`);
what it has reset has its default or a variable that is ignored (`Resets`); each pass resets one
setting more, so `MaxPasses` are enough (`passes <= Cardinality(reset)`); and a pass that resets nothing has met a
refusal of a setting that was reset already, which only a value refused in both places leaves.
`WritesAsked` says the same of what a process may write, now or later, the draft of
the screen included, hence `EnvNeverSaved`. The five refusals of a pass are a recursive function, which
is proved to have its value step by step (`Follows`).

For the bus, a `deliver` that has read the flag keeps the lock of the subscription until it
has sent, so the flag is still down when it sends (`Delivering`); the channel is only shut by
the one `Close` that raised the flag (`Closing`), which no other raises again (`OneCloser`).
That losses are counted needs `Counted`: one deliver at a time makes room in a channel, the room is still
there when it sends again (`Bounded`), and what it took out is counted by the time it leaves.

For Colibri, a session shares one model, so the invariant says where each model in sight comes from:
the one in force, that of a computation under way and that of a decision were all given to some symbol of the session
by the catalogue (`OfSession`), hence one training when it covers them all. What a cache holds bears the key of the
bars it was computed on, and the key tells two series of one symbol apart (`Cached`). The codes are ranks in the
sorted list of the training (`InOrder`, whose value is proved by induction: `InOrderSorts`), which the deletion of
files leaves alone (`Coded`). The split needs that list to be increasing, since the purge only looks at the first
bar of validation.

For the live bars, the history is resampled as a whole and the aggregator goes tick by tick. What
joins them is that a trade of the latest minute adds one step to the resampling (`PublishedGrows`): it appends
a bar to the minutes published (`InOrderGrows`), or prolongs the last, and to prolong twice is to prolong by
the bar the two ticks make (`MergeAssociates`, `ResampledTwice`). The aggregator's body is that step, the ask
that appears or is missing included (`ProlongIsMerge`), as long as a bar without an ask has none of its four prices
(`NoHalfAsk`). `Mirrors` then says that the history resampled ends with the open bar, if that was opened after the
connection, and has every bar closed since before it; and a tick out of order, which ends
this, cannot undo `Aggregates`, by which closed bars go forward in time.

For the trees, two arguments meet. A cut separates the bins as it separates the values
(`CutAgrees`): the bounds of the bins increase and the last is infinite (`UpperIs`), the
overwritten quantiles included, since each of them is still a value of the column (`QuantileIs`), so
the first bound a value fits under is before the cut if and only if the value is under the
bound the cut keeps. And growth only refines the reading: what leads from the root to a leaf leads,
once the leaf is cut, to the child the row went to (`SplitLeads`), which needs no induction on
the tree because `LeadsTo` speaks of every function that agrees with its inner nodes. The counts of the
larger child are those of its parent without the smaller one's (`SubtractIs`), and a buffer from the
pool is worth an empty one because it is cleared (`BuildIs`).

Only model-checked: the liveness properties (TLAPS does not reason about `ENABLED`), and `IBGateway` where the hypotheses above do not hold.

## Disagreements with the documentation

Each of the five is a run that must end in a violation, and a finding of
`PROJECT.json` with its quotations:

- `NeverReversed` (`ib_race`): when a barrier has closed the position no order is said to
  leave; `placeExit` sees to it, but the engine's `Positions`, the test of `PlaceOrder`
  and the submission are three steps, and an exit overtaken between the first two goes out
  as an entry at the market without barriers, which reverses the position.
- `LossLimitHolds` (`day_start_accounts`): past `max_daily_loss_pct`, no entry
  anywhere; a session on another account, or on the replay, later on the same day
  is measured from the equity of the first.
- `DecidesWithItsModel` (`colibri_other_model`): models are said to be kept per pair,
  and a pair without a model to stay silent; `modelFor` ignores the pair.
- `BufferIsSeries` (`live_buffer`): a `core.Series` is sorted and without duplicates;
  the engine's buffer is seeded with bars the feed delivers again.
- `NeverTorn` (`history_shared`): the temporary file is there so that no interruption
  leaves a cut Parquet; a conversion started during a download writes the same one.

Seen with the models, without a run of its own; the property and the
constant that shows it are named where there is one:

- `AccountCap` of `ReplayTrading`, two symbols and `MaxOpen = 1`: `max_open_positions`
  is called a cap on the account (docs/architecture.md); symbols that decide together
  pass it.
- `IBBracket.cfg`: the report of a barrier frees the reservation of the next entry
  (`Hasty`), the barriers are cancelled after the timeout that said they protect
  (`Silent`) or before an exit that is refused (`Rejectable`), the market order of
  `checkProtection` beside a living barrier (`MaxLosses`), an exit in flight when the
  connection is lost (`MaxBreaks`), positions that come after executions
  (`LatePositions`).
- `GoneIsOver` of `IBGateway`, with the constants of `IBRestart.cfg`: an order to cancel that
  did not execute and that TWS no longer has is said to exist no more (interactive_brokers.go:685-686); the case
  that would end it is never reached, since `ibIsWarning` takes every code from 2100 first
  (622-624, 679). When a session begins with a position whose barriers are gone, each exit waits
  its ten seconds and is not sent.
- Figures stay shown once disconnected (the late write of a cancelled poller).
- `HonestlyComplete` of `History`, with `Open` smaller than what a weekly source has: `Failures` is
  said to count every unit that a download could not get, so that no hole becomes permanent (store.go:44-52);
  `missingMarketWeeks` counts the weeks of two working days at least (fxcm.go:316), and a week with one, such as
  Friday 2 January 2015, can be lost in a year that calls itself complete.
- `Balanced` of `Trees`: the quantile bins are said to hold balanced numbers of rows
  (dataset.go:147-150); `distinct := finite[:1]` (165) shares the array it then
  compacts, so the quantiles are read from overwritten values.
- `UnseenIsMissing` of `Trees`: an unseen category is said to be treated as a missing
  value (dataset.go:112-114); the tree sends it to the right, a missing value
  where the cut says (model.go:57-58).
- `ExportNamesItsResult` of `Interface`: an export is named after the pair under the
  cursor, which may have moved since the replay (backtest.go:245).
- `config.yaml` is said to be kept beside when it is repaired (README.md:169-170); the
  copies are named by the second, and a second repair within it (the registries',
  after Load's) overwrites the first copy (repair.go:341).
- Only a syntax error is said to stop the program (README.md:171); a setting refused both
  in its variable and in the file does (repair.go:275), which `LoadsOtherwise` excepts.
- The repairs of `Settings.reload` are announced nowhere (docs/architecture.md:242);
  `NothingSilent` excepts them.
- `q` leaves while a conversion runs: no screen knows of it (`QSparesWork` excepts it).
- The end of a work that finds the channel full is lost, and its screen stays busy
  (tui.go:108); `isWorkerMsg` takes messages of other origins for a worker's
  (tui.go:226), which starts a listener more.

## Not modelled

`PROJECT.json` lists every component with its status.

- The wire protocol of Interactive Brokers, the encodings of Parquet and `.gwb`, the
  decoding of the sources, the layouts of CSV, the export: conversions without a state,
  which recorded data test.
- Indicators, features, the Kalman filter, the statistics of a backtest, the gradients of
  the boosting: floating-point arithmetic, compared with reference values by the tests. In
  `Trees`, `Colibri` and `Troglodyte` what they compute is an input.
- Of the IB gateway: partial executions, entries with a single barrier, a failed write
  of the bracket file, the 1100/1102 notices, the timers of a gateway that has been
  replaced, the market-data subscription.
- Rendering, themes, wording, the parsing of arguments.
- `newscompare` (two replays of the folds and their difference), and the aggregation of
  the folds' results.
- Two programs downloading one pair at once: `History` has one program. What happens
  when two writers share the temporary file is shown by `history_shared` inside one.

## Plan

1. Done: time and risk rules, the live engine, the abstract gateway with its
   proofs, the replayed trading, the IB gateway, the labels and the backtest with
   its proofs, the connection cycle with its proofs, the day's starting equity.
2. Done: the history, the bars, the news, the event bus, the settings, the interface,
   the walk-forward, the trees, Colibri and Troglodyte.
3. Done: the proofs of the replayed trading, its exits and its switches included, and of its
   implementation of the abstract gateway; of the IB gateway; of the files of the history, of
   `q` and of the walk-forward; of the cash, the sizes and the fills of the backtest; of the
   loss limit, the news filter, the settings, the bus, the live bars, Colibri, the trees and
   Troglodyte. Each invariant of a passing run is a theorem.
4. Extensions of `IBGateway`: partial executions, the timers of a replaced
   gateway, the failed write of the bracket file.

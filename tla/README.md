# Divergence Engine: a TLA+ model of its moving parts

The Divergence Engine reads trades from Binance, runs statistical detectors on
them and shows the alerts in a dashboard, as a handful of Go processes around
Redis Streams. This directory holds TLA+ modules translated from its source, TLC
configurations that check them on small instances, and proofs about the detector
group, the detectors, the ingester, the aggregator, the event hub, the live sessions
with their paper accounts and the backtests, that TLAPS checks for instances of any size.

    Binance --> ingester --"ticks"--> detector workers --"alerts"--> aggregator
                               |      (consumer group)                   |
                               v                                  "alerts-clean"
                            dashboard <----------------------------------+
                     (event hub, live sessions) --SSE--> page in the browser

`tlc -config X.cfg M` runs a configuration, `tlapm M.tla` checks the proofs of a
module. `PROJECT.json` names the module, the configuration and the properties of
each run, and the source lines behind each definition.

## 1. Inventory

| Component | Source | State it keeps | Operations | Talks to |
|---|---|---|---|---|
| Ingester | `internal/ingester/binance.go`, `cmd/ingester-binance` | connection, envelope, backoff, channel of 1000 ticks, one watcher goroutine per connection | dial, read, send or drop, back off, publish, shut down | the exchange; appends to `ticks` |
| Detector workers | `cmd/detector`, `internal/bus` | in Redis: stream, group, last-delivered id, pending list; in a worker: the rest of a reply | create the group, XREADGROUP, run the detectors, publish alerts, XACK | `ticks` to `alerts` |
| Detectors | `internal/detectors`, `internal/state` | ring buffers per symbol, snapshots and returns per pair, time of the last alert | `OnTick` of the registry and of each detector | called by a worker for every tick |
| Aggregator | `cmd/aggregator` | position in `alerts`, cache of keys with a time | read, `isDup`, publish, sweep | `alerts` to `alerts-clean` |
| Dashboard event path | `cmd/dashboard/main.go` | two stream positions, a channel of 64 events per browser | XREAD, broadcast, subscribe, write, unsubscribe | `ticks`, `alerts-clean`; SSE to the page |
| Live sessions | `cmd/dashboard/livestrategy.go` | the map of sessions, one goroutine, mutex and paper account each | start, stop, list, tick | Binance, Python, the hub |
| Page | `cmd/dashboard/index.html` | a card per live session | load, list, stop, draw, remove | the dashboard |
| Paper account, live signals | `livestrategy.go` | position, cash, shares, trade history, equity curve | `tick`, `applySignal`, five live signals, the custom one | a step of a session; Binance's closes |
| Backtest | `cmd/dashboard/backtest.go` | none (functions of a price series) | indicators, four strategies, `computeResult` | Binance; the live signals use its indicators |
| Python harness and programs | `backtest.go`, `index.html` | the loop's position and events | drive `on_bar` over the bars | started by a backtest and by a custom session |
| Tools | `bench/loadgen`, `cmd/subscriber-dev`, Compose | none that matters here | | |

What is hard in this code, and where a test would hardly go:

- *Crashes and lost answers.* A worker dies, is interrupted, or loses a reply or an
  acknowledgement between XREADGROUP and XACK; the reply to an XADD is lost and the client sends it
  again; Redis comes back empty.
- *Interleavings.* Two workers on one group; reader, publisher and watchers of the
  ingester; the reading loop and the sweeper of the aggregator; two broadcasters,
  subscriptions and writers in the hub; ticks, stops and lists of live sessions.
- *Ordering.* The list a page loads races with its event stream; `$` is resolved anew
  by each XREAD until a first message has come; late time stamps in a ring buffer.
- *Limits.* Channels that drop when full, streams that are trimmed, rings that wrap,
  a baseline over a window that is not full yet, an equity curve that is cut.
- *Numbers that are wrong but plausible.* Recursions with a seed, indices that look ahead, a sentinel
  0 that is also a value, one strategy written three times.
- *Shutdown.* Every loop must end at SIGINT from wherever it is.

`PROJECT.json` lists the hazards one by one, at their lines.

### What makes each component correct

- **Ingester**: the stream never gets a trade behind a newer one, and only the Redis client
  ever repeats one; the channel is never sent on once closed; what entered it is stored unless
  its XADD fails or the process is told to stop; SIGINT ends the process.
- **Workers**: no tick reaches detectors twice; two workers never hold the same entry;
  nothing leaves the pending list but by an acknowledgement, and an acknowledgement
  comes after the detectors; what is published of a tick are copies of what one pass of the
  detectors raised; only a fault strands an entry; every tick settles.
- **Detectors**: a window is exactly the newest ticks of its symbol and side; the samples
  of a pair tile its history; the correlation is the textbook one.
- **Aggregator**: what is suppressed has an original in the same minute; a key is not let
  pass again within two windows; a sweep really sweeps; no alert is passed over or read
  twice once a process has a position.
- **Hub**: no event goes to a closed channel; every event since a subscription is
  delivered, buffered or dropped, in order; no gap in a stream once begun but where Redis
  trimmed it; a slow browser holds up nobody.
- **Live sessions**: no list sees half an `applySignal`; a stopped session ends; a list or
  a stop is answered; a page shows every running session, and one that is stopped only
  for reasons that can be named.
- **Paper account**: it is the replay of its trade history; the curve tells the same story.
- **Live signals**: a session stands where a backtest over the same bars ends.
- **Backtest**: it does not look ahead; its return is that of money following its position;
  the indicators are those of their definitions; the Python programs of the page hold what
  the Go code holds.

## 2. The modules

| Module | What it is |
|---|---|
| `TickGroup` | workers, stream and consumer group, faults; the core of the project |
| `TickLifecycle` | what the group promises about one tick: an abstract at-most-once life cycle |
| `MCTickGroup` | symmetry of the workers |
| `TickGroupProofs` | its theorems (section 5), with its refinement of `TickLifecycle` |
| `Ingester` | both goroutines, the channel, the watchers, the shutdown |
| `Aggregator` | reading loop, deduper, sweeper, restarts |
| `Hub`, `MCHub` | `readStreams`, the hub, `serveSSE` |
| `LiveSessions` | session manager, session goroutines, handlers, pages |
| `IngesterProofs`, `AggregatorProofs`, `HubProofs`, `LiveSessionsProofs` | the theorems about these four |
| `Indicators` | SMA, EMA, RSI and Bollinger bands of a series of closes |
| `Backtest` | the strategies, the harness with the programs of the page, `computeResult` |
| `LiveStrategy` | one session's market, signals and paper account, over `Backtest` |
| `RingBuffer` | the circular buffer, as operators on a record |
| `Detectors`, `MCDetectors` | registry and the three detectors over `RingBuffer` |
| `BacktestProofs` | lemmas about the functions of `Indicators` and `Backtest` |
| `LiveStrategyProofs`, `DetectorsProofs` | the theorems about these two |

An action is a handler, or the part of one between two points where another process
can be seen or can interfere: a Redis command, a channel operation, a lock. Every
wait of the code is a control point (`pc`, `sub`, `pub`, `at`...). Variables marked
*history* are the model's, and no guard reads them. An operator marked *bug* is used
nowhere: it is the definition below it with a plausible error, and `PROJECT.json`
says which property finds the error.

**`TickGroup`.** Entry *i* is the *i*-th tick ever appended. Redis is `tail`, `trimmed`,
`groupExists`, `lastDelivered` and `owner` (the pending list); a worker is `pc`,
`cancelled`, the interval `cursor .. upto` of the reply it works on, and `todo`, the
alerts of the current tick not yet published. `Start`, `CreateGroup` and `CreateFails`
are `main` up to the loop; `Call`, `Receive`, `ReplyLost` and `ReceiveNothing` one turn
of it; `HandleBad`, `Handle`, `PublishAlert`, `Ack` and `AckFails` are `process`, whose
XACK is deferred and whose result nobody looks at. Because a worker only ever asks for
`>`, a reply is an interval; that is why two numbers describe it. What the detectors
compute is reduced to how many alerts a tick raises, and `Detectors` models it. The client is
built with default options (`cmd/detector/main.go`), so it sends a command again when the
reply does not come. For an XADD with the id `*` that means another entry: `PublishAlert` stores an
alert 0 to `Sends` times, whatever error it returns. A repeated XREADGROUP is a `ReplyLost` followed by a
`Receive`; a repeated XGROUP CREATE or XACK changes nothing. The history `deliveries` counts how often
an entry was handed out, so a second delivery would show.

**`TickLifecycle`.** A tick is unpublished, queued, claimed, handled, settled, or
evicted unread, and `seen` counts how often detectors saw it. The refinement maps an
entry's phase from the stream, the deliveries, the acknowledgements and `runs`.

**`Ingester`.** `sub` is the goroutine around `Subscribe`, `pub` the publisher, `ch` the
channel, `watching` the watcher goroutines. The envelope is declared outside the read
loop, so it is a variable that survives a frame. A trade is its number at the exchange. An XADD stores
its tick 1 to `Sends` times when it succeeds and 0 to `Sends` times when it fails, as the client may send
it again and the reply that is lost may be that of a command that took effect. All copies are taken to be
on the stream when the call returns: that a connection given up delivers a command later than
those of the connection after it is left out.

**`Aggregator`.** Time is counted in units that divide the window. A key is a source and
a bucket. `SweepDue` takes the cutoff, `SweepCache` takes the lock: `isDup` runs between
them. `$` is resolved when the command reaches Redis (`Call`), and a restart begins at
`$` with an empty cache. An alert is *forwarded* when it is on `alerts-clean`, in one entry or, the client
having sent its XADD again, in several; `PublishFails` is the call that left nothing there.

**`Hub`.** `lock` and `pending` are a broadcast under way, which offers its event to one
channel after another; `subscribe` and `unsubscribe` wait for `hub.mu`. A blocked XREAD is
answered by the next entry. `Add` trims as the publishers ask for (`redis.go:28` and `:42`): with an
approximate MAXLEN Redis keeps that many entries or more, and XREAD begins after what is gone.
Every producer writes the field `data`, so an entry without it is left out.

**`LiveSessions`.** A session's goroutine fetches, takes `sess.mu` (for the length of a
Python run if it is a custom session), applies the signal in two halves, marks, and
broadcasts; `select` takes ticker or cancellation, whichever it likes. A list holds `sm.mu`
throughout and each `sess.mu` in turn. A page is one load of `index.html`; the handlers of a
page that was left run on, and one page has one stop under way at a time. The broadcast is
one step here, since `Hub` shows what its mutex makes of it. An empty answer of Binance
to a custom session is noticed where it matters, at the Python step (`Panic`). Cards are
drawn without looking at versions, as `renderLsCard` does.

**`Indicators`** and **`Backtest`** are functions: bar *i* is index *i*-1 of the code, a price a
natural number, and every value exact. A mean, an EMA, Wilder's averages and an RSI are fractions (the
two averages of an RSI have the same denominator, which cancels); a band is kept
as its middle and the square of its half-width, so no comparison needs a root. A bar without a value
has the value 0, as in the code's slices, and that it is also a value of an RSI is part of the
model. `Trade` (with `AfterBar`, its body) is the loop all strategies and the harness share: the last trade
says whether there is a position and since when. `computeResult` follows the code: events are
paired by their index, an open position is valued at the last close, the correlation is over
the bars from the warmup on. The harness runs the six programs of the page. Rounding of floating
point is left out, and with it what happens at an exact tie after rounding.

**`LiveStrategy`** extends `Backtest`. A tick of the session's ticker moves the market (the unfinished
bar to another price, or on to a new bar), reads the last `Window` closes, computes the signal and
applies it, in one step: `LiveSessions` has the interleavings. Prices are powers of two there, given by
their logarithms, so that an account that is all cash or all shares is one logarithm: buying subtracts
the price, selling adds it, and P&L is the logarithm of the value over the 10000 it began with.
`FetchFails` is a tick that Binance does not answer, `TickOfFailedProgram` the signal "hold" of a
program that fails or is late.

**`Detectors`** over **`RingBuffer`.** A worker has one goroutine, so a tick is one step:
`OnTick` pushes it into every ring concerned, evaluates the three conditions with all
their early returns, and records the alerts. Prices are logarithms, so that a log-return
is a difference; volumes are integers and thresholds fractions of integers; correlations
are in hundredths, exact terms in twelfths because 12 is divisible by every length up to 4.
A restart of a worker begins with `Init`, so it needs no action. The history `taken` keeps, per pair,
the numbers of the ticks that took a snapshot; `SamplesTile` compares the rings of returns with them.

## 3. The runs

| Run | Instance | Shows |
|---|---|---|
| `group_safety` | 2 workers, 2 ticks, batches of 2, MAXLEN 1, 2 alerts per tick, XADDs sent up to twice, every fault | the six safety invariants, the inductive invariant, delivery order, the refinement to `TickLifecycle` |
| `group_liveness` | 2 workers, 2 ticks, crash, SIGINT, failed XACK, lost reply | every tick settles; an interrupted worker exits |
| `group_reclaim` | crash only | **violation**: nobody reclaims the entries of a dead worker |
| `ingester_all` | 2 trades, 2 dials, channel of 1, one odd frame, XADDs sent up to twice, every fault | order, no second offer, closing, acceptance, shutdown |
| `ingester_drain` | SIGINT only | **violation**: ticks are left in the channel |
| `aggregator_all` | 1 source, 3 alerts, clock to 3, window 1, sweep every 2, MAXLEN 2, stops, failures, garbled entries | all of section 1's aggregator properties |
| `aggregator_lostminute` | a failing publish | **violation**: suppressed in favour of an alert nobody got |
| `hub` | 1 browser, 1 tick and 3 alerts, MAXLEN 1, one session event, channel of 2, lost replies | all of section 1's hub properties |
| `sessions` | 1 custom session, 1 page, channel of 3, two broken streams, failing and empty fetches | whole snapshots; why a stopped session's card stays; requests end, stopped sessions end, running ones are shown |
| `detectors` | 2 symbols, 1 pair, 6 ticks of 7 kinds, rings of 2 and 3 | windows, samples, correlation |
| `strategy` | each of 5 strategies and 6 programs; 3 prices, 3 to 6 bars, window of 5, 3 ticks, periods 2 and 3, curve of 2 | the account, the live signals against the backtest, the backtest against its definitions |
| `detectors_steady` | one trade a minute, constants of the code in minutes | **violation**: a steady flow is a volume spike after five minutes |

*Why the bounds suffice.* Two workers are enough for one to take over, restart or
overlap with another. With batches of 2 a worker is interrupted before, inside and after
a batch, and MAXLEN 1 trims entries that are unread, pending or acknowledged. The
ingester's channel of 1 drops as soon as two trades come while the publisher is busy, and with the trade in its
hand and the one about to be sent there are three places for an order to go wrong; a browser's channel of
2 fills up, keeps an order and drops. An XADD sent twice already differs from one sent once, and a third copy
adds nothing. Three entries of a stream of MAXLEN 1 are one that is read, one that is trimmed unread and one after the
gap. Three alerts over three windows give an original, a
duplicate and one after a sweep; three are also a read position, a gap and its end, and
one source is enough because keys of different sources never meet. One browser can be
slow and leave during a broadcast; a second one, or the same one again, would only repeat it, for
channels are independent and a new connection has a new one. Six ticks wrap a ring of 2 and one of 3, raise an alert of each
detector, and include late ticks and a price of 0. One page and one session are enough for `sessions`:
the list, the stop and the tick of one session already meet in every order, pages share nothing but the
two mutexes, and a page that was left behind still holds its own. Six bars with periods 2 and 3 have each indicator before its first
value, at its seed and up to three steps into its recursion; every strategy buys and sells in
them, a breakout is held and left, a window of 5 slides over 6 bars, and a curve of 2 is cut after 3 ticks. MaxTick, MaxTrade, MaxDial, MaxOdd,
MaxAlert, Sends, MaxBar, MaxTime, MaxEntry, MaxSession, MaxVisit and MaxDrop bound the environment, never
the program's own steps.

*Deadlock* is checked for the worker group and the aggregator, which never stop. It is
off where the bounded environment really comes to an end (no more trades, browsers, ticks or time).

The type invariant of each module is the first conjunct of one of its invariants (`IInv`,
`ClosedAfterLastSend`, `SweptClean`, `OffersReachOpenChannels`, `SnapshotsAreWhole`, `WindowsExact`,
`AccountIsReplay`).

## 4. Fairness, and what justifies it

- Each goroutine that can take a step takes one: weak fairness per goroutine and step.
- A Go mutex starves nobody (it hands itself to a waiter of more than 1 ms): strong fairness
  where a lock is taken. `select` picks at random among the ready cases: strong fairness of
  the cancellation.
- Compose restarts a stopped container (`restart: unless-stopped`): fairness of `Start`.
- Faults are never fair. Strong fairness of `Receive`, `ReceiveReply`, `Fetch` and the like says
  that a call tried for ever does not fail for ever.

Nothing is assumed of the exchange or of when signals come; of a page only that an open one
connects again and handles its events.

## 5. What is proved

Eight modules hold theorems, each for every value of the constants: any number of workers, trades,
browsers, sessions, pages, symbols and pairs, any prices, capacity, window and set of faults. Nothing
is assumed but the `ASSUME` of the module (the constants are numbers, capacities and windows are not
0, a null value is none of the values, a consumer group has a batch of at least one, a stream of
alerts has a source, a logarithm stands for a whole positive price, the slow average is the longer
one, oversold is not above overbought).

| Module | Theorem | Statement |
|---|---|---|
| `TickGroupProofs` | `TypeCorrect` | `Spec => []TypeOK` |
| | `AtMostOnceHolds` | no tick reaches detectors twice |
| | `OneHolderHolds` | batches do not overlap, pending entries are the holder's |
| | `AckAfterHandledHolds` | what is acknowledged was handled, and nobody holds it |
| | `StrandedOnlyByFaultHolds` | only faults strand entries |
| | `NothingForgottenHolds` | while Redis keeps its data, a delivered entry is acknowledged or pending |
| | `AlertsAccountedForHolds` | what is published of a tick are the client's copies of alerts that one pass of the detectors raised |
| | `DeliveryInOrderHolds` | a delivery is newer than all before it, so none is a second one |
| | `LifecycleImplemented` | `TickGroup` implements `TickLifecycle` |
| `IngesterProofs` | `ClosedAfterLastSendHolds` | the channel is closed only when nobody will send on it |
| | `InOrderHolds` | no trade is behind a newer one; without odd frames none is offered again that was stored, dropped or failed |
| `AggregatorProofs` | `SweptCleanHolds` | a completed sweep leaves nothing older than its cutoff |
| | `SuppressedForOriginalHolds` | what is suppressed has an original in its minute |
| | `ReadsEachOnceHolds` | no alert is passed over or read twice |
| | `GapBetweenAdmissionsHolds` | a key is not let pass twice within two windows |
| `HubProofs` | `OffersReachOpenChannelsHolds` | no event goes to a closed channel |
| | `EventsAccountedForHolds` | every event is delivered, buffered or dropped, in order |
| | `SkipsOnlyTrimmedHolds` | a stream once begun is broadcast in order, without a gap but for what was trimmed |
| `LiveSessionsProofs` | `SnapshotsAreWholeHolds` | a list shows no session in the middle of `applySignal` |
| | `GhostsExplainedHolds` | the card of a stopped session has one of three reasons |
| `DetectorsProofs` | `WindowsExactHolds` | a detector reads the newest ticks of its symbol and side, and its window picks those inside |
| | `SamplesTileHolds` | the samples of a pair tile the history of its prices |
| | `PearsonExactHolds` | Welford's terms are the textbook's |
| `LiveStrategyProofs` | `AccountIsReplayHolds` | the account is what its trade history says |
| | `CurveTellsTheTradesHolds` | the curve, cut to its newest points, and the table of trades tell the same |
| | `NoLookaheadHolds` | no backtest looks ahead |
| | `LiveFollowsBacktestHolds` | a session stands where a backtest over the same bars ends |
| | `PresetsAgreeHolds` | a program of the page holds what the Go strategy holds |
| | `IndicatorsExactHolds` | the indicators are those of their definitions |
| | `ResultExactHolds` | a backtest's return is that of its position, its correlation tells whether its buys did better |

Each of them but `BacktestProofs`, which holds lemmas, also proves `Invariance`, `Spec => []IInv`. Few of
the properties above are inductive by themselves (`ClosedAfterLastSend` is), and TLC checked each `IInv` on the instance of its run
before it was proved (`group_safety` still lists it). There is one lemma per conjunct of
`IInv`, with a step per action.

- **`TickGroup`.** A tick is handled at most once because what XREADGROUP takes was never delivered
  (`StreamInv`: what is delivered lies behind the trim point or the last-delivered id, also after a wipe,
  since Redis' ids keep growing), because a batch is delivered, held by one worker and untouched behind
  its cursor (`BatchInv`), and because the history of each entry agrees with what Redis says of it
  (`HistoryInv`). `TakesNew` is the fact about XREADGROUP that most of them rest on. The refinement
  shows with `PhaseCases` what each phase means, that an untouched entry keeps its phase, and then, action
  by action, which step of the life cycle it is.
- **`Ingester`.** The order of the stream needs the order of everything on its way to it (`FlowInv`), and
  compares all pairs, not neighbours, because a failed tick leaves from the middle; it holds whatever frames
  come and however often the client sends an XADD. While no odd frame has come, more is true: the
  channel is newer than the stream (`QueueInv`), the publisher's item lies between them (`ItemInv`), the
  reader's envelope is newer than all and not sent before (`EnvelopeInv`).
- **`Aggregator`.** Suppression needs an original for every key in the cache, also while that original is
  still to be published (`OriginalInv`). The two windows between admissions need the clock of the sweep:
  its cutoff is at least two windows old when it gets the lock (`ClockInv`), however many keys were
  entered since it was computed. The reading position is what is undecided after it (`PositionInv`) and
  before it (`BehindInv`), for each place the loop can be.
- **`Hub`.** A channel is open while a broadcast has it to visit because `unsubscribe` waits for the
  mutex (`LockInv`). That events are accounted for needs the order of each channel against what was
  written last and what is still to be offered (`ChannelInv`). That a gap is one that Redis made needs the
  reply at hand to go on where `lastID` says, stream by stream, or behind what is trimmed (`ReplyInv`), with one
  entry of difference while its broadcast is under way, and `lastID` to be the last broadcast (`SentInv`).
- **`LiveSessions`.** A card is explained by what is behind it in the channel: `TickInv` says of each
  tick of a stopped session in a channel that its removal follows, has yet to be broadcast, or that the page
  is excused; and `StopInv`, that one stop only broadcasts it. A snapshot is whole because a list takes each
  session's mutex (`ListInv` says who holds `sm.mu`).

- **`Detectors`.** A ring *tracks* a set of the ticks so far: it holds the newest of them, each at the place
  its rank from the end gives (`Tracks`); `PushTracks` shows that a push moves every one of them a place
  further and lets the oldest go. Every detector's ring tracks the ticks that concern it, and
  `WindowsExact` follows from what a window picks of such a ring. For the pairs, `SnapshotInv` says what a
  pair remembers: the prices at its last snapshot, and which of its symbols have ticked since. So
  two snapshots lie apart (`ApartInv`), and the rings of returns track the moves from each to the next
  (`MovesInv`).
- **`LiveStrategy`.** The history alternates, so its length alone says whether the session holds shares,
  and the value of a trade is that of the trade before it and the move of the price since (`ReplaysOn`). A
  tick adds one point to the curve and drops at most the first (`KeptNewest`), an older point counts the same trades
  as before because a new trade is later than all of them (`SameTradesBy`), and the value of the new point
  is the replayed one: that of the curve cannot be shown without that of the account (`TellsOn`). What a
  signal is computed from plays no part; it is one of three words (`Signals`).

The detectors' correlation and everything about backtests are statements about functions, and about
recursive ones: sums, indicators, the loop over the bars, the money. The library's induction theorems cannot be
used here, but their cases can be put in terms of sets: a set that holds 0 and, with *k*, *k* + 1 holds every number
up to *n* (`Upward`), and one that holds {} and every set whose smaller sets it holds has the finite ones (`SetUpward`).
So each recursive function gets a definition of what it is to be one (`Loop`, `MoneyOf`, `TotalOf`...), a lemma that
there is one, and facts by induction over the bars.

- **`PearsonExact`.** After *k* samples the mean is a *k*-th of the sum, and each term a *k*-th of the textbook's
  (`Textbook`); `TextbookStep` is the algebra of one step, for any integers.
- **`NoLookahead`.** Two series that agree up to a bar are `Twins`; a recursion over one is, up to that bar, the recursion
  over the other (`EMASame`, `WilderSame`), so all that a strategy compares is the same, and so is every turn of its loop.
- **`LiveFollowsBacktest`.** Whether the loop holds shares at the end depends on its last bars: it was told to
  buy and not to sell since, or the reverse (`HeldFrom`, `FlatFrom`), and a live signal that looks back finds just these
  bars. Of a breakout only the buys are compared, for the live session never sells (section 6).
- **`PresetsAgree`.** A crossover and a program that compares levels hold the same because the levels after a
  crossing stay what they are until the next (`CrossoverHolds`, `CrossesHold`).
- **`IndicatorsExact`.** An EMA times its denominators is a sum of prices with powers as weights, which one more bar
  multiplies and extends by a term (`WeightedSumStep`); Wilder's averages are the same with other weights. The variance under
  a band is a sum of products of deviations, multiplied out (`SumProducts`).
- **`ResultExact`.** The product over pairs of trades and the money that follows the position meet in `Standing`: after any
  bar the money is the product of the pairs sold by then, and, with shares in hand, the move of the price since
  their buy. `StandingOn` takes it a bar further, whether or not that bar trades (`TradedNext`), which needs that trades
  alternate and that no two share a bar (`EventsAlternate`). The numerator of the correlation is the number of
  bars times the difference of the averages, and its denominator is 0 only for a flat series or one without a choice
  (`CorrelationSign`); that no counted buy lies outside the sample is `EventsAfter`.

What stays with TLC: every liveness property (`EveryTickSettles`, `AcceptedIsStored`, `EveryAlertDecided`,
`AnchoredIsBroadcast`, `RequestsEnd` and the like), for TLAPS does neither fairness nor ENABLED. Every
invariant that a passing run checks is proved.

## 6. Where the code does something else than its texts say

With a run that shows it:

- `group_reclaim`: README.md:26 and :201 promise that abandoned messages are reclaimed; no code
  calls XAUTOCLAIM or reads anything but `>`.
- `ingester_drain`: `cmd/ingester-binance/main.go:43` and README.md:26 speak of draining; the
  publisher leaves at the first refused XADD.
- `aggregator_lostminute`: README.md:16; `isDup` enters the key before the publish is known to work.
- `detectors_steady`: `volumespike.go:14`; the five minutes of history do not keep a steady flow from
  looking like a spike, because the volume of five minutes is divided by an hour.

Visible in the models, without a run of their own:

- A full channel of the ingester drops ticks (`binance.go:74`); README.md:26 speaks of backpressure.
- Every reconnection leaves a watcher goroutine behind until the end (`binance.go:48`), and a JSON
  frame that is no trade sends the previous trade again (`binance.go:53`).
- `ticks` is trimmed at about 100000 entries whether or not they were read (`redis.go:28`), which limits
  README.md:58's "no messages are lost".
- The aggregator's window is a truncated minute (`cmd/aggregator/main.go:92`), not a rolling one (line 79): two
  alerts a moment apart across a minute's edge are both forwarded.
- The Redis client repeats an XADD whose reply is lost, so a tick can be on `ticks` twice, an alert on `alerts`
  and on `alerts-clean` (`redis.go:26`, `:41`, `:54`); the comment at `redis.go:16` calls the latter deduplicated.
- Until the first message has come, whatever is appended between two calls with `$` is passed
  over, by the aggregator (line 35) and, as long as ticks flow, by the dashboard (line 102).
- After SIGINT a worker goes on through its batch with every XACK failing (`cmd/detector/main.go:79`).
- A tick under way when its session is stopped puts the card back after the removal
  (`livestrategy.go:247`), and an empty answer of Binance to a custom session ends the
  dashboard (`livestrategy.go:212`).
- The card of a breakout says "Exit after a fixed hold period" (`index.html:916`, offered to live sessions at line
  1070); a live breakout never signals "sell" (`livestrategy.go:405`), so a session buys once and holds.
- The card of the RSI strategy says "Buy when RSI drops below the oversold level" (`index.html:898`); an RSI of 0 (nothing but
  losses) counts as no value (`livestrategy.go:367`, `backtest.go:229`), so a fall without a pause is never bought, and
  after equal prices it even reads as the RSI of 100 before it, a "sell". The Python program buys. `LiveFollowsBacktest`
  claims nothing of a breakout's exit or of an RSI of 0.
- A live crossover is "buy" or "sell" by which average is above (equal ones sell), a backtest acts when they
  cross, and the Python program on levels, holding at equality: a session that is started in an uptrend buys at once.
- A Bollinger band whose lower edge is exactly 0 counts as no value in a backtest (`backtest.go:254`): the bar is
  skipped, also for a sell, while the live signal sells on it. With the code's 20 and 2 and exact
  arithmetic, eighteen closes of 1 before two of 3 are such a band. `LiveFollowsBacktest` and `PresetsAgree` name the exception.
- The comment at `index.html:721` promises closes "up to bar i (inclusive)"; the harness hands over the whole lists
  (`backtest.go:510`), so only the program's own indexing keeps it from looking ahead.
- The Python EMA begins with the first price (`index.html:766`), the Go one with a mean (`backtest.go:312`).
- A close that does not parse is skipped in a backtest and 0 in a session (`livestrategy.go:442`).
- A custom session replays its window of 200 bars from a flat position at each tick: once the window slides, a
  program whose buy has left the window may come out elsewhere without a trade having been signalled.

## 7. What is not modelled

What a user's own Python computes, the rounding of floating point, backtest parameters other than the
defaults, the BTC price query and the benchmark it shows beside an account, HTTP and JSON plumbing,
charts and layout, the load generator, `subscriber-dev`, build and deployment files. Two workers keep separate detector states, so
each sees only its share of the ticks; `Detectors` models one worker, and no text says what the
union of two should be. `PROJECT.json` lists the reasons by component.

## 8. Plan

Done, in the order of importance: `TickGroup` with its proofs and refinement, `Ingester`, `Aggregator`,
`Hub`, `LiveSessions`, `RingBuffer` and `Detectors`, `Indicators`, `Backtest` and `LiveStrategy`; then the
proofs about `Aggregator`, `Ingester`, `Hub`, `LiveSessions`, `Detectors`, the account of `LiveStrategy`, and
last the functions: backtests, live signals, indicators and correlation. With these every safety invariant
that a passing run checks is proved. To come: **a tick across the system**, an abstract pipeline that composes
`Ingester`'s drops, the group's life cycle and the aggregator's decisions, each detailed module
implementing its part.

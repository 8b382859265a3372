# A verification project for the crypto signal bot

The bot scans Binance USDT-M futures every five minutes, decides BUY, SELL or
HOLD per coin with deterministic rules, writes every decision to a CSV file and
sends the good ones to Telegram.  It never trades.  The modules here model the
parts of it whose correctness depends on order (threads, locks, clocks, queues,
failures, restarts), and the pure algorithms whose correctness is a relation
between many inputs: what a chart shows, how a setup is judged, how a reply of a
language model is read.  All source paths below are relative to `src/`.

## The system

| part | code | state it keeps | operations |
|---|---|---|---|
| scan coordinator | `scan_coordinator.py:320-392` | the gate (a lock without an owner), running and last scan, error streak | `try_begin`, `end`, `get_guard`, `health` |
| duplicate guard | `duplicate_guard.py` | time of the last alert, time and reason of the last HOLD row, per coin | `is_duplicate`, `record`, `hold_logged_recently`, `record_hold`, (`reset`, never called) |
| scan pipeline | `main.py:519-818` | locals of one scan | gate, universe, funnel, decide, rank, persist, alert, stamp, submit |
| scheduler | `main.py:890-940`, `deploy/crypto-signal-bot.service` | APScheduler's job state, a streak | cron trigger, `max_instances=1`, restart by systemd |
| on-demand controller | `ondemand.py`, `telegram_bot.py:241-292` | three unlocked module globals | `/scan_on` (a thread per command), `/scan_off` (event loop), the session's job |
| AI opinion worker | `scan_coordinator.py:94-318` | pool of one thread, counter, status fields, `ai_opinions.csv` | `submit`, the task, `_write_rows`, budget notice |
| AI provider ladder | `ai_decision.py` | daily budgets, memory of rejected JSON mode, the notice flag | retries, JSON-mode drop, provider switch, notice |
| market scanner | `scanner.py` | candle cache, token bucket | fetch with retries, concurrent batch under a deadline |
| Telegram delivery | `alerts.py:188-297` | none of its own; uses the listener's loop | listener send with a 20 s wait, one-shot fallback |
| news engine | `news.py` | feed cooldowns, event clusters, alert memory on disk | poll, ingest, verify, publish |
| liquidation listener | `liquidation.py` | deque of events, connection state | stream, reconnect, prune, status |
| decision core | `decision.py`, `mtf.py`, `direction_gate.py`, `risk_gate.py` | none (pure) | combine timeframes, gates, levels |
| technical analysis | `ta_utils.py`, `market_structure.py`, `filter_1h.py`, `liquidity.py`, `price_action.py`, `support_resistance.py`, `trendlines.py`, `futures_context.py`, `setup_quality.py`, `scoring.py:274-343` | none (pure) | detectors over closed candles, score of a setup |
| reply reading | `ai_decision.py:509-763, 1300-1360`, `news_analysis.py` | none (pure) | find the object in a reply, repair it, read it |
| backtest | `backtest.py` | none; reads the exchange's history | replay the decision core, score its setups |
| CSV logger | `logger.py` | `signals_log.csv` | append, header migration at start |

How they interact.  A scheduler job (scheduled or on-demand) fetches tickers and
calls `run_scan` with a guard.  `run_scan` reads the clock, claims the gate of
*its copy of* `main`, runs the funnel (asking the guard per coin), decides,
ranks, and then for each verdict writes the row, sends the alert and stamps the
guard.  Last it hands a batch to the AI worker, whose verdicts only end up in an
audit file, and gives the gate back.  The Telegram listener runs in a thread of
its own with an event loop; `/scan_on` starts a further thread.

A detail that matters: the service runs `python main.py`, so the file is loaded
as `__main__`; `/scan_on` does `from main import ...` (`telegram_bot.py:255`)
and gets a second copy of it, with a second coordinator, guard and AI worker.

What is hard here: two jobs racing for the gate; a cooldown that is checked
minutes before it is recorded, against a clock read before the gate; partial
failures (disk, Telegram, an exception) inside the persist loop; a crash between
row, send and stamp; unlocked globals driven by several threads; a bounded queue
whose counter and contents change at different moments; status fields written by
two threads.  What makes each part correct:

- coordinator: one scan per copy; the slot is always given back; the snapshot
  belongs to the scan it names and never goes back in time;
- guard and pipeline: at most one alert per coin and cooldown; no alert without
  its row (or a refused write); a HOLD is left out only when its row exists, and
  one that repeats itself is written once per window;
- on-demand: a session that runs can be stopped, and scans never overlap;
- scanner: nothing stale or unfinished is served, the request rate holds for all
  threads together, a batch past its deadline only ends what it began;
- decision core: no trade against the funnel's direction or the overleveraged
  side, levels in order and worth the risk, longs and shorts judged alike;
- AI worker: bounded backlog, a status that settles on a result, counts that
  agree with the audit file, one notice a day, every accepted batch audited;
- delivery: TRUE means somebody has the message; a second copy only after the
  listener stayed silent;
- news: only verified stories go out, and none is remembered twice or forgotten;
- provider ladder: a call fails only when nobody can answer it any more;
- liquidation summary: it counts what was received and calls nothing old current;
- signals log: a row that was written stays, under a header that fits;
- chart readings: no later candle changes what a closed one showed, nothing
  favours a side, indicators alone decide nothing;
- reply reading: what is read is what was meant, or nothing;
- backtest: no setup is judged or scored with what came later.

## Modules

| module | role |
|---|---|
| `Deployment` | jobs, copies of `main`, which copy a job reaches (`CopyOf`), coins |
| `DuplicateGuard` | the two dictionaries and their four operations |
| `ScanCoordinator` | the gate and the snapshot; `try_begin` is `Acquire` then `Open`, `end` is `Close` then `Release` |
| `ScanPipeline` | composes the two with `run_scan`: one action per step of a job's thread, a clock and a restart |
| `AlertGate` | abstract: per copy one active scan, alerts a cooldown apart |
| `ScanPipelineProofs` | proofs about `ScanPipeline` |
| `AIOpinionWorker`, `AIOpinionWorkerProofs` | the worker: `submit` split at its lock, the pool's thread split at each point another thread can observe; proofs |
| `OnDemand`, `OnDemandProofs` | `ondemand.py` line by line in concurrent threads, APScheduler by what it refuses; proofs |
| `CandleCache`, `CandleCacheProofs` | `scanner.py:60-93, 160-202, 318-425`: the pools' threads, the cache, the token bucket, the deadline; proofs |
| `DecisionCore`, `DecisionCoreProofs` | one coin through the funnel and `decision.decide`: the gates as operators, the detectors as free choices; proofs |
| `TelegramDelivery`, `TelegramDeliveryProofs` | `alerts.send_telegram_text` in any number of threads, the listener's loop, a handler that blocks it, the one-shot bot; proofs |
| `DeliveryContract` | abstract: TRUE only when a chat has the message; implemented by `TelegramDelivery`, relied on by `ScanPipeline` and `NewsEngine` |
| `NewsEngine` | the news thread: fetch, cluster, verify, publish, remember, crash |
| `ProviderLadder` | `_complete` for several setups on a pool of threads: attempts, JSON mode, provider switch, budget, deadline |
| `LiquidationStream` | the cache of force orders, the connection, a summary made while more comes in |
| `SignalsLog` | `logger.py` in two processes: migrate the header, append, fail, crash |
| `ReplyReading` | from a reply that is written token by token to what is read of it |
| `Replay` | `backtest.py --strategy` over a history that grows |
| `Candles`, `MarketStructure`, `Detectors`, `Levels`, `SetupQuality` | the technical analysis as operators over charts of whole-number candles, each extending the one before |
| `ChartReading`, `ReadingProofs` | composes them: a chart that grows, the setups judged on it, and the same chart turned upside down; proofs |
| `Services`, `ServicesProofs` | the services side by side, as a sum; proofs about all of them |
| `MC*` | small instances for TLC |

Correspondence.  In `ScanPipeline` a job's thread is `pc[j]`: `called` (the clock
is read, the gate not yet asked), `claimed`, `funnel`, `persist`, `send`,
`record`, `end`, `release`.  Dictionaries are functions with `None` for a
missing key.  The verdict of a coin (`decide` and everything above it) is a free
choice of signal, quality and reason: the properties hold whatever the analysis
says.  The fetches that precede `run_scan` in a job are not modelled: when they
fail, the job is as if it had not been triggered.  The HOLD signature is the
reason, the verdict part being always `NO_TRADE`.

In `OnDemand` a `/scan_on` thread is at line 35, 39-41, 55 or 62 of
`ondemand.py`; no line keeps the scheduler in a local, so each re-reads the
global.  The event loop handles one command at a time, and `/scan_off` runs on it.
APScheduler is external: a stopped scheduler collects jobs, a running one
refuses a second job with the same id, `start` refuses a running scheduler or one
with the job twice, a scheduler that was shut down runs nothing any more.

In `CandleCache` a worker thread is in the bucket, at a request, holding a reply,
holding a parsed frame, or done.  One timeframe is modelled, with candles opening
at the multiples of `Period`.  A frame is its last candle's open time and the
moment the exchange took the rows; nothing else about a frame matters to the
cache.  `Wait` is the branch of `TokenBucket.acquire` that stores the refill and
sleeps; how long it sleeps is left open, as is the backoff after a failure.
`watch`, `count` and `late` are history: `watch` is any moment chosen in advance
and `count` the requests since, so that the rate is stated for every window.

In `DecisionCore` the stages are those of one coin: the funnel, the analysis, the
direction gate, and risk gate, score and verdict in one step.  The funnel and
`decide` see the same 1H frame (the candidate carries it), so there is one `htf`.
What the detectors report is chosen freely among what they can report together: a
break is a CHoCH against the trend and a BOS otherwise, and a retest follows a
break.  An S/R zone has any side for any place, since sides are told by the 15M
close and the entry is the 5M close.  The walk over the zones is `FirstOf`: the
least of the worthwhile ones in the order of the sort key.  Prices are integers;
the rounding to eight places is left out.

In `TelegramDelivery` every message has a thread of its own.  A wait of 20 s that
is given up (`GiveUp`) leaves its coroutine in `coros`, where the loop may still
run it, as long as the loop runs; a handler that asks the model on the loop's only
thread (`HandlerBlocks`) is what makes such waits happen.  `copies` counts what each
chat really got.  Formatting is left out.

In `NewsEngine` a headline is the set of its tokens and similarity is the code's
quotient.  One cycle of the thread is `fetch`, `ingest`, `publish`, and for each
story sent `record`, `save`, `writing`; `Truncate` and `Written` are the two halves
of the rewrite of the memory file, and a crash may come between any two steps.
`Send` is the contract of `DeliveryContract`: told only if reached.  `alerts` is
history.

In `ProviderLadder` a call stands before a provider, in a request, or at its end;
the budget and the rejected JSON mode are shared by all calls and all later
requests, as in the process.  A gateway answers, refuses, rejects JSON mode or
disappoints (empty, unparsable, timed out) freely.  `left` is history: why a call
left a provider.

In `LiquidationStream` events carry the exchange's clock, which may run ahead
(`Skew`), and arrive late (`Delay`).  `LookBegins` reads the caller's clock, before
the lock; `LookEnds` counts under it.  `received` and `answer` are history.

In `SignalsLog` a process starts by reconciling the header (`CheckHeader`,
`Archive`), then logs rows (`LogBegins` looks whether the file exists, `Open`,
`Flush`).  A handle stays with the file it opened when that file is renamed.
`overlapped` and `crossed` record that two processes archived at once, and that
something ran or failed between the steps of another.

In `ReplyReading` a reply is a sequence of tokens: prose, an object, what follows
it, cut anywhere.  Only the tokens that the scanner, the repairer and `json.loads`
treat differently are told apart; stripping, scanning and parsing are recursive
functions of how many of them were read.  The readings of all
10,041 replies of the run were compared with those of the Python functions
themselves on the corresponding texts, and agreed.

In `Replay` the decider is a constant operator of the frames it is given, so that
the replay can depend on the frames alone; the history stays below the fetch limit.
A frame's index is in order of time, so that the rows before a moment are a prefix
(`UpTo`).

In the chart modules prices are whole numbers, ATR multiples and ratios are in
percent, and quotients are compared by multiplying out.  `ATR` is kept as a sum with
its count (`AtrCount`) for the same reason.  Where the code breaks a tie in favour of
a side, the tie has a name (`ChartTied`, `TrendTied`, `LineTied`, `RangeTied`,
`SnapTied`, `SteepTied`) and `EvenHanded` excepts exactly it: both last swings broken or
both trendlines broken read as bullish, an outside bar that fails on both sides as
bearish, a zone centred on the close as resistance; of two zones equally strong the
first in the order of prices is kept; of a candle with a swing at both ends, at the
edge of what the trend looks at, only the low counts; a flat RSI counts as falling, and
78 and 25 are not as far from 50 (`config.py` `RSI_OVERBOUGHT`, `RSI_OVERSOLD`).
With `LIQ_CONFIRM_CLOSE_ATR` above its configured 0, a sweep would be judged by the
current ATR and could repaint.

Definitions whose comment says "Mutated form" are used by no specification: each
is a plausible bug of the definition below it, kept to show that a property can
fail.

## Runs

| run | instance | shows |
|---|---|---|
| `scan_shared` | two jobs, one copy, two symmetric coins, two HOLD reasons, one deliverable quality, both windows of one tick | one scan at a time, the cooldown, a repeated HOLD once per window (`HoldsWrittenOnce`) |
| `scan_health` | the same jobs, one coin, qualities below and above the floor, one restart, cooldown 1 tick, snapshot fields in the state, fairness | types; the snapshot and the error streak tell the truth (`StatusHonest`); row before stamp and before alert, across a crash (`RowsFirst`); `AlertGate` implemented; the slot is always freed |
| `script_two_copies` (violation) | the wiring of `python main.py`, cooldown 2 of 3 ticks | the same coin alerted twice within the cooldown |
| `changed_verdict` (violation) | one copy, cooldown 2 of 3 ticks | a HOLD after a BUY is not logged when its reason is the one before the BUY |
| `ai_worker` | one worker, three batches (one of two records), limit 1, two days, any failure | all the worker's properties, liveness included |
| `ondemand` | two `/scan_on` threads, five commands, three sessions, one failing fetch | sessions stay reachable unless commands overlap; scans never do; each session scans |
| `ondemand_overlap` (violation) | two overlapping `/scan_on` | a session `/scan_off` cannot find |
| `candle_cache` | two pools of one thread, two symbols, candles of two ticks, timeout 1, two attempts, four moments | what is served is the newest closed candle; the rate; late work is bounded |
| `candle_partial` (violation) | the same | a candle that closes while its rows travel is kept unfinished |
| `decision` | every read and mix of evidence; six swing levels, pairs of ten zones around one entry | the direction, the levels, the nearest target, symmetry and monotony of the gates |
| `services` | the sum of delivery, news, ladder, liquidation, log, reply and replay, one service per behaviour | the seven properties of the services; `DeliveryContract` implemented |
| `readings` | charts of up to eight candles of four shapes from three openings, judged both ways in five markets | nothing repaints, nothing favours a side, indicators stay in their place |

`services` explores seven machines in one run.  They share no variable (the news
engine and the scan know the delivery code by its contract, and the others are
read through their results), so their product would add no behaviour of any of
them: `Services` fixes one service per behaviour and leaves the others at rest.

Why the bounds are enough.  The gate, the snapshot and the guard are per copy and
symmetric in jobs and coins, so two jobs (one owner, one rival) and one coin show
every conflict about a coin; two coins let one be logged while the other is alerted, or is
dropped by an exception.  Two qualities cross the delivery floor in `scan_health`.  Two
reasons let a HOLD repeat itself with and without another in between.
`scan_shared` takes states for equal that differ in the snapshot's reported fields or in
whether an alert arrived or a write was refused (`GateAndRows`): no action reads those.
In `scan_shared` and `scan_health` the cooldown is one tick, so that a stamp and a
scan of the same tick conflict and those of two ticks do not; the violation runs take
a cooldown of two.
A limit of 1 with three batches reaches the full queue with a task running and a
refusal.  Three sessions and five commands let a session be orphaned, a
current one be stopped and a third be started.  Two threads of different pools
meet in the cache and the bucket in every order; four moments hold two closes, a
request that straddles one, and a scan after it that is served from the cache.
A tick refills half a token (`Cost` 2, `Rate` 1), so that a thread can find part of
one and wait.  Both pools have one thread each, so they may be exchanged with their threads.
The chart has ATR 4 and, on each side, a zone that is too close, a wide one, one
behind it with a nearer far edge, one at the entry and one on the wrong side;
the swings give stops that are tight, poor and too wide.  Two zones suffice
because the walk compares pairs.  `WithoutHealth` is a view that
drops four variables no action reads (`last_scan_id`, `last_scan_at`,
`last_outcome`, `error_streak`), used where no property mentions them.
One message and two chats reach every mix of confirmed, failed and late chats: threads
meet only in the loop, which takes their coroutines one at a time.  Four articles about one event (an
official one, two that share little with it but the anchor, a denial), published at
once or spread over the window, on two feeds, with one crash and three moments: a
story can grow, be denied while queued, expire and be forgotten.  Three setups on two
threads ask two providers behind one gateway with two attempts, so that a setup waits
for a thread and one call learns from another about JSON mode; budgets of 0 (no
limit) and 1, one midnight.  Three events of two coins, windows of 1 and 2 seconds, a
second of delay and of skew, four moments.  Two processes, three starts, two rows.
Nine objects, six harmless asides, two objects of another kind, three unclosed
pieces of prose and five tails, every combination cut at every token; the objects have
braces and quotes in strings, the opposite signal nested once and twice, an envelope, and the
horizons of a news analysis before and after the cut.  Six bars of four shapes,
HTF candles of two bars, cooldown 2, horizon 4: a setup inside and after a cooldown,
scored in full and with the history too short.
A chart of eight candles shows two swings on either side, a sweep with its
confirmation, a zone of two touches and a line through two pivots; an opening with an
outside candle brings the tie of the trend.  The five markets take every value of every field of the
other frames and feeds.
Deadlock is not checked: the clock, the commands and the batches are
bounded, so every instance comes to rest.

Fairness.  `ScanPipeline.FairSpec` makes a thread inside `run_scan` go on: every
fetch, send and write in it has a timeout.  Exceptions, triggers, ticks and
restarts are never forced.  `AIOpinionWorker.FairSpec` makes the pool's thread and
a scan inside `submit` go on: requests carry timeouts.  `OnDemand.FairSpec` makes
threads, the event loop, the triggers of a running session and its scans go on;
failing fetches are bounded by `MaxFailures`, since a session whose fetches always
fail never scans.  The services and the readings have safety properties only; no
fairness is assumed for them.

## What disagrees with the documents

- `script_two_copies`: two guards in one process, against `rules.md:28`,
  `scan_coordinator.py:12-14` and the comment at `telegram_bot.py:252`.
- `changed_verdict`: against `duplicate_guard.py:14-15`.
- `ondemand_overlap`: against the message at `telegram_bot.py:261`.  The first
  `/scan_on` of a process is the likely case: its thread imports `main`, which takes long enough
  for a second command to queue behind the same import.
- `candle_partial`: against `scanner.py:327`.  The window is the round trip of a
  request, and scans start on five-minute boundaries, where candles close; the
  torn candle stays in the cache until the next close.
- `prune_cache` has no caller (`scanner.py:205` says the cache cannot grow without
  bound).
- `scanner.py:390` says a slow exchange can never push a scan into the next slot;
  a symbol begun before the deadline keeps all its attempts (`LateWorkBounded`).
- `risk_gate.py:7` lists "excessive spread"; `decide` never passes a spread.
- `alerts.py:247`: a wait that is given up is not cancelled, so a chat can get two
  copies; `SecondCopyOnlyAfterSilence` says when.  The 20 s of `main.py:790` are per chat.
- `news.py:415`: a story that has grown, or whose memory was lost in a crash, alerts
  again; `NewsKeptStraight` states what is kept.  `news.py:315` counts domains, not an
  official one and an outlet.  A verified story whose analysis or send fails is queued
  again only when another article joins it.
- `ai_decision.py:998` does not retry when the attempt was the last; near the deadline
  `_complete` raises with providers it never asked (against `ai_decision.py:961`).
- `liquidation.py:108`: a fresh connection is branded stale by the last message of the
  one before.
- `logger.py:29`: two processes that archive at once lose an archive; `LogKept` holds
  otherwise.  Two that both find no file write a header each; the second stands between the
  rows, which `LogKept` allows.  When the first write of a new file fails, the file stays without a header
  until the next start.
- `ai_decision.py:597` and `:619`: after prose with an unclosed quote or brace, and in a
  cut reply with a closing brace in a string and an object two levels down
  (`Resurfaces`), the insides of strings are read as structure, and a verdict after an envelope wins over
  the one in it.  An envelope of one object next to a signal of its own is read by the
  inner object.  `tests/test_ai_fallback.py:7` says a truncated object is never a
  verdict; one that can be closed after its signal is.
- `scoring.py:288` says indicators can neither trigger nor veto; between the two floors
  they can (`IndicatorsBounded` says by how much).  A score can out-rank another across
  the tiers of the docstring of `setup_quality.py`, since the factor has a floor.
- `market_structure.py:64` puts the high of a candle before its low, and `:139` may cut
  between them, so that an outside candle lowers the lows and not the highs of the trend.
- `backtest.py:80`, `:91`, `:187`: the window starts five minutes after the timestamp,
  a missing RR is defaulted, and two runs agree only from the same first bar.
- `DuplicateGuard.reset` is never called, against `duplicate_guard.py:17` and
  `README.md:157`; the cooldown is 20 minutes (`config.py:265`), not 15.

## Proofs

All theorems are for every value of the constants that the named `ASSUME` of each
module allows; TLC evaluates every one of them in the runs.  What they ask beyond types
is what the code has: a candle is longer than a request may take, a batch names finitely
many symbols and a pool has finitely many threads, `None` is no number and no word of
the model, the factors of the direction gate are in their order and those of the score
at most 1, the liquidation windows have a longest one, a sweep is measured against at
least one candle, a batch has a setup, the ladder a provider.  Three theorems ask for
more, in their statement: `NothingRepainted` and `NoSideFavoured` for a value of
`config.py`, `ReplayCorrect` for a decider with sound levels.

`ScanPipelineProofs`.  `TypesHold` is type correctness.  `SingleScan` proves
`OneScanPerCopy`; by itself it is not inductive, and `GateInv` adds that whoever
owns the slot holds the lock, so that `Acquire` fails and `Release` frees one's
own.  `CooldownCorrect` proves `CooldownHeld` with three more parts: `LoopInv`
(one verdict per coin in the loop, the alert in delivery no longer among them),
`FreshInv` (a verdict that waits or is on its way is not in cooldown for its own
copy, now, whatever was stored since the funnel asked) and `HistoryInv` (every
alert of this life is in the guard, at its time or a later one, or is about to be
stored by the thread that sent it).  A new alert is then compared with the guard
instead of with history: `FreshInv` says the guard's time is a cooldown away.
`GateInv` is what keeps another job from storing in between.
`StatusCorrect` proves `StatusHonest`: the fields of the snapshot are written by the
thread in the slot and cleared by it, and `GateInv` says no other thread of the copy is
there.  `HealthNeverGoesBack` proves `LastScanNeverGoesBack` from `OrderInv`: what has
ended began no later than what runs, and what runs no later than now.
`HoldsCorrect` proves `HoldsWrittenOnce` with `HoldInv`: what the guard remembers of a
coin is the newest HOLD row its copy wrote of it in this life.  A new row (`HoldRow`) is
then compared with that one instead of with the whole log: either the reasons differ,
and the newest row stands between, or the guard found them a window apart.  The rows
of other scans (`OtherRow`) and a restart, which empties both, disturb neither.  A row of
the model carries the copy and the life that wrote it, which the file does not; no
action reads them.
`RowsComeFirst` proves `RowsFirst` with `RowInv`: a log only grows, so a row found once is found again, and an alert on its way
or under cooldown has its row or a refused write.  `GateImplemented` proves the
refinement of `AlertGate`: under the mapping `Claim` is `Enter`, `ReleaseSlot` is
`Leave`, `Send` is an alert and everything but a restart is unseen.  A delivered alert is in the abstract window
before it is in the guard; `WindowOf` says that the one thread about to record it
is the one the mapping reads.  `InductiveInvariant` proves the conjunction, `IInv`.

`AIOpinionWorkerProofs`.  `QueueCorrect` proves `QueueHeld`: `PendingCounts` with
`LimitInv` is inductive given that a task leaves the queue and the counter in two
steps; `BacklogBounded` follows by arithmetic.  `StatusSettles` needs `RestInv`: idle with an empty queue means the
last write to the status was a result.  A refusal writes `UNAVAILABLE`, but only
while something waits, so a result follows: that is the one place where
`PendingCounts` is needed.  `NoticeCorrect` proves `OneNoticeADay` with `NoticeInv`
(the flag of today is up once today's notice went out).  `SnapshotCorrect` proves
`SnapshotHonest`: `PlaceInv` has each batch in one place of one worker, `AuditedOnly`
follows (only a batch that was asked about has rows), `TaskInv` says what the counters
hold at each stage of the task, and `MatchInv` that the rows of the batch agree with the
tally from the moment they are written until the next batch is picked.

`OnDemandProofs`.  `OneScanCorrect` holds for any number of orphaned sessions.
`SessionCorrect` rests on `AloneInv`: a command that met no other finds every
thread at rest, and past its check no session runs.

`CandleCacheProofs`.  `CacheCorrect` proves `ServedIsNewest`.  Two threads that
fill the same entry at different moments may leave the older frame in it; what
saves the reader is the expiry, so `CacheInv` says that a cached frame ends with a
closed candle, and with `Expired` that bounds its age from both sides.
`RequestInv` and `HeldInv` bound how old a reply can be: its request was sent at
most a timeout ago, and a timeout is shorter than a candle.  `RateCorrect` rests on
`SpentInv`: requests since `watch` and tokens in the bucket never exceed the
capacity and the refill up to the last reading of the clock.  `LateWorkCorrect` proves
`LateWorkBounded` from `LateInv`: what was sent late and what the threads of the pool
may still send for the symbols they hold never exceed all their attempts for one symbol
each, because after the deadline no thread takes another symbol.

`DecisionCoreProofs`.  `TradeInv` carries the funnel's direction to the combined
one (`AskedInv`, `LeadInv`) and, with a trade, an evaluation without objections
(`JudgedInv`).  `GeometryCorrect` and `TargetCorrect` follow from lemmas about the
operators: a stop lies beyond its swing, a level beyond the entry, a target is the
level of a usable zone that no worthwhile one precedes.  `DecisionTypes` computes
what the gates return.  `EvidenceCorrect` proves `EvidenceHelps` from the order of
the five factors: `BetterEvidence` says what the gate's predicates make of evidence
that speaks better for the direction, `BetterFactor` that each part of the factor
then grows.  `MirrorCorrect` proves `Mirrored`: `TurnedConfirm` and lemmas on levels, stops
and targets say that turning words, prices and zones upside down turns what each
operator returns, for any evidence and any zones; `MarketInv` adds that what was
judged was judged for a direction.

`TelegramDeliveryProofs`.  `DeliveryCorrect` proves `DeliveryKept`, the refinement of
`DeliveryContract` included: every step of a sender or of the loop is a step of the
contract or leaves its three variables alone (`ContractStep`).  What makes a
returned TRUE true is `ReachInv` (a success that was counted has reached a chat)
with `CountInv` (in either loop over the chats, what was counted adds up to the
chats that are behind).  What bounds the copies is `CopyInv`: the copies a chat has
and the one the loop may still deliver make at most one per loop over the chats, and
the second loop is only entered when the first confirmed nothing.

`ServicesProofs`.  `LogCorrect` proves `LogKept`: `FilesInv` counts the archives against
the starts, so that a free name is left; `BakInv` keeps the name free that a process has
chosen, until two archive at once; `PlacesInv` gives each row one place; `HeaderInv`
says that while no process has crossed another at most one is at work, and where the
header stands at each of its steps.  `SummaryCorrect` proves `SummaryHonest`: the cache of a
coin traces back, one to one, to what came in, and only what is too old by the clock
and the skew is missing (`CacheInv`), so that a count over the cache is a count over the
messages; `FreshInv` says where the last message was when the stream was called
fresh.  `NewsCorrect` proves `NewsKeptStraight` with
`StoriesInv` (no story is kept twice, in memory or in the file) and
`AlertsInMemory` (but for a crash every alert is remembered, or is the one about to be).
`LadderTypes` bounds the counters of the ladder, `LadderCorrect` proves `LadderSound`:
`WalkInv` says what a call knows of the providers above and below the one it is at,
`PoolInv` bounds the requests in JSON mode under way by the threads.  That a set of
numbers has a least one (`LeastOf`, from the well-founded order of the naturals) takes
the place of induction: a free archive name, a window cut from a cache.

The replay is a fold over the bars.  `RunIs` takes it bar by bar: the report after `n`
bars is what the `n`-th makes of the report before it, where a smallest position at which
this fails is the induction.  `ReplayCorrect` proves `ReplayFair` from what a bar reads:
`FramesAgree` says that two histories that agree up to a bar give it the same frames
(a candle of the higher timeframe that is closed by then is made of bars that are),
`SettledStays` that a score found in the horizon is found again, so that two runs are
`Alike` bar by bar up to where the shorter ends and the longer only adds (`ReportsAgree`).
The scores lie within the levels (`ScoreWithin`) for a decider that puts its stop and
target on either side of the entry at every bar (`DecidesSoundly`), which is what
`risk_gate.py:40-88` sees to and `DecisionCoreProofs` proves of it (`GeometryCorrect`).
`ReplayTypes` bounds the report by the bars.
`ServicesTypes` proves `ServicesTypeOK`: each service behaves in the sum as it does alone
(`EachAlone`), so that the theorem of each is one of the run.  The news engine needs
`NewsQueue` for it (what waits to be published is an event that exists, and something
waits while a story is recorded), and that a sequence that is flattened is made of its
parts (`FlattenTypes`); the liquidation cache and the log need the invariants above.

`ReplyReadAsMeant` proves `ReadAsMeant` for any objects, prose and cut, of the replies
that none of the exceptions of `NothingElseRead` applies to.  `Straight` is that
condition, stated of the tokens:
nothing is found in the prose and the scan of it ends where it began (else a quote or a
brace that it leaves open swallows the object); the object loads, holds something and no
fence, and means what its reader makes of it alone; it has no signal beside an envelope
(the reader would leave the signal for the envelope once that is complete); a verdict
follows only what looks like a verdict (else it is passed over for it); and where the object
is cut, the pass that ignores quotes leads to no other object in it (`Resurfaces`).  A
complete object needs no such condition on its strings.

The argument: the fences of a text are those of its parts (`StripConcat`), and a scan that
is back at its start goes on as from the start (`ScanGoesOn`), so that the object is found
behind the prose as it would be alone.  `LoadsPairsUp` shows from `Loads` that its braces
and quotes pair up, and that the repairer sees each bracket where the parser does: the two
agree token by token on what is open and on being in a string (`Agree`, `AgreeNext`).
Nothing shorter loads (`NotBeforeItsEnd`), so the object ends where it should
(`WholeFound`), and of a cut one only the repair is left (`OneStart`, `CutFound`).
What the repair keeps ends with a member that was closed, and its top level is the
beginning of the object's (`RepairedIs`, `MendedTop`); an envelope that is complete in it is
complete in the object (`SameInner`).  Hence neither reader makes more of it than of the
object (`VerdictMended`, `ValidateMended`).

Of the 10,041 pairs of a reply and a cut in the run 3,920 are straight, and of its 495 whole
replies 252.  The others have an unclosed quote or brace before the object, another object
there, or one of the named exceptions, but for 879 cut replies: there ignoring quotes takes
up a brace that reading then finds nothing in (629 of them follow prose with a brace in
quotes).  These TLC checks.

`ReadingProofs`.  `IndicatorsCorrect` proves `IndicatorsBounded` for any chart and any
votes: six votes of one each (`VotesBounds`) bound the net, so the points they add or take
stay within the two configured limits (`IndicatorBounds`), and one more vote never takes
any.  `NothingRepainted` proves
`NoRepaint` from what each reading looks at: a pivot at its neighbours (`PivotsAre`),
a sweep at a window that ended before it (`SweptStays`), a confirmation at the closes
after it (`ConfirmsIs`); one more candle leaves these as they were.  It is stated for
`LIQ_CONFIRM_CLOSE_ATR = 0`, the value of `config.py:318` and of the run: a buffer in
multiples of the ATR would be measured anew at each candle, and a confirmed sweep could
be unconfirmed by a later one.  The level of a sweep has to be a number for
this, and so do the sums behind the ATR; that the sum of a finite set of numbers exists
is `SumsExist`, by a smallest set without one.

`NoSideFavoured` proves `EvenHanded`, for bounds of an exhausted RSI as far from 50 on
either side (`config.py:365-366`; with others a long would be exhausted sooner than a
short).  `Mirror` says of two charts that each candle of one is the other's turned about
some price; it holds of windows and of what is cut from them, and every detector has its
lemma under it.  Pivots change ends, so the last swings of one kind are the last of the
other as long as no candle that is both is cut in two (`TrendTied`).  Sums over a set of
candles are turned term by term, so the ATR, the volumes and the votes stay.  The
clusters of swing prices are turned in order: what starts a cluster from above ends one
from below, so a zone becomes the zone of the same members on the other side of the
price; its strength is a count and stays, and where no two are equally strong the best
ones are each other's mates.  A falling line over the highs becomes a rising one under
the lows with the same touches.  The score then is the same sum of the same parts for the
other direction (`ScoreTurned`).

Only model-checked: liveness (`SlotFreed`, `EveryBatchRuns`, `SessionScans`), because
fairness and ENABLED are outside the prover; and `ReadAsMeant` where a reply is not
straight, which for any object and any prose does not hold (the exceptions were each
found by a text).

## Not modelled

- `indicators.py`: series of a floating-point library; their values enter
  `SetupQuality` and the funnel as free choices.
- The scores of `scoring.py:54-277` (`score_1h`, `score_ltf`, confluence and its gates) and
  `decision.post_llm_validate`: no caller on the scan path.
- `fallback.py`: a pure function that only the legacy on-demand path can reach.
- The session levels of `support_resistance.py:62-72`: no decision reads them.
- The batched prompts of `ai_decision.py` and their readers (off in the configuration), prompt
  building, the growth of `max_tokens` and the correction message, which change only what
  is asked; the legality of the words inside a news analysis.
- The universe filter, the cached market map, funding and open interest of the scanner.
- The chat assistant and the commands that read state and format text, and the lock file
  that keeps a second listener out.
- The scoring of logged rows by the backtest (the same `evaluate_signal` from another
  start) and its averages; the market context of the news, which only enters a prompt.
- `config.py`, which the models take as CONSTANTS, and the diagnostic scripts.
- Two hazards have no property: the torn read of the AI status
  (`scan_coordinator.py:175`), which can only show on one `/status`, and the queued batches
  a restart drops (`scan_coordinator.py:115`), which nothing promises to keep.

`PROJECT.json` lists every part with its status.

## Plan

1. Done: coordinator, guard, pipeline, AI worker, on-demand sessions, candle
   cache, decision core, with proofs of their main safety properties.
2. Done: delivery and its contract, news engine, provider ladder, liquidation stream,
   signals log, reply reading, replay; the technical analysis and the score as
   functions over charts.
3. Done: the refinement of `AlertGate`, the remaining safety properties of the scan, the
   worker, the cache and the decision core, the properties of the services and of the
   replay, `IndicatorsBounded`, `NoRepaint` and `EvenHanded`; the types of the sum of the
   services, and `ReadAsMeant` for straight replies.
4. Next models: the listener's lock file, the torn read of the AI status, the
   universe filter with its cached market map; `DecisionCore` fed by `ChartReading`
   instead of free choices.

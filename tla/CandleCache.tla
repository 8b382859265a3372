---------------------------- MODULE CandleCache ----------------------------
(***************************************************************************)
(* scanner.py: the worker threads of fetch_timeframe_batch, the cache of   *)
(* candle frames that expires when the next candle closes, and the token   *)
(* bucket all of them share.  The module is loaded once, so the batches of *)
(* both copies of main meet here.                                          *)
(*                                                                         *)
(* Time is counted in ticks.  One timeframe is modelled (keys of different *)
(* timeframes never meet in the cache): its candles open at the multiples  *)
(* of Period.  A frame is known by the open time of its last candle and by *)
(* the moment the exchange took the rows: a row taken before its candle    *)
(* closed holds unfinished prices.                                         *)
(***************************************************************************)
EXTENDS Integers, FiniteSets

CONSTANTS
    Workers,            \* threads of the pools
    Batches,            \* pools: one per scan that may be running
    BatchOf,            \* the pool a worker belongs to
    Symbols,
    Period,             \* _TIMEFRAME_DELTA of the timeframe
    FETCH_TIMEOUT,      \* config.FETCH_TIMEOUT_MS
    FETCH_RETRY_MAX,
    Cost,               \* a request's token, in the fractions tokens have here
    Rate,               \* fractions per tick (config.FETCH_RATE_LIMIT_PER_SEC)
    Capacity,           \* in fractions, too
    ScanBudget,         \* from the start of a batch to its deadline
    MaxClock,           \* bound: ticks explored
    None

ASSUME CandleAssumption ==
    /\ BatchOf \in [Workers -> Batches] /\ IsFiniteSet(Workers)
    /\ Period \in Nat \ {0} /\ FETCH_TIMEOUT \in Nat /\ FETCH_TIMEOUT < Period
    /\ FETCH_RETRY_MAX \in Nat \ {0}
    /\ {Cost, Rate, Capacity} \subseteq Nat \ {0}
    /\ ScanBudget \in Nat /\ MaxClock \in Nat
    /\ None \notin Symbols /\ None \notin Int

VARIABLES
    clock,
    cache,        \* _OHLCVCache._entries: symbol -> frame or None
    tokens,       \* TokenBucket._tokens
    filled,       \* TokenBucket._last
    todo,         \* batch -> symbols submitted and not yet taken
    deadline,     \* batch -> the scan's deadline
    pc,           \* worker -> where it is in _work and fetch_ohlcv
    task,         \* worker -> its symbol
    attempt,      \* worker -> attempt
    sent,         \* worker -> when its request left
    rows,         \* worker -> when the exchange took the rows, or None
    frame,        \* worker -> the frame it read or was served, or None
    readAt,       \* worker -> the clock reading `frame` was chosen by
    watch,        \* history: a moment from which requests are counted
    count,        \* history: what the requests sent since then have cost
    late          \* history: requests a batch sent after its deadline

vars == <<clock, cache, tokens, filled, todo, deadline, pc, task, attempt,
          sent, rows, frame, readAt, watch, count, late>>

Times == 0..MaxClock
Frames == [last : Int, taken : Times]
Places == {"idle", "bucket", "request", "reply", "parsed", "served"}

(* The open time of the candle that forms at time t, and of the newest one  *)
(* that has closed by then.                                                 *)
Forming(t) == (t \div Period) * Period
NewestClosed(t) == Forming(t) - Period

----------------------------------------------------------------------------
(* The cache and the bucket.                                                *)

Expiry(f) == f.last + 2 * Period

(* Mutated form: a fixed lifetime, counted from when the rows were taken.   *)
ExpiredByAge(f, now) == now >= f.taken + 2 * Period

Expired(f, now) == now >= Expiry(f)

(* Mutated form: the refill forgets the capacity.                           *)
RefilledUncapped(now) == tokens + (now - filled) * Rate

Refilled(now) ==
    LET sum == tokens + (now - filled) * Rate
    IN  IF sum < Capacity THEN sum ELSE Capacity

(* The rows an exchange gave out at `taken`, without the candles that had   *)
(* not closed by the local clock `now`.                                     *)
ClosedFrame(taken, now) ==
    [last  |-> IF Forming(taken) + Period <= now THEN Forming(taken)
                                                 ELSE NewestClosed(taken),
     taken |-> taken]

----------------------------------------------------------------------------
Init ==
    /\ clock = 0
    /\ cache = [s \in Symbols |-> None]
    /\ tokens = Capacity /\ filled = 0
    /\ todo = [b \in Batches |-> {}]
    /\ deadline = [b \in Batches |-> 0]
    /\ pc = [w \in Workers |-> "idle"]
    /\ task = [w \in Workers |-> None]
    /\ attempt = [w \in Workers |-> 1]
    /\ sent = [w \in Workers |-> 0]
    /\ rows = [w \in Workers |-> None]
    /\ frame = [w \in Workers |-> None]
    /\ readAt = [w \in Workers |-> 0]
    /\ watch \in Times /\ count = 0
    /\ late = [b \in Batches |-> 0]

BatchDone(b) ==
    todo[b] = {} /\ \A w \in Workers : BatchOf[w] = b => pc[w] = "idle"

(* A scan calls fetch_timeframe_batch once the call before has returned.    *)
StartBatch(b) ==
    /\ BatchDone(b)
    /\ \E S \in SUBSET Symbols : S # {} /\ todo' = [todo EXCEPT ![b] = S]
    /\ deadline' = [deadline EXCEPT ![b] = clock + ScanBudget]
    /\ late' = [late EXCEPT ![b] = 0]
    /\ UNCHANGED <<clock, cache, tokens, filled, pc, task, attempt, sent, rows,
                   frame, readAt, watch, count>>

(* Mutated form: the deadline is not looked at.                             *)
MayStartAlways(b) == TRUE

MayStart(b) == ~ (clock > deadline[b])

(* A thread takes the next symbol of its batch before the deadline.         *)
TakeNext(w, s) ==
    /\ pc[w] = "idle" /\ s \in todo[BatchOf[w]] /\ MayStart(BatchOf[w])
    /\ todo' = [todo EXCEPT ![BatchOf[w]] = @ \ {s}]
    /\ task' = [task EXCEPT ![w] = s]

Abandon(w) ==
    /\ pc[w] = "idle" /\ ~ MayStart(BatchOf[w])
    /\ \E s \in todo[BatchOf[w]] : todo' = [todo EXCEPT ![BatchOf[w]] = @ \ {s}]
    /\ UNCHANGED <<clock, cache, tokens, filled, deadline, pc, task, attempt,
                   sent, rows, frame, readAt, watch, count, late>>

Valid(s) == cache[s] # None /\ ~ Expired(cache[s], clock)

Hit(w) ==
    /\ \E s \in Symbols :
          /\ TakeNext(w, s) /\ Valid(s)
          /\ frame' = [frame EXCEPT ![w] = cache[s]]
    /\ readAt' = [readAt EXCEPT ![w] = clock]
    /\ pc' = [pc EXCEPT ![w] = "served"]
    /\ UNCHANGED <<clock, cache, tokens, filled, deadline, attempt, sent, rows,
                   watch, count, late>>

(* A miss drops the entry that has expired.                                 *)
Miss(w) ==
    /\ \E s \in Symbols :
          /\ TakeNext(w, s) /\ ~ Valid(s)
          /\ cache' = [cache EXCEPT ![s] = None]
    /\ pc' = [pc EXCEPT ![w] = "bucket"]
    /\ UNCHANGED <<clock, tokens, filled, deadline, attempt, sent, rows, frame,
                   readAt, watch, count, late>>

(* The request leaves when a token could be taken.                          *)
Acquire(w) ==
    /\ pc[w] = "bucket" /\ Refilled(clock) >= Cost
    /\ tokens' = Refilled(clock) - Cost
    /\ filled' = clock
    /\ sent' = [sent EXCEPT ![w] = clock]
    /\ pc' = [pc EXCEPT ![w] = "request"]
    /\ count' = IF clock >= watch THEN count + Cost ELSE count
    /\ late' = [late EXCEPT ![BatchOf[w]] =
                   IF clock > deadline[BatchOf[w]] THEN @ + 1 ELSE @]
    /\ UNCHANGED <<clock, cache, todo, deadline, task, attempt, rows, frame,
                   readAt, watch>>

(* A thread that finds no token stores the refill and sleeps.               *)
Wait(w) ==
    /\ pc[w] = "bucket" /\ Refilled(clock) < Cost /\ filled # clock
    /\ tokens' = Refilled(clock)
    /\ filled' = clock
    /\ UNCHANGED <<clock, cache, todo, deadline, pc, task, attempt, sent, rows,
                   frame, readAt, watch, count, late>>

(* The exchange answers with the candles as they are at that moment.        *)
Answer(w) ==
    /\ pc[w] = "request"
    /\ rows' = [rows EXCEPT ![w] = clock]
    /\ pc' = [pc EXCEPT ![w] = "reply"]
    /\ UNCHANGED <<clock, cache, tokens, filled, todo, deadline, task, attempt,
                   sent, frame, readAt, watch, count, late>>

(* The answer has arrived; the clock is read and the open candle dropped.   *)
Read(w) ==
    /\ pc[w] = "reply"
    /\ frame' = [frame EXCEPT ![w] = ClosedFrame(rows[w], clock)]
    /\ readAt' = [readAt EXCEPT ![w] = clock]
    /\ rows' = [rows EXCEPT ![w] = None]
    /\ pc' = [pc EXCEPT ![w] = "parsed"]
    /\ sent' = [sent EXCEPT ![w] = 0]
    /\ UNCHANGED <<clock, cache, tokens, filled, todo, deadline, task, attempt,
                   watch, count, late>>

(* _work has returned; the batch has its frame, or nothing for the symbol.  *)
Return(w) ==
    /\ pc' = [pc EXCEPT ![w] = "idle"]
    /\ task' = [task EXCEPT ![w] = None]
    /\ attempt' = [attempt EXCEPT ![w] = 1]
    /\ sent' = [sent EXCEPT ![w] = 0]

(* No rows, too few candles, or an exception that is not the exchange's:    *)
(* the symbol is left out of the batch without another attempt.             *)
GiveUp(w) ==
    /\ pc[w] = "reply"
    /\ rows' = [rows EXCEPT ![w] = None]
    /\ Return(w)
    /\ UNCHANGED <<clock, cache, tokens, filled, todo, deadline, frame, readAt,
                   watch, count, late>>

(* Mutated form: the last attempt is tried again.                           *)
RetriesLeftOneMore(w) == attempt[w] <= FETCH_RETRY_MAX

RetriesLeft(w) == attempt[w] < FETCH_RETRY_MAX

(* A timeout or an error of the exchange.  The sleep before the next        *)
(* attempt is any delay before its token.                                   *)
Fail(w) ==
    /\ pc[w] \in {"request", "reply"}
    /\ rows' = [rows EXCEPT ![w] = None]
    /\ IF RetriesLeft(w)
       THEN /\ attempt' = [attempt EXCEPT ![w] = @ + 1]
            /\ pc' = [pc EXCEPT ![w] = "bucket"]
            /\ sent' = [sent EXCEPT ![w] = 0]
            /\ UNCHANGED task
       ELSE Return(w)
    /\ UNCHANGED <<clock, cache, tokens, filled, todo, deadline, frame, readAt,
                   watch, count, late>>

(* The frame is cached, over whatever is there, and returned.               *)
Put(w) ==
    /\ pc[w] = "parsed"
    /\ cache' = [cache EXCEPT ![task[w]] = frame[w]]
    /\ pc' = [pc EXCEPT ![w] = "served"]
    /\ UNCHANGED <<clock, tokens, filled, todo, deadline, task, attempt, sent,
                   rows, frame, readAt, watch, count, late>>

Collect(w) ==
    /\ pc[w] = "served"
    /\ Return(w)
    /\ frame' = [frame EXCEPT ![w] = None]
    /\ readAt' = [readAt EXCEPT ![w] = 0]
    /\ UNCHANGED <<clock, cache, tokens, filled, todo, deadline, rows, watch,
                   count, late>>

(* Time passes; no request outlives its timeout.                            *)
Tick ==
    /\ clock < MaxClock
    /\ \A w \in Workers :
          pc[w] \in {"request", "reply"} => clock < sent[w] + FETCH_TIMEOUT
    /\ clock' = clock + 1
    /\ UNCHANGED <<cache, tokens, filled, todo, deadline, pc, task, attempt,
                   sent, rows, frame, readAt, watch, count, late>>

Fetch(w) ==
    \/ Abandon(w) \/ Hit(w) \/ Miss(w) \/ Acquire(w) \/ Wait(w) \/ Answer(w)
    \/ Read(w) \/ GiveUp(w) \/ Fail(w) \/ Put(w) \/ Collect(w)

Next ==
    \/ Tick
    \/ \E b \in Batches : StartBatch(b)
    \/ \E w \in Workers : Fetch(w)

Spec == Init /\ [][Next]_vars

----------------------------------------------------------------------------
TypeOK ==
    /\ clock \in Times
    /\ cache \in [Symbols -> Frames \cup {None}]
    /\ tokens \in 0..Capacity /\ filled \in 0..clock
    /\ todo \in [Batches -> SUBSET Symbols]
    /\ deadline \in [Batches -> 0..(MaxClock + ScanBudget)]
    /\ pc \in [Workers -> Places]
    /\ task \in [Workers -> Symbols \cup {None}]
    /\ attempt \in [Workers -> 1..FETCH_RETRY_MAX]
    /\ sent \in [Workers -> Times]
    /\ rows \in [Workers -> Times \cup {None}]
    /\ frame \in [Workers -> Frames \cup {None}]
    /\ readAt \in [Workers -> Times]
    /\ watch \in Times /\ count \in Nat
    /\ late \in [Batches -> Nat]

(* A frame handed to a scan, fresh or from the cache, ends with the newest  *)
(* candle that had closed when its thread read the clock: "nothing stale is *)
(* ever served" (scanner.py:167), although threads of two scans fill the    *)
(* same cache at different moments and in any order.                        *)
ServedIsNewest ==
    \A w \in Workers : frame[w] # None => frame[w].last = NewestClosed(readAt[w])

(* However many threads ask, and from any moment on, no more requests leave *)
(* than the bucket holds and refills in that time (scanner.py:63-66).       *)
RateHeld ==
    watch <= clock => count <= Capacity + Rate * (clock - watch)

(* Past its deadline a batch only ends what it began: each of its threads   *)
(* sends the attempts of one symbol at most (scanner.py:390-391).           *)
LateWorkBounded ==
    \A b \in Batches :
        late[b] <= FETCH_RETRY_MAX * Cardinality({w \in Workers : BatchOf[w] = b})

(* A frame holds closed candles only: "the still-forming candle is dropped" *)
(* (scanner.py:327).                                                        *)
OnlyClosedCandles ==
    \A w \in Workers :
        frame[w] # None => frame[w].taken >= frame[w].last + Period
=============================================================================

------------------------- MODULE CandleCacheProofs -------------------------
(***************************************************************************)
(* Proofs about CandleCache, for any workers, batches, symbols, candle     *)
(* length, timeout shorter than a candle, rate and capacity: types, the    *)
(* age of what the cache serves, the rate of the requests, and the work    *)
(* that is left when the deadline of a batch has passed.                   *)
(***************************************************************************)
EXTENDS CandleCache, FiniteSetTheorems, TLAPS

(* A frame ends with a candle of the grid.                                  *)
OnGrid(f) == \E k \in Int : f.last = k * Period

(* What the cache holds had closed when it was read.                        *)
CacheInv ==
    \A s \in Symbols :
        cache[s] # None => OnGrid(cache[s]) /\ cache[s].last + Period <= clock

(* A request is as young as its timeout, and its rows are no older.         *)
RequestInv ==
    \A w \in Workers :
        /\ pc[w] \in {"request", "reply"} =>
              sent[w] <= clock /\ clock <= sent[w] + FETCH_TIMEOUT
        /\ pc[w] = "reply" =>
              rows[w] \in Times /\ sent[w] <= rows[w] /\ rows[w] <= clock

(* A thread holds a frame between the reading of the clock and its return.  *)
HeldInv ==
    \A w \in Workers :
        /\ frame[w] # None => pc[w] \in {"parsed", "served"}
        /\ pc[w] \in {"parsed", "served"} =>
              /\ frame[w] \in Frames
              /\ frame[w].last = NewestClosed(readAt[w])
              /\ readAt[w] <= clock

FreshInv == TypeOK /\ CacheInv /\ RequestInv /\ HeldInv

(* What was spent since the watch began, with what the bucket holds.        *)
SpentInv ==
    /\ watch <= filled => count + tokens <= Capacity + Rate * (filled - watch)
    /\ watch > filled => count = 0

----------------------------------------------------------------------------
(* Arithmetic of the candle grid.                                           *)

LEMMA ProductNat ==
    ASSUME NEW a \in Nat, NEW b \in Nat PROVE a * b \in Nat
OBVIOUS

LEMMA ProductOrder ==
    ASSUME NEW a \in Int, NEW b \in Int, NEW p \in Nat, a <= b
    PROVE  a * p <= b * p
<1>1. (b - a) * p \in Nat
  BY ProductNat
<1>2. (b - a) * p = b * p - a * p
  OBVIOUS
<1>3. a * p \in Int /\ b * p \in Int
  OBVIOUS
<1>4. QED
  BY <1>1, <1>2, <1>3

LEMMA DivBounds ==
    ASSUME NEW t \in Int, NEW p \in Nat \ {0}
    PROVE  /\ t \div p \in Int
           /\ (t \div p) * p \in Int
           /\ (t \div p) * p <= t
           /\ t < (t \div p) * p + p
<1>1. t \div p \in Int
  OBVIOUS
<1>2. (t \div p) * p \in Int
  BY <1>1
<1>3. t = (t \div p) * p + (t % p) /\ t % p \in 0..(p - 1)
  OBVIOUS
<1>4. QED
  BY <1>1, <1>2, <1>3

(* The grid point between t - p and t is the one division finds.            *)
LEMMA GridPoint ==
    ASSUME NEW t \in Int, NEW p \in Nat \ {0}, NEW k \in Int,
           k * p <= t, t < k * p + p
    PROVE  (t \div p) * p = k * p
<1> DEFINE q == t \div p
<1>1. q \in Int /\ q * p \in Int /\ q * p <= t /\ t < q * p + p
  BY DivBounds
<1>2. k * p \in Int
  OBVIOUS
<1> HIDE DEF q
<1>3. CASE q <= k - 1
  <2>1. q * p <= (k - 1) * p
    BY <1>1, <1>3, ProductOrder
  <2>2. (k - 1) * p = k * p - p
    OBVIOUS
  <2>3. QED
    BY <1>1, <1>2, <2>1, <2>2
<1>4. CASE k <= q - 1
  <2>1. k * p <= (q - 1) * p
    BY <1>1, <1>4, ProductOrder
  <2>2. (q - 1) * p = q * p - p
    BY <1>1
  <2>3. QED
    BY <1>1, <1>2, <2>1, <2>2
<1>5. CASE q = k
  BY <1>5 DEF q
<1>6. QED
  BY <1>1, <1>3, <1>4, <1>5

LEMMA FormingBounds ==
    ASSUME NEW t \in Int
    PROVE  /\ Forming(t) \in Int
           /\ Forming(t) <= t
           /\ t < Forming(t) + Period
           /\ \E k \in Int : Forming(t) = k * Period
           /\ \E k \in Int : Forming(t) - Period = k * Period
<1> DEFINE q == t \div Period
<1>1. /\ Period \in Nat \ {0} /\ q \in Int /\ q * Period \in Int
      /\ q * Period <= t /\ t < q * Period + Period
  BY DivBounds, CandleAssumption
<1>2. Forming(t) = q * Period
  BY DEF Forming
<1> HIDE DEF q
<1>3. q * Period - Period = (q - 1) * Period /\ q - 1 \in Int
  BY <1>1
<1>4. \E k \in Int : Forming(t) = k * Period
  BY <1>1, <1>2
<1>5. \E k \in Int : Forming(t) - Period = k * Period
  <2> DEFINE k == q - 1
  <2>1. k \in Int /\ Forming(t) - Period = k * Period
    BY <1>2, <1>3
  <2> HIDE DEF k
  <2>2. QED
    BY <2>1
<1>6. QED
  BY <1>1, <1>2, <1>4, <1>5

(* A closed grid candle that is not a whole period past its close is the    *)
(* newest closed one.                                                       *)
LEMMA NewestByBounds ==
    ASSUME NEW t \in Int, NEW l \in Int, \E k \in Int : l = k * Period,
           l + Period <= t, t < l + 2 * Period
    PROVE  l = NewestClosed(t)
<1>1. PICK k \in Int : l = k * Period
  OBVIOUS
<1>2. Period \in Nat \ {0}
  BY CandleAssumption
<1>3. (k + 1) * Period = k * Period + Period
  BY <1>2
<1>4. Forming(t) = (k + 1) * Period
  <2> DEFINE g == (k + 1) * Period
  <2>1. k + 1 \in Int /\ k * Period \in Int
    BY <1>2
  <2>2. g <= t /\ t < g + Period
    BY <1>1, <1>2, <1>3, <2>1
  <2>3. (t \div Period) * Period = g
    BY <1>2, <2>1, <2>2, GridPoint
  <2>4. QED
    BY <2>3 DEF Forming
<1>5. QED
  BY <1>1, <1>2, <1>3, <1>4 DEF NewestClosed

(* The rows of a request that took less than a candle, read at `now`.       *)
LEMMA ReadRight ==
    ASSUME NEW taken \in Times, NEW now \in Times,
           taken <= now, now <= taken + FETCH_TIMEOUT
    PROVE  LET f == ClosedFrame(taken, now) IN
           /\ f \in Frames
           /\ OnGrid(f)
           /\ f.last + Period <= now
           /\ f.last = NewestClosed(now)
<1> DEFINE f == ClosedFrame(taken, now)
<1>1. /\ Period \in Nat \ {0} /\ FETCH_TIMEOUT \in Nat /\ FETCH_TIMEOUT < Period
      /\ taken \in Int /\ now \in Int
  BY CandleAssumption DEF Times
<1>2. /\ Forming(taken) \in Int
      /\ Forming(taken) <= taken
      /\ taken < Forming(taken) + Period
      /\ \E k \in Int : Forming(taken) = k * Period
      /\ \E k \in Int : Forming(taken) - Period = k * Period
  BY <1>1, FormingBounds
<1>3. /\ f.last \in Int
      /\ f.taken = taken
      /\ f \in Frames
  BY <1>1, <1>2 DEF ClosedFrame, NewestClosed, Frames
<1>4. /\ \E k \in Int : f.last = k * Period
      /\ f.last + Period <= now
      /\ now < f.last + 2 * Period
  <2>1. CASE Forming(taken) + Period <= now
    <3>1. f.last = Forming(taken)
      BY <2>1 DEF ClosedFrame
    <3>2. QED
      BY <1>1, <1>2, <2>1, <3>1
  <2>2. CASE ~ (Forming(taken) + Period <= now)
    <3>1. f.last = Forming(taken) - Period
      BY <2>2 DEF ClosedFrame, NewestClosed
    <3>2. \E k \in Int : f.last = k * Period
      BY <1>2, <3>1
    <3> HIDE DEF f
    <3>3. f.last + Period <= now /\ now < f.last + 2 * Period
      BY <1>1, <1>2, <2>2, <3>1
    <3>4. QED
      BY <3>2, <3>3
  <2>3. QED
    BY <2>1, <2>2
<1>5. f.last = NewestClosed(now)
  BY <1>1, <1>3, <1>4, NewestByBounds
<1>6. QED
  BY <1>3, <1>4, <1>5 DEF OnGrid
----------------------------------------------------------------------------
(* Types.                                                                   *)

LEMMA RefilledBounds ==
    ASSUME TypeOK
    PROVE  /\ Refilled(clock) \in 0..Capacity
           /\ Rate * (clock - filled) \in Nat
           /\ Refilled(clock) <= tokens + Rate * (clock - filled)
<1>1. /\ tokens \in Nat /\ tokens <= Capacity /\ Capacity \in Nat /\ Rate \in Nat
      /\ clock - filled \in Nat
  BY CandleAssumption DEF TypeOK, Times
<1>2. /\ Rate * (clock - filled) \in Nat
      /\ (clock - filled) * Rate = Rate * (clock - filled)
  BY <1>1
<1>3. QED
  BY <1>1, <1>2 DEF Refilled

LEMMA ClosedFrameTyped ==
    ASSUME NEW taken \in Times, NEW now \in Times
    PROVE  ClosedFrame(taken, now) \in Frames
<1>1. taken \in Int /\ Period \in Int
  BY CandleAssumption DEF Times
<1>2. Forming(taken) \in Int
  BY <1>1, FormingBounds
<1>3. QED
  BY <1>1, <1>2 DEF ClosedFrame, NewestClosed, Frames

LEMMA TypesInit == Init => TypeOK
BY CandleAssumption DEF Init, TypeOK, Times, Places

LEMMA ReplyHasRows ==
    ASSUME TypeOK, RequestInv, NEW w \in Workers, pc[w] = "reply"
    PROVE  rows[w] \in Times
BY DEF RequestInv

LEMMA TypesStep == TypeOK /\ RequestInv /\ [Next]_vars => TypeOK'
<1> SUFFICES ASSUME TypeOK, RequestInv, [Next]_vars PROVE TypeOK'
  OBVIOUS
<1> USE CandleAssumption
<1>1. CASE Tick
  BY <1>1 DEF Tick, TypeOK, Times
<1>2. ASSUME NEW b \in Batches, StartBatch(b) PROVE TypeOK'
  BY <1>2 DEF StartBatch, TypeOK, Times
<1>3. ASSUME NEW w \in Workers, Abandon(w) PROVE TypeOK'
  BY <1>3 DEF Abandon, TypeOK
<1>4. ASSUME NEW w \in Workers, Hit(w) PROVE TypeOK'
  BY <1>4 DEF Hit, TakeNext, TypeOK, Places
<1>5. ASSUME NEW w \in Workers, Miss(w) PROVE TypeOK'
  BY <1>5 DEF Miss, TakeNext, TypeOK, Places
<1>6. ASSUME NEW w \in Workers, Acquire(w) PROVE TypeOK'
  <2>1. tokens' \in 0..Capacity /\ filled' \in 0..clock'
    BY <1>6, RefilledBounds DEF Acquire, TypeOK, Times
  <2>2. QED
    BY <1>6, <2>1 DEF Acquire, TypeOK, Places, Times
<1>7. ASSUME NEW w \in Workers, Wait(w) PROVE TypeOK'
  <2>1. tokens' \in 0..Capacity /\ filled' \in 0..clock'
    BY <1>7, RefilledBounds DEF Wait, TypeOK, Times
  <2>2. QED
    BY <1>7, <2>1 DEF Wait, TypeOK
<1>8. ASSUME NEW w \in Workers, Answer(w) PROVE TypeOK'
  BY <1>8 DEF Answer, TypeOK, Places
<1>9. ASSUME NEW w \in Workers, Read(w) PROVE TypeOK'
  <2>1. ClosedFrame(rows[w], clock) \in Frames
    BY <1>9, ReplyHasRows, ClosedFrameTyped DEF Read, TypeOK
  <2>2. 0 \in Times
    BY DEF Times
  <2>3. QED
    BY <1>9, <2>1, <2>2 DEF Read, TypeOK, Places
<1>10. ASSUME NEW w \in Workers, GiveUp(w) PROVE TypeOK'
  BY <1>10 DEF GiveUp, Return, TypeOK, Places, Times
<1>11. ASSUME NEW w \in Workers, Fail(w) PROVE TypeOK'
  BY <1>11 DEF Fail, Return, RetriesLeft, TypeOK, Places, Times
<1>12. ASSUME NEW w \in Workers, Put(w) PROVE TypeOK'
  BY <1>12 DEF Put, TypeOK, Places
<1>13. ASSUME NEW w \in Workers, Collect(w) PROVE TypeOK'
  BY <1>13 DEF Collect, Return, TypeOK, Places, Times
<1>14. CASE UNCHANGED vars
  BY <1>14 DEF vars, TypeOK
<1>15. QED
  BY <1>1, <1>2, <1>3, <1>4, <1>5, <1>6, <1>7, <1>8, <1>9, <1>10, <1>11,
     <1>12, <1>13, <1>14 DEF Next, Fetch
----------------------------------------------------------------------------
(* What the cache serves.                                                   *)

LEMMA FreshInit == Init => FreshInv
BY TypesInit DEF Init, FreshInv, CacheInv, RequestInv, HeldInv

LEMMA RequestStep == TypeOK /\ RequestInv /\ [Next]_vars => RequestInv'
<1> SUFFICES ASSUME TypeOK, RequestInv, [Next]_vars PROVE RequestInv'
  OBVIOUS
<1> USE CandleAssumption DEF RequestInv, TypeOK
<1>1. CASE Tick
  BY <1>1 DEF Tick, Times
<1>2. ASSUME NEW b \in Batches, StartBatch(b) PROVE RequestInv'
  BY <1>2 DEF StartBatch
<1>3. ASSUME NEW w \in Workers, Abandon(w) PROVE RequestInv'
  BY <1>3 DEF Abandon
<1>4. ASSUME NEW w \in Workers, Hit(w) PROVE RequestInv'
  BY <1>4 DEF Hit, TakeNext
<1>5. ASSUME NEW w \in Workers, Miss(w) PROVE RequestInv'
  BY <1>5 DEF Miss, TakeNext
<1>6. ASSUME NEW w \in Workers, Acquire(w) PROVE RequestInv'
  BY <1>6 DEF Acquire, Times
<1>7. ASSUME NEW w \in Workers, Wait(w) PROVE RequestInv'
  BY <1>7 DEF Wait
<1>8. ASSUME NEW w \in Workers, Answer(w) PROVE RequestInv'
  BY <1>8 DEF Answer, Times
<1>9. ASSUME NEW w \in Workers, Read(w) PROVE RequestInv'
  BY <1>9 DEF Read
<1>10. ASSUME NEW w \in Workers, GiveUp(w) PROVE RequestInv'
  BY <1>10 DEF GiveUp, Return
<1>11. ASSUME NEW w \in Workers, Fail(w) PROVE RequestInv'
  BY <1>11 DEF Fail, Return
<1>12. ASSUME NEW w \in Workers, Put(w) PROVE RequestInv'
  BY <1>12 DEF Put
<1>13. ASSUME NEW w \in Workers, Collect(w) PROVE RequestInv'
  BY <1>13 DEF Collect, Return
<1>14. CASE UNCHANGED vars
  BY <1>14 DEF vars
<1>15. QED
  BY <1>1, <1>2, <1>3, <1>4, <1>5, <1>6, <1>7, <1>8, <1>9, <1>10, <1>11,
     <1>12, <1>13, <1>14 DEF Next, Fetch

(* A frame in a thread's hands is on the grid and had closed.               *)
LEMMA HeldOnGrid ==
    ASSUME TypeOK, HeldInv, NEW w \in Workers, pc[w] \in {"parsed", "served"}
    PROVE  OnGrid(frame[w]) /\ frame[w].last + Period <= clock
<1>1. readAt[w] \in Int /\ clock \in Int /\ readAt[w] <= clock /\ Period \in Int
  BY CandleAssumption DEF TypeOK, Times, HeldInv
<1>2. frame[w].last = Forming(readAt[w]) - Period
  BY DEF HeldInv, NewestClosed
<1>3. /\ Forming(readAt[w]) \in Int /\ Forming(readAt[w]) <= readAt[w]
      /\ \E k \in Int : Forming(readAt[w]) - Period = k * Period
  BY <1>1, FormingBounds
<1>4. OnGrid(frame[w])
  BY <1>2, <1>3 DEF OnGrid
<1>5. QED
  BY <1>1, <1>2, <1>3, <1>4

(* An entry that has not expired is the newest closed frame.                *)
LEMMA ValidIsNewest ==
    ASSUME TypeOK, CacheInv, NEW s \in Symbols, Valid(s)
    PROVE  cache[s] # None /\ cache[s].last = NewestClosed(clock)
<1>1. /\ cache[s] # None /\ cache[s].last \in Int
      /\ clock \in Int /\ Period \in Int
      /\ clock < cache[s].last + 2 * Period
      /\ cache[s].last + Period <= clock
  BY CandleAssumption DEF TypeOK, CacheInv, Valid, Expired, Expiry, Frames, Times
<1>2. \E k \in Int : cache[s].last = k * Period
  BY <1>1 DEF CacheInv, OnGrid
<1>3. QED
  BY <1>1, <1>2, NewestByBounds

LEMMA CacheStep == FreshInv /\ [Next]_vars => CacheInv'
<1> SUFFICES ASSUME FreshInv, [Next]_vars PROVE CacheInv'
  OBVIOUS
<1> USE CandleAssumption DEF FreshInv
<1>1. CASE UNCHANGED <<cache, clock>>
  BY <1>1 DEF CacheInv, OnGrid
<1>2. CASE Tick
  <2>1. \A s \in Symbols : cache[s] # None => cache[s].last \in Int
    BY DEF TypeOK, Frames
  <2>2. clock \in Int /\ Period \in Int
    BY DEF TypeOK, Times
  <2>3. cache' = cache /\ clock' = clock + 1
    BY <1>2 DEF Tick
  <2> SUFFICES ASSUME NEW s \in Symbols, cache'[s] # None
               PROVE  (OnGrid(cache[s]) /\ cache[s].last + Period <= clock)'
    BY DEF CacheInv
  <2>4. OnGrid(cache[s]) /\ cache[s].last + Period <= clock
    BY <2>3 DEF CacheInv
  <2>5. cache[s].last + Period <= clock + 1
    BY <2>1, <2>2, <2>3, <2>4
  <2>6. OnGrid(cache[s])'
    BY <2>3, <2>4 DEF OnGrid
  <2>7. QED
    BY <2>3, <2>5, <2>6
<1>3. ASSUME NEW w \in Workers, Miss(w) PROVE CacheInv'
  <2>1. PICK s \in Symbols : cache' = [cache EXCEPT ![s] = None] /\ clock' = clock
    BY <1>3 DEF Miss
  <2>2. \A r \in Symbols : cache'[r] = None \/ cache'[r] = cache[r]
    BY <2>1 DEF TypeOK
  <2> SUFFICES ASSUME NEW r \in Symbols, cache'[r] # None
               PROVE  (OnGrid(cache[r]) /\ cache[r].last + Period <= clock)'
    BY DEF CacheInv
  <2>3. QED
    BY <2>1, <2>2 DEF CacheInv, OnGrid
<1>4. ASSUME NEW w \in Workers, Put(w) PROVE CacheInv'
  <2>1. pc[w] = "parsed"
    BY <1>4 DEF Put
  <2>2. OnGrid(frame[w]) /\ frame[w].last + Period <= clock
    BY <2>1, HeldOnGrid
  <2>3. QED
    BY <1>4, <2>2 DEF Put, CacheInv, OnGrid, TypeOK
<1>5. QED
  BY <1>1, <1>2, <1>3, <1>4
  DEF Next, Fetch, vars, StartBatch, Abandon, Hit, Acquire, Wait, Answer, Read,
      GiveUp, Fail, Return, Collect

LEMMA HeldStep == FreshInv /\ [Next]_vars => HeldInv'
<1> SUFFICES ASSUME FreshInv, [Next]_vars PROVE HeldInv'
  OBVIOUS
<1> USE CandleAssumption DEF FreshInv
<1>1. CASE UNCHANGED <<pc, frame, readAt>> /\ (clock' = clock \/ clock' = clock + 1)
  BY <1>1 DEF HeldInv, TypeOK, Times, NewestClosed, Forming
<1>2. ASSUME NEW w \in Workers, Hit(w) PROVE HeldInv'
  <2>1. PICK s \in Symbols : Valid(s) /\ frame' = [frame EXCEPT ![w] = cache[s]]
    BY <1>2 DEF Hit
  <2>2. cache[s].last = NewestClosed(clock)
    BY <2>1, ValidIsNewest
  <2>3. /\ readAt' = [readAt EXCEPT ![w] = clock]
        /\ pc' = [pc EXCEPT ![w] = "served"]
        /\ clock' = clock
    BY <1>2 DEF Hit
  <2>4. cache[s] \in Frames
    BY <2>1 DEF Valid, TypeOK
  <2>5. QED
    BY <2>1, <2>2, <2>3, <2>4 DEF HeldInv, TypeOK, Times, NewestClosed, Forming
<1>3. ASSUME NEW w \in Workers, Read(w) PROVE HeldInv'
  <2> DEFINE f == ClosedFrame(rows[w], clock)
  <2>1. /\ rows[w] \in Times /\ clock \in Times /\ rows[w] <= clock
        /\ clock <= rows[w] + FETCH_TIMEOUT
    BY <1>3 DEF Read, RequestInv, TypeOK, Times
  <2>2. f \in Frames /\ f.last = NewestClosed(clock)
    BY <2>1, ReadRight
  <2>3. /\ frame' = [frame EXCEPT ![w] = f]
        /\ readAt' = [readAt EXCEPT ![w] = clock]
        /\ pc' = [pc EXCEPT ![w] = "parsed"]
        /\ clock' = clock
    BY <1>3 DEF Read
  <2> HIDE DEF f
  <2>4. QED
    BY <2>2, <2>3 DEF HeldInv, TypeOK, Times, NewestClosed, Forming
<1>4. ASSUME NEW w \in Workers, Collect(w) PROVE HeldInv'
  BY <1>4 DEF Collect, Return, HeldInv, TypeOK, NewestClosed,
              Forming
<1>5. ASSUME NEW w \in Workers, Put(w) PROVE HeldInv'
  BY <1>5 DEF Put, HeldInv, TypeOK, NewestClosed, Forming
<1>6. ASSUME NEW w \in Workers,
             Miss(w) \/ Acquire(w) \/ Answer(w) \/ GiveUp(w) \/ Fail(w)
      PROVE  HeldInv'
  <2>1. /\ UNCHANGED <<clock, frame, readAt>>
        /\ pc[w] \notin {"parsed", "served"}
        /\ \E p \in {"idle", "bucket", "request", "reply"} :
               pc' = [pc EXCEPT ![w] = p]
    BY <1>6 DEF Miss, TakeNext, Acquire, Answer, GiveUp, Fail, Return
  <2>2. QED
    BY <2>1 DEF HeldInv, TypeOK, NewestClosed, Forming
<1>7. QED
  BY <1>1, <1>2, <1>3, <1>4, <1>5, <1>6
  DEF Next, Fetch, vars, Tick, StartBatch, Abandon, Wait

LEMMA FreshStep == FreshInv /\ [Next]_vars => FreshInv'
BY TypesStep, RequestStep, CacheStep, HeldStep DEF FreshInv

(* The fetching threads keep every variable in its type.                    *)
THEOREM CandleTypes == Spec => []TypeOK
<1>1. FreshInv => TypeOK
  BY DEF FreshInv
<1>2. QED
  BY FreshInit, FreshStep, <1>1, PTL DEF Spec

(* Whatever the number of threads and of scans that share the cache, and    *)
(* whatever the order of their steps, a frame handed out ends with the      *)
(* newest candle closed when the clock was read.                            *)
THEOREM CacheCorrect == Spec => []ServedIsNewest
<1>1. FreshInv => ServedIsNewest
  BY DEF FreshInv, HeldInv, ServedIsNewest
<1>2. QED
  BY FreshInit, FreshStep, <1>1, PTL DEF Spec

----------------------------------------------------------------------------
(* The rate of the requests.                                                *)

LEMMA SpentInit == Init => SpentInv
BY CandleAssumption DEF Init, SpentInv, Times

(* Refilling adds what the time since the last refill is worth.             *)
LEMMA RefillKeeps ==
    ASSUME TypeOK, SpentInv, watch <= clock
    PROVE  count + Refilled(clock) <= Capacity + Rate * (clock - watch)
<1>1. /\ clock \in Nat /\ filled \in Nat /\ watch \in Nat /\ filled <= clock
      /\ Rate \in Nat /\ Capacity \in Nat /\ tokens \in Nat /\ count \in Nat
  BY CandleAssumption DEF TypeOK, Times
<1>2. /\ Refilled(clock) \in Nat
      /\ Refilled(clock) <= Capacity
      /\ Refilled(clock) <= tokens + Rate * (clock - filled)
  BY RefilledBounds, <1>1
<1>3. CASE watch <= filled
  <2>1. Rate * (clock - filled) + Rate * (filled - watch) = Rate * (clock - watch)
    BY <1>1
  <2>2. /\ Rate * (clock - filled) \in Int /\ Rate * (filled - watch) \in Int
        /\ Rate * (clock - watch) \in Int
    BY <1>1
  <2>3. count + tokens <= Capacity + Rate * (filled - watch)
    BY <1>3 DEF SpentInv
  <2>4. QED
    BY <1>1, <1>2, <2>1, <2>2, <2>3
<1>4. CASE watch > filled
  <2>1. count = 0
    BY <1>4 DEF SpentInv
  <2>2. clock - watch \in Nat
    BY <1>1
  <2>3. Rate * (clock - watch) \in Nat
    BY <1>1, <2>2, ProductNat
  <2>4. QED
    BY <1>1, <1>2, <2>1, <2>3
<1>5. QED
  BY <1>1, <1>3, <1>4

LEMMA SpentStep == TypeOK /\ SpentInv /\ [Next]_vars => SpentInv'
<1> SUFFICES ASSUME TypeOK, SpentInv, [Next]_vars PROVE SpentInv'
  OBVIOUS
<1>1. /\ clock \in Nat /\ watch \in Nat /\ count \in Nat /\ Rate \in Nat
      /\ Capacity \in Nat /\ Refilled(clock) \in Nat /\ Cost \in Nat
      /\ Rate * (clock - watch) \in Int
  BY CandleAssumption, RefilledBounds DEF TypeOK, Times
<1>2. CASE UNCHANGED <<tokens, filled, count, watch>>
  BY <1>2 DEF SpentInv
<1>3. ASSUME NEW w \in Workers, Acquire(w) PROVE SpentInv'
  <2>1. /\ tokens' = Refilled(clock) - Cost /\ filled' = clock /\ watch' = watch
        /\ count' = IF clock >= watch THEN count + Cost ELSE count
    BY <1>3 DEF Acquire
  <2>2. CASE watch <= clock
    BY <1>1, <2>1, <2>2, RefillKeeps DEF SpentInv
  <2>3. CASE watch > clock
    <3>1. watch > filled
      BY <2>3, <1>1 DEF TypeOK
    <3>2. QED
      BY <1>1, <2>1, <2>3, <3>1 DEF SpentInv
  <2>4. QED
    BY <1>1, <2>2, <2>3
<1>4. ASSUME NEW w \in Workers, Wait(w) PROVE SpentInv'
  <2>1. /\ tokens' = Refilled(clock) /\ filled' = clock
        /\ UNCHANGED <<watch, count>>
    BY <1>4 DEF Wait
  <2>2. CASE watch <= clock
    BY <1>1, <2>1, <2>2, RefillKeeps DEF SpentInv
  <2>3. CASE watch > clock
    <3>1. watch > filled
      BY <2>3, <1>1 DEF TypeOK
    <3>2. QED
      BY <1>1, <2>1, <2>3, <3>1 DEF SpentInv
  <2>4. QED
    BY <1>1, <2>2, <2>3
<1>5. QED
  BY <1>2, <1>3, <1>4
  DEF Next, Fetch, vars, Tick, StartBatch, Abandon, Hit, Miss, Answer, Read,
      GiveUp, Fail, Put, Collect

LEMMA SpentIsEnough == TypeOK /\ SpentInv => RateHeld
<1> SUFFICES ASSUME TypeOK, SpentInv, watch <= clock
             PROVE  count <= Capacity + Rate * (clock - watch)
  BY DEF RateHeld
<1>1. count + Refilled(clock) <= Capacity + Rate * (clock - watch)
  BY RefillKeeps
<1>2. /\ Refilled(clock) \in Nat /\ count \in Nat
      /\ Capacity + Rate * (clock - watch) \in Int
  BY CandleAssumption, RefilledBounds DEF TypeOK, Times
<1>3. QED
  BY <1>1, <1>2

(* From any moment on, at most a full bucket and what it regains leaves.    *)
THEOREM RateCorrect == Spec => []RateHeld
<1>1. Init => FreshInv /\ SpentInv
  BY FreshInit, SpentInit
<1>2. FreshInv /\ SpentInv /\ [Next]_vars => (FreshInv /\ SpentInv)'
  BY FreshStep, SpentStep DEF FreshInv
<1>3. FreshInv /\ SpentInv => RateHeld
  BY SpentIsEnough DEF FreshInv
<1>4. QED
  BY <1>1, <1>2, <1>3, PTL DEF Spec

----------------------------------------------------------------------------
(* The work after the deadline.                                             *)

WorkersOf(b) == {w \in Workers : BatchOf[w] = b}

(* The attempts a worker may still send for the symbol it has.              *)
Owes(w, i) ==
    \/ pc[w] = "bucket" /\ i >= attempt[w]
    \/ pc[w] \in {"request", "reply"} /\ i > attempt[w]

Unsent(b) == {x \in WorkersOf(b) \X (1..FETCH_RETRY_MAX) : Owes(x[1], x[2])}

(* Before the deadline nothing is late.  What is late afterwards was one of *)
(* the attempts the workers had for the symbols they had begun.             *)
LateInv ==
    \A b \in Batches :
        /\ clock <= deadline[b] => late[b] = 0
        /\ late[b] + Cardinality(Unsent(b))
             <= FETCH_RETRY_MAX * Cardinality(WorkersOf(b))

LEMMA AttemptsCounted ==
    ASSUME NEW b \in Batches,
           NEW S \in SUBSET (WorkersOf(b) \X (1..FETCH_RETRY_MAX))
    PROVE  /\ IsFiniteSet(S) /\ Cardinality(S) \in Nat
           /\ Cardinality(S) <= FETCH_RETRY_MAX * Cardinality(WorkersOf(b))
           /\ FETCH_RETRY_MAX * Cardinality(WorkersOf(b)) \in Nat
<1> DEFINE W == WorkersOf(b)
           A == 1..FETCH_RETRY_MAX
<1>1. IsFiniteSet(W)
  BY CandleAssumption, FS_Subset DEF WorkersOf
<1>2. /\ IsFiniteSet(A) /\ Cardinality(A) = FETCH_RETRY_MAX
      /\ FETCH_RETRY_MAX \in Nat
  <2>1. FETCH_RETRY_MAX \in Nat /\ FETCH_RETRY_MAX >= 1
    BY CandleAssumption
  <2>2. QED
    BY <2>1, FS_Interval
<1>3. /\ IsFiniteSet(W \X A)
      /\ Cardinality(W \X A) = Cardinality(W) * Cardinality(A)
  BY <1>1, <1>2, FS_Product
<1>4. /\ IsFiniteSet(S) /\ Cardinality(S) <= Cardinality(W \X A)
  BY <1>3, FS_Subset
<1>5. Cardinality(S) \in Nat /\ Cardinality(W) \in Nat
  BY <1>1, <1>4, FS_CardinalityType
<1>6. Cardinality(W) * Cardinality(A) = FETCH_RETRY_MAX * Cardinality(W)
  BY <1>2, <1>5
<1>7. FETCH_RETRY_MAX * Cardinality(W) \in Nat
  BY <1>2, <1>5, ProductNat
<1>8. QED
  BY <1>3, <1>4, <1>5, <1>6, <1>7

(* A batch that is not late has done nothing wrong yet ...                  *)
LEMMA NotLateYet ==
    ASSUME NEW b \in Batches, late'[b] = 0
    PROVE  /\ clock' <= deadline'[b] => late'[b] = 0
           /\ late'[b] + Cardinality(Unsent(b))'
                <= FETCH_RETRY_MAX * Cardinality(WorkersOf(b))
<1>1. Unsent(b)' \in SUBSET (WorkersOf(b) \X (1..FETCH_RETRY_MAX))
  BY DEF Unsent, WorkersOf
<1>2. QED
  BY <1>1, AttemptsCounted

(* ... and one that is late owes nothing new.                               *)
LEMMA NothingNewOwed ==
    ASSUME TypeOK, LateInv, NEW b \in Batches,
           late'[b] = late[b], deadline'[b] = deadline[b],
           clock' >= clock, clock' \in Nat,
           \A w \in WorkersOf(b), i \in 1..FETCH_RETRY_MAX :
              Owes(w, i)' => Owes(w, i)
    PROVE  /\ clock' <= deadline'[b] => late'[b] = 0
           /\ late'[b] + Cardinality(Unsent(b))'
                <= FETCH_RETRY_MAX * Cardinality(WorkersOf(b))
<1>1. Unsent(b) \in SUBSET (WorkersOf(b) \X (1..FETCH_RETRY_MAX))
  BY DEF Unsent
<1>2. Unsent(b)' \in SUBSET Unsent(b)
  BY DEF Unsent, WorkersOf
<1>3. /\ IsFiniteSet(Unsent(b)) /\ Cardinality(Unsent(b)) \in Nat
      /\ FETCH_RETRY_MAX * Cardinality(WorkersOf(b)) \in Nat
  BY <1>1, AttemptsCounted
<1>4. /\ Cardinality(Unsent(b)') <= Cardinality(Unsent(b))
      /\ Cardinality(Unsent(b)') \in Nat
  BY <1>2, <1>3, FS_Subset, FS_CardinalityType
<1>5. late[b] \in Nat /\ clock \in Nat /\ deadline[b] \in Nat
  BY DEF TypeOK, Times
<1>6. /\ clock <= deadline[b] => late[b] = 0
      /\ late[b] + Cardinality(Unsent(b))
           <= FETCH_RETRY_MAX * Cardinality(WorkersOf(b))
  BY DEF LateInv
<1>7. QED
  BY <1>3, <1>4, <1>5, <1>6

LEMMA LateInit == Init => LateInv
<1> SUFFICES ASSUME Init, NEW b \in Batches
             PROVE  /\ clock <= deadline[b] => late[b] = 0
                    /\ late[b] + Cardinality(Unsent(b))
                         <= FETCH_RETRY_MAX * Cardinality(WorkersOf(b))
  BY DEF LateInv
<1>1. late[b] = 0
  BY DEF Init
<1>2. Unsent(b) \in SUBSET (WorkersOf(b) \X (1..FETCH_RETRY_MAX))
  BY DEF Unsent
<1>3. QED
  BY <1>1, <1>2, AttemptsCounted

(* The attempt that leaves is no longer owed.                               *)
LEMMA LateAcquire ==
    ASSUME TypeOK, LateInv, NEW w \in Workers, Acquire(w)
    PROVE  LateInv'
<1>1. /\ pc[w] = "bucket" /\ pc' = [pc EXCEPT ![w] = "request"]
      /\ UNCHANGED <<clock, deadline, attempt>>
      /\ late' = [late EXCEPT ![BatchOf[w]] =
                     IF clock > deadline[BatchOf[w]] THEN late[BatchOf[w]] + 1
                     ELSE late[BatchOf[w]]]
  BY DEF Acquire
<1> PICK c \in Batches : c = BatchOf[w]
  BY CandleAssumption
<1>2. \A v \in Workers : pc'[v] = IF v = w THEN "request" ELSE pc[v]
  BY <1>1 DEF TypeOK
<1>3. clock \in Nat /\ attempt[w] \in 1..FETCH_RETRY_MAX
  BY DEF TypeOK, Times
<1>4. \A v \in Workers, i \in 1..FETCH_RETRY_MAX :
         Owes(v, i)' <=> Owes(v, i) /\ ~(v = w /\ i = attempt[w])
  BY <1>1, <1>2, <1>3, CandleAssumption DEF Owes, TypeOK
<1>5. ASSUME NEW b \in Batches
      PROVE  /\ clock' <= deadline'[b] => late'[b] = 0
             /\ late'[b] + Cardinality(Unsent(b))'
                  <= FETCH_RETRY_MAX * Cardinality(WorkersOf(b))
  <2>1. CASE b = c /\ clock > deadline[b]
    <3>1. late'[b] = late[b] + 1 /\ late[b] \in Nat /\ deadline[b] \in Nat
      BY <1>1, <2>1 DEF TypeOK
    <3>2. Unsent(b) \in SUBSET (WorkersOf(b) \X (1..FETCH_RETRY_MAX))
      BY DEF Unsent
    <3>3. IsFiniteSet(Unsent(b)) /\ Cardinality(Unsent(b)) \in Nat
      BY <3>2, AttemptsCounted
    <3>4. <<w, attempt[w]>> \in Unsent(b)
      BY <1>1, <1>3, <2>1 DEF Unsent, WorkersOf, Owes
    <3>5. Unsent(b)' = Unsent(b) \ {<<w, attempt[w]>>}
      <4>1. \A x \in WorkersOf(b) \X (1..FETCH_RETRY_MAX) :
               /\ x[1] \in Workers /\ x[2] \in 1..FETCH_RETRY_MAX
               /\ x = <<w, attempt[w]>> <=> (x[1] = w /\ x[2] = attempt[w])
        BY DEF WorkersOf
      <4>2. \A x \in WorkersOf(b) \X (1..FETCH_RETRY_MAX) :
               Owes(x[1], x[2])' <=> Owes(x[1], x[2]) /\ x # <<w, attempt[w]>>
        BY <1>4, <4>1
      <4>3. QED
        BY <4>2 DEF Unsent, WorkersOf
    <3>6. Cardinality(Unsent(b)') = Cardinality(Unsent(b)) - 1
      BY <3>3, <3>4, <3>5, FS_RemoveElement
    <3>7. late[b] + Cardinality(Unsent(b))
            <= FETCH_RETRY_MAX * Cardinality(WorkersOf(b))
      BY DEF LateInv
    <3>8. ~(clock' <= deadline'[b])
      BY <1>1, <1>3, <2>1, <3>1
    <3>9. FETCH_RETRY_MAX * Cardinality(WorkersOf(b)) \in Nat
      BY <3>2, AttemptsCounted
    <3>10. QED
      BY <3>1, <3>3, <3>6, <3>7, <3>8, <3>9
  <2>2. CASE ~(b = c /\ clock > deadline[b])
    <3>1. late'[b] = late[b]
      BY <1>1, <2>2 DEF TypeOK
    <3>2. \A v \in WorkersOf(b), i \in 1..FETCH_RETRY_MAX :
             Owes(v, i)' => Owes(v, i)
      BY <1>4 DEF WorkersOf
    <3>3. clock' >= clock /\ clock' \in Nat /\ deadline'[b] = deadline[b]
      BY <1>1, <1>3
    <3>4. QED
      BY <3>1, <3>2, <3>3, NothingNewOwed
  <2>3. QED
    BY <2>1, <2>2
<1>6. QED
  BY <1>5 DEF LateInv, WorkersOf

(* A worker takes a symbol only while its batch is in time.                 *)
LEMMA LateTake ==
    ASSUME TypeOK, LateInv, NEW w \in Workers, Hit(w) \/ Miss(w)
    PROVE  LateInv'
<1>1. /\ \A v \in Workers : v # w => pc'[v] = pc[v]
      /\ UNCHANGED <<clock, deadline, attempt, late>>
  BY DEF Hit, Miss, TypeOK
<1>2. clock <= deadline[BatchOf[w]] /\ BatchOf[w] \in Batches
  <2>1. MayStart(BatchOf[w])
    BY DEF Hit, Miss, TakeNext
  <2>2. BatchOf[w] \in Batches
    BY CandleAssumption
  <2>3. clock \in Nat /\ deadline[BatchOf[w]] \in Nat
    BY <2>2 DEF TypeOK, Times
  <2>4. QED
    BY <2>1, <2>2, <2>3 DEF MayStart
<1>3. ASSUME NEW b \in Batches
      PROVE  /\ clock' <= deadline'[b] => late'[b] = 0
             /\ late'[b] + Cardinality(Unsent(b))'
                  <= FETCH_RETRY_MAX * Cardinality(WorkersOf(b))
  <2>1. CASE b = BatchOf[w]
    BY <1>1, <1>2, <2>1, NotLateYet DEF LateInv
  <2>2. CASE b # BatchOf[w]
    <3>1. \A v \in WorkersOf(b), i \in 1..FETCH_RETRY_MAX :
             Owes(v, i)' => Owes(v, i)
      BY <1>1, <2>2 DEF WorkersOf, Owes
    <3>2. clock' >= clock /\ clock' \in Nat /\ deadline'[b] = deadline[b]
          /\ late'[b] = late[b]
      BY <1>1 DEF TypeOK, Times
    <3>3. QED
      BY <3>1, <3>2, NothingNewOwed
  <2>3. QED
    BY <2>1, <2>2
<1>4. QED
  BY <1>3 DEF LateInv, WorkersOf

LEMMA LateStart ==
    ASSUME TypeOK, LateInv, NEW c \in Batches, StartBatch(c)
    PROVE  LateInv'
<1>1. /\ \A b \in Batches :
            b # c => deadline'[b] = deadline[b] /\ late'[b] = late[b]
      /\ late'[c] = 0
      /\ UNCHANGED <<clock, pc, attempt>>
  BY DEF StartBatch, TypeOK
<1>2. ASSUME NEW b \in Batches
      PROVE  /\ clock' <= deadline'[b] => late'[b] = 0
             /\ late'[b] + Cardinality(Unsent(b))'
                  <= FETCH_RETRY_MAX * Cardinality(WorkersOf(b))
  <2>1. CASE b = c
    BY <1>1, <2>1, NotLateYet
  <2>2. CASE b # c
    <3>1. \A v \in WorkersOf(b), i \in 1..FETCH_RETRY_MAX :
             Owes(v, i)' => Owes(v, i)
      BY <1>1 DEF Owes
    <3>2. clock' >= clock /\ clock' \in Nat /\ deadline'[b] = deadline[b]
          /\ late'[b] = late[b]
      BY <1>1, <2>2 DEF TypeOK, Times
    <3>3. QED
      BY <3>1, <3>2, NothingNewOwed
  <2>3. QED
    BY <2>1, <2>2
<1>3. QED
  BY <1>2 DEF LateInv, WorkersOf

(* Every other step sends nothing, and a failed attempt is one owed no more. *)
LEMMA LateRest ==
    ASSUME TypeOK, LateInv,
           UNCHANGED <<late, deadline>>, clock' >= clock, clock' \in Nat,
           \A w \in Workers, i \in 1..FETCH_RETRY_MAX : Owes(w, i)' => Owes(w, i)
    PROVE  LateInv'
<1>1. ASSUME NEW b \in Batches
      PROVE  /\ clock' <= deadline'[b] => late'[b] = 0
             /\ late'[b] + Cardinality(Unsent(b))'
                  <= FETCH_RETRY_MAX * Cardinality(WorkersOf(b))
  <2>1. \A w \in WorkersOf(b), i \in 1..FETCH_RETRY_MAX : Owes(w, i)' => Owes(w, i)
    BY DEF WorkersOf
  <2>2. late'[b] = late[b] /\ deadline'[b] = deadline[b]
    OBVIOUS
  <2>3. QED
    BY <2>1, <2>2, NothingNewOwed
<1>2. QED
  BY <1>1 DEF LateInv, WorkersOf

LEMMA LateStep == TypeOK /\ LateInv /\ [Next]_vars => LateInv'
<1> SUFFICES ASSUME TypeOK, LateInv, [Next]_vars PROVE LateInv'
  OBVIOUS
<1>1. clock \in Nat /\ FETCH_RETRY_MAX \in Nat /\ clock + 1 > clock
  BY CandleAssumption DEF TypeOK, Times
<1>2. ASSUME UNCHANGED <<pc, attempt, late, deadline>>,
             clock' = clock \/ clock' = clock + 1
      PROVE  LateInv'
  BY <1>1, <1>2, LateRest DEF Owes
<1>3. CASE Tick \/ UNCHANGED vars
  BY <1>2, <1>3 DEF Tick, vars
<1>4. ASSUME NEW w \in Workers, Abandon(w) \/ Wait(w) PROVE LateInv'
  BY <1>2, <1>4 DEF Abandon, Wait
<1>5. ASSUME NEW w \in Workers, NEW place \in Places,
             pc' = [pc EXCEPT ![w] = place],
             \/ place \notin {"bucket", "request", "reply"}
             \/ place = "reply" /\ pc[w] = "request",
             \A v \in Workers : v # w => attempt'[v] = attempt[v],
             place = "reply" => attempt'[w] = attempt[w],
             UNCHANGED <<clock, late, deadline>>
      PROVE  LateInv'
  <2>1. \A v \in Workers : pc'[v] = IF v = w THEN place ELSE pc[v]
    BY <1>5 DEF TypeOK
  <2>2. \A v \in Workers, i \in 1..FETCH_RETRY_MAX : Owes(v, i)' => Owes(v, i)
    BY <1>5, <2>1 DEF Owes
  <2>3. QED
    BY <1>1, <1>5, <2>2, LateRest
<1>6. ASSUME NEW w \in Workers, Answer(w) PROVE LateInv'
  BY <1>5, <1>6 DEF Answer, Places
<1>7. ASSUME NEW w \in Workers, Read(w) PROVE LateInv'
  BY <1>5, <1>7 DEF Read, Places
<1>8. ASSUME NEW w \in Workers, Put(w) PROVE LateInv'
  BY <1>5, <1>8 DEF Put, Places
<1>9. ASSUME NEW w \in Workers, Return(w), UNCHANGED <<clock, late, deadline>>
      PROVE LateInv'
  <2>1. \A v \in Workers : v # w => attempt'[v] = attempt[v]
    BY <1>9 DEF Return, TypeOK
  <2>2. pc' = [pc EXCEPT ![w] = "idle"]
    BY <1>9 DEF Return
  <2>3. QED
    BY <1>5, <1>9, <2>1, <2>2 DEF Places
<1>10. ASSUME NEW w \in Workers, GiveUp(w) \/ Collect(w) PROVE LateInv'
  BY <1>9, <1>10 DEF GiveUp, Collect
<1>11. ASSUME NEW w \in Workers, Fail(w) PROVE LateInv'
  <2>1. CASE ~RetriesLeft(w)
    BY <1>9, <1>11, <2>1 DEF Fail
  <2>2. CASE RetriesLeft(w)
    <3>1. /\ pc[w] \in {"request", "reply"}
          /\ \A v \in Workers :
                /\ pc'[v] = IF v = w THEN "bucket" ELSE pc[v]
                /\ attempt'[v] = IF v = w THEN attempt[w] + 1 ELSE attempt[v]
          /\ UNCHANGED <<clock, late, deadline>>
      BY <1>11, <2>2 DEF Fail, TypeOK
    <3>2. attempt[w] \in Int
      BY DEF TypeOK
    <3>3. \A v \in Workers, i \in 1..FETCH_RETRY_MAX : Owes(v, i)' => Owes(v, i)
      BY <1>1, <3>1, <3>2 DEF Owes
    <3>4. QED
      BY <1>1, <3>1, <3>3, LateRest
  <2>3. QED
    BY <2>1, <2>2
<1>12. QED
  BY <1>3, <1>4, <1>6, <1>7, <1>8, <1>10, <1>11, LateAcquire, LateTake, LateStart
  DEF Next, Fetch

(* However slow the exchange is, a batch that has passed its deadline sends *)
(* no more than the attempts of the symbols its workers had begun           *)
(* (scanner.py:390-391).                                                    *)
THEOREM LateWorkCorrect == Spec => []LateWorkBounded
<1>1. TypeOK /\ LateInv => LateWorkBounded
  <2> SUFFICES ASSUME TypeOK, LateInv, NEW b \in Batches
               PROVE  late[b] <= FETCH_RETRY_MAX * Cardinality(WorkersOf(b))
    BY DEF LateWorkBounded, WorkersOf
  <2>1. Unsent(b) \in SUBSET (WorkersOf(b) \X (1..FETCH_RETRY_MAX))
    BY DEF Unsent
  <2>2. /\ Cardinality(Unsent(b)) \in Nat /\ late[b] \in Nat
        /\ FETCH_RETRY_MAX * Cardinality(WorkersOf(b)) \in Nat
    BY <2>1, AttemptsCounted DEF TypeOK
  <2>3. late[b] + Cardinality(Unsent(b))
          <= FETCH_RETRY_MAX * Cardinality(WorkersOf(b))
    BY DEF LateInv
  <2>4. QED
    BY <2>2, <2>3
<1>2. QED
  BY <1>1, CandleTypes, LateInit, LateStep, PTL DEF Spec
=============================================================================

-------------------------- MODULE LiquidationStream --------------------------
(***************************************************************************)
(* liquidation.LiquidationCache and its listener (liquidation.py): a       *)
(* websocket thread feeds force orders into a rolling cache that the scans *)
(* and the news thread read.  The exchange stamps the events, so they      *)
(* arrive late, out of order, or by a clock that runs ahead of ours.  The  *)
(* side of an order, its price and its size only label what is counted and *)
(* are left out, like the texts of the warnings.                           *)
(***************************************************************************)
EXTENDS Integers, Sequences, FiniteSets, SequencesExt, FiniteSetsExt

CONSTANTS
    Coins,
    None,                \* no time, no caller, no answer yet
    Windows,             \* the seconds of LIQUIDATION_WINDOWS
    LIQ_STALE_SECONDS,
    Delay,               \* how late an event may arrive
    Skew,                \* how far the exchange's clock may be ahead
    LiqMaxTime,          \* bound on the clock
    LiqMaxEvents         \* bound on the events

ASSUME LiquidationAssumption ==
    /\ Windows \subseteq Nat \ {0}
    /\ \E longest \in Windows : \A w \in Windows : longest >= w
    /\ None \notin Nat
    /\ {LIQ_STALE_SECONDS, Delay, Skew, LiqMaxTime, LiqMaxEvents} \subseteq Nat

VARIABLES
    liqClock,
    connected,     \* _connected
    connectedAt,   \* _connected_at, or None
    lastMessage,   \* _last_message_at, or None
    cached,        \* [Coins -> the timestamps in _events]
    look,          \* what a caller of summary has read, or None
    answer,        \* what the last call of summary returned, or None
    received       \* history: every event that came in, <<coin, timestamp>>

liqVars == <<liqClock, connected, connectedAt, lastMessage, cached, look, answer,
             received>>

MaxAge == Max(Windows)
Statuses == {"FRESH", "STALE", "DISCONNECTED"}

LiqTypeOK ==
    /\ liqClock \in 0..LiqMaxTime
    /\ connected \in BOOLEAN
    /\ {connectedAt, lastMessage} \subseteq (0..LiqMaxTime) \cup {None}
    /\ DOMAIN cached = Coins
    /\ look # None => look.coin \in Coins /\ look.status \in Statuses
    /\ answer # None => answer.coin \in Coins /\ answer.available \in BOOLEAN
    /\ Len(received) <= LiqMaxEvents

LiqInit ==
    /\ liqClock = 0
    /\ connected = FALSE
    /\ connectedAt = None
    /\ lastMessage = None
    /\ cached = [c \in Coins |-> <<>>]
    /\ look = None
    /\ answer = None
    /\ received = <<>>

-----------------------------------------------------------------------------
(* _prune_locked: from the head of each deque, until one is young enough.  *)

PrunedAtTheEdge(events, now) ==
    LET young == {i \in DOMAIN events : events[i] > now - MaxAge}
    IN  IF young = {} THEN <<>> ELSE SubSeq(events, Min(young), Len(events))

Pruned(events, now) ==
    LET young == {i \in DOMAIN events : events[i] >= now - MaxAge}
    IN  IF young = {} THEN <<>> ELSE SubSeq(events, Min(young), Len(events))

-----------------------------------------------------------------------------
(* The listener.                                                           *)

Connect ==
    /\ ~connected
    /\ connected' = TRUE
    /\ connectedAt' = liqClock
    /\ UNCHANGED <<liqClock, lastMessage, cached, look, answer, received>>

\* A close, an error, or the head of the loop of _run.
Disconnect ==
    /\ connected
    /\ connected' = FALSE
    /\ UNCHANGED <<liqClock, connectedAt, lastMessage, cached, look, answer,
                   received>>

\* add_event.  The caches of all coins are pruned by this event's timestamp.
Message(c, at) ==
    /\ connected
    /\ Len(received) < LiqMaxEvents
    /\ lastMessage' = liqClock
    /\ cached' = [d \in Coins |->
          Pruned(IF d = c THEN Append(cached[d], at) ELSE cached[d], at)]
    /\ received' = Append(received, <<c, at>>)
    /\ UNCHANGED <<liqClock, connected, connectedAt, look, answer>>

-----------------------------------------------------------------------------
(* summary, called by a scan or by the news thread.                        *)

\* Before the first message the age is measured from the connection.
BaselineReconnected ==
    IF lastMessage = None \/ connectedAt > lastMessage THEN connectedAt
    ELSE lastMessage

Baseline == IF lastMessage # None THEN lastMessage ELSE connectedAt

StreamState ==
    IF ~connected THEN "DISCONNECTED"
    ELSE IF liqClock - Baseline <= LIQ_STALE_SECONDS THEN "FRESH"
    ELSE "STALE"

\* The clock and the state of the stream are read under a lock of their own.
LookBegins(c) ==
    /\ look = None
    /\ look' = [coin |-> c, now |-> liqClock, status |-> StreamState]
    /\ answer' = None
    /\ UNCHANGED <<liqClock, connected, connectedAt, lastMessage, cached,
                   received>>

Count(events, now, seconds) ==
    Cardinality({i \in DOMAIN events : now - events[i] <= seconds})

LookEnds ==
    /\ look # None
    /\ cached' = [d \in Coins |-> Pruned(cached[d], look.now)]
    /\ LET events == cached'[look.coin] IN
       answer' = [coin |-> look.coin, now |-> look.now,
                  taken |-> liqClock, heard |-> Len(received),
                  counts |-> [w \in Windows |-> Count(events, look.now, w)],
                  available |-> events # <<>> /\ look.status = "FRESH"]
    /\ look' = None
    /\ UNCHANGED <<liqClock, connected, connectedAt, lastMessage, received>>

\* The caller has what it asked for.  Its answer depends on nothing that comes
\* later, so nothing else happens first.
Used ==
    /\ answer # None
    /\ answer' = None
    /\ UNCHANGED <<liqClock, connected, connectedAt, lastMessage, cached, look,
                   received>>

LiqTick ==
    /\ liqClock < LiqMaxTime
    /\ liqClock' = liqClock + 1
    /\ UNCHANGED <<connected, connectedAt, lastMessage, cached, look, answer,
                   received>>

LiqNext ==
    \/ Used
    \/ /\ answer = None
       /\ \/ Connect \/ Disconnect \/ LookEnds \/ LiqTick
          \/ \E c \in Coins :
                \/ LookBegins(c)
                \/ \E at \in (liqClock - Delay)..(liqClock + Skew) : Message(c, at)

LiqSpec == LiqInit /\ [][LiqNext]_liqVars

-----------------------------------------------------------------------------
(* Properties.                                                             *)

\* What had come in for the coin when the answer was made, and is young enough.
Seen(now, seconds) ==
    Cardinality({i \in 1..answer.heard : /\ received[i][1] = answer.coin
                                         /\ now - received[i][2] <= seconds})

(* "Never estimate missing data" (liquidation.py:143): a window counts no  *)
(* event older than it, and every event received that is young enough,     *)
(* although a newer event of any coin prunes the caches, the events come   *)
(* out of order and the caller may be held up between its clock and its    *)
(* count.  Only an exchange clock that is ahead prunes early, by the skew. *)
WindowsComplete ==
    answer # None => \A w \in Windows :
        /\ answer.counts[w] <= Seen(answer.now, w)
        /\ answer.counts[w] >=
              Seen(answer.taken, IF w > MaxAge - Skew THEN MaxAge - Skew
                                  ELSE w)

(* "Old events must not be presented as current information"               *)
(* (liquidation.py:106): a summary that calls itself available was asked   *)
(* for within LIQ_STALE_SECONDS of a message, also right after a           *)
(* reconnect.                                                              *)
AvailableMeansRecent ==
    answer # None /\ answer.available =>
        lastMessage # None /\ answer.now - lastMessage <= LIQ_STALE_SECONDS

(* The two together: a summary counts what it says it counts, and calls    *)
(* nothing current that is old.                                            *)
SummaryHonest == WindowsComplete /\ AvailableMeansRecent
=============================================================================

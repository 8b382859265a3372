--------------------------- MODULE ProviderLadder ---------------------------
(***************************************************************************)
(* ai_decision._complete, _post_once and llm_verdicts: the setups of a     *)
(* batch, best first, are asked about one by one from a pool of AI_WORKERS *)
(* threads.  Each call walks the configured providers in order, retries,   *)
(* drops JSON mode for a gateway that rejects it, respects the daily       *)
(* budgets and stops when its deadline is near.                            *)
(***************************************************************************)
EXTENDS Integers, Sequences, FiniteSets

CONSTANTS
    Setups,          \* how many setups the batch has; 1 is the best
    Gateways,        \* config.AI_PROVIDERS: the base_url of each provider
    AI_WORKERS,
    AI_RETRY_MAX,
    Budgets,         \* values of AI_DAILY_BUDGET; 0 is "no limit"
    MaxMidnights     \* bound on the midnights during the batch

ASSUME LadderAssumption ==
    /\ {Setups, AI_WORKERS, AI_RETRY_MAX} \subseteq Nat \ {0}
    /\ Gateways \in Seq(STRING) /\ Gateways # <<>>
    /\ Budgets \subseteq Nat
    /\ MaxMidnights \in Nat

Calls == 1..Setups
Pool == DOMAIN Gateways
Urls == {Gateways[i] : i \in Pool}
Bottom == Len(Gateways)

VARIABLES
    limit,       \* config.AI_DAILY_BUDGET
    midnights,   \* how many there were
    used,        \* [Pool -> _used of its _DailyBudget]
    json,        \* [Urls -> json_object of _CAPS]
    state,       \* [Calls -> where the call is]
    provider,    \* [Calls -> p_index + 1]
    attempt,     \* [Calls -> attempt]
    late,        \* are less than 5 s left before the deadline of the batch
    asked,       \* history: [Calls -> [Pool -> requests posted]]
    left,        \* history: [Calls -> [Pool -> why the call left it]]
    rejections   \* history: [Urls -> 400s on response_format]

callVars == <<state, provider, attempt>>
ladderVars == <<limit, midnights, used, json, callVars, late, asked, left,
                rejections>>

Ways == {"no", "budget", "refused", "attempts"}
Ended == {"answered", "failed", "cut"}

LadderTypeOK ==
    /\ limit \in Budgets
    /\ midnights \in 0..MaxMidnights
    /\ used \in [Pool -> Nat]
    /\ json \in [Urls -> BOOLEAN]
    /\ state \in [Calls -> {"queued", "walking", "json", "plain"} \cup Ended]
    /\ provider \in [Calls -> Pool]
    /\ attempt \in [Calls -> 1..AI_RETRY_MAX]
    /\ late \in BOOLEAN
    /\ asked \in [Calls -> [Pool -> 0..AI_RETRY_MAX]]
    /\ left \in [Calls -> [Pool -> Ways]]
    /\ rejections \in [Urls -> Nat]

LadderInit ==
    /\ limit \in Budgets
    /\ midnights = 0
    /\ used = [i \in Pool |-> 0]
    /\ json = [u \in Urls |-> TRUE]
    /\ state = [c \in Calls |-> "queued"]
    /\ provider = [c \in Calls |-> 1]
    /\ attempt = [c \in Calls |-> 1]
    /\ late = FALSE
    /\ asked = [c \in Calls |-> [i \in Pool |-> 0]]
    /\ left = [c \in Calls |-> [i \in Pool |-> "no"]]
    /\ rejections = [u \in Urls |-> 0]

Url(c) == Gateways[provider[c]]
\* A request with response_format, or without it.
InFlight(c) == state[c] \in {"json", "plain"}
Running == {c \in Calls : state[c] = "walking" \/ InFlight(c)}

-----------------------------------------------------------------------------
(* The pool of llm_verdicts: the setups are submitted best first.          *)

Submit(c) ==
    /\ state[c] = "queued"
    /\ \A b \in 1..c - 1 : state[b] # "queued"
    /\ Cardinality(Running) < AI_WORKERS
    /\ state' = [state EXCEPT ![c] = "walking"]
    /\ UNCHANGED <<limit, midnights, used, json, provider, attempt, late, asked,
                   left, rejections>>

DeadlineNears ==
    /\ ~late
    /\ late' = TRUE
    /\ UNCHANGED <<limit, midnights, used, json, callVars, asked, left,
                   rejections>>

-----------------------------------------------------------------------------
(* Walking the ladder.                                                     *)

\* The next provider starts with a fresh count, or the call fails.  (The prompt
\* and max_tokens start afresh too; what is asked is left out of the model.)
Leaves(c, way) ==
    /\ left' = [left EXCEPT ![c][provider[c]] = way]
    /\ IF provider[c] = Bottom
       THEN /\ state' = [state EXCEPT ![c] = "failed"]
            /\ UNCHANGED <<provider, attempt>>
       ELSE /\ state' = [state EXCEPT ![c] = "walking"]
            /\ provider' = [provider EXCEPT ![c] = @ + 1]
            /\ attempt' = [attempt EXCEPT ![c] = 1]

TriesOnceMore(c) ==
    IF attempt[c] > AI_RETRY_MAX THEN Leaves(c, "attempts")
    ELSE /\ state' = [state EXCEPT ![c] = "walking"]
         /\ attempt' = [attempt EXCEPT ![c] = @ + 1]
         /\ UNCHANGED <<provider, left>>

\* The attempt is used up, whatever it was lost to.
TriesAgain(c) ==
    IF attempt[c] = AI_RETRY_MAX THEN Leaves(c, "attempts")
    ELSE /\ state' = [state EXCEPT ![c] = "walking"]
         /\ attempt' = [attempt EXCEPT ![c] = @ + 1]
         /\ UNCHANGED <<provider, left>>

CutShort(c) ==
    /\ state[c] = "walking" /\ late
    /\ state' = [state EXCEPT ![c] = "cut"]
    /\ UNCHANGED <<limit, midnights, used, json, provider, attempt, late, asked,
                   left, rejections>>

Affordable(i) == limit = 0 \/ used[i] < limit

BudgetOut(c) ==
    /\ state[c] = "walking" /\ ~late
    /\ ~Affordable(provider[c])
    /\ Leaves(c, "budget")
    /\ UNCHANGED <<limit, midnights, used, json, late, asked, rejections>>

\* budget.consume and the start of _post_once, which looks the gateway up.
Post(c) ==
    /\ state[c] = "walking" /\ ~late
    /\ Affordable(provider[c])
    /\ used' = [used EXCEPT ![provider[c]] = IF limit = 0 THEN @ ELSE @ + 1]
    /\ asked' = [asked EXCEPT ![c][provider[c]] = @ + 1]
    /\ state' = [state EXCEPT ![c] = IF json[Url(c)] THEN "json" ELSE "plain"]
    /\ UNCHANGED <<limit, midnights, json, provider, attempt, late, left,
                   rejections>>

Answers(c) ==
    /\ InFlight(c)
    /\ state' = [state EXCEPT ![c] = "answered"]
    /\ UNCHANGED <<limit, midnights, used, json, provider, attempt, late, asked,
                   left, rejections>>

\* HTTP 400 that names response_format: the gateway loses the capability for
\* the life of the process, and the attempt is gone.
RejectsJsonUnlearned(c) ==
    /\ state[c] = "json"
    /\ rejections' = [rejections EXCEPT ![Url(c)] = @ + 1]
    /\ TriesAgain(c)
    /\ UNCHANGED <<limit, midnights, used, json, late, asked>>

RejectsJson(c) ==
    /\ state[c] = "json"
    /\ json' = [json EXCEPT ![Url(c)] = FALSE]
    /\ rejections' = [rejections EXCEPT ![Url(c)] = @ + 1]
    /\ TriesAgain(c)
    /\ UNCHANGED <<limit, midnights, used, late, asked>>

\* A status that is not in _RETRYABLE_STATUS.
RefusesAndFails(c) ==
    /\ InFlight(c)
    /\ state' = [state EXCEPT ![c] = "failed"]
    /\ UNCHANGED <<limit, midnights, used, json, provider, attempt, late, asked,
                   left, rejections>>

Refuses(c) ==
    /\ InFlight(c)
    /\ Leaves(c, "refused")
    /\ UNCHANGED <<limit, midnights, used, json, late, asked, rejections>>

\* 429, 5xx, a timeout, a lost connection, an empty or an unparsable reply.
Disappoints(c) ==
    /\ InFlight(c)
    /\ TriesAgain(c)
    /\ UNCHANGED <<limit, midnights, used, json, late, asked, rejections>>

CallStep(c) ==
    \/ Submit(c) \/ CutShort(c) \/ BudgetOut(c) \/ Post(c)
    \/ Answers(c) \/ RejectsJson(c) \/ Refuses(c) \/ Disappoints(c)

\* _roll_locked at midnight: the next look finds another day.
NewDay ==
    /\ midnights < MaxMidnights
    /\ midnights' = midnights + 1
    /\ used' = [i \in Pool |-> 0]
    /\ UNCHANGED <<limit, json, callVars, late, asked, left, rejections>>

LadderNext ==
    \/ \E c \in Calls : CallStep(c)
    \/ DeadlineNears \/ NewDay

LadderSpec == LadderInit /\ [][LadderNext]_ladderVars

-----------------------------------------------------------------------------
(* Properties.                                                             *)

\* Did the call get all it can from a provider?
Exhausted(c, i) ==
    \/ left[c][i] = "refused" /\ asked[c][i] > 0
    \/ left[c][i] = "attempts" /\ asked[c][i] = AI_RETRY_MAX
    \/ left[c][i] = "budget" /\ limit > 0

(* "Only when EVERY provider in the pool is exhausted does this raise"     *)
(* (ai_decision.py:961), for a call whose deadline is not near: it failed  *)
(* because each provider in turn refused it, used up its attempts or had   *)
(* no budget left, whatever other calls did meanwhile.  A call that the    *)
(* deadline cut short gives up providers it never asked.                   *)
FailureMeansAllTried ==
    \A c \in Calls :
        /\ state[c] = "failed" => \A i \in Pool : Exhausted(c, i)
        /\ state[c] = "cut" => late

(* A gateway says at most once to each worker that it does not know JSON   *)
(* mode: what one call learned, every later request of the process uses    *)
(* (ai_decision.py:77-112, 884-888).                                       *)
RejectionsBounded == \A u \in Urls : rejections[u] <= AI_WORKERS

(* The two together: a call gives up for a reason, and the pool learns.    *)
LadderSound == FailureMeansAllTried /\ RejectionsBounded
=============================================================================

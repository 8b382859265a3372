-------------------------- MODULE AIOpinionWorker --------------------------
(***************************************************************************)
(* scan_coordinator.AIOpinionWorker: the single-threaded background audit  *)
(* of the decisions a scan has already emitted, one worker per copy of     *)
(* main, and the once-a-day notice of a spent AI budget, whose flag lives  *)
(* in ai_decision and is shared by all of them.                            *)
(*                                                                         *)
(* A batch is what one scan hands over: a record (the deterministic        *)
(* decision) per audited symbol.  What the model answers is any opinion or *)
(* none for each symbol, or an exception for the whole batch.              *)
(***************************************************************************)
EXTENDS Integers, Sequences, FiniteSets

CONSTANTS
    Workers,                 \* the workers, one per copy of main
    Batches,                 \* the batches the scans submit
    Records,                 \* [Batches -> [symbols of the batch -> decision]]
    Opinions,                \* the opinions the model may return
    AI_WORKER_MAX_PENDING,   \* batches that may wait
    MaxDay,                  \* bound on the calendar
    None

Symbols == UNION {DOMAIN Records[b] : b \in Batches}

ASSUME WorkerAssumption ==
    /\ Opinions \subseteq {"LONG", "SHORT", "NO_TRADE"}
    /\ \A b \in Batches :
          /\ Records[b] \in [DOMAIN Records[b] -> {"LONG", "SHORT", "NO_TRADE"}]
          /\ DOMAIN Records[b] # {} /\ IsFiniteSet(DOMAIN Records[b])
    /\ AI_WORKER_MAX_PENDING \in Nat \ {0}
    /\ MaxDay \in Nat
    /\ None \notin Batches \cup {"LONG", "SHORT", "NO_TRADE"}

VARIABLES
    fresh,          \* batches no scan has submitted yet
    submitting,     \* [Workers -> batch counted but not yet in the pool, or None]
    queue,          \* [Workers -> batches waiting in the pool]
    pending,        \* [Workers -> _pending]
    current,        \* [Workers -> the batch of the last task, or None]
    stage,          \* [Workers -> where the worker's thread is]
    last_status,    \* [Workers -> last_status]
    last_expected,  \* [Workers -> last_expected]
    last_answered,  \* [Workers -> last_answered]
    last_tally,     \* [Workers -> last_tally, label -> count]
    last_error,     \* [Workers -> is last_error non-empty]
    rows,           \* the rows of ai_opinions.csv
    partial,        \* batches whose rows an OSError cut short
    day,            \* the calendar
    spent,          \* are the daily budgets of all providers spent
    notice,         \* [day |-> _notice_day, sent |-> _notice_sent]
    notices         \* [0..MaxDay -> notices handed out on that day]

statusVars == <<last_status, last_expected, last_answered, last_tally, last_error>>
queueVars == <<fresh, submitting, queue, pending>>
noticeVars == <<day, spent, notice, notices>>
vars == <<queueVars, current, stage, statusVars, rows, partial, noticeVars>>

-----------------------------------------------------------------------------
Stages == {"idle", "picked", "started", "asking", "answered", "failed",
           "timed_out", "closed"}

Labels == {"LONG", "SHORT", "NO_TRADE", "NO_ANSWER", "AGREE", "DISAGREE",
           "VETO_PROPOSED", "SIGNAL_PROPOSED"}

Row == [batch : Batches, symbol : Symbols, opinion : Opinions \cup {None},
        ai_status : {"SUCCESS", "UNAVAILABLE", "FAILED", "TIMEOUT"},
        agreement : Labels]

QueueTypeOK ==
    /\ fresh \subseteq Batches
    /\ submitting \in [Workers -> Batches \cup {None}]
    /\ queue \in [Workers -> Seq(Batches)]
    /\ pending \in [Workers -> Nat]
    /\ current \in [Workers -> Batches \cup {None}]
    /\ stage \in [Workers -> Stages]
    /\ last_status \in [Workers -> {"IDLE", "PENDING", "SUCCESS", "FAILED",
                                    "TIMEOUT", "UNAVAILABLE"}]

TypeOK ==
    /\ QueueTypeOK
    /\ last_expected \in [Workers -> Nat]
    /\ last_answered \in [Workers -> Nat]
    /\ last_tally \in [Workers -> [Labels -> Nat]]
    /\ last_error \in [Workers -> BOOLEAN]
    /\ rows \subseteq Row
    /\ partial \subseteq Batches
    /\ day \in 0..MaxDay
    /\ spent \in BOOLEAN
    /\ notice \in [day : 0..MaxDay \cup {None}, sent : BOOLEAN]
    /\ notices \in [0..MaxDay -> Nat]

NoTally == [l \in Labels |-> 0]

Init ==
    /\ fresh = Batches
    /\ submitting = [w \in Workers |-> None]
    /\ queue = [w \in Workers |-> <<>>]
    /\ pending = [w \in Workers |-> 0]
    /\ current = [w \in Workers |-> None]
    /\ stage = [w \in Workers |-> "idle"]
    /\ last_status = [w \in Workers |-> "IDLE"]
    /\ last_expected = [w \in Workers |-> 0]
    /\ last_answered = [w \in Workers |-> 0]
    /\ last_tally = [w \in Workers |-> NoTally]
    /\ last_error = [w \in Workers |-> FALSE]
    /\ rows = {}
    /\ partial = {}
    /\ day = 0
    /\ spent = FALSE
    /\ notice = [day |-> None, sent |-> FALSE]
    /\ notices = [d \in 0..MaxDay |-> 0]

-----------------------------------------------------------------------------
\* Mutated form: one batch too many.
HasRoomForOneMore(w) == pending[w] <= AI_WORKER_MAX_PENDING

HasRoom(w) == pending[w] < AI_WORKER_MAX_PENDING

(* submit, called by the scan that owns the worker's copy of main, one at  *)
(* a time.  Under the lock the batch is counted or refused ...             *)
Accept(w, b) ==
    /\ submitting[w] = None
    /\ b \in fresh
    /\ HasRoom(w)
    /\ pending' = [pending EXCEPT ![w] = @ + 1]
    /\ last_status' = [last_status EXCEPT ![w] = "PENDING"]
    /\ submitting' = [submitting EXCEPT ![w] = b]
    /\ fresh' = fresh \ {b}
    /\ UNCHANGED <<queue, current, stage, last_expected, last_answered,
                   last_tally, last_error, rows, partial, noticeVars>>

Drop(w, b) ==
    /\ submitting[w] = None
    /\ b \in fresh
    /\ ~HasRoom(w)
    /\ last_status' = [last_status EXCEPT ![w] = "UNAVAILABLE"]
    /\ fresh' = fresh \ {b}
    /\ UNCHANGED <<submitting, queue, pending, current, stage, last_expected,
                   last_answered, last_tally, last_error, rows, partial,
                   noticeVars>>

(* ... and after the lock the pool gets it. *)
Enqueue(w) ==
    /\ submitting[w] # None
    /\ queue' = [queue EXCEPT ![w] = Append(@, submitting[w])]
    /\ submitting' = [submitting EXCEPT ![w] = None]
    /\ UNCHANGED <<fresh, pending, current, stage, statusVars, rows, partial,
                   noticeVars>>

-----------------------------------------------------------------------------
(* The pool's one thread takes the next task ... *)
Pick(w) ==
    /\ stage[w] = "idle"
    /\ queue[w] # <<>>
    /\ current' = [current EXCEPT ![w] = Head(queue[w])]
    /\ queue' = [queue EXCEPT ![w] = Tail(@)]
    /\ stage' = [stage EXCEPT ![w] = "picked"]
    /\ UNCHANGED <<fresh, submitting, pending, statusVars, rows, partial,
                   noticeVars>>

\* Mutated form: the task that leaves the queue is still counted.
StartUncounted(w) ==
    /\ stage[w] = "picked"
    /\ stage' = [stage EXCEPT ![w] = "started"]
    /\ UNCHANGED <<queueVars, current, statusVars, rows, partial, noticeVars>>

(* ... which counts itself out of the waiting ones before it runs. *)
Start(w) ==
    /\ stage[w] = "picked"
    /\ pending' = [pending EXCEPT ![w] = @ - 1]
    /\ stage' = [stage EXCEPT ![w] = "started"]
    /\ UNCHANGED <<fresh, submitting, queue, current, statusVars, rows, partial,
                   noticeVars>>

\* Mutated form: the snapshot of the previous batch is kept until this one
\* has an answer.
ResetLate(w) ==
    /\ stage[w] = "started"
    /\ last_expected' = [last_expected EXCEPT ![w] =
                            Cardinality(DOMAIN Records[current[w]])]
    /\ stage' = [stage EXCEPT ![w] = "asking"]
    /\ UNCHANGED <<queueVars, current, last_status, last_answered, last_tally,
                   last_error, rows, partial, noticeVars>>

Reset(w) ==
    /\ stage[w] = "started"
    /\ last_expected' = [last_expected EXCEPT ![w] =
                            Cardinality(DOMAIN Records[current[w]])]
    /\ last_answered' = [last_answered EXCEPT ![w] = 0]
    /\ last_tally' = [last_tally EXCEPT ![w] = NoTally]
    /\ last_error' = [last_error EXCEPT ![w] = FALSE]
    /\ stage' = [stage EXCEPT ![w] = "asking"]
    /\ UNCHANGED <<queueVars, current, last_status, rows, partial, noticeVars>>

(* _agreement: the opinion graded against what was emitted. *)
Agreement(decision, opinion) ==
    CASE opinion = None -> "NO_ANSWER"
      [] opinion = decision -> "AGREE"
      [] opinion = "NO_TRADE" /\ decision # "NO_TRADE" -> "VETO_PROPOSED"
      [] decision = "NO_TRADE" /\ opinion # "NO_TRADE" /\ opinion # None -> "SIGNAL_PROPOSED"
      [] OTHER -> "DISAGREE"

\* Mutated form: an unanswered record keeps the status of its batch.
RowStatusOfBatch(status, opinion) == status

RowStatus(status, opinion) ==
    IF status = "SUCCESS" /\ opinion = None THEN "UNAVAILABLE" ELSE status

RowFor(b, s, opinion, status) ==
    [batch |-> b, symbol |-> s, opinion |-> opinion,
     ai_status |-> RowStatus(status, opinion),
     agreement |-> Agreement(Records[b][s], opinion)]

(* _write_rows: all rows of the batch, or the part of them that an OSError *)
(* let through.                                                            *)
WriteRows(b, verdict, status) ==
    LET new == {RowFor(b, s, verdict[s], status) : s \in DOMAIN Records[b]} IN
    \/ rows' = rows \cup new /\ UNCHANGED partial
    \/ /\ \E part \in SUBSET new : rows' = rows \cup part
       /\ partial' = partial \cup {b}

(* The counts of a batch whose symbols got the given verdicts. *)
Tally(b, verdict) ==
    LET syms == DOMAIN Records[b]
        grade(s) == Agreement(Records[b][s], verdict[s]) IN
    [l \in Labels |->
        CASE l \in {"LONG", "SHORT", "NO_TRADE"} -> Cardinality({s \in syms : verdict[s] = l})
          [] l = "NO_ANSWER" -> Cardinality({s \in syms : verdict[s] = None})
          [] OTHER -> Cardinality({s \in syms : grade(s) = l})]

(* The verdicts arrive: each symbol has an opinion or none. *)
Answered(w) ==
    /\ stage[w] = "asking"
    /\ \E verdict \in [DOMAIN Records[current[w]] -> Opinions \cup {None}] :
          LET t == Tally(current[w], verdict) IN
          /\ WriteRows(current[w], verdict, "SUCCESS")
          /\ last_tally' = [last_tally EXCEPT ![w] = t]
          /\ last_answered' = [last_answered EXCEPT ![w] =
                                  t["LONG"] + t["SHORT"] + t["NO_TRADE"]]
    /\ \E s \in BOOLEAN : spent' = (spent \/ s)
    /\ stage' = [stage EXCEPT ![w] = "answered"]
    /\ UNCHANGED <<queueVars, current, last_status, last_expected, last_error,
                   day, notice, notices>>

(* The call raises, and every row carries the status of the batch. *)
AskFails(w) ==
    /\ stage[w] = "asking"
    /\ \E failure \in {"FAILED", "TIMEOUT"} :
          /\ WriteRows(current[w], [s \in DOMAIN Records[current[w]] |-> None],
                       failure)
          /\ stage' = [stage EXCEPT ![w] =
                          IF failure = "TIMEOUT" THEN "timed_out" ELSE "failed"]
    /\ \E s \in BOOLEAN : spent' = (spent \/ s)
    /\ UNCHANGED <<queueVars, current, statusVars, day, notice, notices>>

\* Mutated form: an exception of the call ends the pool's thread.
CloseAnsweredOnly(w) ==
    /\ stage[w] = "answered"
    /\ last_status' = [last_status EXCEPT ![w] = "SUCCESS"]
    /\ stage' = [stage EXCEPT ![w] = "closed"]
    /\ UNCHANGED <<queueVars, current, last_expected, last_answered, last_tally,
                   last_error, rows, partial, noticeVars>>

\* Mutated form: only a success is written to the status.
CloseKeepingStatus(w) ==
    /\ stage[w] \in {"answered", "failed", "timed_out"}
    /\ last_status' = [last_status EXCEPT ![w] =
                          IF stage[w] = "answered" THEN "SUCCESS" ELSE @]
    /\ last_error' = [last_error EXCEPT ![w] = @ \/ stage[w] # "answered"]
    /\ stage' = [stage EXCEPT ![w] = "closed"]
    /\ UNCHANGED <<queueVars, current, last_expected, last_answered, last_tally,
                   rows, partial, noticeVars>>

\* Mutated form: the batch is counted out again when its task ends.
CloseCountingOut(w) ==
    /\ stage[w] \in {"answered", "failed", "timed_out"}
    /\ pending' = [pending EXCEPT ![w] = @ - 1]
    /\ last_status' = [last_status EXCEPT ![w] =
                          IF stage[w] = "answered" THEN "SUCCESS" ELSE "FAILED"]
    /\ last_error' = [last_error EXCEPT ![w] = @ \/ stage[w] # "answered"]
    /\ stage' = [stage EXCEPT ![w] = "closed"]
    /\ UNCHANGED <<fresh, submitting, queue, current, last_expected,
                   last_answered, last_tally, rows, partial, noticeVars>>

(* The end of the task: the status of the batch ... *)
Close(w) ==
    /\ stage[w] \in {"answered", "failed", "timed_out"}
    /\ last_status' = [last_status EXCEPT ![w] =
                          CASE stage[w] = "answered" -> "SUCCESS"
                            [] stage[w] = "failed" -> "FAILED"
                            [] OTHER -> "TIMEOUT"]
    /\ last_error' = [last_error EXCEPT ![w] = @ \/ stage[w] # "answered"]
    /\ stage' = [stage EXCEPT ![w] = "closed"]
    /\ UNCHANGED <<queueVars, current, last_expected, last_answered, last_tally,
                   rows, partial, noticeVars>>

\* Mutated form: the flag is not looked at.
NoticeDueAlways == spent

(* budget_exhausted_notice: the text, once a day and only when every        *)
(* provider's budget is spent.  With AI_DAILY_BUDGET = 0 a budget is        *)
(* unlimited and never spent.                                              *)
NoticeDue ==
    /\ ~(notice.day = day /\ notice.sent)
    /\ spent

(* ... and the notice, which counts as sent when its text is handed out,   *)
(* whether or not Telegram takes it.                                       *)
Notify(w) ==
    /\ stage[w] = "closed"
    /\ IF NoticeDue
       THEN /\ notice' = [day |-> day, sent |-> TRUE]
            /\ notices' = [notices EXCEPT ![day] = @ + 1]
       ELSE /\ notice' = [day |-> day, sent |-> notice.day = day /\ notice.sent]
            /\ UNCHANGED notices
    /\ stage' = [stage EXCEPT ![w] = "idle"]
    /\ UNCHANGED <<queueVars, current, statusVars, rows, partial, day, spent>>

(* Midnight: the providers' counters roll over. *)
NewDay ==
    /\ day < MaxDay
    /\ day' = day + 1
    /\ spent' = FALSE
    /\ UNCHANGED <<queueVars, current, stage, statusVars, rows, partial, notice,
                   notices>>

-----------------------------------------------------------------------------
Task(w) ==
    \/ Pick(w) \/ Start(w) \/ Reset(w) \/ Answered(w) \/ AskFails(w)
    \/ Close(w) \/ Notify(w)

Next ==
    \/ \E w \in Workers :
          \/ \E b \in Batches : Accept(w, b) \/ Drop(w, b)
          \/ Enqueue(w)
          \/ Task(w)
    \/ NewDay

Spec == Init /\ [][Next]_vars

(* The pool's thread runs while it has work (every request has a timeout), *)
(* and a scan inside submit goes on.  No scan has to submit anything.      *)
FairSpec == Spec /\ \A w \in Workers : WF_vars(Task(w)) /\ WF_vars(Enqueue(w))

-----------------------------------------------------------------------------
(* Of the batches a worker has taken on: 1 for the one that is counted but *)
(* not yet in the pool, the one a task has taken out of the pool but not   *)
(* out of the count, and the one the task works on.                        *)
Entering(w) == IF submitting[w] # None THEN 1 ELSE 0
Leaving(w) == IF stage[w] = "picked" THEN 1 ELSE 0
InTask(w) == IF stage[w] # "idle" THEN 1 ELSE 0

Backlog(w) == Len(queue[w]) + Entering(w) + InTask(w)

(* A stalled provider cannot pile batches up: at most the waiting ones and *)
(* the one that runs (scan_coordinator.py:100-101, 136-142).               *)
BacklogBounded == \A w \in Workers : Backlog(w) <= AI_WORKER_MAX_PENDING + 1

(* The counter the limit is read from is the number of batches that really *)
(* wait, whatever a task and a submit do at once.                          *)
PendingCounts ==
    \A w \in Workers : pending[w] = Len(queue[w]) + Entering(w) + Leaving(w)

(* Both: the limit holds because the counter it is read from is right.     *)
QueueHeld == BacklogBounded /\ PendingCounts

(* When nothing waits or runs, the status /status shows is a result: no    *)
(* batch that is over is reported as PENDING, and a refusal does not hide  *)
(* the outcome of the batches that ran after it.                           *)
StatusSettles ==
    \A w \in Workers : Backlog(w) = 0 /\ current[w] # None =>
        last_status[w] \in {"SUCCESS", "FAILED", "TIMEOUT"}

(* A batch that dies leaves "0 of n answered" and the failure behind, never *)
(* the counts of the batch before it (scan_coordinator.py:171-173).        *)
FailureShows ==
    \A w \in Workers :
        stage[w] \in {"idle", "closed"} /\ last_status[w] \in {"FAILED", "TIMEOUT"} =>
            /\ last_answered[w] = 0
            /\ last_error[w]
            /\ last_expected[w] = Cardinality(DOMAIN Records[current[w]])

\* The rows of a worker's last batch are what its snapshot counts.
RowsMatch(w) ==
    LET mine == {r \in rows : r.batch = current[w]} IN
    /\ Cardinality(mine) = last_expected[w]
    /\ Cardinality({r \in mine : r.ai_status = "SUCCESS"}) = last_answered[w]
    /\ \A l \in {"AGREE", "VETO_PROPOSED", "SIGNAL_PROPOSED", "DISAGREE"} :
          Cardinality({r \in mine : r.agreement = l}) = last_tally[w][l]

(* The snapshot and the file agree about the last batch: as many SUCCESS    *)
(* rows as answers, and one row per record, unless the disk refused some.  *)
SnapshotMatchesRows ==
    \A w \in Workers :
        stage[w] = "idle" /\ current[w] # None /\ current[w] \notin partial =>
            RowsMatch(w)

(* What /status tells the owner of the last batch is what happened to it,  *)
(* whether it died or was audited.                                         *)
SnapshotHonest == FailureShows /\ SnapshotMatchesRows

(* The owner hears of a spent budget at most once a day, however many       *)
(* batches find it spent (scan_coordinator.py:259-263).                    *)
OneNoticeADay == \A d \in 0..MaxDay : notices[d] <= 1

(* Every batch the worker took on is audited in the end. *)
EveryBatchRuns ==
    \A w \in Workers, b \in Batches : submitting[w] = b ~> current[w] = b /\ stage[w] = "idle"
=============================================================================

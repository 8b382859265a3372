----------------------- MODULE AIOpinionWorkerProofs -----------------------
(***************************************************************************)
(* Proofs about AIOpinionWorker, for any workers, batches, limit and       *)
(* calendar: the counter behind the limit, the bound on the backlog, and   *)
(* the status that is left when the worker rests.                          *)
(***************************************************************************)
EXTENDS AIOpinionWorker, FiniteSetTheorems, TLAPS

(* A batch is refused when enough of them wait. *)
LimitInv == \A w \in Workers : pending[w] <= AI_WORKER_MAX_PENDING

(* Between two tasks with nothing to do, the status is a result. *)
RestInv ==
    \A w \in Workers :
        /\ stage[w] \in {"idle", "closed"}
        /\ queue[w] = <<>>
        /\ submitting[w] = None
        /\ current[w] # None
        => last_status[w] \in {"SUCCESS", "FAILED", "TIMEOUT"}

QueueInv == QueueTypeOK /\ PendingCounts /\ LimitInv /\ RestInv

(* A non-empty queue has a head, and loses one batch with it. *)
LEMMA HeadAndTail ==
    ASSUME NEW S, NEW q \in Seq(S), q # <<>>
    PROVE  /\ Head(q) \in S
           /\ Tail(q) \in Seq(S)
           /\ Len(Tail(q)) = Len(q) - 1
OBVIOUS

(* A queue's length counts, and is zero only for the empty queue. *)
LEMMA QueueLength ==
    ASSUME QueueTypeOK, NEW v \in Workers
    PROVE  /\ queue[v] \in Seq(Batches)
           /\ Len(queue[v]) \in Nat
           /\ Len(queue[v]) = 0 <=> queue[v] = <<>>
           /\ pending[v] \in Nat
<1>1. queue[v] \in Seq(Batches) /\ pending[v] \in Nat
  BY DEF QueueTypeOK
<1>2. QED
  BY <1>1

LEMMA Ones ==
    ASSUME NEW v \in Workers
    PROVE  /\ Entering(v) \in {0, 1} /\ Leaving(v) \in {0, 1}
           /\ InTask(v) \in {0, 1} /\ InTask(v) >= Leaving(v)
           /\ Entering(v) = 0 <=> submitting[v] = None
           /\ Leaving(v) = 0 <=> stage[v] # "picked"
           /\ InTask(v) = 0 <=> stage[v] = "idle"
BY DEF Entering, Leaving, InTask

(* What a step leaves of the count, worker by worker. *)
LEMMA CountKept ==
    ASSUME PendingCounts, QueueTypeOK, QueueTypeOK',
           \A v \in Workers :
              pending'[v] - Len(queue[v])' - Entering(v)' - Leaving(v)'
                = pending[v] - Len(queue[v]) - Entering(v) - Leaving(v)
    PROVE  PendingCounts'
<1>1. ASSUME NEW v \in Workers
      PROVE  pending'[v] = Len(queue[v])' + Entering(v)' + Leaving(v)'
  <2>1. pending[v] = Len(queue[v]) + Entering(v) + Leaving(v)
    BY DEF PendingCounts
  <2>2. Len(queue[v]) \in Nat /\ pending[v] \in Nat
    BY QueueLength
  <2>3. Len(queue[v])' \in Nat /\ pending'[v] \in Nat
    <3>1. queue'[v] \in Seq(Batches) /\ pending'[v] \in Nat
      BY DEF QueueTypeOK
    <3>2. QED
      BY <3>1
  <2>4. Entering(v) \in {0, 1} /\ Leaving(v) \in {0, 1}
    BY Ones
  <2>5. Entering(v)' \in {0, 1} /\ Leaving(v)' \in {0, 1}
    BY DEF Entering, Leaving
  <2>6. pending'[v] - Len(queue[v])' - Entering(v)' - Leaving(v)'
          = pending[v] - Len(queue[v]) - Entering(v) - Leaving(v)
    BY DEF Entering, Leaving
  <2>7. pending[v] - Len(queue[v]) - Entering(v) - Leaving(v) = 0
    BY <2>1, <2>2, <2>4
  <2>8. pending'[v] - Len(queue[v])' - Entering(v)' - Leaving(v)' = 0
    BY <2>6, <2>7
  <2>9. QED
    BY <2>3, <2>5, <2>8
<1>2. QED
  BY <1>1 DEF PendingCounts

LEMMA QueueInit == Init => QueueInv
<1> SUFFICES ASSUME Init  PROVE QueueInv
  OBVIOUS
<1>1. QueueTypeOK
  BY DEF Init, QueueTypeOK, Stages
<1>2. PendingCounts /\ LimitInv /\ RestInv
  BY WorkerAssumption DEF Init, PendingCounts, Entering, Leaving, LimitInv, RestInv
<1>3. QED
  BY <1>1, <1>2 DEF QueueInv

LEMMA AcceptStep ==
    ASSUME QueueInv, NEW w \in Workers, NEW b \in Batches, Accept(w, b)
    PROVE  QueueInv'
<1> USE WorkerAssumption DEF QueueInv
<1>1. QueueTypeOK'
  BY DEF Accept, QueueTypeOK
<1>2. /\ submitting[w] = None /\ b # None
      /\ pending' = [pending EXCEPT ![w] = @ + 1]
      /\ submitting' = [submitting EXCEPT ![w] = b]
      /\ last_status' = [last_status EXCEPT ![w] = "PENDING"]
      /\ UNCHANGED <<queue, stage, current>>
      /\ pending[w] < AI_WORKER_MAX_PENDING
  BY DEF Accept, HasRoom
<1>3. ASSUME NEW v \in Workers
      PROVE  /\ pending'[v] = IF v = w THEN pending[v] + 1 ELSE pending[v]
             /\ submitting'[v] = IF v = w THEN b ELSE submitting[v]
             /\ v # w => last_status'[v] = last_status[v]
             /\ Len(queue[v]) \in Nat /\ pending[v] \in Nat
  BY <1>2, QueueLength DEF QueueTypeOK
<1>4. PendingCounts'
  <2>1. ASSUME NEW v \in Workers
        PROVE  /\ Entering(v)' = IF v = w THEN 1 ELSE Entering(v)
               /\ v = w => Entering(v) = 0
               /\ Leaving(v)' = Leaving(v)
    BY <1>2, <1>3 DEF Entering, Leaving
  <2>2. ASSUME NEW v \in Workers
        PROVE  pending'[v] - Len(queue[v])' - Entering(v)' - Leaving(v)'
                 = pending[v] - Len(queue[v]) - Entering(v) - Leaving(v)
    <3>1. CASE v = w
      BY <1>2, <1>3, <2>1, <3>1, Ones
    <3>2. CASE v # w
      BY <1>2, <1>3, <2>1, <3>2, Ones
    <3>3. QED
      BY <3>1, <3>2
  <2>3. QED
    BY <1>1, <2>2, CountKept
<1>5. LimitInv'
  BY <1>2, <1>3 DEF LimitInv
<1>6. RestInv'
  BY <1>2, <1>3 DEF RestInv
<1>7. QED
  BY <1>1, <1>4, <1>5, <1>6

(* A refusal comes when something waits, so it is not the last word. *)
LEMMA DropStep ==
    ASSUME QueueInv, NEW w \in Workers, NEW b \in Batches, Drop(w, b)
    PROVE  QueueInv'
<1> USE WorkerAssumption DEF QueueInv
<1>1. QueueTypeOK'
  BY DEF Drop, QueueTypeOK
<1>2. PendingCounts' /\ LimitInv'
  BY DEF Drop, PendingCounts, Entering, Leaving, LimitInv
<1>3. pending[w] >= 1
  BY QueueLength DEF Drop, HasRoom
<1>4. stage[w] = "picked" \/ queue[w] # <<>> \/ submitting[w] # None
  BY <1>3, QueueLength, Ones DEF Drop, PendingCounts
<1>5. RestInv'
  BY <1>4 DEF Drop, RestInv, QueueTypeOK
<1>6. QED
  BY <1>1, <1>2, <1>5

LEMMA EnqueueStep ==
    ASSUME QueueInv, NEW w \in Workers, Enqueue(w)
    PROVE  QueueInv'
<1> USE DEF QueueInv
<1>1. submitting[w] \in Batches /\ queue[w] \in Seq(Batches)
  BY DEF Enqueue, QueueTypeOK
<1> DEFINE q == Append(queue[w], submitting[w])
<1>2. q \in Seq(Batches) /\ Len(q) = Len(queue[w]) + 1 /\ q # <<>>
  BY <1>1
<1>3. /\ queue' = [queue EXCEPT ![w] = q]
      /\ submitting' = [submitting EXCEPT ![w] = None]
      /\ UNCHANGED <<fresh, pending, current, stage, last_status>>
  BY DEF Enqueue, QueueTypeOK, statusVars
<1> HIDE DEF q
<1>4. QueueTypeOK'
  BY <1>2, <1>3 DEF QueueTypeOK
<1>5. ASSUME NEW v \in Workers
      PROVE  /\ queue'[v] = IF v = w THEN q ELSE queue[v]
             /\ submitting'[v] = IF v = w THEN None ELSE submitting[v]
             /\ Len(queue[v]) \in Nat
  BY <1>3, QueueLength DEF QueueTypeOK
<1>6. submitting[w] # None
  BY DEF Enqueue
<1>7. PendingCounts'
  <2>1. ASSUME NEW v \in Workers
        PROVE  /\ Entering(v)' = IF v = w THEN 0 ELSE Entering(v)
               /\ v = w => Entering(v) = 1
               /\ Leaving(v)' = Leaving(v)
    BY <1>3, <1>5, <1>6 DEF Entering, Leaving
  <2>2. ASSUME NEW v \in Workers
        PROVE  pending'[v] - Len(queue[v])' - Entering(v)' - Leaving(v)'
                 = pending[v] - Len(queue[v]) - Entering(v) - Leaving(v)
    <3>0. pending'[v] = pending[v] /\ pending[v] \in Nat
      BY <1>3, QueueLength
    <3>1. CASE v = w
      BY <1>2, <1>5, <2>1, <3>0, <3>1, Ones
    <3>2. CASE v # w
      BY <1>5, <2>1, <3>0, <3>2, Ones
    <3>3. QED
      BY <3>1, <3>2
  <2>3. QED
    BY <1>4, <2>2, CountKept
<1>8. LimitInv'
  BY <1>3 DEF LimitInv
<1>9. RestInv'
  BY <1>2, <1>3, <1>5 DEF RestInv
<1>10. QED
  BY <1>4, <1>7, <1>8, <1>9

LEMMA PickStep ==
    ASSUME QueueInv, NEW w \in Workers, Pick(w)
    PROVE  QueueInv'
<1> USE DEF QueueInv
<1> DEFINE q == Tail(queue[w])
<1>1. /\ Head(queue[w]) \in Batches
      /\ q \in Seq(Batches)
      /\ Len(q) = Len(queue[w]) - 1
  BY QueueLength, HeadAndTail DEF Pick
<1>2. /\ stage[w] = "idle"
      /\ queue' = [queue EXCEPT ![w] = q]
      /\ current' = [current EXCEPT ![w] = Head(queue[w])]
      /\ stage' = [stage EXCEPT ![w] = "picked"]
      /\ UNCHANGED <<fresh, submitting, pending, last_status>>
  BY DEF Pick, QueueTypeOK, statusVars
<1> HIDE DEF q
<1>3. QueueTypeOK'
  BY <1>1, <1>2 DEF QueueTypeOK, Stages
<1>4. ASSUME NEW v \in Workers
      PROVE  /\ queue'[v] = IF v = w THEN q ELSE queue[v]
             /\ stage'[v] = IF v = w THEN "picked" ELSE stage[v]
             /\ v # w => current'[v] = current[v]
             /\ Len(queue[v]) \in Nat
  BY <1>2, QueueLength DEF QueueTypeOK
<1>5. PendingCounts'
  <2>1. ASSUME NEW v \in Workers
        PROVE  /\ Leaving(v)' = IF v = w THEN 1 ELSE Leaving(v)
               /\ v = w => Leaving(v) = 0
               /\ Entering(v)' = Entering(v)
    BY <1>2, <1>4 DEF Entering, Leaving
  <2>2. ASSUME NEW v \in Workers
        PROVE  pending'[v] - Len(queue[v])' - Entering(v)' - Leaving(v)'
                 = pending[v] - Len(queue[v]) - Entering(v) - Leaving(v)
    <3>0. pending'[v] = pending[v] /\ pending[v] \in Nat
      BY <1>2, QueueLength
    <3>1. CASE v = w
      BY <1>1, <1>4, <2>1, <3>0, <3>1, Ones
    <3>2. CASE v # w
      BY <1>4, <2>1, <3>0, <3>2, Ones
    <3>3. QED
      BY <3>1, <3>2
  <2>3. QED
    BY <1>3, <2>2, CountKept
<1>6. LimitInv'
  BY <1>2 DEF LimitInv
<1>7. RestInv'
  BY <1>2, <1>4 DEF RestInv
<1>8. QED
  BY <1>3, <1>5, <1>6, <1>7

LEMMA StartStep ==
    ASSUME QueueInv, NEW w \in Workers, Start(w)
    PROVE  QueueInv'
<1> USE WorkerAssumption DEF QueueInv
<1>1. /\ stage[w] = "picked"
      /\ pending' = [pending EXCEPT ![w] = @ - 1]
      /\ stage' = [stage EXCEPT ![w] = "started"]
      /\ UNCHANGED <<fresh, submitting, queue, current, last_status>>
  BY DEF Start, statusVars
<1>2. pending[w] \in Nat /\ pending[w] >= 1
  <2>1. pending[w] = Len(queue[w]) + Entering(w) + Leaving(w)
    BY DEF PendingCounts
  <2>2. QED
    BY <1>1, <2>1, QueueLength, Ones
<1>3. ASSUME NEW v \in Workers
      PROVE  /\ pending'[v] = IF v = w THEN pending[v] - 1 ELSE pending[v]
             /\ stage'[v] = IF v = w THEN "started" ELSE stage[v]
             /\ Len(queue[v]) \in Nat /\ pending[v] \in Nat
  BY <1>1, QueueLength DEF QueueTypeOK
<1>4. QueueTypeOK'
  BY <1>1, <1>2 DEF QueueTypeOK, Stages
<1>5. PendingCounts'
  <2>1. ASSUME NEW v \in Workers
        PROVE  /\ Leaving(v)' = IF v = w THEN 0 ELSE Leaving(v)
               /\ v = w => Leaving(v) = 1
               /\ Entering(v)' = Entering(v)
    BY <1>1, <1>3 DEF Entering, Leaving
  <2>2. ASSUME NEW v \in Workers
        PROVE  pending'[v] - Len(queue[v])' - Entering(v)' - Leaving(v)'
                 = pending[v] - Len(queue[v]) - Entering(v) - Leaving(v)
    <3>1. CASE v = w
      BY <1>1, <1>3, <2>1, <3>1, Ones
    <3>2. CASE v # w
      BY <1>1, <1>3, <2>1, <3>2, Ones
    <3>3. QED
      BY <3>1, <3>2
  <2>3. QED
    BY <1>4, <2>2, CountKept
<1>6. LimitInv'
  BY <1>3 DEF LimitInv
<1>7. RestInv'
  BY <1>1, <1>3 DEF RestInv
<1>8. QED
  BY <1>4, <1>5, <1>6, <1>7

(* The rest of the task does not touch the queue. *)
LEMMA TaskStep ==
    ASSUME QueueInv, NEW w \in Workers,
           Reset(w) \/ Answered(w) \/ AskFails(w) \/ Close(w) \/ Notify(w)
    PROVE  QueueInv'
<1> USE DEF QueueInv
<1>1. UNCHANGED <<fresh, submitting, queue, pending, current>>
  BY DEF Reset, Answered, AskFails, Close, Notify, queueVars
<1>2. PICK s \in Stages \ {"picked"} : stage' = [stage EXCEPT ![w] = s]
  <2>1. CASE Reset(w)
    BY <2>1 DEF Reset, Stages
  <2>2. CASE Answered(w)
    BY <2>2 DEF Answered, Stages
  <2>3. CASE AskFails(w)
    BY <2>3 DEF AskFails, Stages
  <2>4. CASE Close(w)
    BY <2>4 DEF Close, Stages
  <2>5. CASE Notify(w)
    BY <2>5 DEF Notify, Stages
  <2>6. QED
    BY <2>1, <2>2, <2>3, <2>4, <2>5
<1>3. stage[w] # "picked" /\ stage[w] # "idle"
  BY DEF Reset, Answered, AskFails, Close, Notify
<1>4. \/ UNCHANGED last_status /\ (stage[w] = "closed" \/ s \notin {"idle", "closed"})
      \/ \E r \in {"SUCCESS", "FAILED", "TIMEOUT"} :
            last_status' = [last_status EXCEPT ![w] = r]
  <2>1. CASE Reset(w)
    BY <1>2, <2>1 DEF Reset, QueueTypeOK
  <2>2. CASE Answered(w)
    BY <1>2, <2>2 DEF Answered, QueueTypeOK
  <2>3. CASE AskFails(w)
    BY <1>2, <2>3 DEF AskFails, QueueTypeOK, statusVars
  <2>4. CASE Close(w)
    BY <2>4 DEF Close
  <2>5. CASE Notify(w)
    BY <2>5 DEF Notify, statusVars
  <2>6. QED
    BY <2>1, <2>2, <2>3, <2>4, <2>5
<1>5. ASSUME NEW v \in Workers
      PROVE  /\ stage'[v] = IF v = w THEN s ELSE stage[v]
             /\ v # w => last_status'[v] = last_status[v]
  BY <1>2, <1>4 DEF QueueTypeOK
<1>6. QueueTypeOK'
  BY <1>1, <1>2, <1>4 DEF QueueTypeOK
<1>7. PendingCounts' /\ LimitInv'
  BY <1>1, <1>2, <1>3, <1>5 DEF PendingCounts, Entering, Leaving, LimitInv
<1>8. RestInv'
  BY <1>1, <1>4, <1>5 DEF RestInv, QueueTypeOK
<1>9. QED
  BY <1>6, <1>7, <1>8

LEMMA QueueAlways == Spec => []QueueInv
<1>1. QueueInv /\ [Next]_vars => QueueInv'
  <2> SUFFICES ASSUME QueueInv, [Next]_vars  PROVE QueueInv'
    OBVIOUS
  <2>1. CASE NewDay \/ UNCHANGED vars
    BY <2>1 DEF NewDay, vars, queueVars, statusVars, QueueInv, QueueTypeOK,
                PendingCounts, Entering, Leaving, LimitInv, RestInv
  <2>2. CASE \E w \in Workers :
                \/ \E b \in Batches : Accept(w, b) \/ Drop(w, b)
                \/ Enqueue(w)
                \/ Task(w)
    BY <2>2, AcceptStep, DropStep, EnqueueStep, PickStep, StartStep, TaskStep
    DEF Task
  <2>3. QED
    BY <2>1, <2>2 DEF Next
<1>2. QED
  BY <1>1, QueueInit, PTL DEF Spec

(* The counter the limit is read from is the number of waiting batches, at *)
(* every point of a submit and a task.                                     *)
THEOREM CounterCorrect == Spec => []PendingCounts
BY QueueAlways, PTL DEF QueueInv

(* A worker never has more than the limit and one batch on its hands. *)
THEOREM BacklogCorrect == Spec => []BacklogBounded
<1>1. QueueInv => BacklogBounded
  <2> SUFFICES ASSUME QueueInv, NEW w \in Workers
               PROVE  Backlog(w) <= AI_WORKER_MAX_PENDING + 1
    BY DEF BacklogBounded
  <2>1. /\ pending[w] = Len(queue[w]) + Entering(w) + Leaving(w)
        /\ pending[w] <= AI_WORKER_MAX_PENDING
    BY DEF QueueInv, PendingCounts, LimitInv
  <2>2. QED
    BY <2>1, WorkerAssumption, QueueLength, Ones DEF QueueInv, Backlog
<1>2. QED
  BY <1>1, QueueAlways, PTL

(* The limit and the counter it is read from, as the run checks them. *)
THEOREM QueueCorrect == Spec => []QueueHeld
BY CounterCorrect, BacklogCorrect, PTL DEF QueueHeld

(* A worker at rest shows a result. *)
THEOREM StatusCorrect == Spec => []StatusSettles
<1>1. QueueInv => StatusSettles
  <2> SUFFICES ASSUME QueueInv, NEW w \in Workers,
                      Backlog(w) = 0, current[w] # None
               PROVE  last_status[w] \in {"SUCCESS", "FAILED", "TIMEOUT"}
    BY DEF StatusSettles
  <2>1. Len(queue[w]) = 0 /\ Entering(w) = 0 /\ InTask(w) = 0
    BY QueueLength, Ones DEF QueueInv, Backlog
  <2>2. queue[w] = <<>> /\ submitting[w] = None /\ stage[w] = "idle"
    BY <2>1, QueueLength, Ones DEF QueueInv
  <2>3. QED
    BY <2>2 DEF QueueInv, RestInv
<1>2. QED
  BY <1>1, QueueAlways, PTL

-----------------------------------------------------------------------------
(* The owner is told once a day: the flag of today is up once today's      *)
(* notice went out, and no notice belongs to a day that is still to come.  *)
NoticeInv ==
    /\ OneNoticeADay
    /\ \A d \in 0..MaxDay : d > day => notices[d] = 0
    /\ notices[day] = 1 => notice.day = day /\ notice.sent

(* The variables of the tasks and of the file have their types. *)
AuditTypeOK ==
    /\ last_expected \in [Workers -> Nat]
    /\ last_answered \in [Workers -> Nat]
    /\ last_tally \in [Workers -> [Labels -> Nat]]
    /\ last_error \in [Workers -> BOOLEAN]
    /\ rows \subseteq Row
    /\ partial \subseteq Batches

NoticeTypeOK ==
    /\ day \in 0..MaxDay
    /\ spent \in BOOLEAN
    /\ notice \in [day : 0..MaxDay \cup {None}, sent : BOOLEAN]
    /\ notices \in [0..MaxDay -> Nat]

(* A batch is in one place: with the scans, with the submit of one worker, *)
(* at one place of one queue, or the last task of one worker.              *)
PlaceInv ==
    /\ \A w \in Workers : submitting[w] \notin fresh /\ current[w] \notin fresh
    /\ \A w \in Workers : \A i \in 1..Len(queue[w]) : queue[w][i] \notin fresh
    /\ \A v, w \in Workers :
          /\ submitting[v] = submitting[w] /\ submitting[v] # None => v = w
          /\ current[v] = current[w] /\ current[v] # None => v = w
          /\ submitting[v] = current[w] => submitting[v] = None
    /\ \A v, w \in Workers : \A i \in 1..Len(queue[w]) :
          queue[w][i] # submitting[v] /\ queue[w][i] # current[v]
    /\ \A v, w \in Workers : \A i \in 1..Len(queue[v]), k \in 1..Len(queue[w]) :
          queue[v][i] = queue[w][k] => v = w /\ i = k

(* Only a batch that was asked about has rows. *)
Unasked == {"picked", "started", "asking"}

AuditedOnly ==
    \A r \in rows :
        /\ r.batch \notin fresh
        /\ \A w \in Workers :
              /\ submitting[w] # r.batch
              /\ \A i \in 1..Len(queue[w]) : queue[w][i] # r.batch
              /\ current[w] = r.batch => stage[w] \notin Unasked

(* What the snapshot says of the task that runs, and of one that failed. *)
TaskInv ==
    \A w \in Workers :
        /\ stage[w] # "idle" => current[w] # None
        /\ stage[w] \in {"asking", "answered", "failed", "timed_out"} =>
              last_expected[w] = Cardinality(DOMAIN Records[current[w]])
        /\ stage[w] \in {"asking", "failed", "timed_out"} =>
              last_answered[w] = 0 /\ last_tally[w] = NoTally
        /\ stage[w] \in {"idle", "closed"}
              /\ last_status[w] \in {"FAILED", "TIMEOUT"} =>
              /\ last_answered[w] = 0
              /\ last_error[w]
              /\ last_expected[w] = Cardinality(DOMAIN Records[current[w]])

(* The file agrees with the snapshot from the moment the rows are written. *)
MatchInv ==
    \A w \in Workers :
        stage[w] \notin Unasked /\ current[w] # None /\ current[w] \notin partial
        => RowsMatch(w)

(* The sets of symbols a batch is counted by are finite. *)
LEMMA SymbolsFinite ==
    ASSUME NEW b \in Batches, NEW S \in SUBSET DOMAIN Records[b]
    PROVE  IsFiniteSet(S) /\ Cardinality(S) \in Nat
BY WorkerAssumption, FS_Subset, FS_CardinalityType

LEMMA TallyType ==
    ASSUME NEW b \in Batches, NEW verdict
    PROVE  Tally(b, verdict) \in [Labels -> Nat]
<1> DEFINE syms == DOMAIN Records[b]
<1>1. ASSUME NEW l \in Labels
      PROVE  /\ Cardinality({s \in syms : verdict[s] = l}) \in Nat
             /\ Cardinality({s \in syms : verdict[s] = None}) \in Nat
             /\ Cardinality({s \in syms :
                               Agreement(Records[b][s], verdict[s]) = l}) \in Nat
  <2>1. /\ {s \in syms : verdict[s] = l} \in SUBSET syms
        /\ {s \in syms : verdict[s] = None} \in SUBSET syms
        /\ {s \in syms : Agreement(Records[b][s], verdict[s]) = l} \in SUBSET syms
    OBVIOUS
  <2>2. QED
    BY <2>1, SymbolsFinite
<1>2. QED
  BY <1>1, Zenon DEF Tally

LEMMA RowType ==
    ASSUME NEW b \in Batches, NEW s \in DOMAIN Records[b],
           NEW opinion \in Opinions \cup {None},
           NEW status \in {"SUCCESS", "FAILED", "TIMEOUT"}
    PROVE  RowFor(b, s, opinion, status) \in Row
<1>1. s \in Symbols
  BY DEF Symbols
<1>2. Agreement(Records[b][s], opinion) \in Labels
  BY WorkerAssumption DEF Agreement, Labels
<1>3. RowStatus(status, opinion) \in {"SUCCESS", "UNAVAILABLE", "FAILED", "TIMEOUT"}
  BY DEF RowStatus
<1>4. QED
  BY <1>1, <1>2, <1>3 DEF RowFor, Row

(* What a write leaves behind, whole or cut short. *)
LEMMA RowsWritten ==
    ASSUME rows \subseteq Row, partial \subseteq Batches, NEW b \in Batches,
           NEW verdict \in [DOMAIN Records[b] -> Opinions \cup {None}],
           NEW status \in {"SUCCESS", "FAILED", "TIMEOUT"},
           WriteRows(b, verdict, status)
    PROVE  /\ rows' \subseteq Row /\ partial' \subseteq Batches
           /\ rows \subseteq rows' /\ partial \subseteq partial'
           /\ \A r \in rows' \ rows : r.batch = b
           /\ b \in partial' \/
              rows' = rows \cup {RowFor(b, s, verdict[s], status) :
                                   s \in DOMAIN Records[b]}
<1> DEFINE new == {RowFor(b, s, verdict[s], status) : s \in DOMAIN Records[b]}
<1>1. new \subseteq Row
  BY RowType
<1>2. \A r \in new : r.batch = b
  BY DEF RowFor
<1>3. \/ rows' = rows \cup new /\ UNCHANGED partial
      \/ \E part \in SUBSET new :
            rows' = rows \cup part /\ partial' = partial \cup {b}
  BY DEF WriteRows
<1> HIDE DEF new
<1>4. QED
  BY <1>1, <1>2, <1>3 DEF new

(* The task a worker works on is one of the batches. *)
LEMMA CurrentBatch ==
    ASSUME QueueTypeOK, TaskInv, NEW w \in Workers, stage[w] # "idle"
    PROVE  current[w] \in Batches
BY DEF QueueTypeOK, TaskInv

LEMMA AuditTypeStep ==
    ASSUME QueueTypeOK, TaskInv, AuditTypeOK, [Next]_vars
    PROVE  AuditTypeOK'
<1>1. ASSUME NEW w \in Workers, Reset(w)  PROVE AuditTypeOK'
  <2>1. Cardinality(DOMAIN Records[current[w]]) \in Nat
    BY <1>1, CurrentBatch, SymbolsFinite DEF Reset
  <2>2. NoTally \in [Labels -> Nat]
    BY DEF NoTally
  <2>3. UNCHANGED <<rows, partial>>
    BY <1>1 DEF Reset
  <2>4. last_error' \in [Workers -> BOOLEAN]
    BY <1>1, Zenon DEF Reset, AuditTypeOK
  <2>5. QED
    BY <1>1, <2>1, <2>2, <2>3, <2>4 DEF Reset, AuditTypeOK
<1>2. ASSUME NEW w \in Workers, Answered(w)  PROVE AuditTypeOK'
  <2>1. current[w] \in Batches
    BY <1>2, CurrentBatch DEF Answered
  <2>2. PICK verdict \in [DOMAIN Records[current[w]] -> Opinions \cup {None}] :
           LET t == Tally(current[w], verdict) IN
           /\ WriteRows(current[w], verdict, "SUCCESS")
           /\ last_tally' = [last_tally EXCEPT ![w] = t]
           /\ last_answered' = [last_answered EXCEPT ![w] =
                                   t["LONG"] + t["SHORT"] + t["NO_TRADE"]]
    BY <1>2 DEF Answered
  <2> DEFINE t == Tally(current[w], verdict)
  <2>3. t \in [Labels -> Nat]
    BY <2>1, TallyType
  <2> HIDE DEF t
  <2>4. t["LONG"] + t["SHORT"] + t["NO_TRADE"] \in Nat
    BY <2>3 DEF Labels
  <2>5. rows' \subseteq Row /\ partial' \subseteq Batches
    BY <2>1, <2>2, RowsWritten DEF AuditTypeOK
  <2>6. /\ last_tally' = [last_tally EXCEPT ![w] = t]
        /\ last_answered' = [last_answered EXCEPT ![w] =
                                t["LONG"] + t["SHORT"] + t["NO_TRADE"]]
    BY <2>2 DEF t
  <2>7. UNCHANGED <<last_expected, last_error>>
    BY <1>2 DEF Answered
  <2>8. QED
    BY <2>3, <2>4, <2>5, <2>6, <2>7 DEF AuditTypeOK
<1>3. ASSUME NEW w \in Workers, AskFails(w)  PROVE AuditTypeOK'
  <2>1. current[w] \in Batches
    BY <1>3, CurrentBatch DEF AskFails
  <2>2. PICK failure \in {"FAILED", "TIMEOUT"} :
           WriteRows(current[w], [s \in DOMAIN Records[current[w]] |-> None],
                     failure)
    BY <1>3 DEF AskFails
  <2>3. rows' \subseteq Row /\ partial' \subseteq Batches
    BY <2>1, <2>2, RowsWritten DEF AuditTypeOK
  <2>4. QED
    BY <1>3, <2>3 DEF AskFails, statusVars, AuditTypeOK
<1>4. ASSUME NEW w \in Workers, Close(w)  PROVE AuditTypeOK'
  <2>1. last_error' \in [Workers -> BOOLEAN]
    <3>1. (last_error[w] \/ stage[w] # "answered") \in BOOLEAN
      BY Zenon
    <3>2. QED
      BY <1>4, <3>1, Zenon DEF Close, AuditTypeOK
  <2>2. QED
    BY <1>4, <2>1 DEF Close, AuditTypeOK
<1>5. ASSUME NEW w \in Workers,
             \/ \E b \in Batches : Accept(w, b) \/ Drop(w, b)
             \/ Enqueue(w) \/ Pick(w) \/ Start(w) \/ Notify(w)
      PROVE  AuditTypeOK'
  BY <1>5 DEF Accept, Drop, Enqueue, Pick, Start, Notify, statusVars, AuditTypeOK
<1>6. ASSUME NewDay \/ UNCHANGED vars  PROVE AuditTypeOK'
  BY <1>6 DEF NewDay, vars, statusVars, AuditTypeOK
<1>7. QED
  BY <1>1, <1>2, <1>3, <1>4, <1>5, <1>6 DEF Next, Task

LEMMA NoticeTypeStep ==
    ASSUME NoticeTypeOK, [Next]_vars
    PROVE  NoticeTypeOK'
<1> USE WorkerAssumption
<1>1. ASSUME NEW w \in Workers, Notify(w)  PROVE NoticeTypeOK'
  <2>1. notice' \in [day : 0..MaxDay \cup {None}, sent : BOOLEAN]
    <3>1. (notice.day = day /\ notice.sent) \in BOOLEAN /\ TRUE \in BOOLEAN
      BY Zenon
    <3>2. notice' = [day |-> day, sent |-> TRUE]
          \/ notice' = [day |-> day, sent |-> notice.day = day /\ notice.sent]
      BY <1>1, Zenon DEF Notify
    <3>3. PICK x \in BOOLEAN : notice' = [day |-> day, sent |-> x]
      BY <3>1, <3>2, Zenon
    <3>4. QED
      BY <3>3 DEF NoticeTypeOK
  <2>2. notices' \in [0..MaxDay -> Nat] /\ UNCHANGED <<day, spent>>
    BY <1>1 DEF Notify, NoticeTypeOK
  <2>3. QED
    BY <2>1, <2>2 DEF NoticeTypeOK
<1>2. ASSUME NEW w \in Workers, Answered(w) \/ AskFails(w)  PROVE NoticeTypeOK'
  <2>1. PICK s \in BOOLEAN : spent' = (spent \/ s)
    BY <1>2, Zenon DEF Answered, AskFails
  <2>2. spent' \in BOOLEAN
    BY <2>1, Zenon
  <2>3. UNCHANGED <<day, notice, notices>>
    BY <1>2 DEF Answered, AskFails
  <2>4. QED
    BY <2>2, <2>3, Zenon DEF NoticeTypeOK
<1>3. ASSUME NewDay  PROVE NoticeTypeOK'
  <2>1. day' \in 0..MaxDay
    BY <1>3 DEF NewDay, NoticeTypeOK
  <2>2. spent' \in BOOLEAN /\ UNCHANGED <<notice, notices>>
    BY <1>3 DEF NewDay
  <2>3. QED
    BY <2>1, <2>2, Zenon DEF NoticeTypeOK
<1>4. ASSUME UNCHANGED noticeVars  PROVE NoticeTypeOK'
  BY <1>4 DEF noticeVars, NoticeTypeOK
<1>5. ASSUME NEW w \in Workers,
             \/ \E b \in Batches : Accept(w, b) \/ Drop(w, b)
             \/ Enqueue(w) \/ Pick(w) \/ Start(w) \/ Reset(w) \/ Close(w)
      PROVE  UNCHANGED noticeVars
  BY <1>5 DEF Accept, Drop, Enqueue, Pick, Start, Reset, Close
<1>6. ASSUME UNCHANGED vars  PROVE UNCHANGED noticeVars
  BY <1>6 DEF vars
<1>7. QED
  BY <1>1, <1>2, <1>3, <1>4, <1>5, <1>6 DEF Next, Task

(* A notice goes out while none of today did, and a new day has none. *)
LEMMA NoticeStep ==
    ASSUME NoticeTypeOK, NoticeInv, [Next]_vars
    PROVE  NoticeInv'
<1> USE WorkerAssumption DEF NoticeTypeOK
<1>1. ASSUME NEW w \in Workers, Notify(w)  PROVE NoticeInv'
  <2>1. CASE NoticeDue
    <3>1. /\ notice' = [day |-> day, sent |-> TRUE]
          /\ notices' = [notices EXCEPT ![day] = notices[day] + 1]
          /\ day' = day
      BY <1>1, <2>1 DEF Notify
    <3>2. notices[day] # 1 /\ notices[day] <= 1 /\ notices[day] \in Nat
      BY <2>1 DEF NoticeDue, NoticeInv, OneNoticeADay
    <3>3. QED
      BY <3>1, <3>2 DEF NoticeInv, OneNoticeADay
  <2>2. CASE ~NoticeDue
    <3>1. /\ notice' = [day |-> day, sent |-> notice.day = day /\ notice.sent]
          /\ notices' = notices /\ day' = day
      BY <1>1, <2>2 DEF Notify
    <3>2. notice'.day = day /\ (notice'.sent <=> notice.day = day /\ notice.sent)
      BY <3>1
    <3>3. QED
      BY <3>1, <3>2 DEF NoticeInv, OneNoticeADay
  <2>3. QED
    BY <2>1, <2>2
<1>2. ASSUME NewDay  PROVE NoticeInv'
  BY <1>2 DEF NewDay, NoticeInv, OneNoticeADay
<1>3. ASSUME UNCHANGED <<day, notice, notices>>  PROVE NoticeInv'
  BY <1>3 DEF NoticeInv, OneNoticeADay
<1>4. ASSUME NEW w \in Workers,
             \/ \E b \in Batches : Accept(w, b) \/ Drop(w, b)
             \/ Enqueue(w) \/ Pick(w) \/ Start(w) \/ Reset(w) \/ Answered(w)
             \/ AskFails(w) \/ Close(w)
      PROVE  UNCHANGED <<day, notice, notices>>
  BY <1>4 DEF Accept, Drop, Enqueue, Pick, Start, Reset, Answered, AskFails,
              Close, noticeVars
<1>5. ASSUME UNCHANGED vars  PROVE UNCHANGED <<day, notice, notices>>
  BY <1>5 DEF vars, noticeVars
<1>6. QED
  BY <1>1, <1>2, <1>3, <1>4, <1>5 DEF Next, Task

(* The owner hears of a spent budget at most once a day. *)
THEOREM NoticeCorrect == Spec => []OneNoticeADay
<1>1. Init => NoticeTypeOK /\ NoticeInv
  <2> SUFFICES ASSUME Init  PROVE NoticeTypeOK /\ NoticeInv
    OBVIOUS
  <2>1. day = 0 /\ spent = FALSE /\ notices = [d \in 0..MaxDay |-> 0]
    BY DEF Init
  <2>2. notice = [day |-> None, sent |-> FALSE]
    BY DEF Init
  <2>3. 0 \in 0..MaxDay
    BY WorkerAssumption
  <2>4. notice \in [day : 0..MaxDay \cup {None}, sent : BOOLEAN]
    BY <2>2
  <2>5. NoticeTypeOK
    BY <2>1, <2>3, <2>4 DEF NoticeTypeOK
  <2>6. NoticeInv
    BY <2>1, <2>3 DEF NoticeInv, OneNoticeADay
  <2>7. QED
    BY <2>5, <2>6
<1>2. NoticeTypeOK /\ NoticeInv /\ [Next]_vars => (NoticeTypeOK /\ NoticeInv)'
  BY NoticeTypeStep, NoticeStep
<1>3. NoticeInv => OneNoticeADay
  BY DEF NoticeInv
<1>4. QED
  BY <1>1, <1>2, <1>3, PTL DEF Spec

-----------------------------------------------------------------------------
(* Where the batches of a queue go when one enters and when one leaves. *)
LEMMA EntersLast ==
    ASSUME NEW S, NEW q \in Seq(S), NEW e \in S
    PROVE  /\ Len(Append(q, e)) = Len(q) + 1 /\ Len(q) \in Nat
           /\ \A i \in 1..Len(q) + 1 :
                 Append(q, e)[i] = IF i = Len(q) + 1 THEN e ELSE q[i]
OBVIOUS

LEMMA LeavesFirst ==
    ASSUME NEW S, NEW q \in Seq(S), q # <<>>
    PROVE  /\ 1 \in 1..Len(q) /\ Len(q) \in Nat /\ Head(q) = q[1]
           /\ Len(Tail(q)) = Len(q) - 1
           /\ \A i \in 1..Len(q) - 1 : Tail(q)[i] = q[i + 1]
OBVIOUS

LEMMA PlaceAccept ==
    ASSUME QueueTypeOK, PlaceInv, AuditedOnly, NEW w \in Workers,
           NEW b \in Batches, Accept(w, b)
    PROVE  PlaceInv' /\ AuditedOnly'
<1>1. /\ b \in fresh /\ b # None /\ submitting[w] = None
      /\ fresh' = fresh \ {b}
      /\ UNCHANGED <<queue, current, stage, rows>>
      /\ \A v \in Workers :
            submitting'[v] = IF v = w THEN b ELSE submitting[v]
  BY WorkerAssumption DEF Accept, QueueTypeOK
<1>2. PlaceInv'
  <2>1. \A v \in Workers :
           /\ submitting[v] # b /\ current[v] # b
           /\ \A i \in 1..Len(queue[v]) : queue[v][i] # b
    BY <1>1 DEF PlaceInv
  <2>2. \A v \in Workers : submitting'[v] \notin fresh' /\ current'[v] \notin fresh'
    BY <1>1 DEF PlaceInv
  <2>3. \A v \in Workers : \A i \in 1..Len(queue'[v]) : queue'[v][i] \notin fresh'
    BY <1>1 DEF PlaceInv
  <2>4. \A u, v \in Workers :
           /\ submitting'[u] = submitting'[v] /\ submitting'[u] # None => u = v
           /\ current'[u] = current'[v] /\ current'[u] # None => u = v
           /\ submitting'[u] = current'[v] => submitting'[u] = None
    BY <1>1, <2>1 DEF PlaceInv
  <2>5. \A u, v \in Workers : \A i \in 1..Len(queue'[v]) :
           queue'[v][i] # submitting'[u] /\ queue'[v][i] # current'[u]
    BY <1>1, <2>1 DEF PlaceInv
  <2>6. \A u, v \in Workers : \A i \in 1..Len(queue'[u]), k \in 1..Len(queue'[v]) :
           queue'[u][i] = queue'[v][k] => u = v /\ i = k
    BY <1>1 DEF PlaceInv
  <2>7. QED
    BY <2>2, <2>3, <2>4, <2>5, <2>6 DEF PlaceInv
<1>3. AuditedOnly'
  BY <1>1 DEF AuditedOnly
<1>4. QED
  BY <1>2, <1>3

LEMMA PlaceDrop ==
    ASSUME PlaceInv, AuditedOnly, NEW w \in Workers, NEW b \in Batches, Drop(w, b)
    PROVE  PlaceInv' /\ AuditedOnly'
<1>1. fresh' = fresh \ {b} /\ UNCHANGED <<submitting, queue, current, stage, rows>>
  BY DEF Drop
<1>2. PlaceInv'
  BY <1>1 DEF PlaceInv
<1>3. AuditedOnly'
  BY <1>1 DEF AuditedOnly
<1>4. QED
  BY <1>2, <1>3

LEMMA PlaceEnqueue ==
    ASSUME QueueTypeOK, rows \subseteq Row, PlaceInv, AuditedOnly, NEW w \in Workers, Enqueue(w)
    PROVE  PlaceInv' /\ AuditedOnly'
<1> PICK b \in Batches : b = submitting[w]
  BY DEF Enqueue, QueueTypeOK
<1> DEFINE n == Len(queue[w]) + 1
<1>1. /\ b # None /\ queue[w] \in Seq(Batches) /\ n \in Nat
      /\ UNCHANGED <<fresh, current, stage, rows>>
      /\ \A v \in Workers :
            /\ submitting'[v] = IF v = w THEN None ELSE submitting[v]
            /\ queue'[v] = IF v = w THEN Append(queue[w], b) ELSE queue[v]
  BY QueueLength DEF Enqueue, QueueTypeOK
<1>2. /\ Len(queue'[w]) = n
      /\ \A i \in 1..n : queue'[w][i] = IF i = n THEN b ELSE queue[w][i]
      /\ \A i \in 1..n : i # n => i \in 1..Len(queue[w])
  <2>1. /\ Len(Append(queue[w], b)) = Len(queue[w]) + 1 /\ Len(queue[w]) \in Nat
        /\ \A i \in 1..Len(queue[w]) + 1 :
              Append(queue[w], b)[i] =
                  IF i = Len(queue[w]) + 1 THEN b ELSE queue[w][i]
    BY <1>1, EntersLast
  <2>2. queue'[w] = Append(queue[w], b)
    BY <1>1
  <2>3. \A i \in 1..n : i # n => i \in 1..Len(queue[w])
    BY <2>1
  <2>4. QED
    BY <2>1, <2>2, <2>3
<1>3. \A v \in Workers : \A i \in 1..Len(queue'[v]) :
         \/ v = w /\ i = n /\ queue'[v][i] = b
         \/ i \in 1..Len(queue[v]) /\ queue'[v][i] = queue[v][i]
  BY <1>1, <1>2
<1>4. \A v \in Workers :
         /\ v # w => submitting[v] # b
         /\ current[v] # b
         /\ \A i \in 1..Len(queue[v]) : queue[v][i] # b
  BY <1>1 DEF PlaceInv
<1>5. b \notin fresh /\ None \notin fresh
  BY WorkerAssumption DEF PlaceInv, QueueTypeOK
<1> HIDE DEF n
<1>6. \A v \in Workers : \A i \in 1..Len(queue[v]) :
         queue[v][i] \in Batches /\ queue[v][i] # None
  BY WorkerAssumption DEF QueueTypeOK
<1>7. PlaceInv'
  <2>1. \A v \in Workers : submitting'[v] \notin fresh' /\ current'[v] \notin fresh'
    BY <1>1, <1>5 DEF PlaceInv
  <2>2. \A v \in Workers : \A i \in 1..Len(queue'[v]) : queue'[v][i] \notin fresh'
    BY <1>1, <1>3, <1>5 DEF PlaceInv
  <2>3. \A u, v \in Workers :
           /\ submitting'[u] = submitting'[v] /\ submitting'[u] # None => u = v
           /\ current'[u] = current'[v] /\ current'[u] # None => u = v
           /\ submitting'[u] = current'[v] => submitting'[u] = None
    BY <1>1 DEF PlaceInv
  <2>4. \A u, v \in Workers : \A i \in 1..Len(queue'[v]) :
           queue'[v][i] # submitting'[u] /\ queue'[v][i] # current'[u]
    BY <1>1, <1>3, <1>4, <1>6 DEF PlaceInv
  <2>5. \A u, v \in Workers : \A i \in 1..Len(queue'[u]), k \in 1..Len(queue'[v]) :
           queue'[u][i] = queue'[v][k] => u = v /\ i = k
    BY <1>3, <1>4 DEF PlaceInv
  <2>6. QED
    BY <2>1, <2>2, <2>3, <2>4, <2>5 DEF PlaceInv
<1>8. AuditedOnly'
  <2>1. \A r \in rows : r.batch # b /\ r.batch \notin fresh
    BY DEF AuditedOnly
  <2>2. ASSUME NEW r \in rows, NEW v \in Workers
        PROVE  /\ submitting'[v] # r.batch \/ submitting'[v] = None
               /\ \A i \in 1..Len(queue'[v]) : queue'[v][i] # r.batch
               /\ current'[v] = r.batch => stage'[v] \notin Unasked
    BY <1>1, <1>3, <2>1 DEF AuditedOnly
  <2>3. \A r \in rows : r.batch # None
    BY WorkerAssumption DEF Row, AuditedOnly
  <2>4. QED
    BY <1>1, <2>1, <2>2, <2>3 DEF AuditedOnly
<1>9. QED
  BY <1>7, <1>8

LEMMA PlacePick ==
    ASSUME QueueTypeOK, PlaceInv, AuditedOnly, NEW w \in Workers, Pick(w)
    PROVE  PlaceInv' /\ AuditedOnly'
<1>1. queue[w] \in Seq(Batches) /\ queue[w] # <<>>
  BY DEF Pick, QueueTypeOK
<1>2. /\ 1 \in 1..Len(queue[w]) /\ Len(queue[w]) \in Nat
      /\ Head(queue[w]) = queue[w][1]
      /\ Len(Tail(queue[w])) = Len(queue[w]) - 1
      /\ \A i \in 1..Len(queue[w]) - 1 : Tail(queue[w])[i] = queue[w][i + 1]
  BY <1>1, LeavesFirst
<1> PICK b \in Batches : b = queue[w][1]
  BY <1>1, <1>2
<1>3. /\ UNCHANGED <<fresh, submitting, rows>>
      /\ \A v \in Workers :
            /\ current'[v] = IF v = w THEN b ELSE current[v]
            /\ queue'[v] = IF v = w THEN Tail(queue[w]) ELSE queue[v]
            /\ stage'[v] = IF v = w THEN "picked" ELSE stage[v]
  BY <1>2 DEF Pick, QueueTypeOK
<1>4. \A v \in Workers : \A i \in 1..Len(queue'[v]) :
         \/ v = w /\ i + 1 \in 1..Len(queue[w]) /\ i + 1 # 1
              /\ queue'[v][i] = queue[w][i + 1]
         \/ v # w /\ i \in 1..Len(queue[v]) /\ queue'[v][i] = queue[v][i]
  <2>1. ASSUME NEW i \in 1..Len(queue'[w])
        PROVE  /\ i + 1 \in 1..Len(queue[w]) /\ i + 1 # 1
               /\ queue'[w][i] = queue[w][i + 1]
    <3>1. queue'[w] = Tail(queue[w])
      BY <1>3
    <3>2. i \in 1..Len(queue[w]) - 1
      BY <1>2, <3>1
    <3>3. queue'[w][i] = queue[w][i + 1]
      BY <1>2, <3>1, <3>2
    <3>4. QED
      BY <1>2, <3>2, <3>3
  <2>2. ASSUME NEW v \in Workers, v # w  PROVE queue'[v] = queue[v]
    BY <1>3, <2>2
  <2>3. QED
    BY <2>1, <2>2
<1>5. \A v \in Workers :
         /\ submitting[v] # b /\ current[v] # b
         /\ \A i \in 1..Len(queue[v]) : queue[v][i] = b => v = w /\ i = 1
  BY <1>2 DEF PlaceInv
<1>6. b \notin fresh /\ b # None
  BY <1>2, WorkerAssumption DEF PlaceInv
<1>7. PlaceInv'
  <2>1. \A v \in Workers : submitting'[v] \notin fresh' /\ current'[v] \notin fresh'
    BY <1>3, <1>6 DEF PlaceInv
  <2>2. \A v \in Workers : \A i \in 1..Len(queue'[v]) : queue'[v][i] \notin fresh'
    BY <1>3, <1>4 DEF PlaceInv
  <2>3. \A u, v \in Workers :
           /\ submitting'[u] = submitting'[v] /\ submitting'[u] # None => u = v
           /\ current'[u] = current'[v] /\ current'[u] # None => u = v
           /\ submitting'[u] = current'[v] => submitting'[u] = None
    BY <1>3, <1>5 DEF PlaceInv
  <2>4. \A u, v \in Workers : \A i \in 1..Len(queue'[v]) :
           queue'[v][i] # submitting'[u] /\ queue'[v][i] # current'[u]
    BY <1>3, <1>4, <1>5 DEF PlaceInv
  <2>5. ASSUME NEW u \in Workers, NEW v \in Workers,
               NEW i \in 1..Len(queue'[u]), NEW k \in 1..Len(queue'[v]),
               queue'[u][i] = queue'[v][k]
        PROVE  u = v /\ i = k
    <3>1. CASE u = w /\ v = w
      <4>1. /\ i + 1 \in 1..Len(queue[w]) /\ k + 1 \in 1..Len(queue[w])
            /\ queue[w][i + 1] = queue[w][k + 1]
        BY <1>4, <2>5, <3>1
      <4>2. i + 1 = k + 1
        BY <4>1 DEF PlaceInv
      <4>3. i \in Int /\ k \in Int
        BY <1>2, <1>3, <3>1
      <4>4. QED
        BY <3>1, <4>2, <4>3
    <3>2. CASE ~(u = w /\ v = w)
      BY <1>4, <2>5, <3>2 DEF PlaceInv
    <3>3. QED
      BY <3>1, <3>2
  <2>6. QED
    BY <2>1, <2>2, <2>3, <2>4, <2>5 DEF PlaceInv
<1>8. AuditedOnly'
  <2>1. \A r \in rows : r.batch # b
    BY <1>2 DEF AuditedOnly
  <2>2. QED
    BY <1>3, <1>4, <2>1 DEF AuditedOnly
<1>9. QED
  BY <1>7, <1>8

(* The task of a worker writes rows of its own batch, which nobody else    *)
(* has, and does not touch the places of the others.                       *)
LEMMA PlaceTask ==
    ASSUME QueueTypeOK, AuditTypeOK, TaskInv, PlaceInv, AuditedOnly,
           NEW w \in Workers,
           \/ Start(w) \/ Reset(w) \/ Answered(w) \/ AskFails(w) \/ Close(w)
           \/ Notify(w)
    PROVE  PlaceInv' /\ AuditedOnly'
<1>1. UNCHANGED <<fresh, submitting, queue, current>>
  BY DEF Start, Reset, Answered, AskFails, Close, Notify, queueVars
<1>2. PlaceInv'
  BY <1>1 DEF PlaceInv
<1>3. CASE Start(w) \/ Reset(w) \/ Close(w) \/ Notify(w)
  <2>1. rows' = rows
    BY <1>3 DEF Start, Reset, Close, Notify
  <2>2. \A v \in Workers : stage'[v] \in Unasked => stage[v] \in Unasked
    BY <1>3 DEF Start, Reset, Close, Notify, QueueTypeOK, Unasked
  <2>3. AuditedOnly'
    BY <1>1, <2>1, <2>2 DEF AuditedOnly
  <2>4. QED
    BY <1>2, <2>3
<1>4. CASE Answered(w) \/ AskFails(w)
  <2>1. current[w] \in Batches /\ current[w] # None
    BY <1>4, CurrentBatch, WorkerAssumption DEF Answered, AskFails
  <2>2. \A r \in rows' : r \in rows \/ r.batch = current[w]
    <3>1. \E verdict \in [DOMAIN Records[current[w]] -> Opinions \cup {None}],
             status \in {"SUCCESS", "FAILED", "TIMEOUT"} :
                WriteRows(current[w], verdict, status)
      BY <1>4 DEF Answered, AskFails
    <3>2. QED
      BY <2>1, <3>1, RowsWritten DEF AuditTypeOK
  <2>3. \A v \in Workers : stage'[v] \in Unasked => v # w /\ stage[v] \in Unasked
    BY <1>4 DEF Answered, AskFails, QueueTypeOK, Unasked
  <2>4. AuditedOnly'
    BY <1>1, <2>1, <2>2, <2>3 DEF AuditedOnly, PlaceInv
  <2>5. QED
    BY <1>2, <2>4
<1>5. QED
  BY <1>3, <1>4

LEMMA PlaceStep ==
    ASSUME QueueTypeOK, AuditTypeOK, TaskInv, PlaceInv, AuditedOnly, [Next]_vars
    PROVE  PlaceInv' /\ AuditedOnly'
<1>1. CASE NewDay \/ UNCHANGED vars
  <2>1. UNCHANGED <<fresh, submitting, queue, current, stage, rows>>
    BY <1>1 DEF NewDay, vars, queueVars
  <2>2. PlaceInv'
    BY <2>1 DEF PlaceInv
  <2>3. AuditedOnly'
    BY <2>1 DEF AuditedOnly
  <2>4. QED
    BY <2>2, <2>3
<1>2. QED
  BY <1>1, PlaceAccept, PlaceDrop, PlaceEnqueue, PlacePick, PlaceTask
  DEF Next, Task, AuditTypeOK

-----------------------------------------------------------------------------
(* As many values as arguments, when no two arguments share one. *)
LEMMA ImageCount ==
    ASSUME NEW D, IsFiniteSet(D), NEW f,
           \A s, t \in D : f[s] = f[t] => s = t
    PROVE  Cardinality({f[s] : s \in D}) = Cardinality(D)
<1> DEFINE T == {f[s] : s \in D}
           g == [s \in D |-> f[s]]
<1>1. g \in Bijection(D, T)
  BY DEF Bijection, Injection, Surjection, IsInjective
<1>2. ExistsBijection(D, T)
  BY <1>1 DEF ExistsBijection
<1>3. QED
  BY <1>2, FS_Bijection

(* The rows of a whole batch, the symbols of it that count as answered,    *)
(* and those whose opinion is graded with the label.                       *)
RowsOf(b, verdict, status) ==
    {RowFor(b, s, verdict[s], status) : s \in DOMAIN Records[b]}
AnsweredOf(b, verdict, status) ==
    {s \in DOMAIN Records[b] : RowStatus(status, verdict[s]) = "SUCCESS"}
GradedOf(b, verdict, l) ==
    {s \in DOMAIN Records[b] : Agreement(Records[b][s], verdict[s]) = l}

(* The counts of the rows a batch leaves are the counts of its verdicts.   *)
LEMMA RowCounts ==
    ASSUME NEW b \in Batches, NEW verdict, NEW status
    PROVE  /\ Cardinality(RowsOf(b, verdict, status)) = Cardinality(DOMAIN Records[b])
           /\ Cardinality({r \in RowsOf(b, verdict, status) : r.ai_status = "SUCCESS"})
                 = Cardinality(AnsweredOf(b, verdict, status))
           /\ \A l \in Labels :
                 Cardinality({r \in RowsOf(b, verdict, status) : r.agreement = l})
                    = Cardinality(GradedOf(b, verdict, l))
<1> DEFINE D == DOMAIN Records[b]
           mine == RowsOf(b, verdict, status)
           f == [s \in D |-> RowFor(b, s, verdict[s], status)]
<1>1. \A s \in D :
         /\ f[s].symbol = s
         /\ f[s].ai_status = RowStatus(status, verdict[s])
         /\ f[s].agreement = Agreement(Records[b][s], verdict[s])
  BY DEF RowFor
<1>2. mine = {f[s] : s \in D}
  BY DEF RowsOf
<1>3. IsFiniteSet(D)
  BY WorkerAssumption
<1> HIDE DEF f, D, mine
<1>4. ASSUME NEW P \in SUBSET D
      PROVE  Cardinality({f[s] : s \in P}) = Cardinality(P)
  <2>1. IsFiniteSet(P)
    BY <1>3, FS_Subset
  <2>2. \A s, t \in P : f[s] = f[t] => s = t
    BY <1>1
  <2>3. QED
    BY <2>1, <2>2, ImageCount
<1>5. Cardinality(mine) = Cardinality(D)
  BY <1>2, <1>4
<1>6. Cardinality({r \in mine : r.ai_status = "SUCCESS"}) =
         Cardinality(AnsweredOf(b, verdict, status))
  <2> DEFINE P == AnsweredOf(b, verdict, status)
  <2>1. {r \in mine : r.ai_status = "SUCCESS"} = {f[s] : s \in P}
    BY <1>1, <1>2 DEF AnsweredOf, D
  <2>2. P \in SUBSET D
    BY DEF AnsweredOf, D
  <2>3. QED
    BY <1>4, <2>1, <2>2
<1>7. ASSUME NEW l \in Labels
      PROVE  Cardinality({r \in mine : r.agreement = l}) =
                Cardinality(GradedOf(b, verdict, l))
  <2> DEFINE P == GradedOf(b, verdict, l)
  <2>1. {r \in mine : r.agreement = l} = {f[s] : s \in P}
    BY <1>1, <1>2 DEF GradedOf, D
  <2>2. P \in SUBSET D
    BY DEF GradedOf, D
  <2>3. QED
    BY <1>4, <2>1, <2>2
<1>8. QED
  BY <1>5, <1>6, <1>7 DEF D, mine

(* Of a batch that was answered: the answers are the opinions given. *)
LEMMA AnswerCount ==
    ASSUME NEW b \in Batches,
           NEW verdict \in [DOMAIN Records[b] -> Opinions \cup {None}]
    PROVE  LET t == Tally(b, verdict) IN
           t["LONG"] + t["SHORT"] + t["NO_TRADE"] =
              Cardinality(AnsweredOf(b, verdict, "SUCCESS"))
<1> DEFINE D == DOMAIN Records[b]
           For(o) == {s \in D : verdict[s] = o}
           t == Tally(b, verdict)
           All == AnsweredOf(b, verdict, "SUCCESS")
<1>1. /\ t["LONG"] = Cardinality(For("LONG"))
      /\ t["SHORT"] = Cardinality(For("SHORT"))
      /\ t["NO_TRADE"] = Cardinality(For("NO_TRADE"))
  BY DEF Tally, Labels
<1>2. All = (For("LONG") \cup For("SHORT")) \cup For("NO_TRADE")
  <2>1. ASSUME NEW s \in D
        PROVE  RowStatus("SUCCESS", verdict[s]) = "SUCCESS" <=>
                  verdict[s] \in {"LONG", "SHORT", "NO_TRADE"}
    <3>1. verdict[s] \in Opinions \cup {None}
      OBVIOUS
    <3>2. QED
      BY <3>1, WorkerAssumption DEF RowStatus
  <2>2. QED
    BY <2>1 DEF AnsweredOf
<1>3. /\ For("LONG") \cap For("SHORT") = {}
      /\ (For("LONG") \cup For("SHORT")) \cap For("NO_TRADE") = {}
  OBVIOUS
<1>4. /\ IsFiniteSet(For("LONG")) /\ IsFiniteSet(For("SHORT"))
      /\ IsFiniteSet(For("NO_TRADE"))
      /\ Cardinality(For("LONG")) \in Nat /\ Cardinality(For("SHORT")) \in Nat
      /\ Cardinality(For("NO_TRADE")) \in Nat
  BY SymbolsFinite
<1> HIDE DEF For, t, All, D
<1>5. ASSUME NEW S, NEW T, IsFiniteSet(S), IsFiniteSet(T), S \cap T = {}
      PROVE  /\ IsFiniteSet(S \cup T)
             /\ Cardinality(S \cup T) = Cardinality(S) + Cardinality(T)
  <2>1. /\ IsFiniteSet(S \cup T)
        /\ Cardinality(S \cup T) =
              Cardinality(S) + Cardinality(T) - Cardinality(S \cap T)
    BY <1>5, FS_Union
  <2>2. Cardinality(S \cap T) = 0
    BY <1>5, FS_EmptySet
  <2>3. Cardinality(S) \in Nat /\ Cardinality(T) \in Nat
    BY <1>5, FS_CardinalityType
  <2>4. QED
    BY <2>1, <2>2, <2>3
<1>6. Cardinality(All) = Cardinality(For("LONG")) + Cardinality(For("SHORT"))
                           + Cardinality(For("NO_TRADE"))
  <2>1. /\ IsFiniteSet(For("LONG") \cup For("SHORT"))
        /\ Cardinality(For("LONG") \cup For("SHORT")) =
              Cardinality(For("LONG")) + Cardinality(For("SHORT"))
    BY <1>3, <1>4, <1>5
  <2>2. Cardinality((For("LONG") \cup For("SHORT")) \cup For("NO_TRADE")) =
           Cardinality(For("LONG") \cup For("SHORT"))
             + Cardinality(For("NO_TRADE"))
    BY <1>3, <1>4, <1>5, <2>1
  <2>3. QED
    BY <1>2, <2>1, <2>2
<1>7. QED
  BY <1>1, <1>6 DEF t, All, D

(* The snapshot is reset before a batch is asked about, set once it is     *)
(* answered, and read as a failure only after one.                         *)
LEMMA TaskInvStep ==
    ASSUME QueueTypeOK, AuditTypeOK, TaskInv, [Next]_vars
    PROVE  TaskInv'
<1> USE DEF QueueTypeOK, AuditTypeOK
<1>1. ASSUME NEW w \in Workers, NEW b \in Batches, Accept(w, b) \/ Drop(w, b)
      PROVE  TaskInv'
  <2>1. /\ \A v \in Workers :
              last_status'[v] = last_status[v]
              \/ last_status'[v] \in {"PENDING", "UNAVAILABLE"}
        /\ UNCHANGED <<stage, current, last_expected, last_answered, last_tally,
                       last_error>>
    BY <1>1 DEF Accept, Drop
  <2>2. QED
    BY <2>1 DEF TaskInv
<1>2. ASSUME NEW w \in Workers, Pick(w)  PROVE TaskInv'
  <2>1. /\ UNCHANGED <<last_status, last_expected, last_answered, last_tally,
                       last_error>>
        /\ queue[w] \in Seq(Batches) /\ queue[w] # <<>>
        /\ current' = [current EXCEPT ![w] = Head(queue[w])]
        /\ stage' = [stage EXCEPT ![w] = "picked"]
    BY <1>2 DEF Pick, statusVars
  <2>2. Head(queue[w]) # None
    BY <2>1, HeadAndTail, WorkerAssumption
  <2>3. QED
    BY <2>1, <2>2 DEF TaskInv
<1>3. ASSUME NEW w \in Workers, Start(w)  PROVE TaskInv'
  <2>1. /\ UNCHANGED <<current, last_status, last_expected, last_answered,
                       last_tally, last_error>>
        /\ stage[w] = "picked" /\ stage' = [stage EXCEPT ![w] = "started"]
    BY <1>3 DEF Start, statusVars
  <2>2. QED
    BY <2>1 DEF TaskInv
<1>4. ASSUME NEW w \in Workers, Reset(w)  PROVE TaskInv'
  <2>1. /\ UNCHANGED <<current, last_status>>
        /\ stage[w] = "started" /\ stage' = [stage EXCEPT ![w] = "asking"]
        /\ \A v \in Workers :
              /\ last_expected'[v] =
                    IF v = w THEN Cardinality(DOMAIN Records[current[w]])
                    ELSE last_expected[v]
              /\ last_answered'[v] = IF v = w THEN 0 ELSE last_answered[v]
              /\ last_tally'[v] = IF v = w THEN NoTally ELSE last_tally[v]
              /\ v # w => last_error'[v] = last_error[v]
    BY <1>4 DEF Reset
  <2>2. QED
    BY <2>1 DEF TaskInv
<1>5. ASSUME NEW w \in Workers, Answered(w)  PROVE TaskInv'
  <2>1. /\ UNCHANGED <<current, last_status, last_expected, last_error>>
        /\ stage[w] = "asking" /\ stage' = [stage EXCEPT ![w] = "answered"]
        /\ \A v \in Workers : v # w =>
              last_answered'[v] = last_answered[v] /\ last_tally'[v] = last_tally[v]
    BY <1>5 DEF Answered
  <2>2. QED
    BY <2>1 DEF TaskInv
<1>6. ASSUME NEW w \in Workers, AskFails(w)  PROVE TaskInv'
  <2>1. /\ UNCHANGED <<current, last_status, last_expected, last_answered,
                       last_tally, last_error>>
        /\ stage[w] = "asking"
        /\ \/ stage' = [stage EXCEPT ![w] = "failed"]
           \/ stage' = [stage EXCEPT ![w] = "timed_out"]
    BY <1>6 DEF AskFails, statusVars
  <2>2. QED
    BY <2>1 DEF TaskInv
<1>7. ASSUME NEW w \in Workers, Close(w)  PROVE TaskInv'
  <2>1. /\ UNCHANGED <<current, last_expected, last_answered, last_tally>>
        /\ stage[w] \in {"answered", "failed", "timed_out"}
        /\ \A v \in Workers :
              /\ stage'[v] = IF v = w THEN "closed" ELSE stage[v]
              /\ v # w => /\ last_status'[v] = last_status[v]
                          /\ last_error'[v] = last_error[v]
    BY <1>7 DEF Close
  <2>2. stage[w] = "answered" => last_status'[w] = "SUCCESS"
    BY <1>7 DEF Close
  <2>3. stage[w] # "answered" => last_error'[w]
    <3>1. last_error'[w] = (last_error[w] \/ stage[w] # "answered")
      BY <1>7, Zenon DEF Close
    <3>2. QED
      BY <3>1, Zenon
  <2>4. QED
    BY <2>1, <2>2, <2>3 DEF TaskInv
<1>8. ASSUME NEW w \in Workers, Notify(w)  PROVE TaskInv'
  <2>1. /\ UNCHANGED <<current, last_status, last_expected, last_answered,
                       last_tally, last_error>>
        /\ stage[w] = "closed" /\ stage' = [stage EXCEPT ![w] = "idle"]
    BY <1>8 DEF Notify, statusVars
  <2>2. QED
    BY <2>1 DEF TaskInv
<1>9. ASSUME UNCHANGED <<stage, current, statusVars>>  PROVE TaskInv'
  BY <1>9 DEF statusVars, TaskInv
<1>10. ASSUME NEW w \in Workers, Enqueue(w)  PROVE UNCHANGED <<stage, current, statusVars>>
  BY <1>10 DEF Enqueue
<1>11. ASSUME NewDay \/ UNCHANGED vars  PROVE UNCHANGED <<stage, current, statusVars>>
  BY <1>11 DEF NewDay, vars
<1>12. QED
  BY <1>1, <1>2, <1>3, <1>4, <1>5, <1>6, <1>7, <1>8, <1>9, <1>10, <1>11
  DEF Next, Task

-----------------------------------------------------------------------------
(* A worker's rows and its snapshot go on agreeing while neither changes. *)
LEMMA MatchKept ==
    ASSUME NEW v \in Workers, RowsMatch(v), current'[v] = current[v],
           {r \in rows' : r.batch = current[v]} = {r \in rows : r.batch = current[v]},
           last_expected'[v] = last_expected[v],
           last_answered'[v] = last_answered[v],
           last_tally'[v] = last_tally[v]
    PROVE  RowsMatch(v)'
BY DEF RowsMatch

(* Of the rows a task writes: they are all its batch has, and no other     *)
(* worker's.                                                               *)
LEMMA RowsOfTheBatch ==
    ASSUME AuditTypeOK, PlaceInv, AuditedOnly, NEW w \in Workers,
           NEW b \in Batches, b = current[w], stage[w] = "asking",
           NEW verdict \in [DOMAIN Records[b] -> Opinions \cup {None}],
           NEW status \in {"SUCCESS", "FAILED", "TIMEOUT"},
           WriteRows(b, verdict, status)
    PROVE  /\ b \notin partial' =>
                 {r \in rows' : r.batch = b} = RowsOf(b, verdict, status)
           /\ \A v \in Workers : v # w /\ current[v] # None =>
                 {r \in rows' : r.batch = current[v]} =
                    {r \in rows : r.batch = current[v]}
<1> DEFINE new == RowsOf(b, verdict, status)
<1>1. /\ partial \subseteq partial' /\ rows \subseteq rows'
      /\ \A r \in rows' \ rows : r.batch = b
      /\ b \in partial' \/ rows' = rows \cup new
  BY RowsWritten DEF AuditTypeOK, RowsOf
<1>2. \A r \in rows : r.batch # b
  BY DEF AuditedOnly, Unasked
<1>3. \A r \in new : r.batch = b
  BY DEF RowFor, RowsOf
<1> HIDE DEF new
<1>4. b \notin partial' => {r \in rows' : r.batch = b} = new
  BY <1>1, <1>2, <1>3
<1>5. \A v \in Workers : v # w /\ current[v] # None => current[v] # b
  BY DEF PlaceInv
<1>6. \A v \in Workers : v # w /\ current[v] # None =>
         {r \in rows' : r.batch = current[v]} = {r \in rows : r.batch = current[v]}
  BY <1>1, <1>5
<1>7. QED
  BY <1>4, <1>6 DEF new

(* An answered batch is counted as its rows are. *)
LEMMA MatchAnswered ==
    ASSUME QueueTypeOK, AuditTypeOK, TaskInv, PlaceInv, AuditedOnly, MatchInv,
           NEW w \in Workers, Answered(w)
    PROVE  MatchInv'
<1>1. stage[w] = "asking" /\ current[w] \in Batches
  BY CurrentBatch DEF Answered
<1> PICK b \in Batches : b = current[w]
  BY <1>1
<1>2. PICK verdict \in [DOMAIN Records[b] -> Opinions \cup {None}] :
         LET t == Tally(b, verdict) IN
         /\ WriteRows(b, verdict, "SUCCESS")
         /\ last_tally' = [last_tally EXCEPT ![w] = t]
         /\ last_answered' = [last_answered EXCEPT ![w] =
                                 t["LONG"] + t["SHORT"] + t["NO_TRADE"]]
  BY DEF Answered
<1> DEFINE t == Tally(b, verdict)
           D == DOMAIN Records[b]
           new == RowsOf(b, verdict, "SUCCESS")
<1>3. /\ \A v \in Workers :
            /\ last_tally'[v] = IF v = w THEN t ELSE last_tally[v]
            /\ last_answered'[v] = IF v = w
                                   THEN t["LONG"] + t["SHORT"] + t["NO_TRADE"]
                                   ELSE last_answered[v]
            /\ v # w => stage'[v] = stage[v]
      /\ UNCHANGED <<current, last_expected>>
  BY <1>2 DEF Answered, QueueTypeOK, AuditTypeOK
<1>4. /\ b \notin partial' => {r \in rows' : r.batch = b} = new
      /\ \A v \in Workers : v # w /\ current[v] # None =>
            {r \in rows' : r.batch = current[v]} =
               {r \in rows : r.batch = current[v]}
  BY <1>1, <1>2, RowsOfTheBatch
<1>5. partial \subseteq partial'
  BY <1>2, RowsWritten DEF AuditTypeOK
<1>6. /\ Cardinality(new) = Cardinality(D)
      /\ Cardinality({r \in new : r.ai_status = "SUCCESS"}) =
            t["LONG"] + t["SHORT"] + t["NO_TRADE"]
      /\ \A l \in Labels :
            Cardinality({r \in new : r.agreement = l}) =
               Cardinality(GradedOf(b, verdict, l))
  <2>1. t["LONG"] + t["SHORT"] + t["NO_TRADE"] =
           Cardinality(AnsweredOf(b, verdict, "SUCCESS"))
    BY AnswerCount
  <2>2. QED
    BY <2>1, RowCounts
<1>7. \A l \in {"AGREE", "VETO_PROPOSED", "SIGNAL_PROPOSED", "DISAGREE"} :
         Cardinality({r \in new : r.agreement = l}) = t[l]
  <2> SUFFICES ASSUME NEW l \in {"AGREE", "VETO_PROPOSED", "SIGNAL_PROPOSED",
                                 "DISAGREE"}
               PROVE  Cardinality({r \in new : r.agreement = l}) = t[l]
    OBVIOUS
  <2>1. l \in Labels /\ l \notin {"LONG", "SHORT", "NO_TRADE"} /\ l # "NO_ANSWER"
    BY DEF Labels
  <2>2. t[l] = Cardinality(GradedOf(b, verdict, l))
    BY <2>1 DEF Tally, GradedOf
  <2>3. QED
    BY <1>6, <2>1, <2>2
<1>8. last_expected[w] = Cardinality(D)
  BY <1>1 DEF TaskInv
<1> HIDE DEF t, D, new
<1>9. b \notin partial' => RowsMatch(w)'
  BY <1>3, <1>4, <1>6, <1>7, <1>8 DEF RowsMatch
<1>10. ASSUME NEW v \in Workers, v # w, stage[v] \notin Unasked,
              current[v] # None, current[v] \notin partial
       PROVE  RowsMatch(v)'
  <2>1. RowsMatch(v)
    BY <1>10 DEF MatchInv
  <2>2. QED
    BY <1>3, <1>4, <1>10, <2>1, MatchKept
<1>11. QED
  BY <1>3, <1>5, <1>9, <1>10 DEF MatchInv

(* A batch that died has only rows without an answer. *)
LEMMA MatchFails ==
    ASSUME QueueTypeOK, AuditTypeOK, TaskInv, PlaceInv, AuditedOnly, MatchInv,
           NEW w \in Workers, AskFails(w)
    PROVE  MatchInv'
<1>1. stage[w] = "asking" /\ current[w] \in Batches
  BY CurrentBatch DEF AskFails
<1> PICK b \in Batches : b = current[w]
  BY <1>1
<1> DEFINE D == DOMAIN Records[b]
           verdict == [s \in D |-> None]
<1>2. PICK failure \in {"FAILED", "TIMEOUT"} : WriteRows(b, verdict, failure)
  BY DEF AskFails
<1> DEFINE new == RowsOf(b, verdict, failure)
<1>3. /\ UNCHANGED <<current, last_expected, last_answered, last_tally>>
      /\ \A v \in Workers : v # w => stage'[v] = stage[v]
  BY DEF AskFails, QueueTypeOK, statusVars
<1>4. verdict \in [D -> Opinions \cup {None}]
  OBVIOUS
<1>5. /\ b \notin partial' => {r \in rows' : r.batch = b} = new
      /\ \A v \in Workers : v # w /\ current[v] # None =>
            {r \in rows' : r.batch = current[v]} =
               {r \in rows : r.batch = current[v]}
  BY <1>1, <1>2, <1>4, RowsOfTheBatch
<1>6. partial \subseteq partial'
  BY <1>2, <1>4, RowsWritten DEF AuditTypeOK
<1>7. Cardinality(new) = Cardinality(D)
  BY RowCounts
<1>8. \A r \in new : r.ai_status # "SUCCESS" /\ r.agreement = "NO_ANSWER"
  <2>1. \A s \in D : verdict[s] = None
    OBVIOUS
  <2>2. \A s \in D : RowStatus(failure, verdict[s]) = failure /\ failure # "SUCCESS"
    BY DEF RowStatus
  <2>3. \A s \in D : Agreement(Records[b][s], verdict[s]) = "NO_ANSWER"
    <3> SUFFICES ASSUME NEW s \in D
                 PROVE  Agreement(Records[b][s], verdict[s]) = "NO_ANSWER"
      OBVIOUS
    <3>1. verdict[s] = None
      BY <2>1
    <3> HIDE DEF verdict
    <3>2. Records[b][s] \in {"LONG", "SHORT", "NO_TRADE"}
      BY WorkerAssumption
    <3>3. None \notin {"LONG", "SHORT", "NO_TRADE"}
      BY WorkerAssumption
    <3>4. QED
      BY <3>1, <3>2, <3>3 DEF Agreement
  <2>4. QED
    BY <2>2, <2>3 DEF RowFor, RowsOf
<1>9. /\ last_expected[w] = Cardinality(D)
      /\ last_answered[w] = 0 /\ last_tally[w] = NoTally
  BY <1>1 DEF TaskInv
<1> HIDE DEF D, verdict, new
<1>10. /\ Cardinality({r \in new : r.ai_status = "SUCCESS"}) = 0
       /\ \A l \in {"AGREE", "VETO_PROPOSED", "SIGNAL_PROPOSED", "DISAGREE"} :
             /\ Cardinality({r \in new : r.agreement = l}) = 0
             /\ NoTally[l] = 0
  <2>1. {r \in new : r.ai_status = "SUCCESS"} = {}
    BY <1>8
  <2>2. \A l \in {"AGREE", "VETO_PROPOSED", "SIGNAL_PROPOSED", "DISAGREE"} :
           {r \in new : r.agreement = l} = {} /\ NoTally[l] = 0
    BY <1>8 DEF NoTally, Labels
  <2>3. QED
    BY <2>1, <2>2, FS_EmptySet
<1>11. b \notin partial' => RowsMatch(w)'
  BY <1>3, <1>5, <1>7, <1>9, <1>10 DEF RowsMatch
<1>12. ASSUME NEW v \in Workers, v # w, stage[v] \notin Unasked,
              current[v] # None, current[v] \notin partial
       PROVE  RowsMatch(v)'
  <2>1. RowsMatch(v)
    BY <1>12 DEF MatchInv
  <2>2. QED
    BY <1>3, <1>5, <1>12, <2>1, MatchKept
<1>13. QED
  BY <1>3, <1>6, <1>11, <1>12 DEF MatchInv

(* Every other step leaves the file alone, and the snapshot of every       *)
(* worker that is not about to ask.                                        *)
LEMMA MatchStep ==
    ASSUME QueueTypeOK, AuditTypeOK, TaskInv, PlaceInv, AuditedOnly, MatchInv,
           [Next]_vars
    PROVE  MatchInv'
<1>1. ASSUME NEW w \in Workers, Pick(w) \/ Reset(w)  PROVE MatchInv'
  <2>1. /\ UNCHANGED <<rows, partial>>
        /\ stage'[w] \in Unasked
        /\ \A v \in Workers : v # w =>
              /\ stage'[v] = stage[v] /\ current'[v] = current[v]
              /\ last_expected'[v] = last_expected[v]
              /\ last_answered'[v] = last_answered[v]
              /\ last_tally'[v] = last_tally[v]
    BY <1>1 DEF Pick, Reset, statusVars, QueueTypeOK, AuditTypeOK, Unasked
  <2>2. ASSUME NEW v \in Workers, v # w, RowsMatch(v)  PROVE RowsMatch(v)'
    BY <2>1, <2>2, MatchKept
  <2>3. QED
    BY <2>1, <2>2 DEF MatchInv
<1>2. ASSUME UNCHANGED <<rows, partial, current, last_expected, last_answered,
                         last_tally>>,
             \A v \in Workers : stage[v] \in Unasked => stage'[v] \in Unasked
      PROVE  MatchInv'
  <2>1. ASSUME NEW v \in Workers, RowsMatch(v)  PROVE RowsMatch(v)'
    BY <1>2, <2>1, MatchKept
  <2>2. QED
    BY <1>2, <2>1 DEF MatchInv
<1>3. ASSUME NEW w \in Workers, Start(w) \/ Close(w) \/ Notify(w)  PROVE MatchInv'
  BY <1>2, <1>3 DEF Start, Close, Notify, statusVars, QueueTypeOK, Unasked
<1>4. ASSUME NEW w \in Workers,
             (\E b \in Batches : Accept(w, b) \/ Drop(w, b)) \/ Enqueue(w)
      PROVE  MatchInv'
  BY <1>2, <1>4 DEF Accept, Drop, Enqueue, statusVars
<1>5. ASSUME NewDay \/ UNCHANGED vars  PROVE MatchInv'
  BY <1>2, <1>5 DEF NewDay, vars, statusVars
<1>6. QED
  BY <1>1, <1>3, <1>4, <1>5, MatchAnswered, MatchFails DEF Next, Task

(* The inductive invariant of the worker. *)
AuditInv ==
    /\ AuditTypeOK /\ NoticeTypeOK
    /\ TaskInv /\ PlaceInv /\ AuditedOnly /\ MatchInv

LEMMA AuditInit == Init => AuditInv
<1> SUFFICES ASSUME Init  PROVE AuditInv
  OBVIOUS
<1> USE DEF Init
<1>1. AuditTypeOK
  BY DEF AuditTypeOK, NoTally
<1>2. NoticeTypeOK
  <2>1. spent \in BOOLEAN
    BY Zenon
  <2>2. notice \in [day : 0..MaxDay \cup {None}, sent : BOOLEAN]
    <3>1. PICK x \in BOOLEAN : notice = [day |-> None, sent |-> x]
      BY Zenon
    <3>2. QED
      BY <3>1
  <2>3. day \in 0..MaxDay /\ notices \in [0..MaxDay -> Nat]
    BY WorkerAssumption
  <2>4. QED
    BY <2>1, <2>2, <2>3 DEF NoticeTypeOK
<1>3. TaskInv /\ AuditedOnly /\ MatchInv
  BY DEF TaskInv, AuditedOnly, MatchInv
<1>4. PlaceInv
  BY WorkerAssumption DEF PlaceInv
<1>5. QED
  BY <1>1, <1>2, <1>3, <1>4 DEF AuditInv

LEMMA AuditAlways == Spec => []AuditInv
<1>1. QueueInv /\ AuditInv /\ [Next]_vars => AuditInv'
  BY AuditTypeStep, NoticeTypeStep, TaskInvStep, PlaceStep, MatchStep
  DEF QueueInv, AuditInv
<1>2. QED
  BY <1>1, AuditInit, QueueAlways, PTL DEF Spec

(* Every variable keeps its type: the count of waiting batches is never    *)
(* negative, and every row names a decision of its batch.                  *)
THEOREM TypesCorrect == Spec => []TypeOK
<1>1. QueueInv /\ AuditInv => TypeOK
  BY DEF QueueInv, AuditInv, AuditTypeOK, NoticeTypeOK, TypeOK
<1>2. QED
  BY <1>1, QueueAlways, AuditAlways, PTL

(* What /status tells of the last batch is what happened to it: a failure  *)
(* shows as one, and an audited batch has as many rows and answers in the  *)
(* file as the snapshot says.                                              *)
THEOREM SnapshotCorrect == Spec => []SnapshotHonest
<1>1. AuditInv => SnapshotHonest
  <2> SUFFICES ASSUME AuditInv  PROVE SnapshotHonest
    OBVIOUS
  <2>1. FailureShows
    BY DEF AuditInv, TaskInv, FailureShows
  <2>2. SnapshotMatchesRows
    BY DEF AuditInv, MatchInv, Unasked, SnapshotMatchesRows
  <2>3. QED
    BY <2>1, <2>2 DEF SnapshotHonest
<1>2. QED
  BY <1>1, AuditAlways, PTL
=============================================================================

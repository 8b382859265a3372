---------------------------- MODULE ScanPipeline ----------------------------
(***************************************************************************)
(* main.run_scan and main._run_scan_locked, run by any number of scheduler *)
(* jobs over the coordinator and the guard of the copy of main each job    *)
(* reaches: the funnel with its duplicate check, the ranking, the persist  *)
(* loop (CSV row, Telegram alert, cooldown stamp), the exception path, and *)
(* a restart of the process, which keeps the CSV and forgets the rest.     *)
(*                                                                         *)
(* Prices, features and indicators are abstracted to what the loop tells   *)
(* apart: the signal, the setup quality and the reason of a HOLD, chosen   *)
(* freely for every coin that passes the guard.                            *)
(***************************************************************************)
EXTENDS DuplicateGuard, ScanCoordinator, Sequences

CONSTANTS
    Directions,          \* the signals that are trades, BUY and SELL
    Qualities,           \* the setup qualities told apart
    ALERT_QUALITY_MIN,   \* the quality from which a BUY/SELL is delivered
    MaxTime,             \* bound on the clock (ticks)
    MaxRestarts          \* bound on restarts of the process

(* What decide says of a coin, as far as the persist loop tells it apart. *)
Verdicts == [coin : Coins, signal : Directions, quality : Qualities]
                \cup [coin : Coins, signal : {"HOLD"}, quality : Qualities,
                      reason : Reasons]

ASSUME PipelineAssumption ==
    /\ Directions \subseteq {"BUY", "SELL"}
    /\ Qualities \subseteq Nat
    /\ ALERT_QUALITY_MIN \in Nat
    /\ MaxTime \in Nat
    /\ MaxRestarts \in Nat
    /\ Reasons \cap {"alert", "log_only"} = {}
    /\ None \notin Verdicts

VARIABLES
    now,        \* the wall clock, in ticks
    life,       \* how often the process has been restarted
    fired,      \* [Jobs -> tick of the job's last trigger, or None]
    pc,         \* [Jobs -> where the job's thread is]
    stamp,      \* [Jobs -> now_ist of the scan: its time and its id]
    outcome,    \* [Jobs -> the summary the scan hands to end]
    decided,    \* [Jobs -> verdicts of the persist loop still to handle]
    sending,    \* [Jobs -> the alert being delivered, or None]
    csv,        \* [Coins -> rows of signals_log.csv about the coin]
    lost,       \* alert rows an OSError kept out of the CSV
    alerts      \* every call of send_alert made so far

scanVars == <<fired, pc, stamp, outcome, decided, sending>>
logVars == <<csv, lost, alerts>>
vars == <<guardVars, coordVars, now, life, scanVars, logVars>>

-----------------------------------------------------------------------------
(* A row, with the scan that wrote it: the file itself names neither the   *)
(* copy of main nor the life of the process.                               *)
Row == [verdict : Reasons \cup {"alert", "log_only"}, at : Nat,
        copy : Copies, life : Nat]

Alert == [coin : Coins, copy : Copies, job : Jobs, life : Nat, at : Nat,
          sent : BOOLEAN]

(* A job's thread, from its trigger to the return of run_scan. *)
PCs == {"idle", "called", "claimed", "funnel", "persist", "send", "record",
        "end", "release"}

(* Where the thread owns the scan slot of its copy. *)
Owning == PCs \ {"idle", "called"}

(* Where the coordinator's snapshot shows the thread's scan as running. *)
Running == Owning \ {"claimed", "release"}

TypeOK ==
    /\ GuardTypeOK
    /\ CoordTypeOK
    /\ now \in Nat
    /\ life \in Nat
    /\ fired \in [Jobs -> Nat \cup {None}]
    /\ pc \in [Jobs -> PCs]
    /\ stamp \in [Jobs -> Nat]
    /\ outcome \in [Jobs -> Outcomes]
    /\ decided \in [Jobs -> SUBSET Verdicts]
    /\ sending \in [Jobs -> Verdicts \cup {None}]
    /\ csv \in [Coins -> Seq(Row)]
    /\ lost \subseteq Coins \X Nat
    /\ alerts \subseteq Alert

Init ==
    /\ GuardInit
    /\ CoordInit
    /\ now = 0
    /\ life = 0
    /\ fired = [j \in Jobs |-> None]
    /\ pc = [j \in Jobs |-> "idle"]
    /\ stamp = [j \in Jobs |-> 0]
    /\ outcome = [j \in Jobs |-> "ok"]
    /\ decided = [j \in Jobs |-> {}]
    /\ sending = [j \in Jobs |-> None]
    /\ csv = [s \in Coins |-> <<>>]
    /\ lost = {}
    /\ alerts = {}

-----------------------------------------------------------------------------
EmissionKind(signal, quality) ==
    IF signal = "HOLD" THEN "hold"
    ELSE IF quality >= ALERT_QUALITY_MIN THEN "alert" ELSE "log_only"

Kind(v) == EmissionKind(v.signal, v.quality)

(* The loop takes the verdicts best quality first; equal qualities stay in *)
(* the order their frames arrived in, which is any order.                  *)
NextUp(j) ==
    {v \in decided[j] : \A w \in decided[j] : w.quality <= v.quality}

(* The row a scan writes carries the time the scan began. *)
RowOf(j, verdict) ==
    [verdict |-> verdict, at |-> stamp[j], copy |-> CopyOf[j], life |-> life]

WithRow(s, row) == [csv EXCEPT ![s] = Append(@, row)]

Goto(j, label) == pc' = [pc EXCEPT ![j] = label]

-----------------------------------------------------------------------------
(* The scheduler triggers a job: at most once per tick, and never while an *)
(* instance of it runs (max_instances = 1).  run_scan reads the clock      *)
(* before it asks for the gate.                                            *)
Fire(j) ==
    /\ pc[j] = "idle"
    /\ fired[j] # now
    /\ fired' = [fired EXCEPT ![j] = now]
    /\ stamp' = [stamp EXCEPT ![j] = now]
    /\ Goto(j, "called")
    /\ UNCHANGED <<guardVars, coordVars, now, life, outcome, decided, sending,
                   logVars>>

(* try_begin succeeds ... *)
Claim(j) ==
    /\ pc[j] = "called"
    /\ Acquire(CopyOf[j])
    /\ Goto(j, "claimed")
    /\ UNCHANGED <<guardVars, now, life, fired, stamp, outcome, decided,
                   sending, logVars>>

(* ... or a scan is active and this one is skipped at once. *)
Skip(j) ==
    /\ pc[j] = "called"
    /\ gate[CopyOf[j]]
    /\ Goto(j, "idle")
    /\ UNCHANGED <<guardVars, coordVars, now, life, fired, stamp, outcome,
                   decided, sending, logVars>>

Begin(j) ==
    /\ pc[j] = "claimed"
    /\ Open(CopyOf[j], stamp[j], now)
    /\ Goto(j, "funnel")
    /\ UNCHANGED <<guardVars, now, life, fired, stamp, outcome, decided,
                   sending, logVars>>

\* Mutated form: the funnel no longer asks the duplicate guard.
CandidatesUnguarded(j, directional) == directional

(* STEP 4: of the coins with a 1H direction and tolerable funding, those   *)
(* that are not cooling down.                                              *)
Candidates(j, directional) ==
    {s \in directional : ~IsDuplicate(CopyOf[j], s, stamp[j])}

(* The scan body up to the ranking, for the coins that got a verdict.  With *)
(* nothing analysed the scan ends at once; its summary counts the universe, *)
(* which may be empty.                                                      *)
Decide(j, analysed, verdict) ==
    /\ \A s \in analysed : verdict[s].coin = s
    /\ decided' = [decided EXCEPT ![j] = {verdict[s] : s \in analysed}]
    /\ IF analysed = {}
       THEN /\ Goto(j, "end")
            /\ \E o \in {"ok", "empty"} : outcome' = [outcome EXCEPT ![j] = o]
       ELSE Goto(j, "persist") /\ UNCHANGED outcome

(* The funnel, the fetches and decide: any verdict for any of the candidates. *)
Analyse(j) ==
    /\ pc[j] = "funnel"
    /\ \E directional \in SUBSET Coins :
       \E analysed \in SUBSET Candidates(j, directional) :
       \E verdict \in [analysed -> Verdicts] : Decide(j, analysed, verdict)
    /\ UNCHANGED <<guardVars, coordVars, now, life, fired, stamp, sending,
                   logVars>>

Handled(j, v) == decided' = [decided EXCEPT ![j] = @ \ {v}]

(* A HOLD whose verdict and reason were logged within the window. *)
HoldDeduped(j, v) ==
    /\ pc[j] = "persist" /\ v \in NextUp(j) /\ Kind(v) = "hold"
    /\ HoldLoggedRecently(CopyOf[j], v.coin, stamp[j], v.reason)
    /\ Handled(j, v)
    /\ UNCHANGED <<guardVars, coordVars, now, life, fired, pc, stamp, outcome,
                   sending, logVars>>

\* Mutated form: the HOLD is stamped before its row is known to be on disk.
HoldLoggedStampedFirst(j, v) ==
    /\ pc[j] = "persist" /\ v \in NextUp(j) /\ Kind(v) = "hold"
    /\ ~HoldLoggedRecently(CopyOf[j], v.coin, stamp[j], v.reason)
    /\ RecordHold(CopyOf[j], v.coin, stamp[j], v.reason)
    /\ csv' \in {csv, WithRow(v.coin, RowOf(j, v.reason))}
    /\ Handled(j, v)
    /\ UNCHANGED <<coordVars, now, life, fired, pc, stamp, outcome, sending,
                   lost, alerts>>

(* A HOLD that is new information: its row is written and stamped. *)
HoldLogged(j, v) ==
    /\ pc[j] = "persist" /\ v \in NextUp(j) /\ Kind(v) = "hold"
    /\ ~HoldLoggedRecently(CopyOf[j], v.coin, stamp[j], v.reason)
    /\ csv' = WithRow(v.coin, RowOf(j, v.reason))
    /\ RecordHold(CopyOf[j], v.coin, stamp[j], v.reason)
    /\ Handled(j, v)
    /\ UNCHANGED <<coordVars, now, life, fired, pc, stamp, outcome, sending,
                   lost, alerts>>

(* The same HOLD when the disk refuses the row: counted, not stamped. *)
HoldWriteFails(j, v) ==
    /\ pc[j] = "persist" /\ v \in NextUp(j) /\ Kind(v) = "hold"
    /\ ~HoldLoggedRecently(CopyOf[j], v.coin, stamp[j], v.reason)
    /\ Handled(j, v)
    /\ UNCHANGED <<guardVars, coordVars, now, life, fired, pc, stamp, outcome,
                   sending, logVars>>

(* A BUY/SELL below the floor: its row, or a contained disk failure. *)
LogOnly(j, v) ==
    /\ pc[j] = "persist" /\ v \in NextUp(j) /\ Kind(v) = "log_only"
    /\ csv' \in {csv, WithRow(v.coin, RowOf(j, "log_only"))}
    /\ Handled(j, v)
    /\ UNCHANGED <<guardVars, coordVars, now, life, fired, pc, stamp, outcome,
                   sending, lost, alerts>>

\* Mutated form: the alert is delivered first and persisted never.
PersistAlertSkipped(j, v) ==
    /\ pc[j] = "persist" /\ v \in NextUp(j) /\ Kind(v) = "alert"
    /\ sending' = [sending EXCEPT ![j] = v]
    /\ Goto(j, "send")
    /\ Handled(j, v)
    /\ UNCHANGED <<guardVars, coordVars, now, life, fired, stamp, outcome,
                   csv, lost, alerts>>

(* An alert is persisted before it is delivered; a disk failure is counted *)
(* and the delivery goes on.                                               *)
PersistAlert(j, v) ==
    /\ pc[j] = "persist" /\ v \in NextUp(j) /\ Kind(v) = "alert"
    /\ \/ /\ csv' = WithRow(v.coin, RowOf(j, "alert"))
          /\ UNCHANGED lost
       \/ /\ lost' = lost \cup {<<v.coin, stamp[j]>>}
          /\ UNCHANGED csv
    /\ sending' = [sending EXCEPT ![j] = v]
    /\ Goto(j, "send")
    /\ Handled(j, v)
    /\ UNCHANGED <<guardVars, coordVars, now, life, fired, stamp, outcome,
                   alerts>>

(* send_alert: delivered to some chat, or to none. *)
Send(j) ==
    /\ pc[j] = "send"
    /\ \E sent \in BOOLEAN :
          alerts' = alerts \cup {[coin |-> sending[j].coin, copy |-> CopyOf[j],
                                  job |-> j, life |-> life, at |-> stamp[j],
                                  sent |-> sent]}
    /\ Goto(j, "record")
    /\ UNCHANGED <<guardVars, coordVars, now, life, fired, stamp, outcome,
                   decided, sending, csv, lost>>

\* Mutated form: no cooldown stamp after the alert.
RecordAlertDropped(j) ==
    /\ pc[j] = "record"
    /\ sending' = [sending EXCEPT ![j] = None]
    /\ Goto(j, "persist")
    /\ UNCHANGED <<guardVars, coordVars, now, life, fired, stamp, outcome,
                   decided, logVars>>

(* guard.record follows every alert, delivered or not, and carries the time *)
(* the scan began.                                                          *)
RecordAlert(j) ==
    /\ pc[j] = "record"
    /\ Record(CopyOf[j], sending[j].coin, stamp[j])
    /\ sending' = [sending EXCEPT ![j] = None]
    /\ Goto(j, "persist")
    /\ UNCHANGED <<coordVars, now, life, fired, stamp, outcome, decided,
                   logVars>>

(* The loop is done; the AI batch is queued without blocking. *)
Finish(j) ==
    /\ pc[j] = "persist"
    /\ decided[j] = {}
    /\ outcome' = [outcome EXCEPT ![j] = "ok"]
    /\ Goto(j, "end")
    /\ UNCHANGED <<guardVars, coordVars, now, life, fired, stamp, decided,
                   sending, logVars>>

\* Mutated form: the exception leaves run_scan with the slot still claimed.
AbortKeepingSlot(j) ==
    /\ pc[j] \in {"funnel", "persist", "send"}
    /\ outcome' = [outcome EXCEPT ![j] = "error"]
    /\ decided' = [decided EXCEPT ![j] = {}]
    /\ sending' = [sending EXCEPT ![j] = None]
    /\ Goto(j, "idle")
    /\ UNCHANGED <<guardVars, coordVars, now, life, fired, stamp, logVars>>

(* Any exception of the scan body, with a message or without one: the rest *)
(* of the verdicts is dropped and run_scan ends the scan.                  *)
Abort(j) ==
    /\ pc[j] \in {"funnel", "persist", "send"}
    /\ \E o \in {"error", "blank_error"} : outcome' = [outcome EXCEPT ![j] = o]
    /\ decided' = [decided EXCEPT ![j] = {}]
    /\ sending' = [sending EXCEPT ![j] = None]
    /\ Goto(j, "end")
    /\ UNCHANGED <<guardVars, coordVars, now, life, fired, stamp, logVars>>

EndScan(j) ==
    /\ pc[j] = "end"
    /\ Close(CopyOf[j], outcome[j])
    /\ outcome' = [outcome EXCEPT ![j] = "ok"]
    /\ Goto(j, "release")
    /\ UNCHANGED <<guardVars, now, life, fired, stamp, decided, sending,
                   logVars>>

ReleaseSlot(j) ==
    /\ pc[j] = "release"
    /\ Release(CopyOf[j])
    /\ Goto(j, "idle")
    /\ UNCHANGED <<guardVars, now, life, fired, stamp, outcome, decided,
                   sending, logVars>>

-----------------------------------------------------------------------------
Tick ==
    /\ now < MaxTime
    /\ now' = now + 1
    /\ UNCHANGED <<guardVars, coordVars, life, scanVars, logVars>>

(* The process dies at any point and systemd starts it again: the guard,   *)
(* the coordinator and every running scan are gone, the CSV is not.        *)
Restart ==
    /\ life < MaxRestarts
    /\ life' = life + 1
    /\ last_signal' = [c \in Copies |-> [s \in Coins |-> None]]
    /\ last_hold' = [c \in Copies |-> [s \in Coins |-> None]]
    /\ gate' = [c \in Copies |-> FALSE]
    /\ scan_id' = [c \in Copies |-> None]
    /\ started_at' = [c \in Copies |-> None]
    /\ last_scan_id' = [c \in Copies |-> None]
    /\ last_scan_at' = [c \in Copies |-> None]
    /\ last_outcome' = [c \in Copies |-> None]
    /\ error_streak' = [c \in Copies |-> 0]
    /\ pc' = [j \in Jobs |-> "idle"]
    /\ outcome' = [j \in Jobs |-> "ok"]
    /\ decided' = [j \in Jobs |-> {}]
    /\ sending' = [j \in Jobs |-> None]
    /\ UNCHANGED <<now, fired, stamp, logVars>>

Persist(j) ==
    \E v \in decided[j] :
        \/ HoldDeduped(j, v) \/ HoldLogged(j, v) \/ HoldWriteFails(j, v)
        \/ LogOnly(j, v) \/ PersistAlert(j, v)

(* What run_scan does by itself once the job has called it. *)
Step(j) ==
    \/ Claim(j) \/ Skip(j) \/ Begin(j) \/ Analyse(j) \/ Persist(j) \/ Send(j)
    \/ RecordAlert(j) \/ Finish(j) \/ EndScan(j) \/ ReleaseSlot(j)

Next ==
    \/ \E j \in Jobs : Fire(j) \/ Step(j) \/ Abort(j)
    \/ Tick
    \/ Restart

Spec == Init /\ [][Next]_vars

(* A running scan goes on: every fetch, send and write has a timeout.  No  *)
(* trigger, exception, tick or restart has to happen.                      *)
FairSpec == Spec /\ \A j \in Jobs : WF_vars(Step(j))

-----------------------------------------------------------------------------
(* The single-scan gate: two jobs that reach the same copy of main never   *)
(* both hold its scan slot (scan_coordinator.py:3-9, main.py:75-77).       *)
OneScanPerCopy ==
    \A i, j \in Jobs :
        CopyOf[i] = CopyOf[j] /\ pc[i] \in Owning /\ pc[j] \in Owning => i = j

(* The snapshot /status reads belongs to the scan that runs: no other job  *)
(* writes or clears it until that scan's own end, and an id is only shown  *)
(* while its scan holds the slot.                                          *)
SnapshotOwned ==
    /\ \A j \in Jobs : pc[j] \in Running =>
          scan_id[CopyOf[j]] = stamp[j] /\ started_at[CopyOf[j]] # None
    /\ \A c \in Copies : scan_id[c] # None =>
          \E j \in Jobs : CopyOf[j] = c /\ pc[j] \in Running

(* The health snapshot never goes back to an older scan, nor loses the one *)
(* it showed, while the process lives: `end` of a scan is over before the  *)
(* next scan of that copy can begin.                                       *)
LastScanNeverGoesBack ==
    [][\A c \in Copies : life' = life /\ last_scan_at[c] # None =>
          last_scan_at'[c] # None /\ last_scan_at'[c] >= last_scan_at[c]]_vars

(* A non-zero error streak on /status means that no scan has gone well     *)
(* since the failures it counts.                                           *)
StreakMeansFailure ==
    \A c \in Copies : error_streak[c] > 0 =>
        last_outcome[c] \in {"error", "blank_error", "empty"}

Apart(t, u) ==
    t - u >= DUPLICATE_COOLDOWN_MIN \/ u - t >= DUPLICATE_COOLDOWN_MIN

(* Within one life of the process the guard of a copy lets a coin alert at *)
(* most once per cooldown, across all the jobs that share the copy, stale  *)
(* clock readings and interleavings included (duplicate_guard.py:5-9).     *)
CooldownHeld ==
    \A a, b \in alerts :
        /\ a.coin = b.coin /\ a.copy = b.copy /\ a.life = b.life
        /\ <<a.job, a.at>> # <<b.job, b.at>>
        => Apart(a.at, b.at)

(* What /status tells the owner of the scans: the right scan, and a streak *)
(* of failures that is one.                                                *)
StatusHonest == SnapshotOwned /\ StreakMeansFailure

Says(row, verdict, at) == row.verdict = verdict /\ row.at = at

HasRow(s, verdict, at) == \E k \in 1..Len(csv[s]) : Says(csv[s][k], verdict, at)

(* The alert has its row, or the disk refused it. *)
Accounted(s, at) == <<s, at>> \in lost \/ HasRow(s, "alert", at)

(* A HOLD is deduplicated only against a row that reached the disk: the    *)
(* stamp goes on after a successful write (main.py:773-774).               *)
HoldStampHasRow ==
    \A c \in Copies, s \in Coins : last_hold[c][s] # None =>
        HasRow(s, last_hold[c][s][2], last_hold[c][s][1])

(* No alert is handed to Telegram before its row was written or its write  *)
(* was refused by the disk (main.py:758-764): a failing delivery or an     *)
(* exception after it cannot cost the signal its row.                      *)
AlertPersistedFirst ==
    \A a \in alerts : Accounted(a.coin, a.at)

(* The row comes first, before the stamp that silences a HOLD and before   *)
(* the alert, whatever the disk, the send or a crash does in between.      *)
RowsFirst == HoldStampHasRow /\ AlertPersistedFirst

(* Of a coin's rows, the HOLDs that a copy of main wrote in one life.      *)
HoldsOf(rows, c, n) ==
    {k \in 1..Len(rows) :
        rows[k].verdict \in Reasons /\ rows[k].copy = c /\ rows[k].life = n}

(* Two that say the same are a window apart, or another stands between.    *)
Spaced(rows, holds) ==
    \A k, l \in holds : k < l /\ rows[k].verdict = rows[l].verdict =>
        \/ rows[l].at - rows[k].at >= HOLD_LOG_COOLDOWN_MIN
        \/ \E m \in holds : k < m /\ m < l /\ rows[m].verdict # rows[k].verdict

(* "An identical rejection is written once per window" (duplicate_guard.py *)
(* :12-15), across the scans of all jobs of a copy: alerts of the coin,    *)
(* refused writes and exceptions in between do not change it, nor does a   *)
(* scan that read its clock before another one wrote (main.py:775-780).    *)
HoldsWrittenOnce ==
    \A c \in Copies, s \in Coins : Spaced(csv[s], HoldsOf(csv[s], c, life))

(* The scan slot never stays claimed, whatever the scan runs into          *)
(* (main.py:556-560).                                                      *)
SlotFreed == \A c \in Copies : gate[c] ~> ~gate[c]

(* The scan path implements the abstract gate, copy by copy: a job is      *)
(* active from the acquired lock to its release, and an alert opens the    *)
(* coin's window when it is sent, one step before guard.record stores it.  *)
Recording(c, s) ==
    {j \in Jobs : CopyOf[j] = c /\ pc[j] = "record" /\ sending[j].coin = s}

Window(c, s) ==
    IF Recording(c, s) # {} THEN stamp[CHOOSE j \in Recording(c, s) : TRUE]
    ELSE last_signal[c][s]

ActiveJobs ==
    [c \in Copies |-> {j \in Jobs : CopyOf[j] = c /\ pc[j] \in Owning}]

Windows == [c \in Copies |-> [s \in Coins |-> Window(c, s)]]

Gate == INSTANCE AlertGate WITH
    Times <- 0..MaxTime, active <- ActiveJobs, window <- Windows

ImplementsAlertGate == Gate!Spec

-----------------------------------------------------------------------------
(* What the documentation says of the running program and of its guard.    *)

(* "Never send a duplicate Telegram alert within DUPLICATE_COOLDOWN_MIN    *)
(* for the same coin" (rules.md:28), restarts set aside.                   *)
NoDuplicateAlert ==
    \A a, b \in alerts :
        /\ a.coin = b.coin /\ a.life = b.life /\ a.sent /\ b.sent
        /\ <<a.job, a.at>> # <<b.job, b.at>>
        => Apart(a.at, b.at)

(* "a new reason or a changed verdict is always written"                   *)
(* (duplicate_guard.py:14-15): a HOLD is left out of the CSV only when the *)
(* coin's newest row already says it.                                      *)
ChangedVerdictWritten ==
    [][\A j \in Jobs : \A v \in decided[j] :
          HoldDeduped(j, v) =>
              /\ csv[v.coin] # <<>>
              /\ csv[v.coin][Len(csv[v.coin])].verdict = v.reason]_vars

-----------------------------------------------------------------------------
(* The inductive strengthening of the safety invariants above.             *)

(* Who owns the slot holds the lock, and nobody shares it. *)
GateInv ==
    /\ \A j \in Jobs : pc[j] \in Owning => gate[CopyOf[j]]
    /\ OneScanPerCopy

(* Verdicts live in the persist loop only, one per coin, and the alert in  *)
(* delivery is no longer among them.                                       *)
LoopInv ==
    /\ \A j \in Jobs : pc[j] \in {"send", "record"} <=> sending[j] # None
    /\ \A j \in Jobs : pc[j] \notin {"persist", "send", "record"} => decided[j] = {}
    /\ \A j \in Jobs : \A v, w \in decided[j] : v.coin = w.coin => v = w
    /\ \A j \in Jobs : sending[j] # None =>
          \A v \in decided[j] : v.coin # sending[j].coin

(* A scan only holds verdicts its copy's guard still lets through: the     *)
(* answer the funnel read before the fetches is not stale when the loop    *)
(* delivers, whatever the loop has stored in between (main.py:613, 798).   *)
FreshInv ==
    /\ \A j \in Jobs : \A v \in decided[j] :
          ~IsDuplicate(CopyOf[j], v.coin, stamp[j])
    /\ \A j \in Jobs : sending[j] # None =>
          ~IsDuplicate(CopyOf[j], sending[j].coin, stamp[j])

(* Every alert of this life is in the guard, or about to be stored in it.  *)
Remembered(a) ==
    \/ /\ last_signal[a.copy][a.coin] # None
       /\ a.at <= last_signal[a.copy][a.coin]
    \/ /\ pc[a.job] = "record"
       /\ CopyOf[a.job] = a.copy
       /\ sending[a.job].coin = a.coin
       /\ stamp[a.job] = a.at

HistoryInv ==
    \A a \in alerts : a.life <= life /\ (a.life = life => Remembered(a))

ClockInv == now <= MaxTime /\ \A j \in Jobs : stamp[j] <= MaxTime

(* The scan of a copy, its snapshot and its last finished scan began in    *)
(* this order, none of them in the future.                                 *)
OrderInv ==
    \A c \in Copies :
        /\ started_at[c] # None => started_at[c] <= now
        /\ last_scan_at[c] # None => last_scan_at[c] <= now
        /\ last_scan_at[c] # None /\ started_at[c] # None =>
              last_scan_at[c] <= started_at[c]

(* An alert in a thread's hands was persisted, or the disk refused it.     *)
RowInv ==
    /\ RowsFirst
    /\ \A j \in Jobs : sending[j] # None => Accounted(sending[j].coin, stamp[j])

(* The guard remembers a coin's newest HOLD row of this life, or none.     *)
Newest(rows, holds, entry) ==
    IF entry = None THEN holds = {}
    ELSE \E n \in holds :
            (\A k \in holds : k <= n) /\ Says(rows[n], entry[2], entry[1])

HoldInv ==
    \A s \in Coins :
        /\ \A k \in 1..Len(csv[s]) : csv[s][k].life <= life
        /\ \A c \in Copies :
              Newest(csv[s], HoldsOf(csv[s], c, life), last_hold[c][s])

IInv ==
    /\ TypeOK
    /\ GateInv
    /\ LoopInv
    /\ FreshInv
    /\ HistoryInv
    /\ ClockInv
    /\ CooldownHeld
    /\ StatusHonest
    /\ OrderInv
    /\ RowInv
    /\ HoldsWrittenOnce
    /\ HoldInv
=============================================================================

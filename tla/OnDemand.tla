------------------------------ MODULE OnDemand ------------------------------
(***************************************************************************)
(* ondemand.py and the two Telegram handlers that drive it: /scan_on runs  *)
(* start_ondemand_scan in a thread of its own per command, /scan_off runs  *)
(* stop_ondemand_scan on the bot's event loop, one command at a time, and  *)
(* both work on the module global _ondemand_scheduler without a lock.      *)
(* Neither keeps the scheduler in a local: each line reads the global      *)
(* again.  A started session calls run_scan of one copy of main every five *)
(* minutes, through that copy's single-scan gate.                          *)
(***************************************************************************)
EXTENDS Integers

CONSTANTS
    Starters,      \* the threads /scan_on may have alive at once
    MaxSessions,   \* bound on the BackgroundSchedulers built
    MaxCommands,   \* bound on the owner's commands
    MaxFailures,   \* bound on failing fetches
    None

Sessions == 1..MaxSessions

ASSUME OnDemandAssumption ==
    /\ MaxSessions \in Nat /\ MaxCommands \in Nat /\ MaxFailures \in Nat
    /\ None \notin Nat

VARIABLES
    scheduler,   \* _ondemand_scheduler
    made,        \* how many schedulers have been built
    session,     \* [Sessions -> what APScheduler knows of it]
    starter,     \* [Starters -> the next line of start_ondemand_scan]
    off,         \* the next line of stop_ondemand_scan
    job,         \* [Sessions -> where the session's job thread is]
    gate,        \* the coordinator's lock
    scanned,     \* [Sessions -> has the session run a scan]
    overlap,     \* has a command been sent before an earlier one was over
    commands,    \* the commands sent
    failures     \* the fetches that failed

jobVars == <<job, gate, scanned, failures>>
ownerVars == <<overlap, commands>>
vars == <<scheduler, made, session, starter, off, jobVars, ownerVars>>

-----------------------------------------------------------------------------
(* running: started and not shut down.  jobs: how often the scan job has   *)
(* been added to it.  spent: its thread pool has been shut down.           *)
Session == [running : BOOLEAN, jobs : Nat, spent : BOOLEAN]

Unstarted == [running |-> FALSE, jobs |-> 0, spent |-> FALSE]

TypeOK ==
    /\ scheduler \in Sessions \cup {None}
    /\ made \in 0..MaxSessions
    /\ session \in [Sessions -> Session]
    /\ \A s \in Sessions : session[s].running => session[s].jobs <= 1
    /\ starter \in [Starters -> {"none", "check", "build", "add", "start"}]
    /\ off \in {"none", "shutdown", "clear"}
    /\ job \in [Sessions -> {"idle", "called", "scan"}]
    /\ gate \in BOOLEAN
    /\ scanned \in [Sessions -> BOOLEAN]
    /\ overlap \in BOOLEAN
    /\ commands \in 0..MaxCommands
    /\ failures \in 0..MaxFailures

Init ==
    /\ scheduler = None
    /\ made = 0
    /\ session = [s \in Sessions |-> Unstarted]
    /\ starter = [t \in Starters |-> "none"]
    /\ off = "none"
    /\ job = [s \in Sessions |-> "idle"]
    /\ gate = FALSE
    /\ scanned = [s \in Sessions |-> FALSE]
    /\ overlap = FALSE
    /\ commands = 0
    /\ failures = 0

-----------------------------------------------------------------------------
(* The owner sends a command, perhaps before the last one is over. *)
Busy == off # "none" \/ \E t \in Starters : starter[t] # "none"

Command ==
    /\ commands < MaxCommands
    /\ commands' = commands + 1
    /\ overlap' = (overlap \/ Busy)

Goto(t, line) == starter' = [starter EXCEPT ![t] = line]

IsRunning(s) == s # None /\ session[s].running

(* /scan_on: a thread of its own, which first imports main.  The owner's    *)
(* next command is handled once this handler has returned.                 *)
ScanOn(t) ==
    /\ starter[t] = "none"
    /\ off = "none"
    /\ Command
    /\ Goto(t, "check")
    /\ UNCHANGED <<scheduler, made, session, off, jobVars>>

\* Mutated form: a session that already runs is not looked for.
CheckNothing(t) ==
    /\ starter[t] = "check"
    /\ Goto(t, "build")
    /\ UNCHANGED <<scheduler, made, session, off, jobVars, ownerVars>>

(* Line 35: a running session answers "already_running". *)
Check(t) ==
    /\ starter[t] = "check"
    /\ Goto(t, IF IsRunning(scheduler) THEN "none" ELSE "build")
    /\ UNCHANGED <<scheduler, made, session, off, jobVars, ownerVars>>

(* Lines 39-41: the exchange, the guard and a scheduler that is not started, *)
(* each assigned to its global.                                            *)
Build(t) ==
    /\ starter[t] = "build"
    /\ made < MaxSessions
    /\ made' = made + 1
    /\ scheduler' = made + 1
    /\ Goto(t, "add")
    /\ UNCHANGED <<session, off, jobVars, ownerVars>>

(* ... unless building the exchange raises: the thread dies unanswered. *)
BuildFails(t) ==
    /\ starter[t] = "build"
    /\ Goto(t, "none")
    /\ UNCHANGED <<scheduler, made, session, off, jobVars, ownerVars>>

\* Mutated form: the id of the job is not looked at.
AddJobAgain(t) ==
    /\ starter[t] = "add"
    /\ IF scheduler = None
       THEN Goto(t, "none") /\ UNCHANGED session
       ELSE /\ Goto(t, "start")
            /\ session' = [session EXCEPT ![scheduler].jobs = @ + 1]
    /\ UNCHANGED <<scheduler, made, off, jobVars, ownerVars>>

(* Lines 55-61.  A scheduler that does not run collects jobs; a running one *)
(* refuses a second job with the same id (ConflictingIdError).  Without a  *)
(* scheduler the attribute lookup raises.  An exception ends the thread.   *)
AddJob(t) ==
    /\ starter[t] = "add"
    /\ IF scheduler = None \/ (IsRunning(scheduler) /\ session[scheduler].jobs > 0)
       THEN /\ Goto(t, "none")
            /\ UNCHANGED session
       ELSE /\ Goto(t, "start")
            /\ session' = [session EXCEPT ![scheduler].jobs = @ + 1]
    /\ UNCHANGED <<scheduler, made, off, jobVars, ownerVars>>

(* Line 62.  A running scheduler refuses to start, and so does one that    *)
(* has collected the job twice.                                            *)
Start(t) ==
    /\ starter[t] = "start"
    /\ Goto(t, "none")
    /\ IF scheduler = None \/ IsRunning(scheduler) \/ session[scheduler].jobs > 1
       THEN UNCHANGED session
       ELSE session' = [session EXCEPT ![scheduler].running = TRUE]
    /\ UNCHANGED <<scheduler, made, off, jobVars, ownerVars>>

-----------------------------------------------------------------------------
(* /scan_off, line 74: "not_running", or on to line 78. *)
ScanOff ==
    /\ off = "none"
    /\ Command
    /\ off' = IF IsRunning(scheduler) THEN "shutdown" ELSE "none"
    /\ UNCHANGED <<scheduler, made, session, starter, jobVars>>

(* Line 78, shutdown(wait=False): the jobs go, a scan that runs stays.  A   *)
(* scheduler that does not run raises, and the handler ends there.         *)
Shutdown ==
    /\ off = "shutdown"
    /\ IF IsRunning(scheduler)
       THEN /\ session' = [session EXCEPT ![scheduler] =
                              [running |-> FALSE, jobs |-> 0, spent |-> TRUE]]
            /\ off' = "clear"
       ELSE /\ off' = "none"
            /\ UNCHANGED session
    /\ UNCHANGED <<scheduler, made, starter, jobVars, ownerVars>>

(* Line 79. *)
Clear ==
    /\ off = "clear"
    /\ scheduler' = None
    /\ off' = "none"
    /\ UNCHANGED <<made, session, starter, jobVars, ownerVars>>

-----------------------------------------------------------------------------
(* A session triggers its job now and then every five minutes, never twice *)
(* at once (max_instances = 1).                                            *)
Trigger(s) ==
    /\ session[s].running /\ session[s].jobs > 0 /\ ~session[s].spent
    /\ job[s] = "idle"
    /\ job' = [job EXCEPT ![s] = "called"]
    /\ UNCHANGED <<scheduler, made, session, starter, off, gate, scanned,
                   failures, ownerVars>>

(* ondemand_job: the tickers or the funding rates cannot be fetched ... *)
FetchFails(s) ==
    /\ job[s] = "called"
    /\ failures < MaxFailures
    /\ failures' = failures + 1
    /\ job' = [job EXCEPT ![s] = "idle"]
    /\ UNCHANGED <<scheduler, made, session, starter, off, gate, scanned,
                   ownerVars>>

\* Mutated form: run_scan goes ahead whoever scans.
RunScanUngated(s) ==
    /\ job[s] = "called"
    /\ gate' = TRUE
    /\ job' = [job EXCEPT ![s] = "scan"]
    /\ UNCHANGED <<scheduler, made, session, starter, off, scanned, failures,
                   ownerVars>>

(* ... or run_scan takes the gate, or finds it taken and returns.  A job   *)
(* that was triggered goes on after its session was shut down.             *)
RunScan(s) ==
    /\ job[s] = "called"
    /\ IF gate
       THEN job' = [job EXCEPT ![s] = "idle"] /\ UNCHANGED gate
       ELSE job' = [job EXCEPT ![s] = "scan"] /\ gate' = TRUE
    /\ UNCHANGED <<scheduler, made, session, starter, off, scanned, failures,
                   ownerVars>>

\* Mutated form: the scan ends without releasing the gate.
ScanEndsHolding(s) ==
    /\ job[s] = "scan"
    /\ job' = [job EXCEPT ![s] = "idle"]
    /\ scanned' = [scanned EXCEPT ![s] = TRUE]
    /\ UNCHANGED <<scheduler, made, session, starter, off, gate, failures,
                   ownerVars>>

ScanEnds(s) ==
    /\ job[s] = "scan"
    /\ job' = [job EXCEPT ![s] = "idle"]
    /\ gate' = FALSE
    /\ scanned' = [scanned EXCEPT ![s] = TRUE]
    /\ UNCHANGED <<scheduler, made, session, starter, off, failures, ownerVars>>

-----------------------------------------------------------------------------
StarterStep(t) ==
    Check(t) \/ Build(t) \/ BuildFails(t) \/ AddJob(t) \/ Start(t)

OffStep == Shutdown \/ Clear

JobStep(s) == RunScan(s) \/ ScanEnds(s)

Next ==
    \/ \E t \in Starters : ScanOn(t) \/ StarterStep(t)
    \/ ScanOff \/ OffStep
    \/ \E s \in Sessions : Trigger(s) \/ FetchFails(s) \/ JobStep(s)

Spec == Init /\ [][Next]_vars

(* Threads and the event loop go on, a running session triggers, and a     *)
(* scan ends.  Fetches fail at most MaxFailures times.                     *)
FairSpec ==
    /\ Spec
    /\ \A t \in Starters : WF_vars(StarterStep(t))
    /\ WF_vars(OffStep)
    /\ \A s \in Sessions : WF_vars(Trigger(s)) /\ WF_vars(JobStep(s))

-----------------------------------------------------------------------------
(* While every command was over when the next was sent, a session that     *)
(* runs is the one /scan_off will find: none is orphaned by a start that   *)
(* failed, a stop, or a stop that met a scan in flight.                    *)
SessionReachable ==
    ~overlap => \A s \in Sessions : session[s].running => s = scheduler

(* However many sessions overlap, orphaned, stopped with a scan in flight  *)
(* or current: one scan at a time (ondemand.py:29-30).                     *)
OneScanAtATime ==
    \A r, s \in Sessions : job[r] = "scan" /\ job[s] = "scan" => r = s

(* A session that was told to be started scans, even when the scan of the  *)
(* session before it still holds the gate at its first trigger, unless it  *)
(* is stopped or commands overlap.                                         *)
SessionScans ==
    \A s \in Sessions :
        session[s].running /\ ~overlap ~> scanned[s] \/ ~session[s].running \/ overlap

(* "active until you send /scan_off" (telegram_bot.py:261): when no command *)
(* is in progress, no session runs that /scan_off would not find.          *)
ActiveUntilScanOff ==
    ~Busy => \A s \in Sessions : session[s].running => s = scheduler
=============================================================================

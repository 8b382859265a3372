--------------------------- MODULE OnDemandProofs ---------------------------
(***************************************************************************)
(* Proofs about OnDemand, for any number of threads, sessions and commands: *)
(* one scan at a time whatever overlaps, and no orphaned session as long   *)
(* as no two commands do.                                                  *)
(***************************************************************************)
EXTENDS OnDemand, TLAPS

(* Only a scan's own job holds the gate. *)
GateInv == OneScanAtATime /\ \A s \in Sessions : job[s] = "scan" => gate

(* A command that met no other has the global to itself: past the check no *)
(* session runs, and between the shutdown and the clearing none does.      *)
AloneInv ==
    ~overlap =>
        /\ \A t, u \in Starters :
              starter[t] # "none" /\ starter[u] # "none" => t = u
        /\ off # "none" => \A t \in Starters : starter[t] = "none"
        /\ (off = "clear" \/ \E t \in Starters : starter[t] \in {"build", "add", "start"})
              => \A s \in Sessions : ~session[s].running
        /\ SessionReachable

Inv == TypeOK /\ GateInv /\ AloneInv

LEMMA InvInit == Init => Inv
<1> SUFFICES ASSUME Init  PROVE Inv
  OBVIOUS
<1>1. Unstarted \in Session /\ ~Unstarted.running /\ Unstarted.jobs <= 1
  BY DEF Unstarted, Session
<1>2. session \in [Sessions -> Session]
  BY <1>1 DEF Init
<1>3. \A s \in Sessions : ~session[s].running /\ session[s].jobs <= 1
  BY <1>1 DEF Init
<1>4. TypeOK
  <2>1. scanned \in [Sessions -> BOOLEAN] /\ gate \in BOOLEAN /\ overlap \in BOOLEAN
    BY Zenon DEF Init
  <2>2. made \in 0..MaxSessions /\ commands \in 0..MaxCommands
        /\ failures \in 0..MaxFailures
    BY OnDemandAssumption DEF Init
  <2>3. QED
    BY <1>2, <1>3, <2>1, <2>2 DEF Init, TypeOK
<1>5. GateInv /\ AloneInv
  BY <1>3 DEF Init, GateInv, AloneInv, OneScanAtATime, SessionReachable
<1>6. QED
  BY <1>4, <1>5 DEF Inv

(* What a change of one session leaves of the types. *)
LEMMA SessionUpdate ==
    ASSUME TypeOK, NEW s \in Sessions, NEW r \in Session,
           r.running => r.jobs <= 1,
           session' = [session EXCEPT ![s] = r]
    PROVE  /\ session' \in [Sessions -> Session]
           /\ \A v \in Sessions : session'[v].running => session'[v].jobs <= 1
BY DEF TypeOK

LEMMA TypeStep ==
    ASSUME TypeOK, Next  PROVE TypeOK'
<1> USE OnDemandAssumption DEF jobVars, ownerVars
<1>1. ASSUME NEW t \in Starters, ScanOn(t)  PROVE TypeOK'
  BY <1>1 DEF TypeOK, ScanOn, Command, Goto
<1>2. ASSUME NEW t \in Starters, Check(t)  PROVE TypeOK'
  BY <1>2 DEF TypeOK, Check, Goto
<1>3. ASSUME NEW t \in Starters, Build(t) \/ BuildFails(t)  PROVE TypeOK'
  <2>1. CASE Build(t)
    <3>1. made + 1 \in 1..MaxSessions /\ made' = made + 1 /\ scheduler' = made + 1
      BY <2>1 DEF Build, TypeOK
    <3>2. QED
      BY <2>1, <3>1 DEF Build, TypeOK, Goto, Sessions
  <2>2. CASE BuildFails(t)
    BY <2>2 DEF BuildFails, TypeOK, Goto
  <2>3. QED
    BY <1>3, <2>1, <2>2
<1>4. ASSUME NEW t \in Starters, AddJob(t)  PROVE TypeOK'
  <2>1. CASE UNCHANGED session
    BY <1>4, <2>1 DEF AddJob, Goto, TypeOK
  <2>2. CASE scheduler # None /\ ~(IsRunning(scheduler) /\ session[scheduler].jobs > 0)
    <3> DEFINE r == [session[scheduler] EXCEPT !.jobs = @ + 1]
    <3>1. scheduler \in Sessions /\ session[scheduler] \in Session
      BY <2>2 DEF TypeOK
    <3>2. session' = [session EXCEPT ![scheduler] = r]
      BY <1>4, <2>2 DEF AddJob
    <3>3. r \in Session /\ r.running = session[scheduler].running
          /\ r.jobs = session[scheduler].jobs + 1
      BY <3>1 DEF Session
    <3>4. session[scheduler].running => session[scheduler].jobs = 0
      BY <2>2, <3>1 DEF IsRunning, Session
    <3>5. r.running => r.jobs <= 1
      BY <3>3, <3>4
    <3> HIDE DEF r
    <3>6. QED
      BY <1>4, <2>2, <3>1, <3>2, <3>3, <3>5, SessionUpdate DEF AddJob, Goto, TypeOK
  <2>3. QED
    BY <1>4, <2>1, <2>2 DEF AddJob
<1>5. ASSUME NEW t \in Starters, Start(t)  PROVE TypeOK'
  <2>1. CASE UNCHANGED session
    BY <1>5, <2>1 DEF Start, Goto, TypeOK
  <2>2. CASE scheduler # None /\ ~(session[scheduler].jobs > 1)
             /\ session' = [session EXCEPT ![scheduler].running = TRUE]
    <3> DEFINE r == [session[scheduler] EXCEPT !.running = TRUE]
    <3>1. scheduler \in Sessions /\ session[scheduler] \in Session
      BY <2>2 DEF TypeOK
    <3>2. session' = [session EXCEPT ![scheduler] = r]
      BY <2>2
    <3>3. r \in Session /\ r.jobs = session[scheduler].jobs
      BY <3>1 DEF Session
    <3>4. r.jobs <= 1
      BY <2>2, <3>1, <3>3 DEF Session
    <3> HIDE DEF r
    <3>5. QED
      BY <1>5, <3>1, <3>2, <3>3, <3>4, SessionUpdate DEF Start, Goto, TypeOK
  <2>3. QED
    BY <1>5, <2>1, <2>2 DEF Start
<1>6. CASE ScanOff
  BY <1>6 DEF TypeOK, ScanOff, Command
<1>7. CASE OffStep
  <2>1. CASE UNCHANGED session
    BY <1>7, <2>1 DEF TypeOK, OffStep, Shutdown, Clear
  <2>2. CASE Shutdown /\ IsRunning(scheduler)
    <3> DEFINE r == [running |-> FALSE, jobs |-> 0, spent |-> TRUE]
    <3>1. r \in Session /\ ~r.running
      BY DEF Session
    <3>2. scheduler \in Sessions /\ session' = [session EXCEPT ![scheduler] = r]
      BY <2>2 DEF Shutdown, IsRunning, TypeOK
    <3> HIDE DEF r
    <3>3. QED
      BY <2>2, <3>1, <3>2, SessionUpdate DEF Shutdown, TypeOK
  <2>3. QED
    BY <1>7, <2>1, <2>2 DEF OffStep, Shutdown, Clear
<1>8. ASSUME NEW s \in Sessions,
             Trigger(s) \/ FetchFails(s) \/ RunScan(s) \/ ScanEnds(s)
      PROVE  TypeOK'
  <2>1. CASE Trigger(s)
    BY <2>1 DEF TypeOK, Trigger
  <2>2. CASE FetchFails(s)
    BY <2>2 DEF TypeOK, FetchFails
  <2>3. CASE RunScan(s)
    BY <2>3 DEF TypeOK, RunScan
  <2>4. CASE ScanEnds(s)
    BY <2>4 DEF TypeOK, ScanEnds
  <2>5. QED
    BY <1>8, <2>1, <2>2, <2>3, <2>4
<1>9. QED
  BY <1>1, <1>2, <1>3, <1>4, <1>5, <1>6, <1>7, <1>8 DEF Next, StarterStep, JobStep

LEMMA GateStep ==
    ASSUME TypeOK, GateInv, Next  PROVE GateInv'
<1> USE DEF TypeOK, GateInv, OneScanAtATime, jobVars, ownerVars
<1>1. CASE UNCHANGED jobVars
  BY <1>1
<1>2. ASSUME NEW s \in Sessions,
             Trigger(s) \/ FetchFails(s) \/ RunScan(s) \/ ScanEnds(s)
      PROVE  GateInv'
  BY <1>2 DEF Trigger, FetchFails, RunScan, ScanEnds
<1>3. QED
  BY <1>1, <1>2
  DEF Next, StarterStep, JobStep, OffStep, ScanOn, Check, Build, BuildFails,
      AddJob, Start, ScanOff, Shutdown, Clear

(* A command sent while another is in progress makes the rest vacuous; one  *)
(* sent alone finds every thread and the handler at rest.                  *)
LEMMA AloneStep ==
    ASSUME TypeOK, AloneInv, Next  PROVE AloneInv'
<1> USE OnDemandAssumption DEF AloneInv, SessionReachable, TypeOK, jobVars, ownerVars
<1>1. ASSUME NEW t \in Starters, ScanOn(t)  PROVE AloneInv'
  BY <1>1 DEF ScanOn, Command, Goto, Busy
<1>2. ASSUME NEW t \in Starters, Check(t)  PROVE AloneInv'
  BY <1>2 DEF Check, Goto, IsRunning, Sessions
<1>3. ASSUME NEW t \in Starters, Build(t) \/ BuildFails(t)  PROVE AloneInv'
  BY <1>3 DEF Build, BuildFails, Goto
<1>4. ASSUME NEW t \in Starters, AddJob(t)  PROVE AloneInv'
  BY <1>4 DEF AddJob, Goto, Session
<1>5. ASSUME NEW t \in Starters, Start(t)  PROVE AloneInv'
  BY <1>5 DEF Start, Goto, Session
<1>6. CASE ScanOff
  BY <1>6 DEF ScanOff, Command, Busy
<1>7. CASE Shutdown
  BY <1>7 DEF Shutdown, IsRunning, Session
<1>8. CASE Clear
  BY <1>8 DEF Clear
<1>9. ASSUME NEW s \in Sessions,
             Trigger(s) \/ FetchFails(s) \/ RunScan(s) \/ ScanEnds(s)
      PROVE  AloneInv'
  BY <1>9 DEF Trigger, FetchFails, RunScan, ScanEnds
<1>10. QED
  BY <1>1, <1>2, <1>3, <1>4, <1>5, <1>6, <1>7, <1>8, <1>9
  DEF Next, StarterStep, OffStep, JobStep

LEMMA InvAlways == Spec => []Inv
<1>1. Inv /\ [Next]_vars => Inv'
  <2> SUFFICES ASSUME Inv, [Next]_vars  PROVE Inv'
    OBVIOUS
  <2>1. CASE Next
    BY <2>1, TypeStep, GateStep, AloneStep DEF Inv
  <2>2. CASE UNCHANGED vars
    BY <2>2
    DEF vars, jobVars, ownerVars, Inv, TypeOK, GateInv, AloneInv,
        OneScanAtATime, SessionReachable
  <2>3. QED
    BY <2>1, <2>2
<1>2. QED
  BY <1>1, InvInit, PTL DEF Spec

(* Types, and no scheduler ever runs with the scan job added twice. *)
THEOREM OnDemandTypes == Spec => []TypeOK
BY InvAlways, PTL DEF Inv

(* Sessions never scan at once, orphans and scans in flight included. *)
THEOREM OneScanCorrect == Spec => []OneScanAtATime
BY InvAlways, PTL DEF Inv, GateInv

(* An orphaned session is always the work of two overlapping commands. *)
THEOREM SessionCorrect == Spec => []SessionReachable
<1>1. Inv => SessionReachable
  BY DEF Inv, AloneInv, SessionReachable
<1>2. QED
  BY <1>1, InvAlways, PTL
=============================================================================

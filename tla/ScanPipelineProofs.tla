------------------------- MODULE ScanPipelineProofs -------------------------
(***************************************************************************)
(* Proofs about ScanPipeline, for any jobs, copies, wiring, coins, windows *)
(* and bounds.                                                             *)
(***************************************************************************)
EXTENDS ScanPipeline, TLAPS

(* Appending a well-formed row keeps every coin's log well formed. *)
LEMMA WithRowType ==
    ASSUME csv \in [Coins -> Seq(Row)], NEW s \in Coins, NEW row \in Row
    PROVE  WithRow(s, row) \in [Coins -> Seq(Row)]
<1>1. Append(csv[s], row) \in Seq(Row)
  OBVIOUS
<1>2. QED
  BY <1>1 DEF WithRow

(* The row of a scan says what it is given, at the time the scan began. *)
LEMMA RowOfType ==
    ASSUME stamp \in [Jobs -> Nat], life \in Nat,
           NEW j \in Jobs, NEW r \in Reasons \cup {"alert", "log_only"}
    PROVE  RowOf(j, r) \in Row /\ Says(RowOf(j, r), r, stamp[j])
BY DeploymentAssumption DEF RowOf, Row, Says

(* The kind of a verdict is one of three, and only a HOLD has a reason. *)
LEMMA VerdictFields ==
    ASSUME NEW v \in Verdicts
    PROVE  /\ v.coin \in Coins
           /\ Kind(v) \in {"hold", "log_only", "alert"}
           /\ Kind(v) = "hold" => v.reason \in Reasons
BY PipelineAssumption DEF Verdicts, Kind, EmissionKind

(* Every variable keeps its type, and a thread has an alert in its hands   *)
(* exactly while it delivers and records one.                              *)
TypeInv == TypeOK /\ LoopInv

THEOREM TypeCorrect == Spec => []TypeInv
<1> USE DEF GuardTypeOK, CoordTypeOK, PCs
<1>1. Init => TypeInv
  BY PipelineAssumption, GuardAssumption
  DEF Init, GuardInit, CoordInit, TypeInv, TypeOK, LoopInv, Outcomes, Row
<1>2. TypeInv /\ [Next]_vars => TypeInv'
  <2> SUFFICES ASSUME TypeOK, LoopInv, [Next]_vars
               PROVE  TypeOK' /\ LoopInv'
    BY DEF TypeInv
  <2> USE DeploymentAssumption
  <2>1. ASSUME NEW j \in Jobs, Fire(j)  PROVE TypeOK' /\ LoopInv'
    BY <2>1 DEF Fire, TypeOK, LoopInv, Goto, guardVars, coordVars, logVars
  <2>2. ASSUME NEW j \in Jobs, Claim(j)  PROVE TypeOK' /\ LoopInv'
    BY <2>2 DEF Claim, Acquire, TypeOK, LoopInv, Goto, guardVars, logVars
  <2>3. ASSUME NEW j \in Jobs, Skip(j)  PROVE TypeOK' /\ LoopInv'
    BY <2>3 DEF Skip, TypeOK, LoopInv, Goto, guardVars, coordVars, logVars
  <2>4. ASSUME NEW j \in Jobs, Begin(j)  PROVE TypeOK' /\ LoopInv'
    BY <2>4 DEF Begin, Open, TypeOK, LoopInv, Goto, guardVars, logVars
  <2>5. ASSUME NEW j \in Jobs, Analyse(j)  PROVE TypeOK' /\ LoopInv'
    <3>1. PICK directional \in SUBSET Coins :
             \E analysed \in SUBSET Candidates(j, directional) :
             \E verdict \in [analysed -> Verdicts] : Decide(j, analysed, verdict)
      BY <2>5 DEF Analyse
    <3>2. PICK analysed \in SUBSET Candidates(j, directional) :
             \E verdict \in [analysed -> Verdicts] : Decide(j, analysed, verdict)
      BY <3>1
    <3>3. PICK verdict \in [analysed -> Verdicts] : Decide(j, analysed, verdict)
      BY <3>2
    <3> DEFINE S == {verdict[s] : s \in analysed}
    <3>4. S \in SUBSET Verdicts
      BY <3>3
    <3>5. \A v, w \in S : v.coin = w.coin => v = w
      BY <3>3 DEF Decide
    <3>6. pc[j] = "funnel" /\ sending[j] = None
      BY <2>5 DEF Analyse, LoopInv
    <3>7. /\ decided' = [decided EXCEPT ![j] = S]
          /\ \/ S = {} /\ pc' = [pc EXCEPT ![j] = "end"]
             \/ pc' = [pc EXCEPT ![j] = "persist"]
          /\ outcome' \in [Jobs -> Outcomes]
      <4>1. CASE analysed = {}
        <5>1. S = {}
          BY <4>1
        <5>2. decided' = [decided EXCEPT ![j] = S]
          BY <3>3 DEF Decide
        <5>3. PICK o \in {"ok", "empty"} : outcome' = [outcome EXCEPT ![j] = o]
          BY <3>3, <4>1 DEF Decide
        <5>4. outcome' \in [Jobs -> Outcomes]
          BY <5>3 DEF TypeOK, Outcomes
        <5>5. QED
          BY <3>3, <4>1, <5>1, <5>2, <5>4 DEF Decide, Goto
      <4>2. CASE analysed # {}
        BY <3>3, <4>2 DEF Decide, Goto, TypeOK
      <4>3. QED
        BY <4>1, <4>2
    <3> HIDE DEF S
    <3>8. /\ pc' \in [Jobs -> PCs]
          /\ pc'[j] \in {"end", "persist"}
          /\ \A i \in Jobs : i # j => pc'[i] = pc[i] /\ decided'[i] = decided[i]
          /\ decided' \in [Jobs -> SUBSET Verdicts]
          /\ decided'[j] = S
          /\ S = {} \/ pc'[j] = "persist"
      BY <3>4, <3>7 DEF TypeOK
    <3>9. TypeOK'
      BY <2>5, <3>7, <3>8 DEF Analyse, TypeOK, guardVars, coordVars, logVars
    <3>10. LoopInv'
      BY <2>5, <3>5, <3>6, <3>8 DEF Analyse, LoopInv
    <3>11. QED
      BY <3>9, <3>10
  <2>6. ASSUME NEW j \in Jobs, Persist(j)  PROVE TypeOK' /\ LoopInv'
    <3>1. PICK v \in decided[j] :
             \/ HoldDeduped(j, v) \/ HoldLogged(j, v) \/ HoldWriteFails(j, v)
             \/ LogOnly(j, v) \/ PersistAlert(j, v)
      BY <2>6 DEF Persist
    <3>2. v \in Verdicts /\ v.coin \in Coins /\ v # None
          /\ (Kind(v) = "hold" => v.reason \in Reasons)
      BY VerdictFields, PipelineAssumption DEF TypeOK
    <3>3. CASE HoldDeduped(j, v)
      BY <3>2, <3>3
      DEF HoldDeduped, Handled, TypeOK, LoopInv, guardVars, coordVars, logVars
    <3>4. CASE HoldLogged(j, v)
      <4>1. v.reason \in Reasons /\ csv' = WithRow(v.coin, RowOf(j, v.reason))
        BY <3>2, <3>4 DEF HoldLogged
      <4>2. csv' \in [Coins -> Seq(Row)]
        BY <3>2, <4>1, RowOfType, WithRowType DEF TypeOK
      <4>3. QED
        BY <3>2, <3>4, <4>2
        DEF HoldLogged, RecordHold, Handled, TypeOK, LoopInv, coordVars
    <3>5. CASE HoldWriteFails(j, v)
      BY <3>2, <3>5
      DEF HoldWriteFails, Handled, TypeOK, LoopInv, guardVars, coordVars,
          logVars
    <3>6. CASE LogOnly(j, v)
      <4>1. csv' \in [Coins -> Seq(Row)]
        <5>1. WithRow(v.coin, RowOf(j, "log_only")) \in [Coins -> Seq(Row)]
          BY <3>2, RowOfType, WithRowType DEF TypeOK
        <5>2. QED
          BY <3>6, <5>1 DEF LogOnly, TypeOK
      <4>2. TypeOK'
        BY <3>6, <4>1 DEF LogOnly, Handled, TypeOK, guardVars, coordVars
      <4>3. LoopInv'
        BY <3>6 DEF LogOnly, Handled, TypeOK, LoopInv
      <4>4. QED
        BY <4>2, <4>3
    <3>7. CASE PersistAlert(j, v)
      <4>1. csv' \in [Coins -> Seq(Row)] /\ lost' \subseteq Coins \X Nat
        <5>1. WithRow(v.coin, RowOf(j, "alert")) \in [Coins -> Seq(Row)]
          BY <3>2, RowOfType, WithRowType DEF TypeOK
        <5>2. <<v.coin, stamp[j]>> \in Coins \X Nat
          BY <3>2 DEF TypeOK
        <5>3. QED
          BY <3>7, <5>1, <5>2 DEF PersistAlert, TypeOK
      <4>2. /\ sending' \in [Jobs -> Verdicts \cup {None}]
            /\ decided' \in [Jobs -> SUBSET Verdicts]
            /\ pc' \in [Jobs -> PCs]
        BY <3>2, <3>7 DEF PersistAlert, Handled, Goto, TypeOK
      <4>5. TypeOK'
        BY <3>7, <4>1, <4>2 DEF PersistAlert, TypeOK, guardVars, coordVars
      <4>3. LoopInv'
        BY <3>2, <3>7 DEF PersistAlert, Handled, Goto, TypeOK, LoopInv
      <4>4. QED
        BY <4>5, <4>3
    <3>8. QED
      BY <3>1, <3>3, <3>4, <3>5, <3>6, <3>7
  <2>7. ASSUME NEW j \in Jobs, Send(j)  PROVE TypeOK' /\ LoopInv'
    <3>1. sending[j] \in Verdicts
      BY <2>7 DEF Send, TypeOK, LoopInv
    <3>2. sending[j].coin \in Coins
      BY <3>1, VerdictFields
    <3>3. QED
      BY <2>7, <3>1, <3>2
      DEF Send, Goto, TypeOK, LoopInv, Alert, guardVars, coordVars
  <2>8. ASSUME NEW j \in Jobs, RecordAlert(j)  PROVE TypeOK' /\ LoopInv'
    BY <2>8 DEF RecordAlert, Record, Goto, TypeOK, LoopInv, coordVars, logVars
  <2>9. ASSUME NEW j \in Jobs, Finish(j)  PROVE TypeOK' /\ LoopInv'
    BY <2>9 DEF Finish, Goto, TypeOK, LoopInv, Outcomes, guardVars, coordVars,
                logVars
  <2>10. ASSUME NEW j \in Jobs, EndScan(j)  PROVE TypeOK' /\ LoopInv'
    BY <2>10 DEF EndScan, Close, StreakAfter, Goto, TypeOK, LoopInv, Outcomes,
                 guardVars, logVars
  <2>11. ASSUME NEW j \in Jobs, ReleaseSlot(j)  PROVE TypeOK' /\ LoopInv'
    BY <2>11 DEF ReleaseSlot, Release, Goto, TypeOK, LoopInv, guardVars, logVars
  <2>12. ASSUME NEW j \in Jobs, Abort(j)  PROVE TypeOK' /\ LoopInv'
    BY <2>12 DEF Abort, Goto, TypeOK, LoopInv, Outcomes, guardVars, coordVars,
                 logVars
  <2>13. ASSUME Tick  PROVE TypeOK' /\ LoopInv'
    BY <2>13 DEF Tick, TypeOK, LoopInv, guardVars, coordVars, scanVars, logVars
  <2>14. ASSUME Restart  PROVE TypeOK' /\ LoopInv'
    BY <2>14 DEF Restart, TypeOK, LoopInv, Outcomes, logVars
  <2>15. ASSUME UNCHANGED vars  PROVE TypeOK' /\ LoopInv'
    BY <2>15 DEF vars, TypeOK, LoopInv, guardVars, coordVars, scanVars, logVars
  <2>16. QED
    BY <2>1, <2>2, <2>3, <2>4, <2>5, <2>6, <2>7, <2>8, <2>9, <2>10, <2>11,
       <2>12, <2>13, <2>14, <2>15
    DEF Next, Step
<1>3. QED
  BY <1>1, <1>2, PTL DEF Spec

(* The type invariant the runs check. *)
COROLLARY TypesHold == Spec => []TypeOK
BY TypeCorrect, PTL DEF TypeInv

-----------------------------------------------------------------------------
(* A step that leaves the lock alone and lets no thread enter the slot     *)
(* keeps the gate.                                                         *)
LEMMA GateKept ==
    ASSUME GateInv, UNCHANGED gate,
           \A i \in Jobs : pc'[i] \in Owning => pc[i] \in Owning
    PROVE  GateInv'
BY DEF GateInv, OneScanPerCopy

(* The gate excludes: the lock is held while a thread owns the slot, and   *)
(* only a thread that finds it free takes it.                              *)
LEMMA GateStep ==
    ASSUME TypeInv, GateInv, [Next]_vars
    PROVE  GateInv'
<1> USE DeploymentAssumption DEF TypeInv, TypeOK, CoordTypeOK
<1>1. ASSUME NEW j \in Jobs, Claim(j)  PROVE GateInv'
  BY <1>1 DEF Claim, Acquire, Goto, GateInv, OneScanPerCopy, Owning, PCs
<1>2. ASSUME NEW j \in Jobs, ReleaseSlot(j)  PROVE GateInv'
  BY <1>2 DEF ReleaseSlot, Release, Goto, GateInv, OneScanPerCopy, Owning, PCs
<1>3. ASSUME Restart  PROVE GateInv'
  BY <1>3 DEF Restart, GateInv, OneScanPerCopy, Owning
<1>4. ASSUME NEW j \in Jobs,
             \/ Fire(j) \/ Skip(j) \/ Begin(j) \/ Send(j) \/ RecordAlert(j)
             \/ Finish(j) \/ EndScan(j) \/ Abort(j)
      PROVE  GateInv'
  <2>1. UNCHANGED gate
    BY <1>4 DEF Fire, Skip, Begin, Send, RecordAlert, Finish, EndScan, Abort,
                Open, Close, coordVars
  <2>2. \A i \in Jobs : pc'[i] \in Owning => pc[i] \in Owning
    BY <1>4 DEF Fire, Skip, Begin, Send, RecordAlert, Finish, EndScan, Abort,
                Goto, Owning, PCs
  <2>3. QED
    BY <2>1, <2>2, GateKept
<1>5. ASSUME NEW j \in Jobs, Analyse(j)  PROVE GateInv'
  <2>1. pc[j] = "funnel" /\ UNCHANGED gate
    BY <1>5 DEF Analyse, coordVars
  <2>2. pc' = [pc EXCEPT ![j] = "end"] \/ pc' = [pc EXCEPT ![j] = "persist"]
    BY <1>5 DEF Analyse, Decide, Goto
  <2>3. QED
    BY <2>1, <2>2, GateKept DEF Owning, PCs
<1>6. ASSUME NEW j \in Jobs, Persist(j)  PROVE GateInv'
  <2>1. UNCHANGED gate
    BY <1>6 DEF Persist, HoldDeduped, HoldLogged, HoldWriteFails, LogOnly,
                PersistAlert, coordVars
  <2>2. pc[j] = "persist" /\ (pc' = pc \/ pc' = [pc EXCEPT ![j] = "send"])
    BY <1>6 DEF Persist, HoldDeduped, HoldLogged, HoldWriteFails, LogOnly,
                PersistAlert, Goto
  <2>3. QED
    BY <2>1, <2>2, GateKept DEF Owning, PCs
<1>7. ASSUME Tick \/ UNCHANGED vars  PROVE GateInv'
  BY <1>7, GateKept DEF Tick, vars, coordVars, scanVars
<1>8. QED
  BY <1>1, <1>2, <1>3, <1>4, <1>5, <1>6, <1>7 DEF Next, Step

LEMMA GateAlways == Spec => []GateInv
<1>1. Init => GateInv
  BY DEF Init, GateInv, OneScanPerCopy, Owning
<1>2. QED
  BY <1>1, GateStep, TypeCorrect, PTL DEF Spec

(* Two jobs that reach the same copy of main never scan at once, whatever  *)
(* the jobs, the wiring and the interleaving.                              *)
THEOREM SingleScan == Spec => []OneScanPerCopy
BY GateAlways, PTL DEF GateInv

-----------------------------------------------------------------------------
(* What the cooldown rests on besides the types and the gate.              *)
CoolInv == FreshInv /\ HistoryInv /\ CooldownHeld

(* A thread that holds a verdict or an alert owns the slot of its copy. *)
LEMMA HoldersOwn ==
    ASSUME TypeInv, NEW i \in Jobs, decided[i] # {} \/ sending[i] # None
    PROVE  pc[i] \in {"persist", "send", "record"} /\ pc[i] \in Owning
BY DEF TypeInv, LoopInv, Owning, PCs

(* Verdicts stay fresh while the guard forgets nothing, learns nothing and *)
(* no scan gets a new one.                                                 *)
LEMMA FreshKept ==
    ASSUME FreshInv, UNCHANGED last_signal,
           \A i \in Jobs :
              /\ decided'[i] \subseteq decided[i]
              /\ decided[i] # {} \/ sending[i] # None => stamp'[i] = stamp[i]
              /\ sending'[i] # None =>
                    sending'[i] = sending[i] \/ sending'[i] \in decided[i]
    PROVE  FreshInv'
<1>1. ASSUME NEW i \in Jobs, NEW v \in decided'[i]
      PROVE  ~InCooldown(last_signal'[CopyOf[i]][v.coin], stamp'[i])
  BY <1>1 DEF FreshInv, IsDuplicate
<1>2. ASSUME NEW i \in Jobs, sending'[i] # None
      PROVE  ~InCooldown(last_signal'[CopyOf[i]][sending'[i].coin], stamp'[i])
  <2>1. CASE sending'[i] = sending[i]
    BY <1>2, <2>1 DEF FreshInv, IsDuplicate
  <2>2. CASE sending'[i] \in decided[i]
    BY <1>2, <2>2 DEF FreshInv, IsDuplicate
  <2>3. QED
    BY <1>2, <2>1, <2>2
<1>3. QED
  BY <1>1, <1>2 DEF FreshInv, IsDuplicate

(* Alerts stay remembered while none is sent, none is stored and no life   *)
(* ends, as long as a thread about to store one still is.                  *)
LEMMA HistoryKept ==
    ASSUME TypeInv, HistoryInv, CooldownHeld,
           UNCHANGED <<last_signal, alerts, life>>,
           \A i \in Jobs : pc[i] = "record" =>
              pc'[i] = "record" /\ stamp'[i] = stamp[i] /\ sending'[i] = sending[i]
    PROVE  HistoryInv' /\ CooldownHeld'
<1>1. CooldownHeld'
  BY DEF CooldownHeld, Apart
<1>2. ASSUME NEW a \in alerts, a.life = life  PROVE Remembered(a)'
  <2>1. a.job \in Jobs
    BY DEF TypeInv, TypeOK, Alert
  <2>2. Remembered(a)
    BY <1>2 DEF HistoryInv
  <2>3. QED
    BY <2>1, <2>2 DEF Remembered
<1>3. HistoryInv'
  BY <1>2 DEF HistoryInv
<1>4. QED
  BY <1>1, <1>3

(* Sending: the new alert is apart from every remembered one, because the  *)
(* scan asked the guard and no other scan of the copy is storing one.      *)
LEMMA CoolSend ==
    ASSUME TypeInv, GateInv, CoolInv, NEW j \in Jobs, Send(j)
    PROVE  CoolInv'
<1> DEFINE s == sending[j].coin
           last == last_signal[CopyOf[j]][s]
<1>1. sending[j] \in Verdicts /\ sending[j] # None
  BY DEF Send, TypeInv, TypeOK, LoopInv
<1>2. s \in Coins /\ CopyOf[j] \in Copies /\ stamp[j] \in Nat
  BY <1>1, VerdictFields, DeploymentAssumption DEF TypeInv, TypeOK
<1>3. pc[j] = "send" /\ pc' = [pc EXCEPT ![j] = "record"]
      /\ UNCHANGED <<last_signal, life, stamp, decided, sending>>
  BY DEF Send, Goto, guardVars
<1>4. FreshInv'
  BY <1>3, FreshKept DEF CoolInv
<1>5. PICK sent \in BOOLEAN :
         alerts' = alerts \cup {[coin |-> s, copy |-> CopyOf[j], job |-> j,
                                life |-> life, at |-> stamp[j], sent |-> sent]}
  BY DEF Send
<1> DEFINE new == [coin |-> s, copy |-> CopyOf[j], job |-> j, life |-> life,
                   at |-> stamp[j], sent |-> sent]
<1>6. ASSUME NEW a \in alerts, a.coin = s, a.copy = CopyOf[j], a.life = life
      PROVE  Apart(a.at, stamp[j]) /\ Apart(stamp[j], a.at)
  <2>1. a.job \in Jobs /\ a.at \in Nat
    BY DEF TypeInv, TypeOK, Alert
  <2>2. Remembered(a)
    BY <1>6 DEF CoolInv, HistoryInv
  <2>3. ~(pc[a.job] = "record" /\ CopyOf[a.job] = CopyOf[j])
    BY <1>3, <2>1 DEF GateInv, OneScanPerCopy, Owning, PCs
  <2>4. last # None /\ a.at <= last
    BY <1>6, <2>2, <2>3 DEF Remembered
  <2>5. last \in Nat /\ DUPLICATE_COOLDOWN_MIN \in Nat
    BY <1>2, <2>4, GuardAssumption DEF TypeInv, TypeOK, GuardTypeOK
  <2>6. ~(stamp[j] - last < DUPLICATE_COOLDOWN_MIN)
    BY <1>1, <2>4 DEF CoolInv, FreshInv, IsDuplicate, InCooldown
  <2>7. stamp[j] - a.at >= DUPLICATE_COOLDOWN_MIN
    BY <1>2, <2>1, <2>4, <2>5, <2>6
  <2>8. QED
    BY <2>7 DEF Apart
<1>7. CooldownHeld'
  <2>1. SUFFICES ASSUME NEW a \in alerts', NEW b \in alerts',
                        a.coin = b.coin, a.copy = b.copy, a.life = b.life,
                        <<a.job, a.at>> # <<b.job, b.at>>
                 PROVE  Apart(a.at, b.at)
    BY DEF CooldownHeld, Apart
  <2>2. CASE a \in alerts /\ b \in alerts
    BY <2>1, <2>2 DEF CoolInv, CooldownHeld
  <2>3. CASE a \in alerts /\ b = new
    BY <2>1, <2>3, <1>6
  <2>4. CASE a = new /\ b \in alerts
    BY <2>1, <2>4, <1>6
  <2>5. CASE a = new /\ b = new
    BY <2>1, <2>5
  <2>6. QED
    BY <1>5, <2>2, <2>3, <2>4, <2>5
<1>8. HistoryInv'
  <2>1. ASSUME NEW a \in alerts'
        PROVE  a.life <= life /\ (a.life = life => Remembered(a)')
    <3>1. CASE a = new
      BY <1>2, <1>3, <3>1 DEF Remembered, TypeInv, TypeOK
    <3>2. CASE a \in alerts
      <4>1. a.job \in Jobs /\ a.life <= life /\ (a.life = life => Remembered(a))
        BY <3>2 DEF TypeInv, TypeOK, Alert, CoolInv, HistoryInv
      <4>2. QED
        BY <1>3, <4>1 DEF Remembered, TypeInv, TypeOK
    <3>3. QED
      BY <1>5, <3>1, <3>2
  <2>2. QED
    BY <1>3, <2>1 DEF HistoryInv
<1>9. QED
  BY <1>4, <1>7, <1>8 DEF CoolInv

(* Storing: the guard takes over what the thread remembered, and no other  *)
(* verdict of the copy is about the same coin.                             *)
LEMMA CoolRecord ==
    ASSUME TypeInv, GateInv, CoolInv, NEW j \in Jobs, RecordAlert(j)
    PROVE  CoolInv'
<1> DEFINE s == sending[j].coin
           c == CopyOf[j]
           last == last_signal[c][s]
<1>1. pc[j] = "record" /\ sending[j] \in Verdicts /\ sending[j] # None
  BY DEF RecordAlert, TypeInv, TypeOK, LoopInv
<1>2. s \in Coins /\ c \in Copies /\ stamp[j] \in Nat /\ stamp[j] # None
  BY <1>1, VerdictFields, DeploymentAssumption DEF TypeInv, TypeOK
<1>3. /\ UNCHANGED <<alerts, life, stamp, decided>>
      /\ sending' = [sending EXCEPT ![j] = None]
      /\ pc' = [pc EXCEPT ![j] = "persist"]
  BY DEF RecordAlert, Goto, logVars
<1>4. \A d \in Copies, t \in Coins :
         last_signal'[d][t] = IF d = c /\ t = s THEN stamp[j]
                              ELSE last_signal[d][t]
  BY <1>2 DEF RecordAlert, Record, TypeInv, TypeOK, GuardTypeOK
<1>5. \A i \in Jobs : i # j /\ CopyOf[i] = c =>
         decided[i] = {} /\ sending[i] = None
  BY <1>1, HoldersOwn DEF GateInv, OneScanPerCopy, Owning, PCs
<1>6. FreshInv'
  <2>1. ASSUME NEW i \in Jobs, NEW v \in decided'[i]
        PROVE  ~IsDuplicate(CopyOf[i], v.coin, stamp[i])'
    <3>1. v \in decided[i] /\ v.coin \in Coins /\ CopyOf[i] \in Copies
      BY <1>3, VerdictFields, DeploymentAssumption DEF TypeInv, TypeOK
    <3>2. ~(CopyOf[i] = c /\ v.coin = s)
      BY <1>1, <1>5, <3>1 DEF TypeInv, LoopInv
    <3>3. QED
      BY <1>3, <1>4, <3>1, <3>2 DEF CoolInv, FreshInv, IsDuplicate
  <2>2. ASSUME NEW i \in Jobs, sending'[i] # None
        PROVE  ~IsDuplicate(CopyOf[i], sending[i].coin, stamp[i])'
    <3>1. i # j /\ sending'[i] = sending[i] /\ sending[i] # None
      BY <1>3, <2>2 DEF TypeInv, TypeOK
    <3>2. sending[i].coin \in Coins /\ CopyOf[i] \in Copies /\ CopyOf[i] # c
      BY <1>5, <3>1, VerdictFields, DeploymentAssumption DEF TypeInv, TypeOK
    <3>3. QED
      BY <1>3, <1>4, <3>1, <3>2 DEF CoolInv, FreshInv, IsDuplicate
  <2>3. QED
    BY <2>1, <2>2 DEF FreshInv
<1>7. CooldownHeld'
  BY <1>3 DEF CoolInv, CooldownHeld, Apart
<1>8. last # None => last <= stamp[j]
  <2>1. last \in Nat \cup {None} /\ DUPLICATE_COOLDOWN_MIN \in Nat
    BY <1>2, GuardAssumption DEF TypeInv, TypeOK, GuardTypeOK
  <2>2. last # None => ~(stamp[j] - last < DUPLICATE_COOLDOWN_MIN)
    BY <1>1 DEF CoolInv, FreshInv, IsDuplicate, InCooldown
  <2>3. QED
    BY <1>2, <2>1, <2>2
<1>9. HistoryInv'
  <2>1. ASSUME NEW a \in alerts, a.life = life  PROVE Remembered(a)'
    <3>1. a.job \in Jobs /\ a.at \in Nat /\ a.copy \in Copies /\ a.coin \in Coins
      BY DEF TypeInv, TypeOK, Alert
    <3>2. Remembered(a)
      BY <2>1 DEF CoolInv, HistoryInv
    <3>3. CASE a.copy = c /\ a.coin = s
      <4>1. a.at <= stamp[j]
        <5>1. CASE last # None /\ a.at <= last
          <6>1. last \in Nat
            BY <1>2, <5>1 DEF TypeInv, TypeOK, GuardTypeOK
          <6>2. QED
            BY <1>2, <1>8, <3>1, <5>1, <6>1
        <5>2. CASE pc[a.job] = "record" /\ CopyOf[a.job] = c /\ stamp[a.job] = a.at
          <6>1. a.job = j
            BY <1>1, <3>1, <5>2 DEF GateInv, OneScanPerCopy, Owning, PCs
          <6>2. QED
            BY <1>2, <5>2, <6>1
        <5>3. QED
          BY <3>2, <3>3, <5>1, <5>2 DEF Remembered
      <4>2. last_signal'[a.copy][a.coin] = stamp[j]
        BY <1>2, <1>4, <3>3
      <4>3. QED
        BY <1>2, <4>1, <4>2 DEF Remembered
    <3>4. CASE ~(a.copy = c /\ a.coin = s)
      <4>1. last_signal'[a.copy][a.coin] = last_signal[a.copy][a.coin]
        BY <1>4, <3>1, <3>4
      <4>2. pc[a.job] = "record" /\ CopyOf[a.job] = a.copy
            /\ sending[a.job].coin = a.coin
            => a.job # j
        BY <3>4
      <4>3. QED
        BY <1>3, <3>1, <3>2, <4>1, <4>2 DEF Remembered, TypeInv, TypeOK
    <3>5. QED
      BY <3>3, <3>4
  <2>2. QED
    BY <1>3, <2>1 DEF CoolInv, HistoryInv
<1>10. QED
  BY <1>6, <1>7, <1>9 DEF CoolInv

(* The other steps of a thread forget, store and send nothing. *)
LEMMA CoolQuiet ==
    ASSUME TypeInv, GateInv, CoolInv, NEW j \in Jobs,
           \/ Fire(j) \/ Claim(j) \/ Skip(j) \/ Begin(j) \/ Finish(j)
           \/ EndScan(j) \/ ReleaseSlot(j) \/ Abort(j)
    PROVE  CoolInv'
<1> USE DEF TypeInv, TypeOK
<1>1. UNCHANGED <<last_signal, alerts, life>>
  BY DEF Fire, Claim, Skip, Begin, Finish, EndScan, ReleaseSlot, Abort,
         guardVars, logVars
<1>2. \A i \in Jobs : pc[i] = "record" =>
         pc'[i] = "record" /\ stamp'[i] = stamp[i] /\ sending'[i] = sending[i]
  BY DEF Fire, Claim, Skip, Begin, Finish, EndScan, ReleaseSlot, Abort, Goto
<1>3. \A i \in Jobs :
         /\ decided'[i] \subseteq decided[i]
         /\ decided[i] # {} \/ sending[i] # None => stamp'[i] = stamp[i]
         /\ sending'[i] # None => sending'[i] = sending[i]
  BY DEF Fire, Claim, Skip, Begin, Finish, EndScan, ReleaseSlot, Abort, LoopInv
<1>4. QED
  BY <1>1, <1>2, <1>3, FreshKept, HistoryKept DEF CoolInv

(* The funnel lets only fresh coins through. *)
LEMMA CoolAnalyse ==
    ASSUME TypeInv, GateInv, CoolInv, NEW j \in Jobs, Analyse(j)
    PROVE  CoolInv'
<1>1. PICK directional \in SUBSET Coins :
         \E analysed \in SUBSET Candidates(j, directional) :
         \E verdict \in [analysed -> Verdicts] : Decide(j, analysed, verdict)
  BY DEF Analyse
<1>2. PICK analysed \in SUBSET Candidates(j, directional) :
         \E verdict \in [analysed -> Verdicts] : Decide(j, analysed, verdict)
  BY <1>1
<1>3. PICK verdict \in [analysed -> Verdicts] : Decide(j, analysed, verdict)
  BY <1>2
<1>4. /\ decided' = [decided EXCEPT ![j] = {verdict[s] : s \in analysed}]
      /\ pc[j] = "funnel"
      /\ pc' = [pc EXCEPT ![j] = "end"] \/ pc' = [pc EXCEPT ![j] = "persist"]
      /\ UNCHANGED <<last_signal, alerts, life, stamp, sending>>
  BY <1>3 DEF Analyse, Decide, Goto, guardVars, logVars
<1>5. \A s \in analysed : verdict[s].coin = s /\ ~IsDuplicate(CopyOf[j], s, stamp[j])
  BY <1>2, <1>3 DEF Decide, Candidates
<1>6. \A i \in Jobs : \A v \in decided'[i] :
         v \in decided[i] \/ (i = j /\ \E s \in analysed : v = verdict[s])
  BY <1>4 DEF TypeInv, TypeOK
<1>7. FreshInv'
  BY <1>4, <1>5, <1>6 DEF CoolInv, FreshInv, IsDuplicate
<1>8. \A i \in Jobs : pc[i] = "record" => pc'[i] = "record"
  BY <1>4 DEF TypeInv, TypeOK
<1>9. QED
  BY <1>4, <1>7, <1>8, HistoryKept DEF CoolInv

(* The persist loop hands one verdict on or drops it. *)
LEMMA CoolPersist ==
    ASSUME TypeInv, GateInv, CoolInv, NEW j \in Jobs, Persist(j)
    PROVE  CoolInv'
<1>1. PICK v \in decided[j] :
         \/ HoldDeduped(j, v) \/ HoldLogged(j, v) \/ HoldWriteFails(j, v)
         \/ LogOnly(j, v) \/ PersistAlert(j, v)
  BY DEF Persist
<1>2. /\ UNCHANGED <<last_signal, alerts, life, stamp>>
      /\ pc[j] = "persist"
      /\ decided' = [decided EXCEPT ![j] = @ \ {v}]
      /\ pc' = pc \/ pc' = [pc EXCEPT ![j] = "send"]
      /\ sending' = sending \/ sending' = [sending EXCEPT ![j] = v]
  BY <1>1 DEF HoldDeduped, HoldLogged, HoldWriteFails, LogOnly, PersistAlert,
              RecordHold, Handled, Goto, guardVars, logVars
<1>3. \A i \in Jobs : pc[i] = "record" =>
         pc'[i] = "record" /\ stamp'[i] = stamp[i] /\ sending'[i] = sending[i]
  BY <1>2 DEF TypeInv, TypeOK
<1>4. \A i \in Jobs :
         /\ decided'[i] \subseteq decided[i]
         /\ sending'[i] # None =>
               sending'[i] = sending[i] \/ sending'[i] \in decided[i]
  BY <1>2 DEF TypeInv, TypeOK
<1>5. QED
  BY <1>2, <1>3, <1>4, FreshKept, HistoryKept DEF CoolInv

LEMMA CoolRestart ==
    ASSUME TypeInv, CoolInv, Restart
    PROVE  CoolInv'
<1>1. FreshInv'
  BY DeploymentAssumption
  DEF Restart, FreshInv, IsDuplicate, InCooldown
<1>2. CooldownHeld'
  BY DEF Restart, CoolInv, CooldownHeld, Apart, logVars
<1>3. HistoryInv'
  <2>1. \A a \in alerts : a.life <= life /\ a.life \in Nat /\ life \in Nat
    BY DEF CoolInv, HistoryInv, TypeInv, TypeOK, Alert
  <2>2. QED
    BY <2>1 DEF Restart, HistoryInv, logVars
<1>4. QED
  BY <1>1, <1>2, <1>3 DEF CoolInv

LEMMA CoolStep ==
    ASSUME TypeInv, GateInv, CoolInv, [Next]_vars
    PROVE  CoolInv'
<1>1. CASE Restart
  BY <1>1, CoolRestart
<1>2. CASE Tick \/ UNCHANGED vars
  BY <1>2, FreshKept, HistoryKept
  DEF Tick, vars, guardVars, scanVars, logVars, CoolInv
<1>3. CASE \E j \in Jobs : Fire(j) \/ Step(j) \/ Abort(j)
  BY <1>3, CoolQuiet, CoolAnalyse, CoolPersist, CoolSend, CoolRecord DEF Step
<1>4. QED
  BY <1>1, <1>2, <1>3 DEF Next

LEMMA CoolAlways == Spec => []CoolInv
<1>1. Init => CoolInv
  BY DEF Init, CoolInv, FreshInv, HistoryInv, CooldownHeld
<1>2. QED
  BY <1>1, CoolStep, TypeCorrect, GateAlways, PTL DEF Spec

(* In one life of the process the alerts of a copy about a coin are apart  *)
(* by the cooldown, however its scans interleave and whenever they read    *)
(* the clock.                                                              *)
THEOREM CooldownCorrect == Spec => []CooldownHeld
BY CoolAlways, PTL DEF CoolInv

-----------------------------------------------------------------------------
(* While a snapshot field of the coordinator is left alone and no thread   *)
(* enters or leaves its running scan, the snapshot stays its own.          *)
LEMMA SnapshotKept ==
    ASSUME SnapshotOwned, UNCHANGED <<scan_id, started_at>>,
           \A i \in Jobs :
              /\ pc'[i] \in Running <=> pc[i] \in Running
              /\ pc[i] \in Running => stamp'[i] = stamp[i]
    PROVE  SnapshotOwned'
BY DEF SnapshotOwned

(* Begin writes the fields of the thread that holds the slot, end clears   *)
(* them, and in between no other thread of the copy is there to do either. *)
LEMMA SnapshotStep ==
    ASSUME TypeInv, GateInv, SnapshotOwned, [Next]_vars
    PROVE  SnapshotOwned'
<1> USE DeploymentAssumption DEF TypeInv, TypeOK, CoordTypeOK
<1>1. ASSUME NEW j \in Jobs, Begin(j)  PROVE SnapshotOwned'
  <2>1. /\ pc[j] = "claimed" /\ pc' = [pc EXCEPT ![j] = "funnel"]
        /\ scan_id' = [scan_id EXCEPT ![CopyOf[j]] = stamp[j]]
        /\ started_at' = [started_at EXCEPT ![CopyOf[j]] = now]
        /\ stamp' = stamp /\ stamp[j] \in Nat /\ now \in Nat
    BY <1>1 DEF Begin, Open, Goto
  <2>2. \A i \in Jobs : i # j /\ CopyOf[i] = CopyOf[j] => pc[i] \notin Running
    BY <2>1 DEF GateInv, OneScanPerCopy, Owning, Running, PCs
  <2>3. \A i \in Jobs : pc'[i] \in Running <=> i = j \/ pc[i] \in Running
    BY <2>1 DEF Running, Owning, PCs
  <2>4. ASSUME NEW i \in Jobs, pc'[i] \in Running
        PROVE  scan_id'[CopyOf[i]] = stamp'[i] /\ started_at'[CopyOf[i]] # None
    BY <2>1, <2>2, <2>3, <2>4 DEF SnapshotOwned
  <2>5. ASSUME NEW c \in Copies, scan_id'[c] # None
        PROVE  \E i \in Jobs : CopyOf[i] = c /\ pc'[i] \in Running
    BY <2>1, <2>3, <2>5 DEF SnapshotOwned
  <2>6. QED
    BY <2>4, <2>5 DEF SnapshotOwned
<1>2. ASSUME NEW j \in Jobs, EndScan(j)  PROVE SnapshotOwned'
  <2>1. /\ pc[j] = "end" /\ pc' = [pc EXCEPT ![j] = "release"]
        /\ scan_id' = [scan_id EXCEPT ![CopyOf[j]] = None]
        /\ started_at' = [started_at EXCEPT ![CopyOf[j]] = None]
        /\ stamp' = stamp
    BY <1>2 DEF EndScan, Close, Goto
  <2>2. \A i \in Jobs : i # j /\ CopyOf[i] = CopyOf[j] => pc[i] \notin Running
    BY <2>1 DEF GateInv, OneScanPerCopy, Owning, Running, PCs
  <2>3. \A i \in Jobs : pc'[i] \in Running <=> i # j /\ pc[i] \in Running
    BY <2>1 DEF Running, Owning, PCs
  <2>4. QED
    BY <2>1, <2>2, <2>3 DEF SnapshotOwned
<1>3. ASSUME Restart  PROVE SnapshotOwned'
  BY <1>3 DEF Restart, SnapshotOwned, Running, Owning, PCs
<1>4. ASSUME NEW j \in Jobs,
             \/ Fire(j) \/ Claim(j) \/ Skip(j) \/ Send(j) \/ RecordAlert(j)
             \/ Finish(j) \/ ReleaseSlot(j) \/ Abort(j)
      PROVE  SnapshotOwned'
  <2>1. UNCHANGED <<scan_id, started_at>>
    BY <1>4 DEF Fire, Claim, Skip, Send, RecordAlert, Finish, ReleaseSlot,
                Abort, Acquire, Release, coordVars
  <2>2. \A i \in Jobs : pc'[i] \in Running <=> pc[i] \in Running
    BY <1>4 DEF Fire, Claim, Skip, Send, RecordAlert, Finish, ReleaseSlot,
                Abort, Goto, Running, Owning, PCs
  <2>3. \A i \in Jobs : pc[i] \in Running => stamp'[i] = stamp[i]
    BY <1>4 DEF Fire, Claim, Skip, Send, RecordAlert, Finish, ReleaseSlot,
                Abort, Running, Owning, PCs
  <2>4. QED
    BY <2>1, <2>2, <2>3, SnapshotKept
<1>5. ASSUME NEW j \in Jobs, Analyse(j)  PROVE SnapshotOwned'
  <2>1. pc[j] = "funnel" /\ UNCHANGED <<scan_id, started_at, stamp>>
    BY <1>5 DEF Analyse, coordVars
  <2>2. pc' = [pc EXCEPT ![j] = "end"] \/ pc' = [pc EXCEPT ![j] = "persist"]
    BY <1>5 DEF Analyse, Decide, Goto
  <2>3. QED
    BY <2>1, <2>2, SnapshotKept DEF Running, Owning, PCs
<1>6. ASSUME NEW j \in Jobs, Persist(j)  PROVE SnapshotOwned'
  <2>1. UNCHANGED <<scan_id, started_at, stamp>>
    BY <1>6 DEF Persist, HoldDeduped, HoldLogged, HoldWriteFails, LogOnly,
                PersistAlert, coordVars
  <2>2. pc[j] = "persist" /\ (pc' = pc \/ pc' = [pc EXCEPT ![j] = "send"])
    BY <1>6 DEF Persist, HoldDeduped, HoldLogged, HoldWriteFails, LogOnly,
                PersistAlert, Goto
  <2>3. QED
    BY <2>1, <2>2, SnapshotKept DEF Running, Owning, PCs
<1>7. ASSUME Tick \/ UNCHANGED vars  PROVE SnapshotOwned'
  BY <1>7, SnapshotKept DEF Tick, vars, coordVars, scanVars
<1>8. QED
  BY <1>1, <1>2, <1>3, <1>4, <1>5, <1>6, <1>7 DEF Next, Step

(* Only end and a restart touch the health fields. *)
LEMMA HealthFields ==
    ASSUME [Next]_vars
    PROVE  \/ UNCHANGED <<last_scan_at, last_outcome, error_streak>>
           \/ \E j \in Jobs : EndScan(j)
           \/ Restart
<1>1. ASSUME NEW j \in Jobs, Persist(j)
      PROVE  UNCHANGED <<last_scan_at, last_outcome, error_streak>>
  BY <1>1 DEF Persist, HoldDeduped, HoldLogged, HoldWriteFails, LogOnly,
              PersistAlert, coordVars
<1>2. ASSUME NEW j \in Jobs, Analyse(j)
      PROVE  UNCHANGED <<last_scan_at, last_outcome, error_streak>>
  BY <1>2 DEF Analyse, coordVars
<1>3. ASSUME NEW j \in Jobs,
             \/ Fire(j) \/ Claim(j) \/ Skip(j) \/ Begin(j) \/ Send(j)
             \/ RecordAlert(j) \/ Finish(j) \/ ReleaseSlot(j) \/ Abort(j)
      PROVE  UNCHANGED <<last_scan_at, last_outcome, error_streak>>
  BY <1>3 DEF Fire, Claim, Skip, Begin, Send, RecordAlert, Finish, ReleaseSlot,
              Abort, Acquire, Open, Release, coordVars
<1>4. QED
  BY <1>1, <1>2, <1>3 DEF Next, Step, Tick, vars, coordVars

(* A streak is counted up by an error and cleared by a good scan only. *)
LEMMA StreakStep ==
    ASSUME TypeInv, StreakMeansFailure, [Next]_vars
    PROVE  StreakMeansFailure'
<1> USE DeploymentAssumption DEF TypeInv, TypeOK, CoordTypeOK
<1>1. ASSUME NEW j \in Jobs, EndScan(j)  PROVE StreakMeansFailure'
  <2>1. /\ last_outcome' = [last_outcome EXCEPT ![CopyOf[j]] = outcome[j]]
        /\ error_streak' = [error_streak EXCEPT ![CopyOf[j]] =
                              StreakAfter(error_streak[CopyOf[j]], outcome[j])]
    BY <1>1 DEF EndScan, Close
  <2>2. outcome[j] \in {"error", "blank_error", "empty"}
        \/ StreakAfter(error_streak[CopyOf[j]], outcome[j]) = 0
    BY DEF Outcomes, StreakAfter
  <2>3. QED
    BY <2>1, <2>2 DEF StreakMeansFailure
<1>2. ASSUME Restart  PROVE StreakMeansFailure'
  BY <1>2 DEF Restart, StreakMeansFailure
<1>3. ASSUME UNCHANGED <<last_scan_at, last_outcome, error_streak>>
      PROVE  StreakMeansFailure'
  BY <1>3 DEF StreakMeansFailure
<1>4. QED
  BY <1>1, <1>2, <1>3, HealthFields

(* /status shows the scan that runs and a streak of failures that is one,  *)
(* whatever the scans run into and however the jobs interleave.            *)
THEOREM StatusCorrect == Spec => []StatusHonest
<1>1. Init => StatusHonest
  BY DEF Init, CoordInit, StatusHonest, SnapshotOwned, StreakMeansFailure,
         Running, Owning, PCs
<1>2. TypeInv /\ GateInv /\ StatusHonest /\ [Next]_vars => StatusHonest'
  BY SnapshotStep, StreakStep DEF StatusHonest
<1>3. QED
  BY <1>1, <1>2, TypeCorrect, GateAlways, PTL DEF Spec

-----------------------------------------------------------------------------
(* The clock only goes forward, so what began stays in the past and in the *)
(* order it began in.                                                      *)
LEMMA OrderStep ==
    ASSUME TypeInv, OrderInv, [Next]_vars
    PROVE  OrderInv'
<1> USE DeploymentAssumption DEF TypeInv, TypeOK, CoordTypeOK
<1>1. ASSUME NEW j \in Jobs, Begin(j)  PROVE OrderInv'
  <2>1. /\ started_at' = [started_at EXCEPT ![CopyOf[j]] = now]
        /\ UNCHANGED <<now, last_scan_at>> /\ now \in Nat
    BY <1>1 DEF Begin, Open
  <2>2. QED
    BY <2>1 DEF OrderInv
<1>2. ASSUME NEW j \in Jobs, EndScan(j)  PROVE OrderInv'
  <2>1. /\ last_scan_at' =
              [last_scan_at EXCEPT ![CopyOf[j]] = started_at[CopyOf[j]]]
        /\ started_at' = [started_at EXCEPT ![CopyOf[j]] = None]
        /\ UNCHANGED now
    BY <1>2 DEF EndScan, Close
  <2>2. QED
    BY <2>1 DEF OrderInv
<1>3. ASSUME Restart  PROVE OrderInv'
  BY <1>3 DEF Restart, OrderInv
<1>4. ASSUME UNCHANGED <<started_at, last_scan_at>>, now' >= now, now' \in Nat
      PROVE  OrderInv'
  BY <1>4 DEF OrderInv
<1>5. ASSUME NEW j \in Jobs,
             \/ Fire(j) \/ Claim(j) \/ Skip(j) \/ Send(j) \/ RecordAlert(j)
             \/ Finish(j) \/ ReleaseSlot(j) \/ Abort(j)
      PROVE  UNCHANGED <<started_at, last_scan_at, now>>
  BY <1>5 DEF Fire, Claim, Skip, Send, RecordAlert, Finish, ReleaseSlot, Abort,
              Acquire, Release, coordVars
<1>6. ASSUME NEW j \in Jobs, Analyse(j)
      PROVE  UNCHANGED <<started_at, last_scan_at, now>>
  BY <1>6 DEF Analyse, coordVars
<1>7. ASSUME NEW j \in Jobs, Persist(j)
      PROVE  UNCHANGED <<started_at, last_scan_at, now>>
  BY <1>7 DEF Persist, HoldDeduped, HoldLogged, HoldWriteFails, LogOnly,
              PersistAlert, coordVars
<1>8. ASSUME Tick \/ UNCHANGED vars
      PROVE  UNCHANGED <<started_at, last_scan_at>> /\ now' >= now /\ now' \in Nat
  BY <1>8 DEF Tick, vars, coordVars
<1>9. QED
  BY <1>1, <1>2, <1>3, <1>4, <1>5, <1>6, <1>7, <1>8 DEF Next, Step

LEMMA OrderAlways == Spec => []OrderInv
<1>1. Init => OrderInv
  BY DEF Init, CoordInit, OrderInv
<1>2. QED
  BY <1>1, OrderStep, TypeCorrect, PTL DEF Spec

(* What `end` stores of the scan it closes is never older than what it     *)
(* replaces, and never nothing.                                            *)
LEMMA HealthForward ==
    ASSUME TypeInv, SnapshotOwned, OrderInv, [Next]_vars,
           NEW c \in Copies, life' = life, last_scan_at[c] # None
    PROVE  last_scan_at'[c] # None /\ last_scan_at'[c] >= last_scan_at[c]
<1> USE DeploymentAssumption DEF TypeInv, TypeOK, CoordTypeOK
<1>1. ASSUME NEW j \in Jobs, EndScan(j)
      PROVE  last_scan_at'[c] # None /\ last_scan_at'[c] >= last_scan_at[c]
  <2>1. last_scan_at' =
           [last_scan_at EXCEPT ![CopyOf[j]] = started_at[CopyOf[j]]]
    BY <1>1 DEF EndScan, Close
  <2>2. started_at[CopyOf[j]] # None
    BY <1>1 DEF EndScan, SnapshotOwned, Running, Owning, PCs
  <2>3. QED
    BY <2>1, <2>2 DEF OrderInv
<1>2. ~Restart
  BY DEF Restart
<1>3. QED
  BY <1>1, <1>2, HealthFields

(* The health snapshot of a copy only moves to younger scans while the     *)
(* process lives.                                                          *)
THEOREM HealthNeverGoesBack == Spec => LastScanNeverGoesBack
<1>1. TypeInv /\ SnapshotOwned /\ OrderInv /\ [Next]_vars
      => [\A c \in Copies : life' = life /\ last_scan_at[c] # None =>
             last_scan_at'[c] # None /\ last_scan_at'[c] >= last_scan_at[c]]_vars
  BY HealthForward
<1>2. StatusHonest => SnapshotOwned
  BY DEF StatusHonest
<1>3. QED
  BY <1>1, <1>2, TypeCorrect, StatusCorrect, OrderAlways, PTL
  DEF Spec, LastScanNeverGoesBack

-----------------------------------------------------------------------------
(* Rows are only ever appended: the ones a log has keep their place ...    *)
LEMMA RowsStay ==
    ASSUME csv \in [Coins -> Seq(Row)], NEW s \in Coins, NEW row \in Row,
           csv' = WithRow(s, row), NEW u \in Coins, NEW k \in 1..Len(csv[u])
    PROVE  k \in 1..Len(csv'[u]) /\ csv'[u][k] = csv[u][k]
<1>1. csv'[u] = IF u = s THEN Append(csv[u], row) ELSE csv[u]
  BY DEF WithRow
<1>2. csv[u] \in Seq(Row)
  OBVIOUS
<1>3. QED
  BY <1>1, <1>2

(* ... and the new one is there. *)
LEMMA RowAdded ==
    ASSUME csv \in [Coins -> Seq(Row)], NEW s \in Coins, NEW row \in Row,
           csv' = WithRow(s, row)
    PROVE  \E k \in 1..Len(csv'[s]) : csv'[s][k] = row
<1>1. csv'[s] = Append(csv[s], row)
  BY DEF WithRow
<1>2. csv[s] \in Seq(Row)
  OBVIOUS
<1>3. /\ Len(csv'[s]) = Len(csv[s]) + 1 /\ Len(csv[s]) \in Nat
      /\ csv'[s][Len(csv[s]) + 1] = row
  BY <1>1, <1>2
<1>4. QED
  BY <1>3

(* A step after which every row is where it was and every refused write is *)
(* still known.                                                            *)
Grown ==
    /\ \A s \in Coins : \A k \in 1..Len(csv[s]) :
          k \in 1..Len(csv'[s]) /\ csv'[s][k] = csv[s][k]
    /\ lost \subseteq lost'

LEMMA HasRowKept ==
    ASSUME Grown, NEW s \in Coins, NEW r, NEW t, HasRow(s, r, t)
    PROVE  \E k \in 1..Len(csv'[s]) : Says(csv'[s][k], r, t)
<1>1. PICK k \in 1..Len(csv[s]) : Says(csv[s][k], r, t)
  BY Zenon DEF HasRow
<1>2. k \in 1..Len(csv'[s]) /\ csv'[s][k] = csv[s][k]
  BY Zenon DEF Grown
<1>3. QED
  BY <1>1, <1>2, Zenon

LEMMA AccountedKept ==
    ASSUME Grown, NEW s \in Coins, NEW t, Accounted(s, t)
    PROVE  \/ <<s, t>> \in lost'
           \/ \E k \in 1..Len(csv'[s]) :
                 Says(csv'[s][k], "alert", t)
<1>1. CASE <<s, t>> \in lost
  BY <1>1 DEF Grown
<1>2. CASE HasRow(s, "alert", t)
  BY <1>2, HasRowKept
<1>3. QED
  BY <1>1, <1>2, Zenon DEF Accounted

LEMMA HoldsKept ==
    ASSUME HoldStampHasRow, Grown, NEW c \in Copies, NEW s \in Coins,
           last_hold'[c][s] # None, last_hold'[c][s] = last_hold[c][s]
    PROVE  \E k \in 1..Len(csv'[s]) :
              Says(csv'[s][k], last_hold'[c][s][2], last_hold'[c][s][1])
<1>1. HasRow(s, last_hold[c][s][2], last_hold[c][s][1])
  BY Zenon DEF HoldStampHasRow
<1>2. \E k \in 1..Len(csv'[s]) :
         Says(csv'[s][k], last_hold[c][s][2], last_hold[c][s][1])
  BY <1>1, HasRowKept
<1>3. QED
  BY <1>2, Zenon

LEMMA AlertsKept ==
    ASSUME TypeInv, AlertPersistedFirst, Grown, UNCHANGED alerts
    PROVE  AlertPersistedFirst'
<1>1. ASSUME NEW a \in alerts
      PROVE  \/ <<a.coin, a.at>> \in lost'
             \/ \E k \in 1..Len(csv'[a.coin]) :
                   Says(csv'[a.coin][k], "alert", a.at)
  <2>1. a.coin \in Coins
    BY DEF TypeInv, TypeOK, Alert
  <2>2. Accounted(a.coin, a.at)
    BY Zenon DEF AlertPersistedFirst
  <2>3. QED
    BY <2>1, <2>2, AccountedKept, Zenon
<1>2. QED
  BY <1>1, Zenon DEF AlertPersistedFirst, Accounted, HasRow

LEMMA InHandKept ==
    ASSUME TypeInv, RowInv, Grown, NEW i \in Jobs, sending'[i] # None,
           sending'[i] = sending[i], stamp'[i] = stamp[i]
    PROVE  \/ <<sending'[i].coin, stamp'[i]>> \in lost'
           \/ \E k \in 1..Len(csv'[sending'[i].coin]) :
                 Says(csv'[sending'[i].coin][k], "alert", stamp'[i])
<1>1. sending[i] \in Verdicts
  BY DEF TypeInv, TypeOK
<1>2. sending[i].coin \in Coins /\ Accounted(sending[i].coin, stamp[i])
  BY <1>1, VerdictFields DEF RowInv
<1>3. \/ <<sending[i].coin, stamp[i]>> \in lost'
      \/ \E k \in 1..Len(csv'[sending[i].coin]) :
            Says(csv'[sending[i].coin][k], "alert", stamp[i])
  BY <1>2, AccountedKept, Zenon
<1>4. QED
  BY <1>3, Zenon

(* What is on disk or refused stays so, and everything that points at it   *)
(* points at it still, while nobody takes a new stamp, alert or verdict.   *)
LEMMA RowsKept ==
    ASSUME TypeInv, RowInv, Grown, UNCHANGED <<alerts, last_hold>>,
           \A i \in Jobs : sending'[i] # None =>
              sending'[i] = sending[i] /\ stamp'[i] = stamp[i]
    PROVE  RowInv'
<1>1. HoldStampHasRow'
  BY HoldsKept, Zenon DEF RowInv, RowsFirst, HoldStampHasRow, HasRow
<1>2. AlertPersistedFirst'
  BY AlertsKept DEF RowInv, RowsFirst
<1>3. ASSUME NEW i \in Jobs, sending'[i] # None
      PROVE  Accounted(sending[i].coin, stamp[i])'
  BY <1>3, InHandKept, Zenon DEF Accounted, HasRow
<1>4. QED
  BY <1>1, <1>2, <1>3 DEF RowInv, RowsFirst

(* The loop writes the row before it stamps the HOLD or picks up the alert. *)
LEMMA RowPersist ==
    ASSUME TypeInv, RowInv, NEW j \in Jobs, Persist(j)
    PROVE  RowInv'
<1>1. PICK v \in decided[j] :
         \/ HoldDeduped(j, v) \/ HoldLogged(j, v) \/ HoldWriteFails(j, v)
         \/ LogOnly(j, v) \/ PersistAlert(j, v)
  BY DEF Persist
<1>2. /\ v \in Verdicts /\ v.coin \in Coins /\ v # None
      /\ Kind(v) = "hold" => v.reason \in Reasons
  BY VerdictFields, PipelineAssumption DEF TypeInv, TypeOK
<1>3. stamp[j] \in Nat /\ CopyOf[j] \in Copies /\ csv \in [Coins -> Seq(Row)]
  BY DeploymentAssumption DEF TypeInv, TypeOK
<1>4. ASSUME NEW r \in Reasons \cup {"alert", "log_only"},
             csv' = WithRow(v.coin, RowOf(j, r)), UNCHANGED lost
      PROVE  /\ Grown
             /\ \E k \in 1..Len(csv'[v.coin]) :
                   Says(csv'[v.coin][k], r, stamp[j])
  <2>1. RowOf(j, r) \in Row /\ Says(RowOf(j, r), r, stamp[j])
    BY <1>4, RowOfType DEF TypeInv, TypeOK
  <2>2. \A u \in Coins : \A k \in 1..Len(csv[u]) :
           k \in 1..Len(csv'[u]) /\ csv'[u][k] = csv[u][k]
    BY <1>2, <1>3, <1>4, <2>1, RowsStay
  <2>3. Grown
    BY <1>4, <2>2 DEF Grown
  <2>4. \E k \in 1..Len(csv'[v.coin]) : csv'[v.coin][k] = RowOf(j, r)
    BY <1>2, <1>3, <1>4, <2>1, RowAdded
  <2>5. QED
    BY <2>1, <2>3, <2>4, Zenon
<1>5. CASE HoldDeduped(j, v) \/ HoldWriteFails(j, v)
  BY <1>5, RowsKept
  DEF HoldDeduped, HoldWriteFails, guardVars, logVars, Grown
<1>6. CASE LogOnly(j, v)
  <2>1. /\ UNCHANGED <<alerts, last_hold, sending, stamp, lost>>
        /\ csv' = csv \/ csv' = WithRow(v.coin, RowOf(j, "log_only"))
    BY <1>6 DEF LogOnly, guardVars
  <2>2. Grown
    BY <1>4, <2>1 DEF Grown
  <2>3. QED
    BY <2>1, <2>2, RowsKept
<1>7. CASE HoldLogged(j, v)
  <2>1. /\ UNCHANGED <<alerts, sending, stamp, lost>>
        /\ csv' = WithRow(v.coin, RowOf(j, v.reason))
        /\ v.reason \in Reasons
    BY <1>2, <1>7 DEF HoldLogged
  <2>2. \A c \in Copies, s \in Coins :
           last_hold'[c][s] = IF c = CopyOf[j] /\ s = v.coin
                              THEN <<stamp[j], v.reason>>
                              ELSE last_hold[c][s]
    BY <1>2, <1>3, <1>7
    DEF HoldLogged, RecordHold, TypeInv, TypeOK, GuardTypeOK
  <2>3. /\ Grown
        /\ \E k \in 1..Len(csv'[v.coin]) :
              Says(csv'[v.coin][k], v.reason, stamp[j])
    BY <1>4, <2>1
  <2>4. ASSUME NEW c \in Copies, NEW s \in Coins, last_hold'[c][s] # None
        PROVE  \E k \in 1..Len(csv'[s]) :
                  Says(csv'[s][k], last_hold'[c][s][2], last_hold'[c][s][1])
    <3>1. CASE c = CopyOf[j] /\ s = v.coin
      <4>1. last_hold'[c][s] = <<stamp[j], v.reason>>
        BY <2>2, <3>1
      <4>2. last_hold'[c][s][2] = v.reason /\ last_hold'[c][s][1] = stamp[j]
        BY <4>1
      <4>3. QED
        BY <2>3, <3>1, <4>2, Zenon
    <3>2. CASE ~(c = CopyOf[j] /\ s = v.coin)
      <4>1. last_hold'[c][s] = last_hold[c][s]
        BY <2>2, <3>2
      <4>2. QED
        BY <2>3, <2>4, <4>1, HoldsKept, Zenon DEF RowInv, RowsFirst
    <3>3. QED
      BY <3>1, <3>2
  <2>5. HoldStampHasRow'
    BY <2>4, Zenon DEF HoldStampHasRow, HasRow
  <2>6. AlertPersistedFirst'
    BY <2>1, <2>3, AlertsKept DEF RowInv, RowsFirst
  <2>7. ASSUME NEW i \in Jobs, sending'[i] # None
        PROVE  Accounted(sending[i].coin, stamp[i])'
    BY <2>1, <2>3, <2>7, InHandKept, Zenon DEF Accounted, HasRow
  <2>8. QED
    BY <2>5, <2>6, <2>7 DEF RowInv, RowsFirst
<1>8. CASE PersistAlert(j, v)
  <2>1. /\ UNCHANGED <<alerts, last_hold, stamp>>
        /\ \/ csv' = WithRow(v.coin, RowOf(j, "alert")) /\ UNCHANGED lost
           \/ lost' = lost \cup {<<v.coin, stamp[j]>>} /\ UNCHANGED csv
    BY <1>8 DEF PersistAlert, guardVars
  <2>2. \A i \in Jobs : sending'[i] = IF i = j THEN v ELSE sending[i]
    BY <1>8 DEF PersistAlert, TypeInv, TypeOK
  <2>3. /\ Grown
        /\ \/ <<v.coin, stamp[j]>> \in lost'
           \/ \E k \in 1..Len(csv'[v.coin]) :
                 Says(csv'[v.coin][k], "alert", stamp[j])
    <3>1. CASE csv' = WithRow(v.coin, RowOf(j, "alert")) /\ UNCHANGED lost
      BY <1>4, <3>1
    <3>2. CASE lost' = lost \cup {<<v.coin, stamp[j]>>} /\ UNCHANGED csv
      BY <3>2 DEF Grown
    <3>3. QED
      BY <2>1, <3>1, <3>2
  <2>4. HoldStampHasRow'
    BY <2>1, <2>3, HoldsKept, Zenon
    DEF RowInv, RowsFirst, HoldStampHasRow, HasRow
  <2>5. AlertPersistedFirst'
    BY <2>1, <2>3, AlertsKept DEF RowInv, RowsFirst
  <2>6. ASSUME NEW i \in Jobs, sending'[i] # None
        PROVE  Accounted(sending[i].coin, stamp[i])'
    <3>1. CASE i = j
      <4>1. sending'[i] = v /\ stamp'[i] = stamp[j]
        BY <2>1, <2>2, <3>1
      <4>2. QED
        BY <2>3, <4>1, Zenon DEF Accounted, HasRow
    <3>2. CASE i # j
      <4>1. sending'[i] = sending[i] /\ stamp'[i] = stamp[i]
        BY <2>1, <2>2, <3>2
      <4>2. QED
        BY <2>3, <2>6, <4>1, InHandKept, Zenon DEF Accounted, HasRow
    <3>3. QED
      BY <3>1, <3>2
  <2>7. QED
    BY <2>4, <2>5, <2>6 DEF RowInv, RowsFirst
<1>9. QED
  BY <1>1, <1>5, <1>6, <1>7, <1>8

LEMMA RowStep ==
    ASSUME TypeInv, RowInv, [Next]_vars
    PROVE  RowInv'
<1> USE DEF TypeInv, TypeOK
<1>1. ASSUME NEW j \in Jobs, Send(j)  PROVE RowInv'
  <2>1. /\ pc[j] = "send" /\ sending[j] # None
        /\ UNCHANGED <<csv, lost, last_hold, sending, stamp>>
    BY <1>1 DEF Send, LoopInv, guardVars
  <2>2. \A a \in alerts' :
           a \in alerts \/ (a.coin = sending[j].coin /\ a.at = stamp[j])
    BY <1>1 DEF Send
  <2>3. Accounted(sending[j].coin, stamp[j])
    BY <2>1 DEF RowInv
  <2>4. AlertPersistedFirst'
    BY <2>1, <2>2, <2>3
    DEF RowInv, RowsFirst, AlertPersistedFirst, Accounted, HasRow
  <2>5. QED
    BY <2>1, <2>4
    DEF RowInv, RowsFirst, HoldStampHasRow, Accounted, HasRow
<1>2. ASSUME Restart  PROVE RowInv'
  BY <1>2 DEF Restart, logVars, RowInv, RowsFirst, HoldStampHasRow,
              AlertPersistedFirst, Accounted, HasRow
<1>3. ASSUME NEW j \in Jobs,
             \/ Fire(j) \/ Claim(j) \/ Skip(j) \/ Begin(j) \/ RecordAlert(j)
             \/ Finish(j) \/ EndScan(j) \/ ReleaseSlot(j) \/ Abort(j)
      PROVE  RowInv'
  <2>1. UNCHANGED <<csv, lost, alerts, last_hold>>
    BY <1>3 DEF Fire, Claim, Skip, Begin, RecordAlert, Finish, EndScan,
                ReleaseSlot, Abort, Record, guardVars, logVars
  <2>2. \A i \in Jobs : sending'[i] # None =>
           sending'[i] = sending[i] /\ stamp'[i] = stamp[i]
    BY <1>3 DEF Fire, Claim, Skip, Begin, RecordAlert, Finish, EndScan,
                ReleaseSlot, Abort, LoopInv
  <2>3. QED
    BY <2>1, <2>2, RowsKept DEF Grown
<1>4. ASSUME NEW j \in Jobs, Analyse(j)  PROVE RowInv'
  <2>1. UNCHANGED <<csv, lost, alerts, last_hold, sending, stamp>>
    BY <1>4 DEF Analyse, guardVars, logVars
  <2>2. QED
    BY <2>1, RowsKept DEF Grown
<1>5. ASSUME Tick \/ UNCHANGED vars  PROVE RowInv'
  <2>1. UNCHANGED <<csv, lost, alerts, last_hold, sending, stamp>>
    BY <1>5 DEF Tick, vars, guardVars, scanVars, logVars
  <2>2. QED
    BY <2>1, RowsKept DEF Grown
<1>6. QED
  BY <1>1, <1>2, <1>3, <1>4, <1>5, RowPersist DEF Next, Step

LEMMA RowAlways == Spec => []RowInv
<1>1. Init => RowInv
  BY DEF Init, GuardInit, RowInv, RowsFirst, HoldStampHasRow,
         AlertPersistedFirst
<1>2. QED
  BY <1>1, RowStep, TypeCorrect, PTL DEF Spec

(* A row, or a refused write, comes before the stamp that silences a HOLD  *)
(* and before the alert, whatever fails or crashes in between.             *)
THEOREM RowsComeFirst == Spec => []RowsFirst
BY RowAlways, PTL DEF RowInv

-----------------------------------------------------------------------------
(* A row that is no HOLD of this copy and life leaves its HOLDs alone ...  *)
LEMMA OtherRow ==
    ASSUME NEW rows \in Seq(Row), NEW row \in Row, NEW c, NEW n, NEW entry,
           ~(row.verdict \in Reasons /\ row.copy = c /\ row.life = n),
           Spaced(rows, HoldsOf(rows, c, n)),
           Newest(rows, HoldsOf(rows, c, n), entry)
    PROVE  /\ Spaced(Append(rows, row), HoldsOf(Append(rows, row), c, n))
           /\ Newest(Append(rows, row), HoldsOf(Append(rows, row), c, n), entry)
<1> DEFINE more == Append(rows, row)
           old == HoldsOf(rows, c, n)
<1>1. /\ Len(rows) \in Nat /\ Len(more) = Len(rows) + 1
      /\ \A k \in 1..Len(rows) : more[k] = rows[k]
      /\ more[Len(rows) + 1] = row
  OBVIOUS
<1> HIDE DEF more
<1>2. HoldsOf(more, c, n) = old
  BY <1>1 DEF HoldsOf
<1>3. \A k \in old : k \in Nat /\ more[k] = rows[k]
  BY <1>1 DEF HoldsOf
<1> HIDE DEF old
<1>4. Spaced(rows, old) /\ Newest(rows, old, entry)
  BY DEF old
<1>5. Spaced(more, old)
  BY <1>3, <1>4 DEF Spaced
<1>6. Newest(more, old, entry)
  BY <1>3, <1>4 DEF Newest, Says
<1>7. QED
  BY <1>2, <1>5, <1>6 DEF more

(* ... and a HOLD that the guard lets through is spaced from all of them.  *)
LEMMA HoldRow ==
    ASSUME NEW rows \in Seq(Row), NEW row \in Row, NEW c, NEW n, NEW entry,
           row.verdict \in Reasons, row.copy = c, row.life = n,
           entry = None \/ entry \in Nat \X Reasons,
           Spaced(rows, HoldsOf(rows, c, n)),
           Newest(rows, HoldsOf(rows, c, n), entry),
           entry # None => \/ row.at - entry[1] >= HOLD_LOG_COOLDOWN_MIN
                           \/ entry[2] # row.verdict
    PROVE  /\ Spaced(Append(rows, row), HoldsOf(Append(rows, row), c, n))
           /\ \A next : next # None /\ next[1] = row.at /\ next[2] = row.verdict =>
                 Newest(Append(rows, row), HoldsOf(Append(rows, row), c, n), next)
<1> DEFINE more == Append(rows, row)
           old == HoldsOf(rows, c, n)
           last == Len(rows) + 1
<1>1. /\ Len(rows) \in Nat /\ Len(more) = last /\ last \in Nat
      /\ \A k \in 1..Len(rows) : more[k] = rows[k]
      /\ more[last] = row
  OBVIOUS
<1> HIDE DEF more
<1>2. HoldsOf(more, c, n) = old \cup {last}
  BY <1>1 DEF HoldsOf
<1>3. \A k \in old : k \in Nat /\ k < last /\ more[k] = rows[k] /\ rows[k].at \in Nat
  <2>1. \A k \in old : k \in 1..Len(rows)
    BY DEF HoldsOf
  <2>2. \A k \in 1..Len(rows) : rows[k] \in Row
    OBVIOUS
  <2>3. \A k \in 1..Len(rows) : rows[k].at \in Nat
    BY <2>2 DEF Row
  <2> HIDE DEF old
  <2>4. QED
    BY <1>1, <2>1, <2>3
<1>4. row.at \in Nat /\ HOLD_LOG_COOLDOWN_MIN \in Nat
  BY GuardAssumption DEF Row
<1> HIDE DEF old, last
<1>5. Spaced(rows, old) /\ Newest(rows, old, entry)
  BY DEF old
<1>6. ASSUME NEW k \in old, rows[k].verdict = row.verdict
      PROVE  \/ row.at - rows[k].at >= HOLD_LOG_COOLDOWN_MIN
             \/ \E m \in old : k < m /\ rows[m].verdict # row.verdict
  <2>1. entry # None
    BY <1>5 DEF Newest
  <2>2. PICK m \in old : /\ \A i \in old : i <= m
                         /\ rows[m].verdict = entry[2] /\ rows[m].at = entry[1]
    BY <1>5, <2>1 DEF Newest, Says
  <2>3. k \in Nat /\ m \in Nat /\ k <= m
    BY <1>3, <2>2
  <2>4. CASE entry[2] # row.verdict
    BY <1>6, <2>2, <2>3, <2>4
  <2>5. CASE entry[2] = row.verdict /\ row.at - entry[1] >= HOLD_LOG_COOLDOWN_MIN
    <3>1. CASE k = m
      BY <2>2, <2>5, <3>1
    <3>2. CASE k < m
      <4>1. \/ rows[m].at - rows[k].at >= HOLD_LOG_COOLDOWN_MIN
            \/ \E i \in old : k < i /\ i < m /\ rows[i].verdict # rows[k].verdict
        BY <1>5, <1>6, <2>2, <2>5, <3>2 DEF Spaced
      <4>2. rows[m].at \in Nat /\ rows[k].at \in Nat
        BY <1>3
      <4>3. QED
        BY <1>4, <1>6, <2>2, <2>5, <4>1, <4>2
    <3>3. QED
      BY <2>3, <3>1, <3>2
  <2>6. QED
    BY <2>1, <2>4, <2>5
<1>7. Spaced(more, old \cup {last})
  <2> SUFFICES ASSUME NEW k \in old \cup {last}, NEW l \in old \cup {last},
                      k < l, more[k].verdict = more[l].verdict
               PROVE  \/ more[l].at - more[k].at >= HOLD_LOG_COOLDOWN_MIN
                      \/ \E m \in old \cup {last} :
                            k < m /\ m < l /\ more[m].verdict # more[k].verdict
    BY DEF Spaced
  <2>1. k \in old
    BY <1>1, <1>3
  <2>2. CASE l \in old
    BY <1>3, <1>5, <2>1, <2>2 DEF Spaced
  <2>3. CASE l = last
    <3>1. rows[k].verdict = row.verdict /\ more[k] = rows[k] /\ more[l] = row
      BY <1>1, <1>3, <2>1, <2>3
    <3>2. \/ row.at - rows[k].at >= HOLD_LOG_COOLDOWN_MIN
          \/ \E m \in old : k < m /\ rows[m].verdict # row.verdict
      BY <1>6, <2>1, <3>1
    <3>3. QED
      BY <1>3, <2>3, <3>1, <3>2
  <2>4. QED
    BY <2>2, <2>3
<1>8. ASSUME NEW next, next # None, next[1] = row.at, next[2] = row.verdict
      PROVE  Newest(more, old \cup {last}, next)
  <2>1. \A k \in old \cup {last} : k <= last
    BY <1>1, <1>3
  <2>2. Says(more[last], next[2], next[1])
    BY <1>1, <1>8 DEF Says
  <2>3. QED
    BY <1>8, <2>1, <2>2 DEF Newest
<1>9. QED
  BY <1>2, <1>7, <1>8 DEF more

(* A new row is of this life, as every row before it is of this or another. *)
LEMMA LivesAppend ==
    ASSUME NEW rows \in Seq(Row), NEW row \in Row, NEW n \in Nat, row.life <= n,
           \A k \in 1..Len(rows) : rows[k].life <= n
    PROVE  \A k \in 1..Len(Append(rows, row)) : Append(rows, row)[k].life <= n
OBVIOUS

(* What the HOLDs of a copy look like in a coin's rows, and what the guard *)
(* knows of them.                                                          *)
Tracked(rows, n, entries, s) ==
    /\ \A k \in 1..Len(rows) : rows[k].life <= n
    /\ \A c \in Copies : /\ Spaced(rows, HoldsOf(rows, c, n))
                         /\ Newest(rows, HoldsOf(rows, c, n), entries[c][s])

LEMMA TrackedIs ==
    /\ HoldsWrittenOnce /\ HoldInv
       <=> \A s \in Coins : Tracked(csv[s], life, last_hold, s)
    /\ (HoldsWrittenOnce /\ HoldInv)'
       <=> \A s \in Coins : Tracked(csv'[s], life', last_hold', s)
BY Zenon DEF HoldsWrittenOnce, HoldInv, Tracked

(* Each step keeps the guard's memory and the rows in line.                *)
LEMMA HoldsStep ==
    ASSUME TypeInv, \A s \in Coins : Tracked(csv[s], life, last_hold, s), [Next]_vars
    PROVE  \A s \in Coins : Tracked(csv'[s], life', last_hold', s)
<1> DEFINE goal == \A s \in Coins : Tracked(csv'[s], life', last_hold', s)
<1>0. /\ csv \in [Coins -> Seq(Row)] /\ stamp \in [Jobs -> Nat] /\ life \in Nat
      /\ last_hold \in [Copies -> [Coins -> (Nat \X Reasons) \cup {None}]]
      /\ \A j \in Jobs : CopyOf[j] \in Copies
  BY DeploymentAssumption DEF TypeInv, TypeOK, GuardTypeOK
<1>1. ASSUME UNCHANGED <<csv, life, last_hold>>  PROVE goal
  BY <1>1
<1>2. ASSUME NEW j \in Jobs, NEW u \in Coins, NEW r \in {"alert", "log_only"},
             csv' = WithRow(u, RowOf(j, r)), UNCHANGED <<life, last_hold>>
      PROVE  goal
  <2> DEFINE row == RowOf(j, r)
  <2>1. row \in Row /\ row.verdict \notin Reasons /\ row.life = life
    BY <1>0, <1>2, RowOfType, PipelineAssumption DEF RowOf
  <2> HIDE DEF row
  <2>2. ASSUME NEW s \in Coins, s # u  PROVE Tracked(csv'[s], life', last_hold', s)
    <3>1. csv'[s] = csv[s]
      BY <1>0, <1>2, <2>2 DEF WithRow
    <3>2. QED
      BY <1>2, <3>1
  <2>3. csv'[u] = Append(csv[u], row) /\ csv[u] \in Seq(Row)
    BY <1>0, <1>2 DEF WithRow, row
  <2>4. Tracked(csv[u], life, last_hold, u)
    OBVIOUS
  <2>5. \A k \in 1..Len(csv'[u]) : csv'[u][k].life <= life
    BY <1>0, <2>1, <2>3, <2>4, LivesAppend DEF Tracked
  <2>6. ASSUME NEW c \in Copies
        PROVE  /\ Spaced(csv'[u], HoldsOf(csv'[u], c, life))
               /\ Newest(csv'[u], HoldsOf(csv'[u], c, life), last_hold[c][u])
    <3>1. /\ Spaced(csv[u], HoldsOf(csv[u], c, life))
          /\ Newest(csv[u], HoldsOf(csv[u], c, life), last_hold[c][u])
      BY <2>4 DEF Tracked
    <3>2. QED
      BY <2>1, <2>3, <3>1, OtherRow
  <2>7. Tracked(csv'[u], life', last_hold', u)
    BY <1>2, <2>5, <2>6 DEF Tracked
  <2>8. QED
    BY <2>2, <2>7
<1>3. ASSUME NEW j \in Jobs, NEW v \in Verdicts, v.coin \in Coins, v.reason \in Reasons,
             HoldLogged(j, v)
      PROVE  goal
  <2> DEFINE row == RowOf(j, v.reason)
             u == v.coin
             b == CopyOf[j]
  <2>1. /\ row \in Row /\ row.verdict = v.reason /\ row.at = stamp[j]
        /\ row.copy = b /\ row.life = life
    BY <1>0, <1>3, RowOfType DEF RowOf
  <2>2. /\ csv' = WithRow(u, row) /\ UNCHANGED life
        /\ last_hold' = [last_hold EXCEPT ![b][u] = <<stamp[j], v.reason>>]
        /\ ~HoldLoggedRecently(b, u, stamp[j], v.reason)
    BY <1>3 DEF HoldLogged, RecordHold
  <2>3. b \in Copies /\ u \in Coins /\ stamp[j] \in Nat /\ HOLD_LOG_COOLDOWN_MIN \in Nat
    BY <1>0, <1>3, GuardAssumption
  <2> HIDE DEF row, u, b
  <2>4. \A c \in Copies, s \in Coins :
           last_hold'[c][s] = IF c = b /\ s = u THEN <<stamp[j], v.reason>>
                              ELSE last_hold[c][s]
    BY <1>0, <2>2, <2>3
  <2>5. ASSUME NEW s \in Coins, s # u  PROVE Tracked(csv'[s], life', last_hold', s)
    <3>1. csv'[s] = csv[s] /\ \A c \in Copies : last_hold'[c][s] = last_hold[c][s]
      BY <1>0, <2>2, <2>4, <2>5 DEF WithRow
    <3>2. Tracked(csv[s], life, last_hold, s)
      OBVIOUS
    <3>3. QED
      BY <2>2, <3>1, <3>2 DEF Tracked
  <2>6. csv'[u] = Append(csv[u], row) /\ csv[u] \in Seq(Row)
    BY <1>0, <2>2, <2>3 DEF WithRow
  <2>7. Tracked(csv[u], life, last_hold, u)
    BY <2>3
  <2>8. \A k \in 1..Len(csv'[u]) : csv'[u][k].life <= life
    BY <1>0, <2>1, <2>6, <2>7, LivesAppend DEF Tracked
  <2>9. ASSUME NEW c \in Copies
        PROVE  /\ Spaced(csv'[u], HoldsOf(csv'[u], c, life))
               /\ Newest(csv'[u], HoldsOf(csv'[u], c, life), last_hold'[c][u])
    <3>1. /\ Spaced(csv[u], HoldsOf(csv[u], c, life))
          /\ Newest(csv[u], HoldsOf(csv[u], c, life), last_hold[c][u])
      BY <2>7 DEF Tracked
    <3>2. CASE c # b
      <4>1. last_hold'[c][u] = last_hold[c][u]
        BY <2>3, <2>4, <3>2
      <4>2. ~(row.verdict \in Reasons /\ row.copy = c /\ row.life = life)
        BY <2>1, <3>2
      <4>3. QED
        BY <2>1, <2>6, <3>1, <4>1, <4>2, OtherRow
    <3>3. CASE c = b
      <4> DEFINE entry == last_hold[c][u]
                 next == last_hold'[c][u]
      <4>1. entry = None \/ entry \in Nat \X Reasons
        BY <1>0, <2>3
      <4>2. entry # None => \/ row.at - entry[1] >= HOLD_LOG_COOLDOWN_MIN
                            \/ entry[2] # row.verdict
        BY <2>1, <2>2, <2>3, <3>3, <4>1 DEF HoldLoggedRecently
      <4>3. next = <<stamp[j], v.reason>>
        BY <2>3, <2>4, <3>3
      <4>4. <<stamp[j], v.reason>> \in Nat \X Reasons
        BY <1>3, <2>3
      <4>5. next # None /\ next[1] = row.at /\ next[2] = row.verdict
        BY <2>1, <4>3, <4>4, GuardAssumption
      <4>6. row.verdict \in Reasons /\ row.copy = c /\ row.life = life
        BY <1>3, <2>1, <3>3
      <4> HIDE DEF entry, next
      <4>7. /\ Spaced(csv[u], HoldsOf(csv[u], c, life))
            /\ Newest(csv[u], HoldsOf(csv[u], c, life), entry)
        BY <3>1 DEF entry
      <4>8. /\ Spaced(csv'[u], HoldsOf(csv'[u], c, life))
            /\ Newest(csv'[u], HoldsOf(csv'[u], c, life), next)
        BY <2>1, <2>6, <4>1, <4>2, <4>5, <4>6, <4>7, HoldRow
      <4>9. QED
        BY <4>8 DEF next
    <3>4. QED
      BY <3>2, <3>3
  <2>10. Tracked(csv'[u], life', last_hold', u)
    BY <2>2, <2>8, <2>9 DEF Tracked
  <2>11. QED
    BY <2>5, <2>10
<1>4. ASSUME Restart  PROVE goal
  <2>1. /\ UNCHANGED csv /\ life' = life + 1
        /\ \A c \in Copies, s \in Coins : last_hold'[c][s] = None
    BY <1>4 DEF Restart, logVars
  <2>2. ASSUME NEW s \in Coins  PROVE Tracked(csv'[s], life', last_hold', s)
    <3>1. csv[s] \in Seq(Row) /\ \A k \in 1..Len(csv[s]) : csv[s][k].life <= life
      BY <1>0 DEF Tracked
    <3>2. \A k \in 1..Len(csv[s]) : csv[s][k].life \in Nat
      <4>1. csv[s] \in Seq(Row)
        BY <1>0
      <4>2. \A k \in 1..Len(csv[s]) : csv[s][k] \in Row
        BY <4>1
      <4>3. QED
        BY <4>2 DEF Row
    <3>3. \A k \in 1..Len(csv[s]) : csv[s][k].life <= life + 1 /\ csv[s][k].life # life + 1
      BY <1>0, <3>1, <3>2
    <3>4. \A c : HoldsOf(csv[s], c, life + 1) = {}
      BY <3>3 DEF HoldsOf
    <3>5. QED
      BY <2>1, <3>3, <3>4 DEF Tracked, Spaced, Newest
  <2>3. QED
    BY <2>2
<1>5. ASSUME NEW j \in Jobs, Persist(j)  PROVE goal
  <2>1. PICK v \in decided[j] :
           \/ HoldDeduped(j, v) \/ HoldLogged(j, v) \/ HoldWriteFails(j, v)
           \/ LogOnly(j, v) \/ PersistAlert(j, v)
    BY <1>5 DEF Persist
  <2>2. v \in Verdicts /\ v.coin \in Coins /\ (Kind(v) = "hold" => v.reason \in Reasons)
    BY VerdictFields DEF TypeInv, TypeOK
  <2>3. CASE HoldDeduped(j, v) \/ HoldWriteFails(j, v)
    BY <1>1, <2>3 DEF HoldDeduped, HoldWriteFails, guardVars, logVars
  <2>4. CASE HoldLogged(j, v)
    <3>1. Kind(v) = "hold"
      BY <2>4 DEF HoldLogged
    <3>2. QED
      BY <1>3, <2>2, <2>4, <3>1
  <2>5. CASE LogOnly(j, v)
    <3>1. /\ UNCHANGED <<life, last_hold>>
          /\ csv' = csv \/ csv' = WithRow(v.coin, RowOf(j, "log_only"))
      BY <2>5 DEF LogOnly, guardVars
    <3>2. QED
      BY <1>1, <1>2, <2>2, <3>1
  <2>6. CASE PersistAlert(j, v)
    <3>1. /\ UNCHANGED <<life, last_hold>>
          /\ csv' = csv \/ csv' = WithRow(v.coin, RowOf(j, "alert"))
      BY <2>6 DEF PersistAlert, guardVars
    <3>2. QED
      BY <1>1, <1>2, <2>2, <3>1
  <2>7. QED
    BY <2>1, <2>3, <2>4, <2>5, <2>6
<1>6. ASSUME NEW j \in Jobs,
             \/ Fire(j) \/ Claim(j) \/ Skip(j) \/ Begin(j) \/ Analyse(j) \/ Send(j)
             \/ RecordAlert(j) \/ Finish(j) \/ EndScan(j) \/ ReleaseSlot(j) \/ Abort(j)
      PROVE  goal
  <2>1. UNCHANGED <<csv, life, last_hold>>
    BY <1>6 DEF Fire, Claim, Skip, Begin, Analyse, Send, RecordAlert, Finish,
                EndScan, ReleaseSlot, Abort, Record, guardVars, logVars
  <2>2. QED
    BY <1>1, <2>1
<1>7. ASSUME Tick \/ UNCHANGED vars  PROVE goal
  <2>1. UNCHANGED <<csv, life, last_hold>>
    BY <1>7 DEF Tick, vars, guardVars, logVars
  <2>2. QED
    BY <1>1, <2>1
<1>8. QED
  BY <1>4, <1>5, <1>6, <1>7 DEF Next, Step

LEMMA HoldsAlways == Spec => [](HoldsWrittenOnce /\ HoldInv)
<1>1. Init => HoldsWrittenOnce /\ HoldInv
  BY DEF Init, GuardInit, HoldsWrittenOnce, HoldInv, Spaced, Newest, HoldsOf
<1>2. TypeInv /\ HoldsWrittenOnce /\ HoldInv /\ [Next]_vars
      => (HoldsWrittenOnce /\ HoldInv)'
  BY HoldsStep, TrackedIs
<1>3. QED
  BY <1>1, <1>2, TypeCorrect, PTL DEF Spec

(* However the scans of a copy follow and cross each other, a coin's HOLD  *)
(* is not written again within its window, unless it was written for       *)
(* another reason since.                                                   *)
THEOREM HoldsCorrect == Spec => []HoldsWrittenOnce
BY HoldsAlways, PTL

-----------------------------------------------------------------------------
(* A stamp is a reading of the bounded clock. *)
LEMMA ClockStep ==
    ASSUME TypeInv, ClockInv, [Next]_vars
    PROVE  ClockInv'
<1> USE PipelineAssumption DEF TypeInv, TypeOK
<1>1. ASSUME NEW j \in Jobs, Fire(j)  PROVE ClockInv'
  BY <1>1 DEF Fire, ClockInv
<1>2. ASSUME Tick  PROVE ClockInv'
  BY <1>2 DEF Tick, scanVars, ClockInv
<1>3. ASSUME NEW j \in Jobs, Persist(j)  PROVE UNCHANGED <<now, stamp>>
  BY <1>3 DEF Persist, HoldDeduped, HoldLogged, HoldWriteFails, LogOnly,
              PersistAlert
<1>4. ASSUME NEW j \in Jobs,
             \/ Claim(j) \/ Skip(j) \/ Begin(j) \/ Analyse(j) \/ Send(j)
             \/ RecordAlert(j) \/ Finish(j) \/ EndScan(j) \/ ReleaseSlot(j)
             \/ Abort(j)
      PROVE  UNCHANGED <<now, stamp>>
  BY <1>4 DEF Claim, Skip, Begin, Analyse, Send, RecordAlert, Finish, EndScan,
              ReleaseSlot, Abort
<1>5. ASSUME Restart \/ UNCHANGED vars  PROVE UNCHANGED <<now, stamp>>
  BY <1>5 DEF Restart, vars, scanVars
<1>6. ASSUME UNCHANGED <<now, stamp>>  PROVE ClockInv'
  BY <1>6 DEF ClockInv
<1>7. QED
  BY <1>1, <1>2, <1>3, <1>4, <1>5, <1>6 DEF Next, Step

LEMMA ClockAlways == Spec => []ClockInv
<1>1. Init => ClockInv
  BY PipelineAssumption DEF Init, ClockInv
<1>2. QED
  BY <1>1, ClockStep, TypeCorrect, PTL DEF Spec

(* The inductive invariant as a whole. *)
THEOREM InductiveInvariant == Spec => []IInv
<1>1. TypeInv => TypeOK /\ LoopInv
  BY DEF TypeInv
<1>2. CoolInv => FreshInv /\ HistoryInv /\ CooldownHeld
  BY DEF CoolInv
<1>3. QED
  BY <1>1, <1>2, TypeCorrect, GateAlways, CoolAlways, ClockAlways,
     StatusCorrect, OrderAlways, RowAlways, HoldsAlways, PTL DEF IInv

-----------------------------------------------------------------------------
(* The refinement of AlertGate.  What the copy shows of its window: the    *)
(* stamp of the one thread about to record the coin, else the guard's.     *)
LEMMA WindowOf ==
    ASSUME GateInv, NEW c \in Copies, NEW s \in Coins
    PROVE  /\ \A j \in Recording(c, s) : Window(c, s) = stamp[j]
           /\ Recording(c, s) = {} => Window(c, s) = last_signal[c][s]
<1>1. \A i, j \in Recording(c, s) : i = j
  BY DEF Recording, GateInv, OneScanPerCopy, Owning, PCs
<1>2. QED
  BY <1>1 DEF Window

LEMMA WindowKept ==
    ASSUME NEW c \in Copies, NEW s \in Coins,
           last_signal'[c][s] = last_signal[c][s],
           Recording(c, s)' = Recording(c, s),
           \A j \in Recording(c, s) : stamp'[j] = stamp[j]
    PROVE  Window(c, s)' = Window(c, s)
<1>1. CASE Recording(c, s) = {}
  BY <1>1 DEF Window
<1>2. CASE Recording(c, s) # {}
  <2>1. (CHOOSE j \in Recording(c, s) : TRUE) \in Recording(c, s)
    BY <1>2
  <2>2. QED
    BY <1>2, <2>1 DEF Window
<1>3. QED
  BY <1>1, <1>2

(* A step in which no thread enters or leaves its slot, and none begins or *)
(* ends recording an alert, is not seen through the mapping.               *)
LEMMA Unseen ==
    ASSUME UNCHANGED last_signal,
           \A i \in Jobs :
              /\ pc'[i] \in Owning <=> pc[i] \in Owning
              /\ pc'[i] = "record" <=> pc[i] = "record"
              /\ pc[i] = "record" =>
                    sending'[i] = sending[i] /\ stamp'[i] = stamp[i]
    PROVE  ActiveJobs' = ActiveJobs /\ Windows' = Windows
<1>1. ActiveJobs' = ActiveJobs
  BY DEF ActiveJobs
<1>2. ASSUME NEW c \in Copies, NEW s \in Coins
      PROVE  Window(c, s)' = Window(c, s)
  <2>1. Recording(c, s)' = Recording(c, s)
    BY DEF Recording
  <2>2. \A j \in Recording(c, s) : stamp'[j] = stamp[j]
    BY DEF Recording
  <2>3. QED
    BY <2>1, <2>2, WindowKept
<1>3. Windows' = Windows
  BY <1>2 DEF Windows
<1>4. QED
  BY <1>1, <1>3

(* try_begin is Enter: a free lock means that no scan of the copy is active. *)
LEMMA ClaimEnters ==
    ASSUME TypeInv, GateInv, NEW j \in Jobs, Claim(j)
    PROVE  Gate!Enter(j)
<1>1. /\ pc[j] = "called" /\ ~gate[CopyOf[j]]
      /\ pc' = [pc EXCEPT ![j] = "claimed"]
      /\ UNCHANGED <<last_signal, stamp, sending>> /\ CopyOf[j] \in Copies
  BY DeploymentAssumption DEF Claim, Acquire, Goto, guardVars
<1>2. \A i \in Jobs : CopyOf[i] = CopyOf[j] => pc[i] \notin Owning
  BY <1>1 DEF GateInv
<1>3. \A i \in Jobs : pc'[i] \in Owning <=> i = j \/ pc[i] \in Owning
  BY <1>1 DEF TypeInv, TypeOK, Owning, PCs
<1>4. ActiveJobs[CopyOf[j]] = {}
  BY <1>1, <1>2 DEF ActiveJobs
<1>5. ActiveJobs' = [ActiveJobs EXCEPT ![CopyOf[j]] = {j}]
  BY <1>1, <1>2, <1>3 DEF ActiveJobs
<1>6. Windows' = Windows
  <2>1. \A i \in Jobs : pc'[i] = "record" <=> pc[i] = "record"
    BY <1>1 DEF TypeInv, TypeOK
  <2>2. ASSUME NEW c \in Copies, NEW s \in Coins
        PROVE  Window(c, s)' = Window(c, s)
    <3>1. Recording(c, s)' = Recording(c, s)
      BY <1>1, <2>1 DEF Recording
    <3>2. QED
      BY <1>1, <3>1, WindowKept
  <2>3. QED
    BY <2>2 DEF Windows
<1>7. QED
  BY <1>4, <1>5, <1>6 DEF Gate!Enter

(* The release is Leave. *)
LEMMA ReleaseLeaves ==
    ASSUME TypeInv, GateInv, NEW j \in Jobs, ReleaseSlot(j)
    PROVE  Gate!Leave(j)
<1>1. /\ pc[j] = "release" /\ pc' = [pc EXCEPT ![j] = "idle"]
      /\ UNCHANGED <<last_signal, stamp, sending>> /\ CopyOf[j] \in Copies
  BY DeploymentAssumption DEF ReleaseSlot, Release, Goto, guardVars
<1>2. \A i \in Jobs : CopyOf[i] = CopyOf[j] /\ pc[i] \in Owning <=> i = j
  BY <1>1 DEF GateInv, OneScanPerCopy, Owning, PCs
<1>3. \A i \in Jobs : pc'[i] \in Owning <=> i # j /\ pc[i] \in Owning
  BY <1>1 DEF TypeInv, TypeOK, Owning, PCs
<1>4. ActiveJobs[CopyOf[j]] = {j}
  BY <1>1, <1>2 DEF ActiveJobs
<1>5. ActiveJobs' = [ActiveJobs EXCEPT ![CopyOf[j]] = {}]
  BY <1>1, <1>2, <1>3 DEF ActiveJobs
<1>6. Windows' = Windows
  <2>1. \A i \in Jobs : pc'[i] = "record" <=> pc[i] = "record"
    BY <1>1 DEF TypeInv, TypeOK
  <2>2. ASSUME NEW c \in Copies, NEW s \in Coins
        PROVE  Window(c, s)' = Window(c, s)
    <3>1. Recording(c, s)' = Recording(c, s)
      BY <1>1, <2>1 DEF Recording
    <3>2. QED
      BY <1>1, <3>1, WindowKept
  <2>3. QED
    BY <2>2 DEF Windows
<1>7. QED
  BY <1>4, <1>5, <1>6 DEF Gate!Leave

(* send_alert is SendAlert: the thread holds the only scan of its copy, so *)
(* the window is what the guard stores, and the verdict is out of it.      *)
LEMMA SendSends ==
    ASSUME TypeInv, GateInv, CoolInv, ClockInv, NEW j \in Jobs, Send(j)
    PROVE  sending[j].coin \in Coins /\ stamp[j] \in 0..MaxTime
           /\ Gate!SendAlert(j, sending[j].coin, stamp[j])
<1> DEFINE d == CopyOf[j]
<1>1. sending[j] \in Verdicts /\ sending[j] # None
  BY DEF Send, TypeInv, TypeOK, LoopInv
<1> PICK x \in Coins : x = sending[j].coin
  BY <1>1, VerdictFields
<1>2. d \in Copies /\ stamp[j] \in Nat /\ stamp[j] \in 0..MaxTime
  BY DeploymentAssumption, PipelineAssumption
  DEF TypeInv, TypeOK, ClockInv
<1>3. /\ pc[j] = "send" /\ pc' = [pc EXCEPT ![j] = "record"]
      /\ UNCHANGED <<last_signal, stamp, sending>>
  BY DEF Send, Goto, guardVars
<1>4. \A i \in Jobs : CopyOf[i] = d /\ pc[i] \in Owning <=> i = j
  BY <1>3 DEF GateInv, OneScanPerCopy, Owning, PCs
<1>5. \A i \in Jobs : pc'[i] = "record" <=> i = j \/ pc[i] = "record"
  BY <1>3 DEF TypeInv, TypeOK
<1>6. Recording(d, x) = {} /\ Recording(d, x)' = {j}
  BY <1>3, <1>4, <1>5 DEF Recording, Owning, PCs
<1>7. ActiveJobs[d] = {j} /\ ActiveJobs' = ActiveJobs
  <2>1. \A i \in Jobs : pc'[i] \in Owning <=> pc[i] \in Owning
    BY <1>3 DEF TypeInv, TypeOK, Owning, PCs
  <2>2. QED
    BY <1>2, <1>4, <2>1 DEF ActiveJobs
<1>8. Windows[d][x] # None => stamp[j] - Windows[d][x] >= DUPLICATE_COOLDOWN_MIN
  <2>1. Windows[d][x] = last_signal[d][x]
    BY <1>2, <1>6 DEF Windows, Window
  <2>2. last_signal[d][x] \in Nat \cup {None} /\ DUPLICATE_COOLDOWN_MIN \in Nat
    BY <1>2, GuardAssumption DEF TypeInv, TypeOK, GuardTypeOK
  <2>3. ~(last_signal[d][x] # None
            /\ stamp[j] - last_signal[d][x] < DUPLICATE_COOLDOWN_MIN)
    BY <1>1 DEF CoolInv, FreshInv, IsDuplicate, InCooldown
  <2>4. QED
    BY <1>2, <2>1, <2>2, <2>3
<1>9. Windows' = [Windows EXCEPT ![d][x] = stamp[j]]
  <2>1. Window(d, x)' = stamp[j]
    <3>1. (CHOOSE i \in {j} : TRUE) = j
      OBVIOUS
    <3>2. QED
      BY <1>3, <1>6, <3>1 DEF Window
  <2>2. ASSUME NEW c \in Copies, NEW s \in Coins, ~(c = d /\ s = x)
        PROVE  Window(c, s)' = Window(c, s)
    <3>1. Recording(c, s)' = Recording(c, s)
      BY <1>3, <1>5, <2>2 DEF Recording
    <3>2. QED
      BY <1>3, <3>1, WindowKept
  <2>3. QED
    BY <1>2, <2>1, <2>2 DEF Windows
<1>10. QED
  BY <1>2, <1>7, <1>8, <1>9 DEF Gate!SendAlert

(* guard.record hands the window from the thread to the guard. *)
LEMMA RecordUnseen ==
    ASSUME TypeInv, GateInv, NEW j \in Jobs, RecordAlert(j)
    PROVE  ActiveJobs' = ActiveJobs /\ Windows' = Windows
<1> DEFINE d == CopyOf[j]
<1>1. pc[j] = "record" /\ sending[j] \in Verdicts
  BY DEF RecordAlert, TypeInv, TypeOK, LoopInv
<1> PICK x \in Coins : x = sending[j].coin
  BY <1>1, VerdictFields
<1>2. d \in Copies
  BY DeploymentAssumption
<1>3. /\ stamp' = stamp
      /\ sending' = [sending EXCEPT ![j] = None]
      /\ pc' = [pc EXCEPT ![j] = "persist"]
  BY DEF RecordAlert, Goto
<1>4. \A c \in Copies, s \in Coins :
         last_signal'[c][s] = IF c = d /\ s = x THEN stamp[j]
                              ELSE last_signal[c][s]
  BY <1>2 DEF RecordAlert, Record, TypeInv, TypeOK, GuardTypeOK
<1>5. \A i \in Jobs : pc'[i] = "record" <=> i # j /\ pc[i] = "record"
  BY <1>3 DEF TypeInv, TypeOK
<1>6. \A i \in Jobs : i # j => sending'[i] = sending[i]
  BY <1>3
<1>7. \A i \in Jobs : CopyOf[i] = d /\ pc[i] = "record" => i = j
  BY <1>1 DEF GateInv, OneScanPerCopy, Owning, PCs
<1>8. ActiveJobs' = ActiveJobs
  <2>1. \A i \in Jobs : pc'[i] \in Owning <=> pc[i] \in Owning
    BY <1>1, <1>3 DEF TypeInv, TypeOK, Owning, PCs
  <2>2. QED
    BY <2>1 DEF ActiveJobs
<1>9. ASSUME NEW c \in Copies, NEW s \in Coins
      PROVE  Window(c, s)' = Window(c, s)
  <2>1. CASE c = d /\ s = x
    <3>1. j \in Recording(d, x) /\ Recording(d, x)' = {}
      BY <1>1, <1>5, <1>7 DEF Recording
    <3>2. Window(d, x) = stamp[j]
      BY <1>2, <3>1, WindowOf
    <3>3. Window(d, x)' = last_signal'[d][x]
      BY <3>1 DEF Window
    <3>4. QED
      BY <1>2, <1>4, <2>1, <3>2, <3>3
  <2>2. CASE ~(c = d /\ s = x)
    <3>1. j \notin Recording(c, s)
      BY <2>2 DEF Recording
    <3>2. Recording(c, s)' = Recording(c, s)
      BY <1>5, <1>6, <3>1 DEF Recording
    <3>3. QED
      BY <1>3, <1>4, <2>2, <3>2, WindowKept
  <2>3. QED
    BY <2>1, <2>2
<1>10. QED
  BY <1>8, <1>9 DEF Windows

(* A restart is Forget. *)
LEMMA RestartForgets ==
    ASSUME Restart
    PROVE  Gate!Forget
<1>1. \A i \in Jobs : pc'[i] = "idle"
  BY DEF Restart
<1>2. ActiveJobs' = [c \in Copies |-> {}]
  BY <1>1 DEF ActiveJobs, Owning
<1>3. \A c \in Copies, s \in Coins :
         Recording(c, s)' = {} /\ last_signal'[c][s] = None
  BY <1>1 DEF Restart, Recording
<1>4. Windows' = [c \in Copies |-> [s \in Coins |-> None]]
  BY <1>3 DEF Windows, Window
<1>5. QED
  BY <1>2, <1>4 DEF Gate!Forget

LEMMA GateSimulated ==
    ASSUME TypeInv, GateInv, CoolInv, ClockInv, [Next]_vars
    PROVE  [Gate!Next]_(Gate!gateVars)
<1>1. ASSUME NEW j \in Jobs, Claim(j) \/ ReleaseSlot(j)  PROVE Gate!Next
  BY <1>1, ClaimEnters, ReleaseLeaves DEF Gate!Next
<1>2. ASSUME NEW j \in Jobs, Send(j)  PROVE Gate!Next
  BY <1>2, SendSends DEF Gate!Next
<1>3. ASSUME Restart  PROVE Gate!Next
  BY <1>3, RestartForgets DEF Gate!Next
<1>4. ASSUME NEW j \in Jobs, RecordAlert(j)  PROVE UNCHANGED Gate!gateVars
  BY <1>4, RecordUnseen DEF Gate!gateVars
<1>5. ASSUME NEW j \in Jobs,
             \/ Fire(j) \/ Skip(j) \/ Begin(j) \/ Finish(j) \/ EndScan(j)
             \/ Abort(j)
      PROVE  UNCHANGED Gate!gateVars
  <2>1. UNCHANGED last_signal
    BY <1>5 DEF Fire, Skip, Begin, Finish, EndScan, Abort, guardVars
  <2>2. \A i \in Jobs :
           /\ pc'[i] \in Owning <=> pc[i] \in Owning
           /\ pc'[i] = "record" <=> pc[i] = "record"
    BY <1>5 DEF Fire, Skip, Begin, Finish, EndScan, Abort, Goto, TypeInv,
                TypeOK, Owning, PCs
  <2>3. \A i \in Jobs : pc[i] = "record" =>
           sending'[i] = sending[i] /\ stamp'[i] = stamp[i]
    BY <1>5 DEF Fire, Skip, Begin, Finish, EndScan, Abort, TypeInv, TypeOK
  <2>4. QED
    BY <2>1, <2>2, <2>3, Unseen DEF Gate!gateVars
<1>6. ASSUME NEW j \in Jobs, Analyse(j)  PROVE UNCHANGED Gate!gateVars
  <2>1. pc[j] = "funnel" /\ UNCHANGED <<last_signal, sending, stamp>>
    BY <1>6 DEF Analyse, guardVars
  <2>2. pc' = [pc EXCEPT ![j] = "end"] \/ pc' = [pc EXCEPT ![j] = "persist"]
    BY <1>6 DEF Analyse, Decide, Goto
  <2>3. QED
    BY <2>1, <2>2, Unseen DEF Gate!gateVars, TypeInv, TypeOK, Owning, PCs
<1>7. ASSUME NEW j \in Jobs, Persist(j)  PROVE UNCHANGED Gate!gateVars
  <2>1. /\ pc[j] = "persist" /\ UNCHANGED <<last_signal, stamp>>
        /\ pc' = pc \/ pc' = [pc EXCEPT ![j] = "send"]
    BY <1>7 DEF Persist, HoldDeduped, HoldLogged, HoldWriteFails, LogOnly,
                PersistAlert, RecordHold, Goto, guardVars
  <2>2. \A i \in Jobs : i # j => sending'[i] = sending[i]
    BY <1>7 DEF Persist, HoldDeduped, HoldLogged, HoldWriteFails, LogOnly,
                PersistAlert, TypeInv, TypeOK
  <2>3. QED
    BY <2>1, <2>2, Unseen DEF Gate!gateVars, TypeInv, TypeOK, Owning, PCs
<1>8. ASSUME Tick \/ UNCHANGED vars  PROVE UNCHANGED Gate!gateVars
  BY <1>8, Unseen DEF Tick, vars, guardVars, scanVars, Gate!gateVars
<1>9. QED
  BY <1>1, <1>2, <1>3, <1>4, <1>5, <1>6, <1>7, <1>8 DEF Next, Step

(* The threads, locks and dictionaries of the scan path implement the      *)
(* abstract gate: one active scan per copy, alerts of a coin one cooldown  *)
(* apart, and a restart that forgets both.                                 *)
THEOREM GateImplemented == Spec => ImplementsAlertGate
<1>1. Init => Gate!Init
  <2>1. ASSUME Init  PROVE ActiveJobs = [c \in Copies |-> {}]
    BY <2>1 DEF Init, ActiveJobs, Owning
  <2>2. ASSUME Init  PROVE Windows = [c \in Copies |-> [s \in Coins |-> None]]
    <3>1. \A c \in Copies, s \in Coins : Recording(c, s) = {}
      BY <2>2 DEF Init, Recording
    <3>2. QED
      BY <2>2, <3>1 DEF Init, GuardInit, Windows, Window
  <2>3. QED
    BY <2>1, <2>2 DEF Gate!Init
<1>2. TypeInv /\ GateInv /\ CoolInv /\ ClockInv /\ [Next]_vars
      => [Gate!Next]_(Gate!gateVars)
  BY GateSimulated
<1>3. QED
  BY <1>1, <1>2, TypeCorrect, GateAlways, CoolAlways, ClockAlways, PTL
  DEF Spec, ImplementsAlertGate, Gate!Spec
=============================================================================

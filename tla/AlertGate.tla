------------------------------ MODULE AlertGate ------------------------------
(***************************************************************************)
(* What the scan path promises, without threads, locks or dictionaries     *)
(* (scan_coordinator.py:3-14, duplicate_guard.py:5-9): per copy of main at *)
(* most one scan is active, and the alerts for a coin that copy sends are  *)
(* stamped at least one cooldown apart.  A restart forgets both.           *)
(***************************************************************************)
EXTENDS Deployment

CONSTANTS
    DUPLICATE_COOLDOWN_MIN,   \* the alert cooldown, in ticks
    Times                     \* the stamps an alert can carry

VARIABLES
    active,   \* [Copies -> the jobs whose scan is active]
    window    \* [Copies -> [Coins -> stamp of the latest alert, or None]]

gateVars == <<active, window>>

Init ==
    /\ active = [c \in Copies |-> {}]
    /\ window = [c \in Copies |-> [s \in Coins |-> None]]

Enter(j) ==
    /\ active[CopyOf[j]] = {}
    /\ active' = [active EXCEPT ![CopyOf[j]] = {j}]
    /\ UNCHANGED window

Leave(j) ==
    /\ active[CopyOf[j]] = {j}
    /\ active' = [active EXCEPT ![CopyOf[j]] = {}]
    /\ UNCHANGED window

SendAlert(j, s, t) ==
    LET previous == window[CopyOf[j]][s] IN
    /\ active[CopyOf[j]] = {j}
    /\ previous # None => t - previous >= DUPLICATE_COOLDOWN_MIN
    /\ window' = [window EXCEPT ![CopyOf[j]][s] = t]
    /\ UNCHANGED active

Forget ==
    /\ active' = [c \in Copies |-> {}]
    /\ window' = [c \in Copies |-> [s \in Coins |-> None]]

Next ==
    \/ \E j \in Jobs : Enter(j) \/ Leave(j)
    \/ \E j \in Jobs, s \in Coins, t \in Times : SendAlert(j, s, t)
    \/ Forget

Spec == Init /\ [][Next]_gateVars
=============================================================================

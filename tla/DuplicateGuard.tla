--------------------------- MODULE DuplicateGuard ---------------------------
(***************************************************************************)
(* duplicate_guard.py: the two in-memory cooldowns of one DuplicateGuard,  *)
(* one guard per copy of main (ScanCoordinator.get_guard).  Every method   *)
(* takes the guard's lock for each access to a dictionary, so each is one  *)
(* step.  DuplicateGuard.reset has no caller in the program and is not an  *)
(* action here.                                                            *)
(***************************************************************************)
EXTENDS Deployment

CONSTANTS
    Reasons,                  \* the verdict|reason signatures of a HOLD
    DUPLICATE_COOLDOWN_MIN,   \* alert cooldown, in ticks of the model's clock
    HOLD_LOG_COOLDOWN_MIN     \* HOLD-row cooldown, in ticks

ASSUME GuardAssumption ==
    /\ DUPLICATE_COOLDOWN_MIN \in Nat \ {0}
    /\ HOLD_LOG_COOLDOWN_MIN \in Nat
    /\ None \notin Nat \X Reasons

VARIABLES
    last_signal,   \* [Copies -> [Coins -> time of the last record, or None]]
    last_hold      \* [Copies -> [Coins -> <<time, reason>>, or None]]

guardVars == <<last_signal, last_hold>>

GuardTypeOK ==
    /\ last_signal \in [Copies -> [Coins -> Nat \cup {None}]]
    /\ last_hold \in [Copies -> [Coins -> (Nat \X Reasons) \cup {None}]]

GuardInit ==
    /\ last_signal = [c \in Copies |-> [s \in Coins |-> None]]
    /\ last_hold = [c \in Copies |-> [s \in Coins |-> None]]

-----------------------------------------------------------------------------
\* Mutated form: the window ends one minute early.
InCooldownTooShort(last, now) ==
    last # None /\ now - last < DUPLICATE_COOLDOWN_MIN - 1

(* A time that precedes the stored one is inside the window too: Python    *)
(* compares a negative timedelta with the cooldown.                        *)
InCooldown(last, now) ==
    last # None /\ now - last < DUPLICATE_COOLDOWN_MIN

IsDuplicate(c, s, now) == InCooldown(last_signal[c][s], now)

\* Mutated form: only a time in the past can be recent.
HoldLoggedBefore(c, s, now, reason) ==
    LET entry == last_hold[c][s] IN
    /\ entry # None
    /\ now - entry[1] \in 0..HOLD_LOG_COOLDOWN_MIN - 1
    /\ entry[2] = reason

HoldLoggedRecently(c, s, now, reason) ==
    LET entry == last_hold[c][s] IN
    /\ entry # None
    /\ now - entry[1] < HOLD_LOG_COOLDOWN_MIN
    /\ entry[2] = reason

Record(c, s, now) ==
    /\ last_signal' = [last_signal EXCEPT ![c][s] = now]
    /\ UNCHANGED last_hold

RecordHold(c, s, now, reason) ==
    /\ last_hold' = [last_hold EXCEPT ![c][s] = <<now, reason>>]
    /\ UNCHANGED last_signal
=============================================================================

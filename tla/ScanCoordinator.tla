-------------------------- MODULE ScanCoordinator --------------------------
(***************************************************************************)
(* scan_coordinator.py, class ScanCoordinator: the non-blocking single-scan *)
(* gate and the snapshot /status reads, one of each per copy of main.  The *)
(* lock has no owner: release frees it whoever holds it.  try_begin takes  *)
(* the lock first and writes the running scan's fields after; end writes   *)
(* every field first and releases the lock last.  Those are separate steps *)
(* here.                                                                   *)
(***************************************************************************)
EXTENDS Deployment

VARIABLES
    gate,           \* [Copies -> is the lock held]
    scan_id,        \* [Copies -> id of the running scan, or None]
    started_at,     \* [Copies -> when the running scan began, or None]
    last_scan_id,   \* [Copies -> id of the last finished scan, or None]
    last_scan_at,   \* [Copies -> when the last finished scan began, or None]
    last_outcome,   \* [Copies -> what the last summary said, or None]
    error_streak    \* [Copies -> failed scans since the last good one]

coordVars == <<gate, scan_id, started_at, last_scan_id, last_scan_at,
               last_outcome, error_streak>>

(* What `end` tells apart in a summary: a good one, one with an empty       *)
(* universe (scanned = 0), and the two an exception leaves: str(exc) is    *)
(* the error, and it may be the empty string.                              *)
Outcomes == {"ok", "empty", "error", "blank_error"}

CoordTypeOK ==
    /\ gate \in [Copies -> BOOLEAN]
    /\ scan_id \in [Copies -> Nat \cup {None}]
    /\ started_at \in [Copies -> Nat \cup {None}]
    /\ last_scan_id \in [Copies -> Nat \cup {None}]
    /\ last_scan_at \in [Copies -> Nat \cup {None}]
    /\ last_outcome \in [Copies -> Outcomes \cup {None}]
    /\ error_streak \in [Copies -> Nat]

CoordInit ==
    /\ gate = [c \in Copies |-> FALSE]
    /\ scan_id = [c \in Copies |-> None]
    /\ started_at = [c \in Copies |-> None]
    /\ last_scan_id = [c \in Copies |-> None]
    /\ last_scan_at = [c \in Copies |-> None]
    /\ last_outcome = [c \in Copies |-> None]
    /\ error_streak = [c \in Copies |-> 0]

-----------------------------------------------------------------------------
\* Mutated form: the gate is read and taken without looking at it.
AcquireUnchecked(c) ==
    /\ gate' = [gate EXCEPT ![c] = TRUE]
    /\ UNCHANGED <<scan_id, started_at, last_scan_id, last_scan_at,
                   last_outcome, error_streak>>

(* try_begin, the lock: acquire(blocking=False) succeeded. *)
Acquire(c) ==
    /\ ~gate[c]
    /\ gate' = [gate EXCEPT ![c] = TRUE]
    /\ UNCHANGED <<scan_id, started_at, last_scan_id, last_scan_at,
                   last_outcome, error_streak>>

(* try_begin, the fields of the scan that now owns the gate. *)
Open(c, id, at) ==
    /\ scan_id' = [scan_id EXCEPT ![c] = id]
    /\ started_at' = [started_at EXCEPT ![c] = at]
    /\ UNCHANGED <<gate, last_scan_id, last_scan_at, last_outcome, error_streak>>

\* Mutated form: a good scan does not reset the streak.
StreakKept(streak, outcome) ==
    IF outcome = "error" THEN streak + 1 ELSE streak

\* Mutated form: a good scan takes one failure off the streak.
StreakReduced(streak, outcome) ==
    CASE outcome = "error" -> streak + 1
      [] outcome = "ok"    -> streak - 1
      [] OTHER             -> streak

StreakAfter(streak, outcome) ==
    CASE outcome = "error" -> streak + 1
      [] outcome = "ok"    -> 0
      [] OTHER             -> streak

\* Mutated form: end also gives the slot back while it writes the snapshot,
\* so the release that follows is a second one.
CloseReleasingTwice(c, outcome) ==
    /\ gate' = [gate EXCEPT ![c] = FALSE]
    /\ last_scan_id' = [last_scan_id EXCEPT ![c] = scan_id[c]]
    /\ last_scan_at' = [last_scan_at EXCEPT ![c] = started_at[c]]
    /\ last_outcome' = [last_outcome EXCEPT ![c] = outcome]
    /\ error_streak' = [error_streak EXCEPT ![c] = StreakAfter(@, outcome)]
    /\ scan_id' = [scan_id EXCEPT ![c] = None]
    /\ started_at' = [started_at EXCEPT ![c] = None]

(* end, everything before the release. *)
Close(c, outcome) ==
    /\ last_scan_id' = [last_scan_id EXCEPT ![c] = scan_id[c]]
    /\ last_scan_at' = [last_scan_at EXCEPT ![c] = started_at[c]]
    /\ last_outcome' = [last_outcome EXCEPT ![c] = outcome]
    /\ error_streak' = [error_streak EXCEPT ![c] = StreakAfter(@, outcome)]
    /\ scan_id' = [scan_id EXCEPT ![c] = None]
    /\ started_at' = [started_at EXCEPT ![c] = None]
    /\ UNCHANGED gate

(* end, the release: releasing a free lock raises RuntimeError, which end   *)
(* swallows, so the step is enabled whoever holds the gate.                *)
Release(c) ==
    /\ gate' = [gate EXCEPT ![c] = FALSE]
    /\ UNCHANGED <<scan_id, started_at, last_scan_id, last_scan_at,
                   last_outcome, error_streak>>
=============================================================================

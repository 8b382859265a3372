----------------------------- MODULE Deployment -----------------------------
(***************************************************************************)
(* The wiring every other module of the scan path shares: which jobs call  *)
(* run_scan, which copy of the module main each of them reaches, and the   *)
(* coins a scan looks at.                                                  *)
(*                                                                         *)
(* main.py builds its coordinator, and through it its duplicate guard, at  *)
(* import (main.py:78).  A process started as `python main.py` holds the   *)
(* file twice: as __main__, whose coordinator the scheduled job uses, and  *)
(* as main, which telegram_bot.py:255 imports for /scan_on.  CopyOf says   *)
(* which of the copies a job's run_scan belongs to; a wiring that maps     *)
(* every job to one copy is the one the documentation describes.           *)
(***************************************************************************)
EXTENDS Integers

CONSTANTS
    Jobs,       \* the scheduler jobs that call run_scan
    Copies,     \* the loaded copies of the module main
    CopyOf,     \* the copy whose _coordinator a job's run_scan uses
    Coins,      \* the symbols of the universe
    None        \* Python's None

ASSUME DeploymentAssumption ==
    /\ CopyOf \in [Jobs -> Copies]
    /\ None \notin Nat
=============================================================================

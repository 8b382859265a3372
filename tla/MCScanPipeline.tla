--------------------------- MODULE MCScanPipeline ---------------------------
(***************************************************************************)
(* Small instances of ScanPipeline for TLC.                                *)
(***************************************************************************)
EXTENDS ScanPipeline, TLC

CONSTANTS scheduled, ondemand, copyMain, copyScript

\* Every path reaches the same copy of main, as its comments say; also the
\* wiring of two /scan_on sessions that overlap.
SharedCopy == scheduled :> copyMain @@ ondemand :> copyMain

\* One job alone: every scan has the copy to itself.
OneJob == scheduled :> copyMain

\* `python main.py`: the scheduled job runs in __main__, /scan_on in main.
ScriptCopies == scheduled :> copyScript @@ ondemand :> copyMain

\* The coins are interchangeable.
CoinSymmetry == Permutations(Coins)

\* Everything but the four fields that are written at the end of a scan and
\* read only by /status: no action reads them, and a run that checks nothing
\* about them may identify states that differ only there.
WithoutHealth ==
    <<guardVars, gate, scan_id, started_at, now, life, scanVars, logVars>>

\* Also without what only ends up in those four fields, the refused writes and
\* whether an alert arrived: no action reads them either.
GateAndRows ==
    <<guardVars, gate, now, life, fired, pc, stamp, decided, sending, csv,
      {<<a.coin, a.copy, a.job, a.life, a.at>> : a \in alerts}>>
=============================================================================

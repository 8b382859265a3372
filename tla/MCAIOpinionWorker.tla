------------------------- MODULE MCAIOpinionWorker -------------------------
(***************************************************************************)
(* Small instance of AIOpinionWorker for TLC: the worker of one copy of   *)
(* main and three batches, one of them with two records.                   *)
(***************************************************************************)
EXTENDS AIOpinionWorker, TLC

CONSTANTS first, second, third, btc, eth, ai_worker

TwoOneOne ==
    first :> (btc :> "SHORT" @@ eth :> "NO_TRADE")
    @@ second :> (btc :> "LONG")
    @@ third :> (btc :> "LONG")
=============================================================================

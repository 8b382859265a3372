--------------------------- MODULE MCCandleCache ---------------------------
(* A small instance of CandleCache: two pools of one worker each.           *)
EXTENDS CandleCache, TLC

CONSTANTS scheduled, ondemand, fetch_s, fetch_o, btc, eth

OnePoolEach == fetch_s :> scheduled @@ fetch_o :> ondemand

(* The pools may change places together with their workers, and so may the  *)
(* symbols.                                                                 *)
SamePools == [x \in Workers \cup Batches |-> x]
OtherPools ==
    fetch_s :> fetch_o @@ fetch_o :> fetch_s
    @@ scheduled :> ondemand @@ ondemand :> scheduled
PoolSymmetry ==
    {s @@ p : s \in Permutations(Symbols), p \in {SamePools, OtherPools}}
=============================================================================

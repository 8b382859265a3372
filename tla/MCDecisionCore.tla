-------------------------- MODULE MCDecisionCore --------------------------
(* A small instance of DecisionCore, on a scale of four units to the ATR,   *)
(* around an entry at 0 and the same above it as below.                     *)
EXTENDS DecisionCore, TLC

SwingLevels == {-11, -6, -1, 1, 6, 11}

Above ==
    {<<2, 3>>,      \* too close
     <<6, 16>>,     \* wide
     <<13, 14>>,    \* behind it, with its far edge before the wide one's
     <<-1, 1>>,     \* at the entry
     <<-8, -7>>}    \* on the wrong side of it

ZonesAround ==
    {[lo |-> z[1], hi |-> z[2], side |-> "resistance"] : z \in Above}
    \cup {[lo |-> - z[2], hi |-> - z[1], side |-> "support"] : z \in Above}

EntryAtZero == {0}
=============================================================================

------------------------------- MODULE Services -------------------------------
(***************************************************************************)
(* The services around the scan, side by side.  They share no state: news  *)
(* reads only the promise of the delivery code, and the liquidation        *)
(* cache, the provider ladder, the reading of a reply, the signals log and *)
(* the replay of the backtest are read through their results.  So their    *)
(* composition is a sum, one service per behaviour, rather than a product, *)
(* and each behaviour of each service is among those of the sum.           *)
(***************************************************************************)
EXTENDS TelegramDelivery, NewsEngine, ProviderLadder, LiquidationStream,
        SignalsLog, ReplyReading, Replay

VARIABLE service    \* which of them this behaviour is about

Services == {"delivery", "news", "ladder", "liquidation", "log", "reply",
             "replay"}

\* Only the service of the behaviour has more than one initial state.
SumInit ==
    /\ service \in Services
    /\ DeliveryInit
    /\ NewsInit /\ (service # "news" => published = CHOOSE p \in Stamps : TRUE)
    /\ LadderInit /\ (service # "ladder" => limit = CHOOSE b \in Budgets : TRUE)
    /\ LiqInit
    /\ LogInit /\ (service # "log" => disk = << >>)
    /\ ReplyInit
    /\ ReplayInit

DeliveryMoves ==
    /\ service = "delivery"
    /\ DeliveryNext
    /\ UNCHANGED <<newsVars, ladderVars, liqVars, logVars, replyVars, replayVars>>

NewsMoves ==
    /\ service = "news"
    /\ NewsNext
    /\ UNCHANGED <<deliveryVars, ladderVars, liqVars, logVars, replyVars, replayVars>>

LadderMoves ==
    /\ service = "ladder"
    /\ LadderNext
    /\ UNCHANGED <<deliveryVars, newsVars, liqVars, logVars, replyVars, replayVars>>

LiquidationMoves ==
    /\ service = "liquidation"
    /\ LiqNext
    /\ UNCHANGED <<deliveryVars, newsVars, ladderVars, logVars, replyVars, replayVars>>

LogMoves ==
    /\ service = "log"
    /\ LogNext
    /\ UNCHANGED <<deliveryVars, newsVars, ladderVars, liqVars, replyVars, replayVars>>

ReplyMoves ==
    /\ service = "reply"
    /\ ReplyNext
    /\ UNCHANGED <<deliveryVars, newsVars, ladderVars, liqVars, logVars, replayVars>>

ReplayMoves ==
    /\ service = "replay"
    /\ ReplayNext
    /\ UNCHANGED <<deliveryVars, newsVars, ladderVars, liqVars, logVars, replyVars>>

SumNext ==
    /\ UNCHANGED service
    /\ \/ DeliveryMoves \/ NewsMoves \/ LadderMoves \/ LiquidationMoves
       \/ LogMoves \/ ReplyMoves \/ ReplayMoves

SumSpec ==
    SumInit /\ [][SumNext]_<<service, deliveryVars, newsVars, ladderVars,
                             liqVars, logVars, replyVars, replayVars>>

(* Every variable of the services keeps its type.                          *)
ServicesTypeOK ==
    DeliveryTypeOK /\ NewsTypeOK /\ LadderTypeOK /\ LiqTypeOK /\ LogTypeOK
    /\ ReplyTypeOK /\ ReplayTypeOK
=============================================================================

-------------------------- MODULE DeliveryContract --------------------------
(***************************************************************************)
(* What a caller of alerts.send_telegram_text may rely on: TRUE means that *)
(* at least one chat has the message.  FALSE promises nothing: a chat may  *)
(* have the message already, or still get it.                              *)
(***************************************************************************)
CONSTANTS Messages, Chats

VARIABLES
    asked,     \* the messages handed to send_telegram_text
    answer,    \* [Messages -> what the call returned, "none" before]
    holders    \* [Messages -> the chats that have the message]

contractVars == <<asked, answer, holders>>

ContractInit ==
    /\ asked = {}
    /\ answer = [m \in Messages |-> "none"]
    /\ holders = [m \in Messages |-> {}]

Ask(m) ==
    /\ m \notin asked
    /\ asked' = asked \cup {m}
    /\ UNCHANGED <<answer, holders>>

Reach(m, c) ==
    /\ m \in asked
    /\ holders' = [holders EXCEPT ![m] = @ \cup {c}]
    /\ UNCHANGED <<asked, answer>>

Return(m, told) ==
    /\ m \in asked
    /\ answer[m] = "none"
    /\ told = "yes" => holders[m] # {}
    /\ answer' = [answer EXCEPT ![m] = told]
    /\ UNCHANGED <<asked, holders>>

\* The one-shot attempt may be cut off while its last request is answered.
ReachAndReturn(m, c) ==
    /\ m \in asked
    /\ answer[m] = "none"
    /\ holders' = [holders EXCEPT ![m] = @ \cup {c}]
    /\ answer' = [answer EXCEPT ![m] = "no"]
    /\ UNCHANGED asked

ContractNext ==
    \E m \in Messages :
        \/ Ask(m)
        \/ \E c \in Chats : Reach(m, c) \/ ReachAndReturn(m, c)
        \/ \E told \in {"yes", "no"} : Return(m, told)

ContractSpec == ContractInit /\ [][ContractNext]_contractVars
=============================================================================

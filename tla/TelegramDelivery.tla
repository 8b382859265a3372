-------------------------- MODULE TelegramDelivery --------------------------
(***************************************************************************)
(* alerts.send_telegram_text and the chat listener it borrows              *)
(* (alerts.py, telegram_bot.py): every thread of the program sends its     *)
(* message through the listener's event loop, chat by chat, waiting at     *)
(* most 20 s for each, and falls back to a bot of its own.  A wait that is *)
(* given up does not take the coroutine back.                              *)
(***************************************************************************)
EXTENDS Integers, FiniteSets

CONSTANTS
    Messages,    \* the texts being sent, each by a thread of its own
    NChats       \* how many ids telegram_chat_ids returns

ASSUME DeliveryAssumption == NChats \in Nat \ {0}

Chats == 1..NChats

VARIABLES
    listener,    \* "off", "running" (loop running, app started) or "gone"
    blocked,     \* does a chat handler hold the loop's only thread
    stage,       \* [Messages -> where its sender is]
    chat,        \* [Messages -> the next chat of the loop it is in]
    waiting,     \* [Messages -> is the sender in result(timeout=20)]
    sent,        \* [Messages -> sent of _send_via_listener]
    failures,    \* [Messages -> failures of the loop it is in]
    coros,       \* <<message, chat>> handed to the loop and not finished
    copies       \* [Messages -> [Chats -> times the chat got the message]]

senderVars == <<stage, chat, waiting, sent, failures>>
deliveryVars == <<listener, blocked, senderVars, coros, copies>>

SendStages == {"new", "listener", "oneshot", "yes", "no"}

DeliveryTypeOK ==
    /\ listener \in {"off", "running", "gone"}
    /\ blocked \in BOOLEAN
    /\ stage \in [Messages -> SendStages]
    /\ chat \in [Messages -> 1..NChats + 1]
    /\ waiting \in [Messages -> BOOLEAN]
    /\ sent \in [Messages -> 0..NChats]
    /\ failures \in [Messages -> 0..NChats]
    /\ coros \subseteq Messages \X Chats
    /\ copies \in [Messages -> [Chats -> 0..2]]

DeliveryInit ==
    /\ listener = "off"
    /\ blocked = FALSE
    /\ stage = [m \in Messages |-> "new"]
    /\ chat = [m \in Messages |-> 1]
    /\ waiting = [m \in Messages |-> FALSE]
    /\ sent = [m \in Messages |-> 0]
    /\ failures = [m \in Messages |-> 0]
    /\ coros = {}
    /\ copies = [m \in Messages |-> [c \in Chats |-> 0]]

-----------------------------------------------------------------------------
(* The listener's thread.                                                  *)

ListenerStarts ==
    /\ listener = "off"
    /\ listener' = "running"
    /\ UNCHANGED <<blocked, senderVars, coros, copies>>

\* The loop is closed; what was pending in it never runs.
ListenerStops ==
    /\ listener = "running"
    /\ listener' = "gone"
    /\ blocked' = FALSE
    /\ coros' = {}
    /\ UNCHANGED <<senderVars, copies>>

\* handle_message calls the model synchronously inside the coroutine.
HandlerBlocks ==
    /\ listener = "running"
    /\ ~blocked
    /\ blocked' = TRUE
    /\ UNCHANGED <<listener, senderVars, coros, copies>>

HandlerReturns ==
    /\ blocked
    /\ blocked' = FALSE
    /\ UNCHANGED <<listener, senderVars, coros, copies>>

Got(m, c, reached) ==
    copies' = IF reached THEN [copies EXCEPT ![m][c] = @ + 1] ELSE copies

\* One attempt of the loop over the chats is over.
Counted(m, fine) ==
    /\ chat' = [chat EXCEPT ![m] = @ + 1]
    /\ waiting' = [waiting EXCEPT ![m] = FALSE]
    /\ sent' = IF fine THEN [sent EXCEPT ![m] = @ + 1] ELSE sent
    /\ failures' = IF fine THEN failures ELSE [failures EXCEPT ![m] = @ + 1]
    /\ UNCHANGED stage

\* The loop runs a coroutine to its end.  A request that fails may have
\* reached the chat: the answer was lost.  Only a sender that still waits
\* for this chat learns the result.
LoopSends(m, c) ==
    /\ listener = "running" /\ ~blocked
    /\ <<m, c>> \in coros
    /\ coros' = coros \ {<<m, c>>}
    /\ \E fine, reached \in BOOLEAN :
          /\ fine => reached
          /\ Got(m, c, reached)
          /\ IF waiting[m] /\ chat[m] = c THEN Counted(m, fine)
             ELSE UNCHANGED senderVars
    /\ UNCHANGED <<listener, blocked>>

-----------------------------------------------------------------------------
(* A sender's thread.                                                      *)

Begin(m) ==
    /\ stage[m] = "new"
    /\ stage' = [stage EXCEPT
          ![m] = IF listener = "running" THEN "listener" ELSE "oneshot"]
    /\ UNCHANGED <<listener, blocked, chat, waiting, sent, failures, coros,
                   copies>>

\* run_coroutine_threadsafe; on a closed loop it raises.
Schedule(m) ==
    /\ stage[m] = "listener" /\ chat[m] \in Chats /\ ~waiting[m]
    /\ IF listener = "running"
       THEN /\ coros' = coros \cup {<<m, chat[m]>>}
            /\ waiting' = [waiting EXCEPT ![m] = TRUE]
            /\ UNCHANGED <<stage, chat, sent, failures>>
       ELSE /\ Counted(m, FALSE)
            /\ UNCHANGED coros
    /\ UNCHANGED <<listener, blocked, copies>>

\* result(timeout=20) expires; the coroutine stays with the loop.
GiveUp(m) ==
    /\ waiting[m]
    /\ Counted(m, FALSE)
    /\ UNCHANGED <<listener, blocked, coros, copies>>

\* One chat that answered is enough; otherwise everything is sent again.
LeaveListenerOnAnyFailure(m) ==
    /\ stage[m] = "listener" /\ chat[m] = NChats + 1
    /\ stage' = [stage EXCEPT ![m] = IF failures[m] = 0 THEN "yes" ELSE "oneshot"]
    /\ chat' = [chat EXCEPT ![m] = 1]
    /\ failures' = [failures EXCEPT ![m] = 0]
    /\ UNCHANGED <<listener, blocked, waiting, sent, coros, copies>>

LeaveListener(m) ==
    /\ stage[m] = "listener" /\ chat[m] = NChats + 1
    /\ stage' = [stage EXCEPT ![m] = IF sent[m] > 0 THEN "yes" ELSE "oneshot"]
    /\ chat' = [chat EXCEPT ![m] = 1]
    /\ failures' = [failures EXCEPT ![m] = 0]
    /\ UNCHANGED <<listener, blocked, waiting, sent, coros, copies>>

\* _send: one chat of the sender's own bot.  Its successes are not counted
\* in sent.
OneShot(m) ==
    /\ stage[m] = "oneshot" /\ chat[m] \in Chats
    /\ \E fine, reached \in BOOLEAN :
          /\ fine => reached
          /\ Got(m, chat[m], reached)
          /\ failures' = IF fine THEN failures
                         ELSE [failures EXCEPT ![m] = @ + 1]
    /\ chat' = [chat EXCEPT ![m] = @ + 1]
    /\ UNCHANGED <<listener, blocked, stage, waiting, sent, coros>>

\* The bot does not come up, or wait_for cuts _send off within 20 s, perhaps
\* after the chat has the message.
OneShotStops(m) ==
    /\ stage[m] = "oneshot" /\ chat[m] \in Chats
    /\ \E reached \in BOOLEAN : Got(m, chat[m], reached)
    /\ stage' = [stage EXCEPT ![m] = "no"]
    /\ UNCHANGED <<listener, blocked, chat, waiting, sent, failures, coros>>

OneShotReturnsAnyway(m) ==
    /\ stage[m] = "oneshot" /\ chat[m] = NChats + 1
    /\ stage' = [stage EXCEPT ![m] = "yes"]
    /\ UNCHANGED <<listener, blocked, chat, waiting, sent, failures, coros,
                   copies>>

\* _send raises only when every chat failed.
OneShotReturns(m) ==
    /\ stage[m] = "oneshot" /\ chat[m] = NChats + 1
    /\ stage' = [stage EXCEPT
          ![m] = IF failures[m] = NChats THEN "no" ELSE "yes"]
    /\ UNCHANGED <<listener, blocked, chat, waiting, sent, failures, coros,
                   copies>>

SenderStep(m) ==
    \/ Begin(m) \/ Schedule(m) \/ GiveUp(m) \/ LeaveListener(m)
    \/ OneShot(m) \/ OneShotStops(m) \/ OneShotReturns(m)

DeliveryNext ==
    \/ ListenerStarts \/ ListenerStops \/ HandlerBlocks \/ HandlerReturns
    \/ \E m \in Messages :
          \/ SenderStep(m)
          \/ \E c \in Chats : LoopSends(m, c)

DeliverySpec == DeliveryInit /\ [][DeliveryNext]_deliveryVars

-----------------------------------------------------------------------------
(* Properties.                                                             *)

Holders(m) == {c \in Chats : copies[m][c] > 0}

Contract == INSTANCE DeliveryContract WITH
    asked <- {m \in Messages : stage[m] # "new"},
    answer <- [m \in Messages |->
                  IF stage[m] \in {"yes", "no"} THEN stage[m] ELSE "none"],
    holders <- [m \in Messages |-> Holders(m)]

(* The sending code keeps the contract its callers read from its result    *)
(* (alerts.py:268-297): TRUE only once some chat has the message, whatever *)
(* the listener, the handler and the coroutines left behind do.            *)
KeepsContract == Contract!ContractSpec

(* No chat gets a message more than twice, and a second copy only comes    *)
(* when the listener's loop confirmed the message for no chat at all: the  *)
(* coroutine that was given up and the one-shot bot both arrived           *)
(* (alerts.py:247, 258-265).                                               *)
SecondCopyOnlyAfterSilence ==
    \A m \in Messages, c \in Chats :
        copies[m][c] > 1 => copies[m][c] = 2 /\ sent[m] = 0

(* Both: what the callers rely on, and what they have to put up with.      *)
DeliveryKept == KeepsContract /\ []SecondCopyOnlyAfterSilence
=============================================================================

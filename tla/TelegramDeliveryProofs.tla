----------------------- MODULE TelegramDeliveryProofs -----------------------
(***************************************************************************)
(* Proofs about TelegramDelivery, for any number of messages and chats:    *)
(* the sending code implements DeliveryContract, and no chat ever gets a   *)
(* third copy, nor a second one of a message the listener confirmed.       *)
(***************************************************************************)
EXTENDS TelegramDelivery, TLAPS

FlagInv == blocked \in BOOLEAN /\ waiting \in [Messages -> BOOLEAN]

(* Types, but for the bound on the copies, which takes CopyInv. *)
ShapeInv ==
    /\ FlagInv
    /\ listener \in {"off", "running", "gone"}
    /\ stage \in [Messages -> SendStages]
    /\ chat \in [Messages -> 1..NChats + 1]
    /\ sent \in [Messages -> Nat]
    /\ failures \in [Messages -> Nat]
    /\ coros \subseteq Messages \X Chats
    /\ copies \in [Messages -> [Chats -> Nat]]

(* What the sender has counted so far, in either loop over the chats. *)
CountInv ==
    \A m \in Messages :
        /\ waiting[m] => stage[m] = "listener" /\ chat[m] \in Chats
        /\ stage[m] = "new" => chat[m] = 1 /\ sent[m] = 0 /\ failures[m] = 0
        /\ stage[m] = "listener" => sent[m] + failures[m] = chat[m] - 1
        /\ stage[m] = "oneshot" => sent[m] = 0 /\ failures[m] <= chat[m] - 1
        /\ sent[m] + failures[m] <= NChats

(* A success that was counted has reached a chat. *)
ReachInv ==
    \A m \in Messages :
        /\ sent[m] > 0 => Holders(m) # {}
        /\ stage[m] = "oneshot" /\ failures[m] < chat[m] - 1 => Holders(m) # {}

(* The copies a chat has and the one the loop may still deliver. *)
Afoot(m, c) == IF <<m, c>> \in coros THEN 1 ELSE 0
Due(m, c) == copies[m][c] + Afoot(m, c)

(* Each of the two loops adds one copy per chat, and the second is only    *)
(* entered when the first has counted none.                                *)
CopiesOf(m, c) ==
    /\ stage[m] = "new" => Due(m, c) = 0
    /\ stage[m] = "listener" =>
          /\ Due(m, c) <= 1
          /\ c > chat[m] \/ (c = chat[m] /\ ~waiting[m]) => Due(m, c) = 0
    /\ stage[m] = "oneshot" =>
          /\ Due(m, c) <= 2
          /\ c >= chat[m] => Due(m, c) <= 1
    /\ Due(m, c) <= IF sent[m] > 0 THEN 1 ELSE 2

CopyInv == \A m \in Messages, c \in Chats : CopiesOf(m, c)

Inv == ShapeInv /\ CountInv /\ ReachInv /\ CopyInv

-----------------------------------------------------------------------------
LEMMA InvInit == DeliveryInit => Inv
<1> SUFFICES ASSUME DeliveryInit  PROVE Inv
  OBVIOUS
<1> USE DeliveryAssumption DEF DeliveryInit
<1>1. ShapeInv
  <2>1. FlagInv
    BY Zenon DEF FlagInv
  <2>2. QED
    BY <2>1 DEF ShapeInv, SendStages, Chats
<1>2. CountInv /\ ReachInv
  BY DEF CountInv, ReachInv
<1>3. CopyInv
  BY DEF CopyInv, CopiesOf, Due, Afoot
<1>4. QED
  BY <1>1, <1>2, <1>3 DEF Inv

(* What a delivery attempt does to the copies. *)
LEMMA GotCopies ==
    ASSUME ShapeInv, NEW m \in Messages, NEW c \in Chats,
           NEW reached \in BOOLEAN, Got(m, c, reached)
    PROVE  /\ copies' \in [Messages -> [Chats -> Nat]]
           /\ \A n \in Messages, d \in Chats :
                 copies'[n][d] = IF n = m /\ d = c /\ reached
                                 THEN copies[n][d] + 1 ELSE copies[n][d]
BY DEF ShapeInv, Got

(* The flags keep their type, and no other function changes its domain. *)
LEMMA FlagStep == ASSUME FlagInv, DeliveryNext  PROVE FlagInv'
<1> USE DEF FlagInv, senderVars
<1>1. CASE ListenerStarts \/ ListenerStops \/ HandlerBlocks \/ HandlerReturns
  BY <1>1, Zenon DEF ListenerStarts, ListenerStops, HandlerBlocks, HandlerReturns
<1>2. ASSUME NEW m \in Messages, SenderStep(m)  PROVE FlagInv'
  <2>1. CASE Begin(m) \/ LeaveListener(m) \/ OneShotReturns(m)
             \/ OneShot(m) \/ OneShotStops(m)
    BY <2>1, Zenon DEF Begin, LeaveListener, OneShotReturns, OneShot, OneShotStops
  <2>2. CASE GiveUp(m)
    BY <2>2, Zenon DEF GiveUp, Counted
  <2>3. CASE Schedule(m)
    <3>1. CASE listener = "running"
      BY <2>3, <3>1, Zenon DEF Schedule
    <3>2. CASE listener # "running"
      BY <2>3, <3>2, Zenon DEF Schedule, Counted
    <3>3. QED
      BY <3>1, <3>2
  <2>4. QED
    BY <1>2, <2>1, <2>2, <2>3 DEF SenderStep
<1>3. ASSUME NEW m \in Messages, NEW c \in Chats, LoopSends(m, c)  PROVE FlagInv'
  <2>1. waiting' = waiting \/ waiting' = [waiting EXCEPT ![m] = FALSE]
    BY <1>3 DEF LoopSends, Counted
  <2>2. QED
    BY <1>3, <2>1, Zenon DEF LoopSends
<1>4. QED
  BY <1>1, <1>2, <1>3 DEF DeliveryNext

(* What the end of an attempt leaves of the counters. *)
LEMMA CountedTypes ==
    ASSUME ShapeInv, NEW m \in Messages, NEW fine \in BOOLEAN,
           chat[m] \in Chats, Counted(m, fine)
    PROVE  /\ chat' \in [Messages -> 1..NChats + 1]
           /\ sent' \in [Messages -> Nat]
           /\ failures' \in [Messages -> Nat]
           /\ stage' = stage
<1>1. chat' \in [Messages -> 1..NChats + 1]
  BY DeliveryAssumption DEF ShapeInv, Counted, Chats
<1>2. sent' \in [Messages -> Nat] /\ failures' \in [Messages -> Nat]
  BY DEF ShapeInv, Counted
<1>3. QED
  BY <1>1, <1>2 DEF Counted

LEMMA CountedValues ==
    ASSUME ShapeInv, NEW m \in Messages, NEW fine \in BOOLEAN, Counted(m, fine)
    PROVE  /\ chat'[m] = chat[m] + 1 /\ ~waiting'[m] /\ stage'[m] = stage[m]
           /\ sent'[m] = (IF fine THEN sent[m] + 1 ELSE sent[m])
           /\ failures'[m] = (IF fine THEN failures[m] ELSE failures[m] + 1)
           /\ \A n \in Messages \ {m} :
                 /\ chat'[n] = chat[n] /\ waiting'[n] = waiting[n]
                 /\ stage'[n] = stage[n]
                 /\ sent'[n] = sent[n] /\ failures'[n] = failures[n]
<1>1. ~waiting'[m] /\ \A n \in Messages \ {m} : waiting'[n] = waiting[n]
  BY Zenon DEF ShapeInv, FlagInv, Counted
<1>2. QED
  BY <1>1 DEF ShapeInv, Counted

LEMMA ShapeStep == ASSUME ShapeInv, CountInv, DeliveryNext  PROVE ShapeInv'
<1> USE DeliveryAssumption DEF senderVars, SendStages
<1>0. FlagInv'
  BY FlagStep DEF ShapeInv
<1>1. CASE ListenerStarts \/ ListenerStops \/ HandlerBlocks \/ HandlerReturns
  BY <1>0, <1>1 DEF ShapeInv, ListenerStarts, ListenerStops, HandlerBlocks,
                    HandlerReturns
<1>2. ASSUME NEW m \in Messages, SenderStep(m)  PROVE ShapeInv'
  <2>1. CASE Begin(m)
    BY <1>0, <2>1 DEF ShapeInv, Begin
  <2>2. CASE LeaveListener(m)
    BY <1>0, <2>2 DEF ShapeInv, LeaveListener
  <2>3. CASE OneShotReturns(m)
    BY <1>0, <2>3 DEF ShapeInv, OneShotReturns
  <2>4. CASE Schedule(m)
    <3>1. CASE listener = "running"
      BY <1>0, <2>4, <3>1 DEF ShapeInv, Schedule
    <3>2. CASE listener # "running"
      <4>1. Counted(m, FALSE) /\ chat[m] \in Chats /\ coros' = coros
        BY <2>4, <3>2 DEF Schedule
      <4>2. QED
        BY <1>0, <2>4, <4>1, CountedTypes DEF ShapeInv, Schedule
    <3>3. QED
      BY <3>1, <3>2
  <2>5. CASE GiveUp(m)
    <3>1. chat[m] \in Chats
      BY <2>5 DEF CountInv, GiveUp
    <3>2. QED
      BY <1>0, <2>5, <3>1, CountedTypes DEF ShapeInv, GiveUp
  <2>6. CASE OneShot(m)
    <3>1. copies' \in [Messages -> [Chats -> Nat]]
      BY <2>6, GotCopies DEF OneShot
    <3>2. chat' \in [Messages -> 1..NChats + 1]
      BY <2>6 DEF ShapeInv, OneShot, Chats
    <3>3. failures' \in [Messages -> Nat]
      BY <2>6 DEF ShapeInv, OneShot
    <3>4. QED
      BY <1>0, <2>6, <3>1, <3>2, <3>3 DEF ShapeInv, OneShot
  <2>7. CASE OneShotStops(m)
    <3>1. copies' \in [Messages -> [Chats -> Nat]]
      BY <2>7, GotCopies DEF OneShotStops
    <3>2. QED
      BY <1>0, <2>7, <3>1 DEF ShapeInv, OneShotStops
  <2>8. QED
    BY <1>2, <2>1, <2>2, <2>3, <2>4, <2>5, <2>6, <2>7 DEF SenderStep
<1>3. ASSUME NEW m \in Messages, NEW c \in Chats, LoopSends(m, c)  PROVE ShapeInv'
  <2>1. copies' \in [Messages -> [Chats -> Nat]]
    BY <1>3, GotCopies DEF LoopSends
  <2>2. coros' \subseteq Messages \X Chats
    BY <1>3 DEF ShapeInv, LoopSends
  <2>3. CASE waiting[m] /\ chat[m] = c
    <3>1. PICK fine \in BOOLEAN : Counted(m, fine)
      BY <1>3, <2>3 DEF LoopSends
    <3>2. QED
      BY <1>0, <1>3, <2>1, <2>2, <2>3, <3>1, CountedTypes DEF ShapeInv, LoopSends
  <2>4. CASE ~(waiting[m] /\ chat[m] = c)
    BY <1>0, <1>3, <2>1, <2>2, <2>4 DEF ShapeInv, LoopSends
  <2>5. QED
    BY <2>3, <2>4
<1>4. QED
  BY <1>1, <1>2, <1>3 DEF DeliveryNext

-----------------------------------------------------------------------------
(* An attempt is counted once, in the loop over the chats it belongs to. *)
LEMMA CountedOnce ==
    ASSUME ShapeInv, CountInv, NEW m \in Messages, NEW fine \in BOOLEAN,
           stage[m] = "listener", chat[m] \in Chats, Counted(m, fine)
    PROVE  CountInv'
<1> USE DeliveryAssumption
<1>1. /\ chat[m] \in 1..NChats /\ sent[m] \in Nat /\ failures[m] \in Nat
      /\ sent[m] + failures[m] = chat[m] - 1
  BY DEF ShapeInv, CountInv, Chats
<1>2. sent'[m] + failures'[m] = chat'[m] - 1 /\ sent'[m] + failures'[m] <= NChats
  BY <1>1, CountedValues
<1>3. QED
  BY <1>2, CountedValues DEF CountInv

LEMMA CountStep == ASSUME Inv, DeliveryNext  PROVE CountInv'
<1> USE DeliveryAssumption DEF Inv, senderVars
<1>1. CASE ListenerStarts \/ ListenerStops \/ HandlerBlocks \/ HandlerReturns
  BY <1>1 DEF CountInv, ListenerStarts, ListenerStops, HandlerBlocks, HandlerReturns
<1>2. ASSUME NEW m \in Messages, SenderStep(m)  PROVE CountInv'
  <2>1. CASE Begin(m)
    BY <2>1 DEF ShapeInv, CountInv, Begin
  <2>2. CASE LeaveListener(m)
    <3>1. ~waiting[m]
      BY <2>2 DEF ShapeInv, CountInv, LeaveListener, Chats
    <3>2. sent[m] \in 0..NChats
      BY <2>2 DEF ShapeInv, CountInv, LeaveListener
    <3>3. QED
      BY <2>2, <3>1, <3>2 DEF ShapeInv, CountInv, LeaveListener
  <2>3. CASE OneShotReturns(m)
    BY <2>3 DEF ShapeInv, CountInv, OneShotReturns
  <2>4. CASE Schedule(m) /\ listener = "running"
    <3>1. waiting'[m] /\ \A n \in Messages \ {m} : waiting'[n] = waiting[n]
      BY <2>4, Zenon DEF ShapeInv, FlagInv, Schedule
    <3>2. QED
      BY <2>4, <3>1 DEF CountInv, Schedule
  <2>5. CASE Schedule(m) /\ listener # "running"
    BY <2>5, CountedOnce DEF Schedule
  <2>6. CASE GiveUp(m)
    BY <2>6, CountedOnce DEF CountInv, GiveUp
  <2>7. CASE OneShot(m)
    <3>1. /\ chat[m] \in 1..NChats /\ failures[m] \in Nat /\ sent[m] = 0
          /\ failures[m] <= chat[m] - 1 /\ ~waiting[m]
      BY <2>7 DEF ShapeInv, CountInv, OneShot, Chats
    <3>2. /\ chat'[m] = chat[m] + 1 /\ failures'[m] \in {failures[m], failures[m] + 1}
          /\ \A n \in Messages \ {m} :
                chat'[n] = chat[n] /\ failures'[n] = failures[n]
      BY <2>7 DEF ShapeInv, OneShot
    <3>3. QED
      BY <2>7, <3>1, <3>2 DEF CountInv, OneShot
  <2>8. CASE OneShotStops(m)
    BY <2>8 DEF ShapeInv, CountInv, OneShotStops
  <2>9. QED
    BY <1>2, <2>1, <2>2, <2>3, <2>4, <2>5, <2>6, <2>7, <2>8 DEF SenderStep
<1>3. ASSUME NEW m \in Messages, NEW c \in Chats, LoopSends(m, c)  PROVE CountInv'
  <2>1. CASE waiting[m] /\ chat[m] = c
    <3>1. PICK fine \in BOOLEAN : Counted(m, fine)
      BY <1>3, <2>1 DEF LoopSends
    <3>2. QED
      BY <2>1, <3>1, CountedOnce DEF CountInv
  <2>2. CASE ~(waiting[m] /\ chat[m] = c)
    BY <1>3, <2>2 DEF CountInv, LoopSends
  <2>3. QED
    BY <2>1, <2>2
<1>4. QED
  BY <1>1, <1>2, <1>3 DEF DeliveryNext

-----------------------------------------------------------------------------
(* A chat that has the message keeps it. *)
LEMMA HoldersGrow ==
    ASSUME ShapeInv, DeliveryNext, NEW n \in Messages
    PROVE  Holders(n) \subseteq Holders(n)'
<1>1. copies' = copies \/ \E m \in Messages, c \in Chats, reached \in BOOLEAN :
                             Got(m, c, reached)
  BY DEF DeliveryNext, SenderStep, ListenerStarts, ListenerStops, HandlerBlocks,
         HandlerReturns, Begin, Schedule, GiveUp, LeaveListener, OneShot,
         OneShotStops, OneShotReturns, LoopSends
<1>2. \A d \in Chats : /\ copies[n][d] \in Nat /\ copies'[n][d] \in Nat
                       /\ copies'[n][d] >= copies[n][d]
  <2>1. \A d \in Chats : copies[n][d] \in Nat
    BY DEF ShapeInv
  <2>2. QED
    BY <1>1, <2>1, GotCopies
<1>3. QED
  BY <1>2 DEF Holders

LEMMA ReachStep == ASSUME Inv, DeliveryNext  PROVE ReachInv'
<1> USE DeliveryAssumption DEF Inv, senderVars
<1> DEFINE Reached(n) == /\ sent[n] > 0 => Holders(n) # {}
                         /\ stage[n] = "oneshot" /\ failures[n] < chat[n] - 1
                               => Holders(n) # {}
<1>1. \A n \in Messages :
         stage'[n] = stage[n] /\ sent'[n] = sent[n]
         /\ failures'[n] = failures[n] /\ chat'[n] = chat[n] => Reached(n)'
  BY HoldersGrow DEF ReachInv
<1>2. CASE ListenerStarts \/ ListenerStops \/ HandlerBlocks \/ HandlerReturns
  BY <1>1, <1>2 DEF ReachInv, ListenerStarts, ListenerStops, HandlerBlocks,
                    HandlerReturns
<1>3. ASSUME NEW m \in Messages, SenderStep(m)  PROVE ReachInv'
  <2>1. CASE Begin(m)
    BY <1>1, <2>1 DEF ShapeInv, CountInv, ReachInv, Begin
  <2>2. CASE LeaveListener(m)
    <3>1. Holders(m)' = Holders(m)
      BY <2>2 DEF LeaveListener, Holders
    <3>2. Reached(m)'
      BY <2>2, <3>1 DEF ShapeInv, ReachInv, LeaveListener
    <3>3. QED
      BY <1>1, <2>2, <3>2 DEF ShapeInv, ReachInv, LeaveListener
  <2>3. CASE OneShotReturns(m)
    <3>1. Holders(m)' = Holders(m)
      BY <2>3 DEF OneShotReturns, Holders
    <3>2. QED
      BY <1>1, <2>3, <3>1 DEF ShapeInv, ReachInv, OneShotReturns
  <2>4. CASE Schedule(m) /\ listener = "running"
    BY <1>1, <2>4 DEF ReachInv, Schedule
  <2>5. CASE (Schedule(m) /\ listener # "running") \/ GiveUp(m)
    <3>1. Counted(m, FALSE) /\ stage[m] = "listener"
      BY <2>5 DEF Schedule, GiveUp, CountInv
    <3>2. Reached(m)'
      BY <3>1, CountedValues, HoldersGrow DEF ReachInv
    <3>3. QED
      BY <1>1, <3>1, <3>2, CountedValues DEF ReachInv
  <2>6. CASE OneShot(m)
    <3>1. /\ chat[m] \in 1..NChats /\ failures[m] \in Nat /\ sent[m] = 0
          /\ failures[m] <= chat[m] - 1
      BY <2>6 DEF ShapeInv, CountInv, OneShot, Chats
    <3>2. PICK fine, reached \in BOOLEAN :
             /\ fine => reached
             /\ Got(m, chat[m], reached)
             /\ failures' = IF fine THEN failures
                            ELSE [failures EXCEPT ![m] = @ + 1]
      BY <2>6 DEF OneShot
    <3>3. chat[m] \in Chats
      BY <2>6 DEF OneShot
    <3>4. fine => chat[m] \in Holders(m)'
      <4>1. copies'[m][chat[m]] = IF reached THEN copies[m][chat[m]] + 1
                                  ELSE copies[m][chat[m]]
        BY <3>2, <3>3, GotCopies
      <4>2. copies[m][chat[m]] \in Nat
        BY <3>3 DEF ShapeInv
      <4>3. QED
        BY <3>2, <3>3, <4>1, <4>2 DEF Holders
    <3>5. ~fine => failures'[m] = failures[m] + 1
      BY <3>2 DEF ShapeInv
    <3>6. chat'[m] = chat[m] + 1 /\ sent' = sent /\ stage' = stage
      BY <2>6 DEF ShapeInv, OneShot
    <3>7. Reached(m)'
      <4>1. CASE fine
        BY <3>1, <3>4, <3>6, <4>1
      <4>2. CASE ~fine
        BY <3>1, <3>5, <3>6, <4>2, HoldersGrow DEF ReachInv
      <4>3. QED
        BY <4>1, <4>2
    <3>8. \A n \in Messages \ {m} : chat'[n] = chat[n] /\ failures'[n] = failures[n]
      BY <2>6 DEF ShapeInv, OneShot
    <3>9. QED
      BY <1>1, <3>6, <3>7, <3>8 DEF ReachInv
  <2>7. CASE OneShotStops(m)
    <3>1. \A n \in Messages \ {m} : stage'[n] = stage[n]
      BY <2>7 DEF ShapeInv, OneShotStops
    <3>2. stage'[m] = "no" /\ sent[m] = 0
      BY <2>7 DEF ShapeInv, CountInv, OneShotStops
    <3>3. QED
      BY <1>1, <2>7, <3>1, <3>2 DEF ReachInv, OneShotStops
  <2>8. QED
    BY <1>3, <2>1, <2>2, <2>3, <2>4, <2>5, <2>6, <2>7 DEF SenderStep
<1>4. ASSUME NEW m \in Messages, NEW c \in Chats, LoopSends(m, c)  PROVE ReachInv'
  <2>1. CASE waiting[m] /\ chat[m] = c
    <3>1. PICK fine, reached \in BOOLEAN :
             (fine => reached) /\ Got(m, c, reached) /\ Counted(m, fine)
      BY <1>4, <2>1 DEF LoopSends
    <3>2. fine => c \in Holders(m)'
      <4>1. copies'[m][c] = IF reached THEN copies[m][c] + 1 ELSE copies[m][c]
        BY <3>1, GotCopies
      <4>2. copies[m][c] \in Nat
        BY DEF ShapeInv
      <4>3. QED
        BY <3>1, <4>1, <4>2 DEF Holders
    <3>3. stage'[m] = "listener"
      BY <2>1, <3>1, CountedValues DEF CountInv
    <3>4. Reached(m)'
      <4>1. CASE fine
        BY <3>2, <4>1
      <4>2. CASE ~fine
        BY <3>1, <3>3, <4>2, CountedValues, HoldersGrow DEF ReachInv
      <4>3. QED
        BY <4>1, <4>2
    <3>5. QED
      BY <1>1, <3>1, <3>4, CountedValues DEF ReachInv
  <2>2. CASE ~(waiting[m] /\ chat[m] = c)
    BY <1>1, <1>4, <2>2 DEF ReachInv, LoopSends
  <2>3. QED
    BY <2>1, <2>2
<1>5. QED
  BY <1>2, <1>3, <1>4 DEF DeliveryNext

-----------------------------------------------------------------------------
LEMMA DueNat ==
    ASSUME ShapeInv, NEW m \in Messages, NEW c \in Chats
    PROVE  /\ Due(m, c) \in Nat /\ copies[m][c] \in Nat /\ Afoot(m, c) \in {0, 1}
           /\ copies[m][c] <= Due(m, c)
BY DEF ShapeInv, Due, Afoot

LEMMA DueNatNext ==
    ASSUME ShapeInv', NEW m \in Messages, NEW c \in Chats
    PROVE  Due(m, c)' \in Nat
BY DEF ShapeInv, Due, Afoot

(* The loop turns a copy that is due into one that is there, or drops it. *)
LEMMA LoopPays ==
    ASSUME ShapeInv, ShapeInv',
           NEW m \in Messages, NEW c \in Chats, LoopSends(m, c)
    PROVE  \A n \in Messages, d \in Chats : Due(n, d)' <= Due(n, d)
<1> TAKE n \in Messages, d \in Chats
<1>1. PICK reached \in BOOLEAN : Got(m, c, reached)
  BY DEF LoopSends
<1>2. copies'[n][d] = IF n = m /\ d = c /\ reached THEN copies[n][d] + 1
                      ELSE copies[n][d]
  BY <1>1, GotCopies
<1>3. CASE n = m /\ d = c
  <2>1. Afoot(n, d) = 1 /\ Afoot(n, d)' = 0
    BY <1>3 DEF LoopSends, Afoot
  <2>2. QED
    BY <1>2, <2>1, DueNat DEF Due
<1>4. CASE ~(n = m /\ d = c)
  <2>1. Afoot(n, d)' = Afoot(n, d)
    BY <1>4 DEF LoopSends, Afoot
  <2>2. QED
    BY <1>2, <1>4, <2>1, DueNat DEF Due
<1>5. QED
  BY <1>3, <1>4

(* An attempt that is over moves on to a chat that is not due anything. *)
LEMMA MovesOn ==
    ASSUME ShapeInv, ShapeInv', CopyInv, NEW m \in Messages, NEW fine \in BOOLEAN,
           stage[m] = "listener", Counted(m, fine),
           \A n \in Messages, d \in Chats : Due(n, d)' <= Due(n, d)
    PROVE  CopyInv'
<1> SUFFICES ASSUME NEW n \in Messages, NEW d \in Chats  PROVE CopiesOf(n, d)'
  BY DEF CopyInv
<1>1. Due(n, d) \in Nat /\ Due(n, d)' \in Nat /\ Due(n, d)' <= Due(n, d)
  BY DueNat, DueNatNext
<1>2. chat[n] \in Nat /\ d \in Nat
  BY DeliveryAssumption DEF ShapeInv, Chats
<1>3. CASE n = m
  BY <1>1, <1>2, <1>3, CountedValues DEF CopyInv, CopiesOf
<1>4. CASE n # m
  BY <1>1, <1>2, <1>4, CountedValues DEF CopyInv, CopiesOf
<1>5. QED
  BY <1>3, <1>4

(* The one-shot bot adds a copy for its chat. *)
LEMMA BotPays ==
    ASSUME Inv, NEW m \in Messages, NEW c \in Chats, NEW reached \in BOOLEAN,
           stage[m] = "oneshot", chat[m] = c, coros' = coros, Got(m, c, reached)
    PROVE  /\ Due(m, c)' \in Nat /\ Due(m, c)' <= 2
           /\ \A n \in Messages, d \in Chats :
                 n # m \/ d # c => Due(n, d)' = Due(n, d)
<1> USE DEF Inv
<1>1. Due(m, c) <= 1 /\ c \in Nat
  BY DueNat DEF CopyInv, CopiesOf, Chats
<1>2. \A n \in Messages, d \in Chats : Afoot(n, d)' = Afoot(n, d)
  BY DEF Afoot
<1>3. copies'[m][c] \in {copies[m][c], copies[m][c] + 1}
  BY GotCopies
<1>4. \A n \in Messages, d \in Chats :
         n # m \/ d # c => copies'[n][d] = copies[n][d]
  BY GotCopies
<1>5. copies[m][c] \in Nat /\ Afoot(m, c) \in {0, 1}
  BY DueNat
<1>6. Due(m, c)' \in Nat /\ Due(m, c)' <= 2
  BY <1>1, <1>2, <1>3, <1>5 DEF Due
<1>7. QED
  BY <1>2, <1>4, <1>6 DEF Due

LEMMA CopyStep == ASSUME Inv, DeliveryNext  PROVE CopyInv'
<1> USE DEF Inv, senderVars
<1>0. ShapeInv'
  BY ShapeStep
<1>1. ASSUME UNCHANGED senderVars,
             \A n \in Messages, d \in Chats : Due(n, d)' <= Due(n, d)
      PROVE  CopyInv'
  <2>1. \A n \in Messages, d \in Chats : Due(n, d) \in Nat /\ Due(n, d)' \in Nat
    BY <1>0, DueNat, DueNatNext
  <2>2. QED
    BY <1>1, <2>1 DEF CopyInv, CopiesOf
<1>2. ASSUME copies' = copies, coros' = coros
      PROVE  \A n \in Messages, d \in Chats : Due(n, d)' = Due(n, d)
  BY <1>2 DEF Due, Afoot
<1>3. CASE ListenerStarts \/ ListenerStops \/ HandlerBlocks \/ HandlerReturns
  <2>1. copies' = copies /\ UNCHANGED senderVars /\ coros' \subseteq coros
    BY <1>3 DEF ListenerStarts, ListenerStops, HandlerBlocks, HandlerReturns
  <2>2. \A n \in Messages, d \in Chats : Due(n, d)' <= Due(n, d)
    <3>1. \A n \in Messages, d \in Chats : copies[n][d] \in Nat
      BY DEF ShapeInv
    <3>2. QED
      BY <2>1, <3>1 DEF Due, Afoot
  <2>3. QED
    BY <1>1, <2>1, <2>2
<1>4. ASSUME NEW m \in Messages, SenderStep(m)  PROVE CopyInv'
  <2> USE DEF ShapeInv
  <2>1. CASE Begin(m)
    <3>1. \A n \in Messages, d \in Chats : Due(n, d)' = Due(n, d)
      BY <1>2, <2>1 DEF Begin
    <3>2. QED
      BY <2>1, <3>1 DEF CopyInv, CopiesOf, Begin
  <2>2. CASE LeaveListener(m)
    <3>1. \A n \in Messages, d \in Chats : Due(n, d)' = Due(n, d)
      BY <1>2, <2>2 DEF LeaveListener
    <3>2. /\ stage'[m] = (IF sent[m] > 0 THEN "yes" ELSE "oneshot")
          /\ sent' = sent /\ sent[m] \in Nat /\ waiting' = waiting
          /\ \A n \in Messages \ {m} : stage'[n] = stage[n] /\ chat'[n] = chat[n]
      BY <2>2 DEF LeaveListener
    <3>3. \A d \in Chats : Due(m, d) \in Nat /\ Due(m, d) <= 1
      BY <2>2, DueNat DEF CopyInv, CopiesOf, LeaveListener
    <3>4. QED
      BY <3>1, <3>2, <3>3 DEF CopyInv, CopiesOf
  <2>3. CASE OneShotReturns(m)
    <3>1. \A n \in Messages, d \in Chats : Due(n, d)' = Due(n, d)
      BY <1>2, <2>3 DEF OneShotReturns
    <3>2. QED
      BY <2>3, <3>1 DEF CopyInv, CopiesOf, OneShotReturns
  <2>4. CASE Schedule(m) /\ listener = "running"
    <3>1. waiting'[m] /\ \A n \in Messages \ {m} : waiting'[n] = waiting[n]
      BY <2>4, Zenon DEF FlagInv, Schedule
    <3>2. PICK c \in Chats : chat[m] = c
      BY <2>4 DEF Schedule
    <3>3. stage' = stage /\ chat' = chat /\ sent' = sent /\ stage[m] = "listener"
          /\ copies' = copies /\ coros' = coros \cup {<<m, c>>} /\ ~waiting[m]
      BY <2>4, <3>2 DEF Schedule
    <3>4. \A n \in Messages, d \in Chats :
             n # m \/ d # c => Due(n, d)' = Due(n, d)
      BY <3>3 DEF Due, Afoot
    <3>5. Due(m, c)' = 1
      <4>1. Due(m, c) = 0
        BY <3>2, <3>3 DEF CopyInv, CopiesOf
      <4>2. copies[m][c] = 0
        BY <4>1, DueNat
      <4>3. QED
        BY <3>3, <4>2 DEF Due, Afoot
    <3>6. \A n \in Messages \ {m}, d \in Chats : CopiesOf(n, d)'
      BY <3>1, <3>3, <3>4 DEF CopyInv, CopiesOf
    <3>7. \A d \in Chats : CopiesOf(m, d)'
      BY <3>1, <3>2, <3>3, <3>4, <3>5 DEF CopyInv, CopiesOf
    <3>8. QED
      BY <3>6, <3>7 DEF CopyInv
  <2>5. CASE (Schedule(m) /\ listener # "running") \/ GiveUp(m)
    <3>1. Counted(m, FALSE) /\ stage[m] = "listener" /\ copies' = copies /\ coros' = coros
      BY <2>5 DEF Schedule, GiveUp, CountInv
    <3>2. \A n \in Messages, d \in Chats : Due(n, d)' <= Due(n, d)
      BY <1>2, <3>1, DueNat
    <3>3. QED
      BY <1>0, <3>1, <3>2, MovesOn
  <2>6. CASE OneShot(m)
    <3>1. PICK c \in Chats, reached \in BOOLEAN : chat[m] = c /\ Got(m, c, reached)
      BY <2>6 DEF OneShot
    <3>2. sent[m] = 0 /\ stage[m] = "oneshot" /\ coros' = coros
      BY <2>6 DEF OneShot, CountInv
    <3>3. chat'[m] = chat[m] + 1 /\ \A n \in Messages \ {m} : chat'[n] = chat[n]
      BY <2>6 DEF OneShot
    <3>4. stage' = stage /\ waiting' = waiting /\ sent' = sent
      BY <2>6 DEF OneShot
    <3>5. \A d \in Chats : d \in Nat
      BY DEF Chats
    <3>6. \A d \in Chats : CopiesOf(m, d)'
      BY <3>1, <3>2, <3>3, <3>4, <3>5, BotPays DEF CopyInv, CopiesOf
    <3>7. \A n \in Messages \ {m}, d \in Chats : CopiesOf(n, d)'
      BY <3>1, <3>2, <3>3, <3>4, BotPays DEF CopyInv, CopiesOf
    <3>8. QED
      BY <3>6, <3>7 DEF CopyInv
  <2>7. CASE OneShotStops(m)
    <3>1. PICK c \in Chats, reached \in BOOLEAN : chat[m] = c /\ Got(m, c, reached)
      BY <2>7 DEF OneShotStops
    <3>2. sent[m] = 0 /\ stage[m] = "oneshot" /\ coros' = coros
      BY <2>7 DEF OneShotStops, CountInv
    <3>3. stage'[m] = "no" /\ \A n \in Messages \ {m} : stage'[n] = stage[n]
      BY <2>7 DEF OneShotStops
    <3>4. chat' = chat /\ waiting' = waiting /\ sent' = sent
      BY <2>7 DEF OneShotStops
    <3>5. \A d \in Chats : CopiesOf(m, d)'
      BY <3>1, <3>2, <3>3, <3>4, BotPays DEF CopyInv, CopiesOf
    <3>6. \A n \in Messages \ {m}, d \in Chats : CopiesOf(n, d)'
      BY <3>1, <3>2, <3>3, <3>4, BotPays DEF CopyInv, CopiesOf
    <3>7. QED
      BY <3>5, <3>6 DEF CopyInv
  <2>8. QED
    BY <1>4, <2>1, <2>2, <2>3, <2>4, <2>5, <2>6, <2>7 DEF SenderStep
<1>5. ASSUME NEW m \in Messages, NEW c \in Chats, LoopSends(m, c)  PROVE CopyInv'
  <2>1. \A n \in Messages, d \in Chats : Due(n, d)' <= Due(n, d)
    BY <1>0, <1>5, LoopPays
  <2>2. CASE waiting[m] /\ chat[m] = c
    <3>1. PICK fine \in BOOLEAN : Counted(m, fine)
      BY <1>5, <2>2 DEF LoopSends
    <3>2. QED
      BY <1>0, <2>1, <2>2, <3>1, MovesOn DEF CountInv
  <2>3. CASE ~(waiting[m] /\ chat[m] = c)
    BY <1>1, <1>5, <2>1, <2>3 DEF LoopSends
  <2>4. QED
    BY <2>2, <2>3
<1>6. QED
  BY <1>3, <1>4, <1>5 DEF DeliveryNext

-----------------------------------------------------------------------------
LEMMA InvAlways == DeliverySpec => []Inv
<1>1. Inv /\ [DeliveryNext]_deliveryVars => Inv'
  <2>1. ASSUME Inv, DeliveryNext  PROVE Inv'
    BY <2>1, ShapeStep, CountStep, ReachStep, CopyStep DEF Inv
  <2>2. ASSUME Inv, UNCHANGED deliveryVars  PROVE Inv'
    BY <2>2 DEF Inv, ShapeInv, FlagInv, CountInv, ReachInv, CopyInv, CopiesOf,
                Holders, Due, Afoot, deliveryVars, senderVars
  <2>3. QED
    BY <2>1, <2>2
<1>2. QED
  BY <1>1, InvInit, PTL DEF DeliverySpec

(* Types, with the bound of two copies (alerts.py:188-297). *)
THEOREM DeliveryTypes == DeliverySpec => []DeliveryTypeOK
<1>1. Inv => DeliveryTypeOK
  <2> SUFFICES ASSUME Inv  PROVE DeliveryTypeOK
    OBVIOUS
  <2> USE DeliveryAssumption DEF Inv
  <2>1. blocked \in BOOLEAN /\ waiting \in [Messages -> BOOLEAN]
    BY DEF ShapeInv, FlagInv
  <2>2. \A m \in Messages : sent[m] \in 0..NChats /\ failures[m] \in 0..NChats
    BY DEF ShapeInv, CountInv
  <2>3. \A m \in Messages, c \in Chats : copies[m][c] \in 0..2
    BY DueNat DEF CopyInv, CopiesOf
  <2>4. copies \in [Messages -> [Chats -> 0..2]]
    BY <2>3 DEF ShapeInv
  <2>5. sent \in [Messages -> 0..NChats] /\ failures \in [Messages -> 0..NChats]
    BY <2>2 DEF ShapeInv
  <2>6. QED
    BY <2>1, <2>4, <2>5 DEF ShapeInv, DeliveryTypeOK
<1>2. QED
  BY <1>1, InvAlways, PTL

-----------------------------------------------------------------------------
(* The contract: its state is read off the senders and the copies.         *)

LEMMA ContractStarts == DeliveryInit => Contract!ContractInit
BY DEF DeliveryInit, Holders, Contract!ContractInit

(* What the contract sees of a step. *)
Asked == {m \in Messages : stage[m] # "new"}
Answer == [m \in Messages |-> IF stage[m] \in {"yes", "no"} THEN stage[m] ELSE "none"]
Held == [m \in Messages |-> Holders(m)]

(* A copy that arrives makes its chat a holder. *)
LEMMA GotHolders ==
    ASSUME ShapeInv, NEW m \in Messages, NEW c \in Chats,
           NEW reached \in BOOLEAN, Got(m, c, reached)
    PROVE  Held' = IF reached THEN [Held EXCEPT ![m] = @ \cup {c}] ELSE Held
<1>1. \A n \in Messages, d \in Chats :
         /\ copies[n][d] \in Nat
         /\ copies'[n][d] = IF n = m /\ d = c /\ reached
                            THEN copies[n][d] + 1 ELSE copies[n][d]
  BY GotCopies DEF ShapeInv
<1>2. \A n \in Messages :
         Holders(n)' = IF n = m /\ reached THEN Holders(n) \cup {c} ELSE Holders(n)
  BY <1>1 DEF Holders
<1>3. QED
  BY <1>2 DEF Held

LEMMA ContractStep ==
    ASSUME Inv, DeliveryNext
    PROVE  \/ Contract!ContractNext
           \/ Asked' = Asked /\ Answer' = Answer /\ Held' = Held
<1> USE DEF Inv, senderVars
<1>1. ASSUME UNCHANGED stage, copies' = copies
      PROVE  Asked' = Asked /\ Answer' = Answer /\ Held' = Held
  BY <1>1 DEF Asked, Answer, Held, Holders
<1>2. CASE ListenerStarts \/ ListenerStops \/ HandlerBlocks \/ HandlerReturns
  BY <1>1, <1>2 DEF ListenerStarts, ListenerStops, HandlerBlocks, HandlerReturns
<1>3. ASSUME NEW m \in Messages, NEW c \in Chats, NEW reached \in BOOLEAN,
             UNCHANGED stage, stage[m] # "new", Got(m, c, reached)
      PROVE  \/ Contract!ContractNext
             \/ Asked' = Asked /\ Answer' = Answer /\ Held' = Held
  <2>1. Asked' = Asked /\ Answer' = Answer
    BY <1>3 DEF Asked, Answer
  <2>2. CASE ~reached
    BY <1>3, <2>1, <2>2, GotHolders
  <2>3. CASE reached
    <3>1. Held' = [Held EXCEPT ![m] = @ \cup {c}]
      BY <1>3, <2>3, GotHolders
    <3>2. Contract!Reach(m, c)
      BY <1>3, <2>1, <3>1 DEF Contract!Reach, Asked, Answer, Held
    <3>3. QED
      BY <3>2 DEF Contract!ContractNext
  <2>4. QED
    BY <2>2, <2>3
<1>4. ASSUME NEW m \in Messages, stage[m] \in {"listener", "oneshot"},
             NEW told \in {"yes", "no"}, told = "yes" => Holders(m) # {},
             stage' = [stage EXCEPT ![m] = told], copies' = copies
      PROVE  Contract!ContractNext
  <2>1. Asked' = Asked /\ m \in Asked /\ Answer[m] = "none"
    BY <1>4 DEF ShapeInv, Asked, Answer
  <2>2. Answer' = [Answer EXCEPT ![m] = told]
    BY <1>4 DEF ShapeInv, Answer
  <2>3. Held' = Held /\ Held[m] = Holders(m)
    BY <1>4 DEF Held, Holders
  <2>4. Contract!Return(m, told)
    BY <1>4, <2>1, <2>2, <2>3 DEF Contract!Return, Asked, Answer, Held
  <2>5. QED
    BY <2>4 DEF Contract!ContractNext
<1>5. ASSUME NEW m \in Messages, SenderStep(m)
      PROVE  \/ Contract!ContractNext
             \/ Asked' = Asked /\ Answer' = Answer /\ Held' = Held
  <2>1. CASE Begin(m)
    <3>1. m \notin Asked /\ Asked' = Asked \cup {m}
      BY <2>1 DEF ShapeInv, Begin, Asked
    <3>2. Answer' = Answer /\ Held' = Held
      BY <2>1 DEF ShapeInv, Begin, Answer, Held, Holders
    <3>3. Contract!Ask(m)
      BY <3>1, <3>2 DEF Contract!Ask, Asked, Answer, Held
    <3>4. QED
      BY <3>3 DEF Contract!ContractNext
  <2>2. CASE LeaveListener(m)
    <3>1. CASE sent[m] > 0
      <4>1. Holders(m) # {}
        BY <3>1 DEF ReachInv
      <4>2. stage[m] = "listener" /\ copies' = copies
            /\ stage' = [stage EXCEPT ![m] = "yes"]
        BY <2>2, <3>1 DEF LeaveListener
      <4>3. QED
        BY <1>4, <4>1, <4>2
    <3>2. CASE ~(sent[m] > 0)
      BY <2>2, <3>2 DEF ShapeInv, LeaveListener, Asked, Answer, Held, Holders
    <3>3. QED
      BY <3>1, <3>2
  <2>3. CASE OneShotReturns(m)
    <3>1. failures[m] # NChats => Holders(m) # {}
      BY <2>3, DeliveryAssumption DEF ShapeInv, CountInv, ReachInv, OneShotReturns
    <3>2. CASE failures[m] = NChats
      <4>1. stage' = [stage EXCEPT ![m] = "no"]
        BY <2>3, <3>2 DEF OneShotReturns
      <4>2. QED
        BY <1>4, <2>3, <4>1 DEF OneShotReturns
    <3>3. CASE failures[m] # NChats
      <4>1. stage' = [stage EXCEPT ![m] = "yes"]
        BY <2>3, <3>3 DEF OneShotReturns
      <4>2. QED
        BY <1>4, <2>3, <3>1, <3>3, <4>1 DEF OneShotReturns
    <3>4. QED
      BY <3>2, <3>3
  <2>4. CASE Schedule(m) \/ GiveUp(m)
    BY <1>1, <2>4 DEF Schedule, GiveUp, Counted
  <2>5. CASE OneShot(m)
    <3>1. PICK reached \in BOOLEAN : Got(m, chat[m], reached)
      BY <2>5 DEF OneShot
    <3>2. QED
      BY <1>3, <2>5, <3>1 DEF OneShot
  <2>6. CASE OneShotStops(m)
    <3>1. PICK c \in Chats, reached \in BOOLEAN : chat[m] = c /\ Got(m, c, reached)
      BY <2>6 DEF OneShotStops
    <3>2. stage[m] = "oneshot" /\ stage' = [stage EXCEPT ![m] = "no"]
      BY <2>6 DEF OneShotStops
    <3>3. CASE ~reached
      <4>1. copies' = copies
        BY <3>1, <3>3 DEF Got
      <4>2. QED
        BY <1>4, <3>2, <4>1
    <3>4. CASE reached
      <4>1. Held' = [Held EXCEPT ![m] = @ \cup {c}]
        BY <3>1, <3>4, GotHolders
      <4>2. Asked' = Asked /\ m \in Asked /\ Answer[m] = "none"
        BY <3>2 DEF ShapeInv, Asked, Answer
      <4>3. Answer' = [Answer EXCEPT ![m] = "no"]
        BY <3>2 DEF ShapeInv, Answer
      <4>4. Contract!ReachAndReturn(m, c)
        BY <4>1, <4>2, <4>3 DEF Contract!ReachAndReturn, Asked, Answer, Held
      <4>5. QED
        BY <4>4 DEF Contract!ContractNext
    <3>5. QED
      BY <3>3, <3>4
  <2>7. QED
    BY <1>5, <2>1, <2>2, <2>3, <2>4, <2>5, <2>6 DEF SenderStep
<1>6. ASSUME NEW m \in Messages, NEW c \in Chats, LoopSends(m, c)
      PROVE  \/ Contract!ContractNext
             \/ Asked' = Asked /\ Answer' = Answer /\ Held' = Held
  <2>1. stage[m] # "new"
    <3>1. Afoot(m, c) = 1
      BY <1>6 DEF LoopSends, Afoot
    <3>2. Due(m, c) # 0
      BY <3>1, DueNat DEF Due
    <3>3. QED
      BY <3>2 DEF CopyInv, CopiesOf
  <2>2. PICK reached \in BOOLEAN : Got(m, c, reached)
    BY <1>6 DEF LoopSends
  <2>3. UNCHANGED stage
    BY <1>6 DEF LoopSends, Counted
  <2>4. QED
    BY <1>3, <2>1, <2>2, <2>3
<1>7. QED
  BY <1>2, <1>5, <1>6 DEF DeliveryNext

(* Every caller of send_telegram_text can rely on the contract, and a      *)
(* second copy only comes when the listener confirmed the message to no    *)
(* chat at all, for any number of threads and chats (alerts.py:188-297).   *)
THEOREM DeliveryCorrect == DeliverySpec => DeliveryKept
<1>1. Inv /\ [DeliveryNext]_deliveryVars
        => [Contract!ContractNext]_(Contract!contractVars)
  <2>1. ASSUME Inv, DeliveryNext
        PROVE  [Contract!ContractNext]_(Contract!contractVars)
    BY <2>1, ContractStep DEF Contract!contractVars, Asked, Answer, Held
  <2>2. ASSUME UNCHANGED deliveryVars
        PROVE  UNCHANGED Contract!contractVars
    BY <2>2 DEF Contract!contractVars, deliveryVars, senderVars, Holders
  <2>3. QED
    BY <2>1, <2>2
<1>2. DeliverySpec => KeepsContract
  BY <1>1, InvAlways, ContractStarts, PTL
     DEF DeliverySpec, KeepsContract, Contract!ContractSpec
<1>3. Inv => SecondCopyOnlyAfterSilence
  <2> SUFFICES ASSUME Inv, NEW m \in Messages, NEW c \in Chats, copies[m][c] > 1
               PROVE  copies[m][c] = 2 /\ sent[m] = 0
    BY DEF SecondCopyOnlyAfterSilence
  <2>1. copies[m][c] \in Nat /\ Due(m, c) \in Nat /\ copies[m][c] <= Due(m, c)
    BY DueNat DEF Inv
  <2>2. Due(m, c) <= IF sent[m] > 0 THEN 1 ELSE 2
    BY DEF Inv, CopyInv, CopiesOf
  <2>3. sent[m] \in Nat
    BY DEF Inv, ShapeInv
  <2>4. QED
    BY <2>1, <2>2, <2>3
<1>4. DeliverySpec => []SecondCopyOnlyAfterSilence
  BY <1>3, InvAlways, PTL
<1>5. QED
  BY <1>2, <1>4 DEF DeliveryKept
=============================================================================

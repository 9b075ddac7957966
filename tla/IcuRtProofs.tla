---------------------------- MODULE IcuRtProofs ----------------------------
(***************************************************************************)
(* Proofs about IcuRt for every stack size, command set and bound.         *)
(***************************************************************************)
EXTENDS IcuRt, TLAPS

\* The block of every command the platform issues is one of the blocks in use.
LEMMA BlockInUse == \A c \in Commands : Get_Blknum(c) \in Blocks
BY DEF Blocks

\* The wrapped read index is a slot, and the next write index is one too.
LEMMA WrapSlot ==
    /\ \A i \in 0..StackSize : Wrap(i) \in Slots
    /\ \A i \in Slots : Wrap(i + 1) \in Slots /\ i + 1 \in 0..StackSize
BY StackSizeAssumption DEF Wrap, Slots

USE StackSizeAssumption, CommandsAssumption, AnswersAssumption, BoundsAssumption


\* A message on the bus is a command of the platform, with a block in use.
LEMMA BusElement ==
    ASSUME TypeOK, NEW n \in 1..Len(bus)
    PROVE  /\ bus[n].cmd \in Commands /\ bus[n].err \in BOOLEAN
           /\ BlockOf(n) \in Blocks
<1>1. bus \in Seq(Messages)
    BY DEF TypeOK
<1>2. bus[n] \in Messages
    BY <1>1
<1> QED
    BY <1>2, BlockInUse DEF BlockOf, Messages

\* Writing one cell of one block keeps the table of blocks well typed.
LEMMA CellUpdate ==
    ASSUME NEW f \in [Blocks -> Cells], NEW b \in Blocks, NEW i \in {1, 2},
           NEW v \in (-MaxLoads)..MaxMsgs
    PROVE  [f EXCEPT ![b][i] = v] \in [Blocks -> Cells]
<1>1. [f[b] EXCEPT ![i] = v] \in Cells
    BY DEF Cells
<1> QED
    BY <1>1

\* A message is being served only if there is one.
LEMMA BusNotEmpty == TypeOK /\ fwPc # "idle" => Len(bus) \in 1..Len(bus)
BY DEF TypeOK

\* Every action preserves the type invariant.
LEMMA TypeStep == TypeOK /\ EntriesValid /\ [Next]_vars => TypeOK'
<1> SUFFICES ASSUME TypeOK, EntriesValid, [Next]_vars
             PROVE  TypeOK'
    OBVIOUS
<1> USE DEF TypeOK, vars, board, rtLocal, rxLocal, history
<1>1. ASSUME NEW c \in Commands, NEW e \in BOOLEAN, FwBegin(c, e)
      PROVE  TypeOK'
  <2>1. Get_Blknum(c) \in Blocks
      BY BlockInUse
  <2>2. /\ bus' \in Seq(Messages) /\ Len(bus') <= MaxMsgs
        /\ bus' # <<>> /\ Len(bus') = Len(bus) + 1
    <3>1. PICK m \in Messages : m = [cmd |-> c, err |-> e]
        BY DEF Messages
    <3>2. bus' = Append(bus, m) /\ Len(bus) < MaxMsgs
        BY <1>1, <3>1 DEF FwBegin
    <3>3. bus \in Seq(Messages) /\ MaxMsgs \in Nat
        BY BoundsAssumption
    <3> HIDE DEF TypeOK, vars, board, rtLocal, rxLocal, history
    <3> QED BY <3>1, <3>2, <3>3
  <2>3. blk' \in [Blocks -> Cells]
    <3>1. CASE c.dir = RECEIVE
      <4>1. Len(bus) + 1 \in (-MaxLoads)..MaxMsgs
          BY <1>1 DEF FwBegin
      <4>2. [blk EXCEPT ![Get_Blknum(c)][1] = Len(bus) + 1] \in [Blocks -> Cells]
          BY <2>1, <4>1, CellUpdate
      <4> QED BY <1>1, <3>1, <4>2 DEF FwBegin
    <3>2. CASE c.dir # RECEIVE
        BY <1>1, <3>2 DEF FwBegin
    <3> QED BY <3>1, <3>2
  <2>4. fwCells' \in Cells /\ fwFloor' \in 0..MaxLoads
      BY <1>1, <2>1 DEF FwBegin, Cells, Cleared
  <2> QED
      BY <1>1, <2>2, <2>3, <2>4 DEF FwBegin
<1>2. CASE FwCell2
  <2>2. BlockOf(Len(bus)) \in Blocks
      BY <1>2, BusNotEmpty, BusElement DEF FwCell2
  <2>3. blk' \in [Blocks -> Cells] /\ fwCells' \in Cells
    <3>1. Len(bus) \in (-MaxLoads)..MaxMsgs
        OBVIOUS
    <3>2. \/ blk' = blk
          \/ blk' = [blk EXCEPT ![BlockOf(Len(bus))][2] = Len(bus)]
        BY <1>2 DEF FwCell2
    <3>3. blk' \in [Blocks -> Cells]
      <4>1. [blk EXCEPT ![BlockOf(Len(bus))][2] = Len(bus)] \in [Blocks -> Cells]
          BY <2>2, <3>1, CellUpdate
      <4> QED BY <3>2, <4>1
    <3>4. \/ fwCells' = fwCells
          \/ fwCells' = [fwCells EXCEPT ![2] = blk[BlockOf(Len(bus))][2]]
        BY <1>2 DEF FwCell2
    <3>5. fwCells' \in Cells
        BY <2>2, <3>4 DEF Cells
    <3> QED BY <3>3, <3>5
  <2> QED
      BY <1>2, <2>3 DEF FwCell2
<1>3. CASE FwEntry
  <2>1. bus[Len(bus)].err \in BOOLEAN /\ Len(bus) \in 0..MaxMsgs
      BY <1>3, BusNotEmpty, BusElement DEF FwEntry
  <2>2. stack' \in [Slots -> Entries]
      BY <1>3, <2>1 DEF FwEntry, Entries
  <2>3. lapped' \in BOOLEAN
      BY <1>3 DEF FwEntry
  <2> QED
      BY <1>3, <2>2, <2>3, WrapSlot DEF FwEntry
<1>4. CASE FwFlag
    BY <1>4 DEF FwFlag
<1>5. CASE RtRun
    BY <1>5 DEF RtRun, Run_RT, Entries, NoEntry
<1>6. CASE RtSetupFails
    BY <1>6 DEF RtSetupFails
<1>7. CASE RtStarted
    BY <1>7 DEF RtStarted
<1>8. CASE RtExit
    BY <1>8 DEF RtExit
<1>9. CASE RtPoll
    BY <1>9 DEF RtPoll
<1>10. CASE RtClear
    BY <1>10 DEF RtClear
<1>11. CASE RtGet1
  <2>1. next_rt_entry' \in Slots /\ next_rt_entry' \in 0..StackSize
      BY <1>11, WrapSlot DEF RtGet1, Slots
  <2> QED
      BY <1>11, <2>1 DEF RtGet1
<1>12. CASE RtGet2
    BY <1>12 DEF RtGet2
<1>13. CASE RtMark
  <2>1. rtEntry.n \in 1..MaxMsgs /\ rtEntry.eom /\ next_rt_entry \in Slots
      BY <1>13 DEF RtMark, EntriesValid
  <2>2. stack' \in [Slots -> Entries]
      BY <1>13, <2>1 DEF RtMark, Entries
  <2>3. next_rt_entry' \in 0..StackSize
      BY <1>13, <2>1 DEF RtMark, Slots
  <2>4. taken' \in Seq(1..MaxMsgs)
      BY <1>13, <2>1 DEF RtMark
  <2> QED
      BY <1>13, <2>2, <2>3, <2>4 DEF RtMark
<1>14. CASE RtData1
  <2>1. BlockOf(rtEntry.n) \in Blocks
      BY <1>14, BusElement DEF RtData1, EntriesValid
  <2>2. rtCells' \in Cells
      BY <1>14, <2>1 DEF RtData1, Cells
  <2> QED
      BY <1>14, <2>2 DEF RtData1
<1>15. CASE RtData2
  <2>1. BlockOf(rtEntry.n) \in Blocks
      BY <1>15, BusElement DEF RtData2, EntriesValid
  <2>2. rtCells' \in Cells
      BY <1>15, <2>1 DEF RtData2, Cells
  <2> QED
      BY <1>15, <2>2 DEF RtData2
<1>16. CASE RtSend
    BY <1>16 DEF RtSend
<1>17. CASE RxLoad1
  <2>1. rxOp \in Blocks /\ rxVal \in (-MaxLoads)..MaxMsgs
      BY <1>17 DEF RxLoad1, Blocks
  <2>2. blk' \in [Blocks -> Cells] /\ loaded' \in [Blocks -> 0..MaxLoads]
      BY <1>17, <2>1 DEF RxLoad1, Cells
  <2> QED
      BY <1>17, <2>2 DEF RxLoad1
<1>18. CASE RxLoad2
  <2>1. rxOp \in Blocks /\ rxVal \in (-MaxLoads)..MaxMsgs
      BY <1>18 DEF RxLoad2, Blocks
  <2>2. blk' \in [Blocks -> Cells] /\ loaded' \in [Blocks -> 0..MaxLoads]
      BY <1>18, <2>1 DEF RxLoad2, Cells
  <2> QED
      BY <1>18, <2>2 DEF RxLoad2
<1>19. CASE SigInt
    BY <1>19 DEF SigInt
<1>20. ASSUME NEW op \in Answers, NEW f \in BOOLEAN, RxParse(op, f)
      PROVE  TypeOK'
    BY <1>20 DEF RxParse, Words
<1>21. CASE UNCHANGED vars
    BY <1>21
<1> QED
    BY <1>1, <1>2, <1>3, <1>4, <1>5, <1>6, <1>7, <1>8, <1>9, <1>10, <1>11, <1>12, <1>13, <1>14, <1>15, <1>16, <1>17, <1>18, <1>19, <1>20, <1>21
    DEF Next, Firmware, RtThread, RxThread

\* Every action keeps the stack entries and the thread's copy valid.
LEMMA EntriesStep == TypeOK /\ EntriesValid /\ [Next]_vars => EntriesValid'
<1> SUFFICES ASSUME TypeOK, EntriesValid, [Next]_vars
             PROVE  EntriesValid'
    OBVIOUS
<1> USE DEF EntriesValid, TypeOK, vars, board, rtLocal, rxLocal, history, Entries
<1>1. ASSUME NEW c \in Commands, NEW e \in BOOLEAN, FwBegin(c, e)
      PROVE  EntriesValid'
    BY <1>1 DEF FwBegin
<1>2. CASE FwCell2
    BY <1>2 DEF FwCell2
<1>3. CASE FwEntry
    BY <1>3 DEF FwEntry
<1>4. CASE FwFlag
    BY <1>4 DEF FwFlag
<1>5. CASE RtRun
    BY <1>5 DEF RtRun, Run_RT, NoEntry
<1>6. CASE RtSetupFails
    BY <1>6 DEF RtSetupFails
<1>7. CASE RtStarted
    BY <1>7 DEF RtStarted
<1>8. CASE RtExit
    BY <1>8 DEF RtExit
<1>9. CASE RtPoll
    BY <1>9 DEF RtPoll
<1>10. CASE RtClear
    BY <1>10 DEF RtClear
<1>11. CASE RtGet1
    BY <1>11, WrapSlot DEF RtGet1
<1>12. CASE RtGet2
    BY <1>12 DEF RtGet2
<1>13. CASE RtMark
    BY <1>13 DEF RtMark
<1>14. CASE RtData1
    BY <1>14 DEF RtData1
<1>15. CASE RtData2
    BY <1>15 DEF RtData2
<1>16. CASE RtSend
    BY <1>16 DEF RtSend
<1>17. CASE RxLoad1
    BY <1>17 DEF RxLoad1
<1>18. CASE RxLoad2
    BY <1>18 DEF RxLoad2
<1>19. CASE SigInt
    BY <1>19 DEF SigInt
<1>20. ASSUME NEW op \in Answers, NEW f \in BOOLEAN, RxParse(op, f)
      PROVE  EntriesValid'
    BY <1>20 DEF RxParse, Words
<1>21. CASE UNCHANGED vars
    BY <1>21
<1> QED
    BY <1>1, <1>2, <1>3, <1>4, <1>5, <1>6, <1>7, <1>8, <1>9, <1>10, <1>11, <1>12, <1>13, <1>14, <1>15, <1>16, <1>17, <1>18, <1>19, <1>20, <1>21
    DEF Next, Firmware, RtThread, RxThread

\* Nothing moves before Run_RT_Px has started the board, and only the thread
\* itself lowers the flag it has seen raised.
LEMMA ControlStep ==
    TypeOK /\ NotStarted /\ FlagHeld /\ [Next]_vars
        => NotStarted' /\ FlagHeld'
<1> SUFFICES ASSUME TypeOK, NotStarted, FlagHeld, [Next]_vars
             PROVE  NotStarted' /\ FlagHeld'
    OBVIOUS
<1> USE DEF NotStarted, FlagHeld, TypeOK, vars, board, rtLocal, rxLocal, history
<1>1. ASSUME NEW c \in Commands, NEW e \in BOOLEAN, FwBegin(c, e)
      PROVE  NotStarted' /\ FlagHeld'
    BY <1>1 DEF FwBegin
<1>2. CASE FwCell2
    BY <1>2 DEF FwCell2
<1>3. CASE FwEntry
    BY <1>3 DEF FwEntry
<1>4. CASE FwFlag
    BY <1>4 DEF FwFlag
<1>5. CASE RtRun
    BY <1>5 DEF RtRun, Run_RT, NoEntry
<1>6. CASE RtSetupFails
    BY <1>6 DEF RtSetupFails
<1>7. CASE RtStarted
    BY <1>7 DEF RtStarted
<1>8. CASE RtExit
    BY <1>8 DEF RtExit
<1>9. CASE RtPoll
    BY <1>9 DEF RtPoll
<1>10. CASE RtClear
    BY <1>10 DEF RtClear
<1>11. CASE RtGet1
    BY <1>11, WrapSlot DEF RtGet1
<1>12. CASE RtGet2
    BY <1>12 DEF RtGet2
<1>13. CASE RtMark
    BY <1>13 DEF RtMark
<1>14. CASE RtData1
    BY <1>14 DEF RtData1
<1>15. CASE RtData2
    BY <1>15 DEF RtData2
<1>16. CASE RtSend
    BY <1>16 DEF RtSend
<1>17. CASE RxLoad1
    BY <1>17 DEF RxLoad1
<1>18. CASE RxLoad2
    BY <1>18 DEF RxLoad2
<1>19. CASE SigInt
    BY <1>19 DEF SigInt
<1>20. ASSUME NEW op \in Answers, NEW f \in BOOLEAN, RxParse(op, f)
      PROVE  NotStarted' /\ FlagHeld'
    BY <1>20 DEF RxParse, Words
<1>21. CASE UNCHANGED vars
    BY <1>21
<1> QED
    BY <1>1, <1>2, <1>3, <1>4, <1>5, <1>6, <1>7, <1>8, <1>9, <1>10, <1>11, <1>12, <1>13, <1>14, <1>15, <1>16, <1>17, <1>18, <1>19, <1>20, <1>21
    DEF Next, Firmware, RtThread, RxThread

\* The window of unread entries, the entry in hand and the account of wake-ups.
InOrder == ~lapped => StackWindow /\ InHand /\ Debt >= 0 /\ TakenInOrder

\* The parts of the type invariant that the order argument uses.
LEMMA Basics ==
    TypeOK =>
      /\ next_rt_entry \in 0..StackSize /\ fwNext \in Slots /\ First \in Slots
      /\ Len(bus) \in Nat /\ Len(taken) \in Nat /\ Len(taken) + 1 \in Nat
      /\ taken \in Seq(1..MaxMsgs) /\ stack \in [Slots -> Entries]
      /\ Written \in Int /\ Lag \in Int /\ Debt \in Int /\ Owed \in 0..3
BY WrapSlot DEF TypeOK, First, Written, Lag, Debt, Owed, One

\* Offsets count the slots from the first unread one, cyclically.
LEMMA OffsetFacts ==
    ASSUME TypeOK
    PROVE  /\ \A s \in Slots : Offset(s) \in 0..(StackSize - 1)
           /\ \A s \in Slots : Offset(s) = 0 <=> s = First
           /\ \A s, t \in Slots : Offset(s) = Offset(t) <=> s = t
<1>1. First \in 0..(StackSize - 1) /\ Slots = 0..(StackSize - 1)
    BY Basics DEF Slots
<1> QED
    BY <1>1 DEF Offset

\* Writing an entry extends the window at its end, unless it overwrites one.
LEMMA InOrderFwEntry ==
    TypeOK /\ EntriesValid /\ InOrder /\ FwEntry => InOrder'
<1> SUFFICES ASSUME TypeOK, EntriesValid, InOrder, FwEntry, ~lapped'
             PROVE  (StackWindow /\ InHand /\ Debt >= 0 /\ TakenInOrder)'
    BY DEF InOrder
<1>1. /\ ~lapped /\ ~Unread(fwNext) /\ fwPc = "entry" /\ fwPc' = "flag"
      /\ bus' = bus /\ taken' = taken /\ next_rt_entry' = next_rt_entry
      /\ rtPc' = rtPc /\ rtEntry' = rtEntry /\ msg_status' = msg_status
      /\ fwNext' = Wrap(fwNext + 1)
    BY DEF FwEntry, Unread, rtLocal
<1>2. StackWindow /\ InHand /\ Debt >= 0 /\ TakenInOrder
    BY <1>1 DEF InOrder
<1>3. /\ Written' = Written + 1 /\ Lag' = Lag + 1 /\ First' = First
      /\ \A s \in Slots : Offset(s)' = Offset(s)
    BY <1>1, Basics DEF Written, Lag, First, Offset, Wrap
<1>4. Offset(fwNext) \in 0..(StackSize - 1) /\ fwNext \in Slots
      /\ First \in Slots
    BY Basics, OffsetFacts
<1>5. ~(Offset(fwNext) < Lag)
    BY <1>1, <1>2, <1>4 DEF StackWindow
<1>6. Lag < StackSize /\ Offset(fwNext) = Lag /\ Lag \in 0..StackSize
    BY <1>2, <1>4, <1>5, Basics DEF StackWindow, Offset, Slots
<1>7. \A s \in Slots : s # fwNext => stack'[s] = stack[s]
    BY Basics DEF FwEntry
<1>8. /\ stack'[fwNext].eom /\ ~stack'[fwNext].read
      /\ stack'[fwNext].n = Len(bus)
    BY Basics DEF FwEntry
<1>9. \A s \in Slots : Offset(s) = Lag <=> s = fwNext
    BY <1>4, <1>6, OffsetFacts
<1>10. ASSUME NEW s \in Slots
       PROVE  (IF Offset(s) < Lag
               THEN Unread(s) /\ stack[s].n = Len(taken) + 1 + Offset(s)
               ELSE ~Unread(s))'
  <2>1. CASE s = fwNext
    <3>1. Len(bus) = Len(taken) + 1 + Lag
        BY <1>1, Basics DEF Lag, Written
    <3> QED BY <1>1, <1>3, <1>6, <1>8, <2>1, <3>1 DEF Unread
  <2>2. CASE s # fwNext
    <3>1. Offset(s) # Lag /\ Offset(s) \in Int
        BY <1>9, <2>2, OffsetFacts
    <3>2. Offset(s)' < Lag' <=> Offset(s) < Lag
        BY <1>3, <1>6, <3>1
    <3>3. IF Offset(s) < Lag
          THEN Unread(s) /\ stack[s].n = Len(taken) + 1 + Offset(s)
          ELSE ~Unread(s)
        BY <1>2 DEF StackWindow
    <3> QED BY <1>1, <1>3, <1>7, <2>2, <3>2, <3>3 DEF Unread
  <2> QED BY <2>1, <2>2
<1>11. (First + Lag \in {fwNext, fwNext + StackSize})' /\ Lag' \in 0..StackSize
    BY <1>1, <1>2, <1>3, <1>4, <1>6 DEF StackWindow, Wrap, Slots
<1>12. StackWindow'
    BY <1>10, <1>11 DEF StackWindow
<1>13. InHand'
  <2> SUFFICES ASSUME rtPc \in {"get2", "mark"}
               PROVE  stack'[next_rt_entry] = stack[next_rt_entry]
      BY <1>1, <1>2 DEF InHand
  <2>1. next_rt_entry \in Slots /\ Unread(next_rt_entry)
      BY <1>2 DEF EntriesValid, InHand, Unread
  <2> QED BY <1>1, <1>7, <2>1
<1>14. (Debt >= 0)'
  <2>1. Owed' = Owed + 1
      BY <1>1, Basics DEF Owed, One
  <2>2. Lag - Owed >= 0 /\ Lag \in Int /\ Owed \in Int
      BY <1>2, Basics DEF Debt
  <2>3. Lag' - Owed' >= 0
      BY <1>3, <2>1, <2>2
  <2> QED BY <2>3 DEF Debt
<1> QED
    BY <1>1, <1>2, <1>12, <1>13, <1>14 DEF TakenInOrder

\* A consumed flag is worth a message: the first slot of the window holds it.
LEMMA FirstUnread ==
    ASSUME TypeOK, StackWindow, Debt >= 0, rtPc \in {"get1", "get2", "mark"}
    PROVE  /\ Lag >= 1
           /\ Unread(First) /\ stack[First].n = Len(taken) + 1
<1>1. Owed >= 1
    BY DEF Owed, One
<1>2. Lag >= 1
  <2>1. Lag - Owed >= 0 /\ Lag \in Int /\ Owed \in Int
      BY Basics DEF Debt
  <2> QED BY <1>1, <2>1
<1>3. First \in Slots /\ Offset(First) = 0
    BY Basics, OffsetFacts
<1>4. Len(taken) + 1 + 0 = Len(taken) + 1
    BY Basics
<1> QED
    BY <1>2, <1>3, <1>4, Basics DEF StackWindow

\* Reading the first copy puts the first message of the window in hand.
LEMMA InOrderRtGet1 == TypeOK /\ InOrder /\ RtGet1 => InOrder'
<1> SUFFICES ASSUME TypeOK, InOrder, RtGet1, ~lapped
             PROVE  (StackWindow /\ InHand /\ Debt >= 0 /\ TakenInOrder)'
    BY DEF InOrder, RtGet1, history
<1>1. StackWindow /\ InHand /\ Debt >= 0 /\ TakenInOrder /\ rtPc = "get1"
    BY DEF InOrder, RtGet1
<1>2. Unread(First) /\ stack[First].n = Len(taken) + 1
    BY <1>1, FirstUnread
<1>3. /\ next_rt_entry' = First /\ rtEntry' = stack[First] /\ rtPc' = "get2"
      /\ stack' = stack /\ taken' = taken /\ bus' = bus /\ fwNext' = fwNext
      /\ fwPc' = fwPc /\ msg_status' = msg_status
    BY <1>2 DEF RtGet1, First, Unread, board, history
<1>4. First' = First
    BY <1>3, Basics DEF First, Wrap, Slots
<1>5. Lag' = Lag /\ Owed' = Owed
    BY <1>1, <1>3 DEF Lag, Written, Owed, One
<1>6. StackWindow' /\ TakenInOrder'
    BY <1>1, <1>3, <1>4, <1>5 DEF StackWindow, TakenInOrder, Unread, Offset
<1>7. InHand'
    BY <1>2, <1>3 DEF InHand, Unread
<1>8. (Debt >= 0)'
    BY <1>1, <1>5 DEF Debt
<1> QED
    BY <1>6, <1>7, <1>8

\* Taking the message in hand shrinks the window at its front.
LEMMA InOrderRtMark ==
    TypeOK /\ EntriesValid /\ InOrder /\ RtMark => InOrder'
<1> SUFFICES ASSUME TypeOK, EntriesValid, InOrder, RtMark, ~lapped
             PROVE  (StackWindow /\ InHand /\ Debt >= 0 /\ TakenInOrder)'
    BY DEF InOrder, RtMark
<1>1. StackWindow /\ InHand /\ Debt >= 0 /\ TakenInOrder /\ rtPc = "mark"
    BY DEF InOrder, RtMark
<1>2. /\ next_rt_entry \in Slots /\ rtEntry.n = Len(taken) + 1
      /\ rtEntry.n \in 1..Len(bus)
    BY <1>1 DEF EntriesValid, InHand
<1>3. First = next_rt_entry /\ next_rt_entry \in 0..(StackSize - 1)
    BY <1>2 DEF First, Wrap, Slots
<1>4. /\ next_rt_entry' = next_rt_entry + 1 /\ bus' = bus /\ fwNext' = fwNext
      /\ fwPc' = fwPc /\ msg_status' = msg_status
      /\ rtPc' \in {"poll", "data1"}
      /\ taken' = Append(taken, Len(taken) + 1)
    BY <1>2 DEF RtMark, board
<1>5. /\ Len(taken') = Len(taken) + 1 /\ Len(taken) \in Nat
      /\ \A i \in 1..Len(taken) : taken'[i] = taken[i]
      /\ taken'[Len(taken) + 1] = Len(taken) + 1
      /\ taken' \in Seq(Nat) /\ DOMAIN taken' = 1..(Len(taken) + 1)
  <2>1. taken \in Seq(Nat)
      BY DEF TypeOK
  <2> QED BY <1>4, <2>1
<1>6. Lag' = Lag - 1 /\ Lag >= 1 /\ Lag \in 0..StackSize
  <2>1. Lag >= 1 /\ Lag \in 0..StackSize
      BY <1>1, FirstUnread DEF StackWindow
  <2>2. Written' = Written /\ Written \in Int
      BY <1>4, Basics DEF Written
  <2> QED BY <1>5, <2>1, <2>2 DEF Lag
<1>7. First' = IF First = StackSize - 1 THEN 0 ELSE First + 1
    BY <1>3, <1>4 DEF First, Wrap
<1>8. ASSUME NEW s \in Slots
      PROVE  Offset(s)' = IF s = First THEN StackSize - 1 ELSE Offset(s) - 1
    BY <1>3, <1>7, <1>8 DEF Offset, Slots
<1>9. /\ \A s \in Slots : s # First => stack'[s] = stack[s]
      /\ stack'[First].read
    BY <1>2, <1>3, Basics DEF RtMark, Entries
<1>10. ASSUME NEW s \in Slots
       PROVE  (IF Offset(s) < Lag
               THEN Unread(s) /\ stack[s].n = Len(taken) + 1 + Offset(s)
               ELSE ~Unread(s))'
  <2>1. Offset(s) \in 0..(StackSize - 1) /\ (Offset(s) = 0 <=> s = First)
      BY OffsetFacts
  <2>2. CASE s = First
    <3>1. ~(Offset(s)' < Lag')
        BY <1>6, <1>8, <2>2
    <3> QED BY <1>9, <2>2, <3>1 DEF Unread
  <2>3. CASE s # First
    <3>1. Offset(s)' = Offset(s) - 1 /\ stack'[s] = stack[s]
        BY <1>8, <1>9, <2>3
    <3>2. Offset(s)' < Lag' <=> Offset(s) < Lag
        BY <1>6, <2>1, <3>1
    <3>3. Len(taken') + 1 + Offset(s)' = Len(taken) + 1 + Offset(s)
        BY <1>5, <2>1, <3>1
    <3>4. IF Offset(s) < Lag
          THEN Unread(s) /\ stack[s].n = Len(taken) + 1 + Offset(s)
          ELSE ~Unread(s)
        BY <1>1 DEF StackWindow
    <3> QED BY <3>1, <3>2, <3>3, <3>4 DEF Unread
  <2> QED BY <2>2, <2>3
<1>11. (First + Lag \in {fwNext, fwNext + StackSize})' /\ Lag' \in 0..StackSize
  <2>1. First + Lag \in {fwNext, fwNext + StackSize} /\ fwNext \in 0..(StackSize - 1)
      BY <1>1, Basics DEF StackWindow, Slots
  <2>2. First \in 0..(StackSize - 1)
      BY <1>3
  <2> QED BY <1>4, <1>6, <1>7, <2>1, <2>2
<1>12. StackWindow'
    BY <1>10, <1>11 DEF StackWindow
<1>13. InHand'
    BY <1>4 DEF InHand
<1>14. (Debt >= 0)'
  <2>1. Owed' = Owed - 1 /\ Owed \in Int
      BY <1>1, <1>4, Basics DEF Owed, One
  <2>2. Lag - Owed >= 0
      BY <1>1 DEF Debt
  <2>3. Lag' - Owed' >= 0
      BY <1>6, <2>1, <2>2
  <2> QED BY <2>3 DEF Debt
<1>15. TakenInOrder'
  <2>1. \A i \in 1..Len(taken) : taken[i] = i
    <3>1. DOMAIN taken = 1..Len(taken)
        BY DEF TypeOK
    <3> QED BY <1>1, <3>1 DEF TakenInOrder
  <2> QED BY <1>5, <2>1 DEF TakenInOrder
<1> QED
    BY <1>12, <1>13, <1>14, <1>15

LEMMA InOrderStep ==
    TypeOK /\ EntriesValid /\ NotStarted /\ FlagHeld /\ InOrder
        /\ [Next]_vars => InOrder'
<1> SUFFICES ASSUME TypeOK, EntriesValid, NotStarted, FlagHeld, InOrder, [Next]_vars
             PROVE  InOrder'
    OBVIOUS
<1> USE DEF InOrder, TypeOK, StackWindow, InHand, Debt, TakenInOrder, Lag, Owed, One, Written, First, Offset, Wrap, Unread, Slots, vars, board, rtLocal, rxLocal, history
<1>1. ASSUME NEW c \in Commands, NEW e \in BOOLEAN, FwBegin(c, e)
      PROVE  InOrder'
    BY <1>1 DEF FwBegin
<1>2. CASE FwCell2
    BY <1>2 DEF FwCell2
<1>3. CASE FwEntry
    BY <1>3, InOrderFwEntry
<1>4. CASE FwFlag
  <2>1. Lag' = Lag /\ First' = First /\ Lag \in Int
      BY <1>4, Basics DEF FwFlag
  <2>2. Owed' <= Owed /\ Owed \in Int /\ Owed' \in Int
      BY <1>4, Basics DEF FwFlag
  <2>3. /\ lapped' = lapped /\ stack' = stack /\ taken' = taken
        /\ fwNext' = fwNext /\ rtPc' = rtPc /\ rtEntry' = rtEntry
        /\ next_rt_entry' = next_rt_entry
      BY <1>4 DEF FwFlag
  <2> HIDE DEF Lag, Owed, First, TypeOK
  <2>4. ~lapped => StackWindow' /\ InHand' /\ TakenInOrder'
      BY <2>1, <2>3
  <2>5. ~lapped => Lag' - Owed' >= 0
      BY <2>1, <2>2
  <2> QED BY <2>3, <2>4, <2>5
<1>5. CASE RtRun
  <2>1. /\ bus' = <<>> /\ taken' = <<>> /\ fwNext' = 0 /\ fwPc' = "idle"
        /\ msg_status' = 0 /\ next_rt_entry' = 0 /\ rtPc' = "started"
        /\ stack' = [s \in Slots |-> NoEntry]
      BY <1>5 DEF RtRun, Run_RT, NotStarted
  <2>2. Lag' = 0 /\ Owed' = 0 /\ First' = 0
      BY <2>1
  <2> QED BY <2>1, <2>2 DEF NoEntry
<1>6. CASE RtSetupFails
    BY <1>6 DEF RtSetupFails
<1>7. CASE RtStarted
    BY <1>7 DEF RtStarted
<1>8. CASE RtExit
    BY <1>8 DEF RtExit
<1>9. CASE RtPoll
    BY <1>9 DEF RtPoll
<1>10. CASE RtClear
  <2>1. Lag' = Lag /\ Owed' = Owed /\ First' = First /\ Owed \in Int /\ Lag \in Int
      BY <1>10, Basics DEF RtClear, FlagHeld
  <2> HIDE DEF Lag, Owed, First
  <2> QED BY <1>10, <2>1 DEF RtClear
<1>11. CASE RtGet1
    BY <1>11, InOrderRtGet1
<1>12. CASE RtGet2
    BY <1>12 DEF RtGet2
<1>13. CASE RtMark
    BY <1>13, InOrderRtMark
<1>14. CASE RtData1
    BY <1>14 DEF RtData1
<1>15. CASE RtData2
    BY <1>15 DEF RtData2
<1>16. CASE RtSend
    BY <1>16 DEF RtSend
<1>17. CASE RxLoad1
    BY <1>17 DEF RxLoad1
<1>18. CASE RxLoad2
    BY <1>18 DEF RxLoad2
<1>19. CASE SigInt
    BY <1>19 DEF SigInt
<1>20. ASSUME NEW op \in Answers, NEW f \in BOOLEAN, RxParse(op, f)
      PROVE  InOrder'
    BY <1>20 DEF RxParse, Words
<1>21. CASE UNCHANGED vars
    BY <1>21
<1> QED
    BY <1>1, <1>2, <1>3, <1>4, <1>5, <1>6, <1>7, <1>8, <1>9, <1>10, <1>11, <1>12, <1>13, <1>14, <1>15, <1>16, <1>17, <1>18, <1>19, <1>20, <1>21
    DEF Next, Firmware, RtThread, RxThread
\* No action works the debt off.
LEMMA DebtStep ==
    TypeOK /\ EntriesValid /\ NotStarted /\ FlagHeld /\ InOrder /\ [Next]_vars
        => (~lapped' => Debt' >= Debt)
<1> SUFFICES ASSUME TypeOK, EntriesValid, NotStarted, FlagHeld, InOrder, [Next]_vars
             PROVE  ~lapped' => Debt' >= Debt
    OBVIOUS
<1> USE DEF Debt, Lag, Owed, One, Written, TypeOK, vars, board, rtLocal, rxLocal, history
<1>1. ASSUME NEW c \in Commands, NEW e \in BOOLEAN, FwBegin(c, e)
      PROVE  ~lapped' => Debt' >= Debt
  <2>1. Len(bus') = Len(bus) + 1
      BY <1>1 DEF FwBegin
  <2> QED BY <1>1, <2>1 DEF FwBegin
<1>2. CASE FwCell2
    BY <1>2 DEF FwCell2
<1>3. CASE FwEntry
    BY <1>3 DEF FwEntry
<1>4. CASE FwFlag
    BY <1>4 DEF FwFlag
<1>5. CASE RtRun
    BY <1>5 DEF RtRun, Run_RT, NotStarted
<1>6. CASE RtSetupFails
    BY <1>6 DEF RtSetupFails
<1>7. CASE RtStarted
    BY <1>7 DEF RtStarted
<1>8. CASE RtExit
    BY <1>8 DEF RtExit
<1>9. CASE RtPoll
    BY <1>9 DEF RtPoll
<1>10. CASE RtClear
    BY <1>10 DEF RtClear, FlagHeld
<1>11. CASE RtGet1
  <2>1. ~lapped => Unread(First)
      BY <1>11, FirstUnread DEF RtGet1, InOrder
  <2>2. ~lapped' => rtPc' = "get2"
      BY <1>11, <2>1 DEF RtGet1, Unread, First
  <2> QED BY <1>11, <2>2 DEF RtGet1
<1>12. CASE RtGet2
  <2>1. ~lapped' => rtPc' = "mark"
      BY <1>12 DEF RtGet2, InOrder, InHand
  <2> QED BY <1>12, <2>1 DEF RtGet2
<1>13. CASE RtMark
  <2>1. Len(taken') = Len(taken) + 1
      BY <1>13 DEF RtMark, EntriesValid
  <2>2. rtPc' \in {"poll", "data1"}
      BY <1>13 DEF RtMark
  <2> QED BY <1>13, <2>1, <2>2 DEF RtMark
<1>14. CASE RtData1
    BY <1>14 DEF RtData1
<1>15. CASE RtData2
    BY <1>15 DEF RtData2
<1>16. CASE RtSend
    BY <1>16 DEF RtSend
<1>17. CASE RxLoad1
    BY <1>17 DEF RxLoad1
<1>18. CASE RxLoad2
    BY <1>18 DEF RxLoad2
<1>19. CASE SigInt
    BY <1>19 DEF SigInt
<1>20. ASSUME NEW op \in Answers, NEW f \in BOOLEAN, RxParse(op, f)
      PROVE  ~lapped' => Debt' >= Debt
    BY <1>20 DEF RxParse, Words
<1>21. CASE UNCHANGED vars
    BY <1>21
<1> QED
    BY <1>1, <1>2, <1>3, <1>4, <1>5, <1>6, <1>7, <1>8, <1>9, <1>10, <1>11, <1>12, <1>13, <1>14, <1>15, <1>16, <1>17, <1>18, <1>19, <1>20, <1>21
    DEF Next, Firmware, RtThread, RxThread
-----------------------------------------------------------------------------
(* The theorems *)

\* The initial state satisfies every part of the invariant.
LEMMA InitInv == Init => TypeOK /\ StackInv
<1> SUFFICES ASSUME Init
             PROVE  TypeOK /\ StackInv
    OBVIOUS
<1>1. TypeOK
  <2>1. NoEntry \in Entries /\ Cleared \in Cells /\ 0 \in Slots
      BY DEF NoEntry, Entries, Cleared, Cells, Slots
  <2>2. 0 \in BlockNumbers
      BY LargestBlockAssumption DEF BlockNumbers
  <2> QED BY <2>1, <2>2 DEF Init, TypeOK
<1>2. EntriesValid /\ NotStarted /\ FlagHeld
    BY DEF Init, EntriesValid, NotStarted, FlagHeld, NoEntry
<1>3. StackWindow /\ InHand /\ Debt >= 0 /\ TakenInOrder
    BY DEF Init, StackWindow, InHand, Debt, TakenInOrder, Lag, Owed, One,
           Written, First, Offset, Wrap, Unread, Slots, NoEntry
<1> QED
    BY <1>1, <1>2, <1>3 DEF StackInv

\* Every step preserves it.
LEMMA StepInv == TypeOK /\ StackInv /\ [Next]_vars => (TypeOK /\ StackInv)'
BY TypeStep, EntriesStep, ControlStep, InOrderStep DEF StackInv, InOrder

\* The stack invariant holds in every reachable state, for any stack size and
\* any number of messages: the unread entries of the message stack are the
\* messages after the last one taken, and no flag is raised without one.
THEOREM StackInvariant == Spec => [](TypeOK /\ StackInv)
<1>1. Init => TypeOK /\ StackInv
    BY InitInv
<1>2. TypeOK /\ StackInv /\ [Next]_vars => (TypeOK /\ StackInv)'
    BY StepInv
<1> QED
    BY <1>1, <1>2, PTL DEF Spec

\* Type correctness of the RT model.
THEOREM TypeCorrect == Spec => []TypeOK
BY StackInvariant, PTL

\* rt_1553_thread takes every message once and in bus order until the firmware
\* overwrites an unread entry of the message stack.
THEOREM MessagesTakenInOrder == Spec => []TakenInOrder
<1>1. TypeOK /\ StackInv => TakenInOrder
    BY DEF StackInv, TakenInOrder
<1> QED
    BY <1>1, StackInvariant, PTL

\* The flag protocol never spends a wake-up on an empty stack: whenever
\* Get_Next_RT_Message_Px is entered, the next message is waiting.
THEOREM WakeupsFindMessages == Spec => []WakeupFindsMessage
<1>1. TypeOK /\ StackInv => WakeupFindsMessage
    BY FirstUnread DEF StackInv, WakeupFindsMessage, First, Unread
<1> QED
    BY <1>1, StackInvariant, PTL

\* The backlog of messages without a wake-up never shrinks: what one shared flag
\* leaves behind on the stack stays behind.
THEOREM BacklogIsPermanent == Spec => BacklogKept
<1>1. TypeOK /\ StackInv /\ [Next]_vars => [~lapped' => Debt' >= Debt]_vars
    BY DebtStep DEF StackInv, InOrder
<1> QED
    BY <1>1, StackInvariant, PTL DEF Spec, BacklogKept
-----------------------------------------------------------------------------
(* What DataRegular rests on: the contents of the data blocks. *)

\* An entry of the stack is written after the data of its message and reports its
\* error; what the thread forwards is an entry that it took unread and that is
\* free of error.
EntriesTrue ==
    /\ \A s \in Slots : stack[s].eom =>
          /\ stack[s].n \in 1..Written
          /\ ~stack[s].read => stack[s].err = bus[stack[s].n].err
    /\ rtEntry.eom =>
          /\ rtEntry.n \in 1..Written
          /\ ~rtEntry.read => rtEntry.err = bus[rtEntry.n].err
    /\ rtPc \in {"mark", "data1", "data2", "send"} => ~rtEntry.read
    /\ rtPc \in {"data1", "data2", "send"} => ~Ignored(rtEntry)

\* The cell v holds data of message n or of a later one with the same command.
SinceMessage(v, n) == v \in n..Len(bus) /\ bus[v].cmd = bus[n].cmd

\* The block of a received message holds its data, or later data of the same
\* command: the first cell from the start, the second once it was moved.
BlocksFollowBus ==
    \A n \in 1..Len(bus) :
        bus[n].cmd.dir = RECEIVE /\ ~bus[n].err /\ BlockOf(n) \notin Answers \cup Shared =>
            /\ SinceMessage(blk[BlockOf(n)][1], n)
            /\ fwPc # "cell2" \/ n < Len(bus) =>
                  SinceMessage(blk[BlockOf(n)][2], n)

\* So do the cells the thread has copied so far.
CopyFollowsBus ==
    rtPc \in {"data2", "send"} /\ BlockOf(rtEntry.n) \notin Answers \cup Shared =>
        /\ SinceMessage(rtCells[1], rtEntry.n)
        /\ rtPc = "send" => SinceMessage(rtCells[2], rtEntry.n)

PayloadInv ==
    /\ EntriesTrue /\ BlocksFollowBus /\ CopyFollowsBus /\ PayloadRegular
    /\ \A f \in sent : f.upto \in 0..Len(bus)

\* load_datablk is loading the last answer taken from the socket.
LoadingLast ==
    /\ \A b \in Blocks : loaded[b] <= Len(loads)
    /\ rxPc # "recv" =>
          /\ loads # <<>> /\ rxOp = loads[Len(loads)].op
          /\ rxVal = Words(Len(loads), loads[Len(loads)].fits)

\* A block no RECEIVE command writes is as recent as its last complete answer, and
\* its first cell is ahead while load_datablk writes the second.
BlocksRecent ==
    \A b \in Blocks \ ReceiveBlocks :
        /\ \A i \in {1, 2} : Recent(blk[b][i], loaded[b], b)
        /\ rxPc = "load2" /\ rxOp = b => Recent(blk[b][1], Len(loads), b)

\* What the firmware has read for a TRANSMIT command is as recent as the answer
\* that was complete when the command arrived.
ReplyRecent ==
    LET n == Len(bus)
        b == BlockOf(n)
    IN  fwPc \in {"cell2", "entry"} /\ bus[n].cmd.dir = TRANSMIT
        /\ b \notin ReceiveBlocks
        => /\ fwFloor <= loaded[b]
           /\ Recent(fwCells[1], fwFloor, b)
           /\ fwPc = "entry" /\ ~bus[n].err => Recent(fwCells[2], fwFloor, b)

AnswerInv ==
    /\ LoadingLast /\ BlocksRecent /\ ReplyRecent /\ AnswerRegular
    /\ \A g \in got :
          /\ g.n \in 1..Len(bus)
          /\ BlockOf(g.n) \notin ReceiveBlocks => g.floor \in 0..Len(loads)
\* Two RECEIVE commands with the same block are the same command, unless the
\* block is shared.
LEMMA ReceiveBlocksDiffer ==
    \A c, d \in Commands :
        c.dir = RECEIVE /\ d.dir = RECEIVE /\ Get_Blknum(c) = Get_Blknum(d)
        /\ Get_Blknum(c) \notin Shared
        => c = d
BY DEF Shared

\* No block is shared when every op_code is a subaddress: then the second loop
\* of rt_1553_thread assigns blocks to commands to transmit only.
THEOREM ProperOpCodes ==
    (\A i \in DOMAIN GetCommands : GetCommands[i].op \in SubAddresses)
    => Shared = {}
<1> SUFFICES ASSUME \A i \in DOMAIN GetCommands : GetCommands[i].op \in SubAddresses,
                    NEW c \in Commands, c.dir = RECEIVE,
                    NEW d \in Commands, d.dir = RECEIVE, c # d,
                    Get_Blknum(c) = Get_Blknum(d)
             PROVE  FALSE
    BY DEF Shared
<1>1. ASSUME NEW i \in DOMAIN GetCommands
      PROVE  RtId(i).dir = TRANSMIT
  <2>1. i \in {j \in 1..i : GetCommands[j].op \in SubAddresses}
      BY GetCommandsAssumption
  <2> QED BY <2>1 DEF RtId
<1>2. Assigned(c) = {} /\ Assigned(d) = {}
    BY <1>1 DEF Assigned, RECEIVE, TRANSMIT
<1>3. c \in CommandWords /\ d \in CommandWords
    OBVIOUS
<1>4. c.sa = d.sa /\ c.bcast = d.bcast
    BY <1>2, <1>3 DEF CommandWords, Get_Blknum, SubAddresses, RECEIVE, TRANSMIT,
                      BROADCAST_BLOCK_BASE
<1> QED
    BY <1>3, <1>4 DEF CommandWords

\* The bus and the list of answers only grow.
LEMMA HistoryGrows ==
    ASSUME TypeOK, [Next]_vars
    PROVE  /\ Len(bus) \in Nat /\ Len(bus') \in Nat /\ Len(bus) <= Len(bus')
           /\ \A n \in 1..Len(bus) : bus'[n] = bus[n] /\ BlockOf(n)' = BlockOf(n)
           /\ Len(loads) \in Nat /\ Len(loads') \in Nat
           /\ Len(loads) <= Len(loads')
           /\ \A k \in 1..Len(loads) : loads'[k] = loads[k]
<1> DEFINE Grows == /\ Len(bus') \in Nat /\ Len(bus) <= Len(bus')
                    /\ \A n \in 1..Len(bus) : bus'[n] = bus[n]
                    /\ Len(loads') \in Nat /\ Len(loads) <= Len(loads')
                    /\ \A k \in 1..Len(loads) : loads'[k] = loads[k]
<1> USE DEF TypeOK
<1>1. ASSUME NEW c \in Commands, NEW e \in BOOLEAN, FwBegin(c, e)
      PROVE  Grows
    BY <1>1 DEF FwBegin, rxLocal
<1>2. ASSUME NEW op \in Answers, NEW f \in BOOLEAN, RxParse(op, f)
      PROVE  Grows
    BY <1>2 DEF RxParse
<1>3. ASSUME UNCHANGED <<bus, loads>>
      PROVE  Grows
    BY <1>3
<1>4. \/ \E c \in Commands, e \in BOOLEAN : FwBegin(c, e)
      \/ \E op \in Answers, f \in BOOLEAN : RxParse(op, f)
      \/ UNCHANGED <<bus, loads>>
    BY DEF Next, Firmware, RtThread, RxThread, FwCell2, FwEntry, FwFlag, RtRun,
           Run_RT, RtSetupFails, RtStarted, RtExit, RtPoll, RtClear, RtGet1,
           RtGet2, RtMark, RtData1, RtData2, RtSend, RxLoad1, RxLoad2, SigInt,
           vars, rxLocal
<1>5. Grows
    BY <1>1, <1>2, <1>3, <1>4
<1> QED
    BY <1>5 DEF BlockOf

\* Entries stay true: the firmware writes them after the data, and only an entry
\* read again unchanged and unread is taken.
LEMMA EntriesTrueStep ==
    TypeOK /\ EntriesValid /\ EntriesTrue /\ [Next]_vars => EntriesTrue'
<1> SUFFICES ASSUME TypeOK, EntriesValid, EntriesTrue, [Next]_vars
             PROVE  EntriesTrue'
    OBVIOUS
<1> USE DEF EntriesTrue, TypeOK, Written, Ignored, vars, board, rtLocal
<1>1. ASSUME NEW c \in Commands, NEW e \in BOOLEAN, FwBegin(c, e)
      PROVE  EntriesTrue'
  <2>1. /\ Written' = Written /\ Written = Len(bus)
        /\ \A n \in 1..Len(bus) : bus'[n] = bus[n]
      BY <1>1 DEF FwBegin
  <2> HIDE DEF Written
  <2>2. UNCHANGED <<stack, rtPc, rtEntry>>
      BY <1>1 DEF FwBegin
  <2>3. \A s \in Slots : stack[s].eom =>
            bus'[stack[s].n] = bus[stack[s].n]
      BY <2>1
  <2>4. rtEntry.eom => bus'[rtEntry.n] = bus[rtEntry.n]
      BY <2>1
  <2>5. rtPc \in {"data1", "data2", "send"} => rtEntry.eom
      BY DEF EntriesValid
  <2> QED BY <2>1, <2>2, <2>3, <2>4, <2>5
<1>2. CASE FwCell2
    BY <1>2 DEF FwCell2
<1>3. CASE FwEntry
  <2>1. /\ Len(bus) \in 1..Written' /\ Written \in Nat /\ Written' \in Nat
        /\ Written <= Written'
      BY <1>3, BusNotEmpty DEF FwEntry
  <2>2. /\ stack'[fwNext].n = Len(bus)
        /\ stack'[fwNext].err = bus[Len(bus)].err
        /\ \A s \in Slots \ {fwNext} : stack'[s] = stack[s]
      BY <1>3 DEF FwEntry
  <2>3. UNCHANGED <<bus, rtPc, rtEntry>>
      BY <1>3 DEF FwEntry
  <2> HIDE DEF Written
  <2>4. \A k \in 1..Written : k \in 1..Written'
      BY <2>1
  <2>5. ASSUME NEW s \in Slots, stack'[s].eom
        PROVE  /\ stack'[s].n \in 1..Written'
               /\ ~stack'[s].read => stack'[s].err = bus'[stack'[s].n].err
    <3>1. CASE s = fwNext
        BY <2>1, <2>2, <2>3, <3>1
    <3>2. CASE s # fwNext
        BY <2>2, <2>3, <2>4, <2>5, <3>2
    <3> QED BY <3>1, <3>2
  <2>6. rtEntry.eom => rtEntry.n \in 1..Written'
      BY <2>4
  <2> QED BY <2>3, <2>5, <2>6
<1>4. CASE FwFlag
    BY <1>4 DEF FwFlag
<1>5. CASE RtRun
    BY <1>5 DEF RtRun, Run_RT, NoEntry
<1>6. CASE RtSetupFails
    BY <1>6 DEF RtSetupFails
<1>7. CASE RtStarted
    BY <1>7 DEF RtStarted
<1>8. CASE RtExit
    BY <1>8 DEF RtExit
<1>9. CASE RtPoll
    BY <1>9 DEF RtPoll
<1>10. CASE RtClear
    BY <1>10 DEF RtClear
<1>11. CASE RtGet1
  <2>1. next_rt_entry' \in Slots
      BY <1>11, WrapSlot DEF RtGet1
  <2> QED BY <1>11, <2>1 DEF RtGet1
<1>12. CASE RtGet2
    BY <1>12 DEF RtGet2
<1>13. CASE RtMark
  <2>1. next_rt_entry \in Slots /\ stack[next_rt_entry].eom
      BY <1>13 DEF RtMark, EntriesValid
  <2>2. /\ stack'[next_rt_entry].n = stack[next_rt_entry].n
        /\ stack'[next_rt_entry].read
        /\ \A s \in Slots \ {next_rt_entry} : stack'[s] = stack[s]
      BY <1>13, <2>1 DEF RtMark, Entries
  <2> QED BY <1>13, <2>1, <2>2 DEF RtMark
<1>14. CASE RtData1
    BY <1>14 DEF RtData1
<1>15. CASE RtData2
    BY <1>15 DEF RtData2
<1>16. CASE RtSend
    BY <1>16 DEF RtSend
<1>17. CASE RxLoad1
    BY <1>17 DEF RxLoad1
<1>18. CASE RxLoad2
    BY <1>18 DEF RxLoad2
<1>19. CASE SigInt
    BY <1>19 DEF SigInt
<1>20. ASSUME NEW op \in Answers, NEW f \in BOOLEAN, RxParse(op, f)
      PROVE  EntriesTrue'
    BY <1>20 DEF RxParse
<1>21. CASE UNCHANGED vars
    BY <1>21
<1> QED
    BY <1>1, <1>2, <1>3, <1>4, <1>5, <1>6, <1>7, <1>8, <1>9, <1>10, <1>11,
       <1>12, <1>13, <1>14, <1>15, <1>16, <1>17, <1>18, <1>19, <1>20, <1>21
    DEF Next, Firmware, RtThread, RxThread

\* A cell written since message n stays so as the bus goes on.
LEMMA SinceGrows ==
    ASSUME TypeOK, [Next]_vars
    PROVE  \A v, n : n \in 1..Len(bus) /\ v \in n..Len(bus)
                     /\ bus[v].cmd = bus[n].cmd
                     => v \in n..Len(bus') /\ bus'[v].cmd = bus'[n].cmd
BY HistoryGrows

\* Who writes the blocks, the bus and the thread's copies.
LEMMA Writers ==
    ASSUME [Next]_vars
    PROVE  /\ \/ \E c \in Commands, e \in BOOLEAN : FwBegin(c, e)
              \/ FwCell2 \/ FwEntry \/ FwFlag
              \/ UNCHANGED <<bus, fwPc, fwFloor, fwCells, got>>
           /\ \/ \E c \in Commands, e \in BOOLEAN : FwBegin(c, e)
              \/ FwCell2 \/ RxLoad1 \/ RxLoad2 \/ UNCHANGED blk
           /\ \/ \E op \in Answers, f \in BOOLEAN : RxParse(op, f)
              \/ RxLoad1 \/ RxLoad2
              \/ UNCHANGED <<rxPc, rxOp, rxVal, loads, loaded>>
           /\ \/ RtData1 \/ RtData2 \/ RtSend
              \/ UNCHANGED sent /\ rtPc' \notin {"data2", "send"}
              \/ UNCHANGED <<rtPc, rtEntry, rtCells, sent>>
BY DEF Next, Firmware, RtThread, RxThread, FwBegin, FwCell2, FwEntry, FwFlag,
       RtRun, Run_RT, RtSetupFails, RtStarted, RtExit, RtPoll, RtClear, RtGet1,
       RtGet2, RtMark, RtData1, RtData2, RtSend, RxParse, RxLoad1, RxLoad2,
       SigInt, vars, board, rtLocal, rxLocal, history

\* The receive data of a block is only overwritten by later data of its command.
LEMMA BlocksFollowBusStep ==
    TypeOK /\ BlocksFollowBus /\ [Next]_vars => BlocksFollowBus'
<1> SUFFICES ASSUME TypeOK, BlocksFollowBus, [Next]_vars,
                    NEW n \in 1..Len(bus'),
                    bus'[n].cmd.dir = RECEIVE, ~bus'[n].err,
                    BlockOf(n)' \notin Answers \cup Shared
             PROVE  /\ SinceMessage(blk[BlockOf(n)][1], n)'
                    /\ fwPc' # "cell2" \/ n < Len(bus') =>
                          SinceMessage(blk[BlockOf(n)][2], n)'
    BY DEF BlocksFollowBus
<1> USE DEF SinceMessage
<1>1. /\ Len(bus) \in Nat /\ Len(bus') \in Nat /\ Len(bus) <= Len(bus')
      /\ \A m \in 1..Len(bus) : bus'[m] = bus[m] /\ BlockOf(m)' = BlockOf(m)
    BY HistoryGrows
<1>2. \A v : n \in 1..Len(bus) /\ v \in n..Len(bus) /\ bus[v].cmd = bus[n].cmd
             => v \in n..Len(bus') /\ bus'[v].cmd = bus'[n].cmd
    BY SinceGrows
<1>3. ASSUME NEW c \in Commands, NEW e \in BOOLEAN, FwBegin(c, e)
      PROVE  /\ SinceMessage(blk[BlockOf(n)][1], n)'
             /\ n < Len(bus') => SinceMessage(blk[BlockOf(n)][2], n)'
             /\ fwPc' = "cell2"
  <2>1. /\ Len(bus') = Len(bus) + 1 /\ bus'[Len(bus) + 1].cmd = c
        /\ fwPc = "idle" /\ fwPc' = "cell2"
      BY <1>3 DEF FwBegin, TypeOK
  <2> DEFINE b == BlockOf(n)'
  <2>2. blk \in [Blocks -> Cells] /\ Get_Blknum(c) \in Blocks
      BY BlockInUse DEF TypeOK
  <2>3. CASE n = Len(bus) + 1
    <3>1. c.dir = RECEIVE /\ b = Get_Blknum(c)
        BY <2>1, <2>3 DEF BlockOf
    <3>2. blk'[b][1] = Len(bus) + 1
        BY <1>3, <2>2, <3>1 DEF FwBegin, Cells
    <3> QED BY <2>1, <2>3, <3>2
  <2>4. CASE n # Len(bus) + 1
    <3>1. n \in 1..Len(bus) /\ bus'[n] = bus[n] /\ b = BlockOf(n)
        BY <1>1, <2>1, <2>4
    <3>2. b \in Blocks /\ bus[n].cmd \in Commands
        BY <3>1, BusElement
    <3>3. SinceMessage(blk[b][1], n) /\ SinceMessage(blk[b][2], n)
        BY <2>1, <3>1 DEF BlocksFollowBus
    <3>4. blk'[b][2] = blk[b][2]
      <4>1. \/ blk' = blk
            \/ blk' = [blk EXCEPT ![Get_Blknum(c)][1] = Len(bus) + 1]
          BY <1>3 DEF FwBegin
      <4>2. PICK d \in Blocks : d = b
          BY <3>2
      <4>3. [blk EXCEPT ![Get_Blknum(c)][1] = Len(bus) + 1][d][2] = blk[d][2]
          BY <2>2 DEF Cells
      <4> QED BY <4>1, <4>2, <4>3
    <3>5. CASE c.dir = RECEIVE /\ b = Get_Blknum(c)
      <4>1. bus[n].cmd = c
          BY <3>1, <3>2, <3>5, ReceiveBlocksDiffer DEF BlockOf
      <4>2. blk'[b][1] = Len(bus) + 1
          BY <1>3, <2>2, <3>5 DEF FwBegin, Cells
      <4>3. SinceMessage(blk[BlockOf(n)][1], n)'
          BY <2>1, <3>1, <4>1, <4>2, <1>1
      <4> QED BY <1>2, <2>1, <3>1, <3>3, <3>4, <4>3
    <3>6. CASE ~(c.dir = RECEIVE /\ b = Get_Blknum(c))
      <4>1. blk'[b][1] = blk[b][1]
          BY <1>3, <2>2, <3>2, <3>6 DEF FwBegin, Cells
      <4> QED BY <1>2, <2>1, <3>1, <3>3, <3>4, <4>1
    <3> QED BY <3>5, <3>6
  <2> QED BY <2>3, <2>4
<1>4. ASSUME UNCHANGED bus
      PROVE  /\ n \in 1..Len(bus) /\ BlockOf(n)' = BlockOf(n)
             /\ BlockOf(n) \in Blocks \ (Answers \cup Shared) /\ bus[n].cmd \in Commands
             /\ bus[n].cmd.dir = RECEIVE /\ ~bus[n].err
    BY <1>1, <1>4, BusElement
<1>5. ASSUME FwCell2
      PROVE  /\ SinceMessage(blk[BlockOf(n)][1], n)'
             /\ SinceMessage(blk[BlockOf(n)][2], n)'
  <2> DEFINE b == BlockOf(n)
             l == Len(bus)
  <2>1. UNCHANGED bus /\ fwPc = "cell2" /\ blk \in [Blocks -> Cells]
      BY <1>5 DEF FwCell2, TypeOK
  <2>2. /\ n \in 1..l /\ BlockOf(n)' = b /\ b \in Blocks
        /\ bus[n].cmd \in Commands /\ bus[n].cmd.dir = RECEIVE /\ ~bus[n].err
      BY <1>4, <2>1
  <2>3. l \in 1..l /\ BlockOf(l) \in Blocks /\ bus[l].cmd \in Commands
      BY <1>1, <2>2, BusElement
  <2>4. blk'[b][1] = blk[b][1] /\ SinceMessage(blk[b][1], n)
    <3>1. blk' = blk \/ blk' = [blk EXCEPT ![BlockOf(l)][2] = l]
        BY <1>5 DEF FwCell2
    <3>2. blk'[b][1] = blk[b][1]
      <4>1. PICK d \in Blocks : d = b
          BY <2>2
      <4>2. [blk EXCEPT ![BlockOf(l)][2] = l][d][1] = blk[d][1]
          BY <2>1, <2>3 DEF Cells
      <4> QED BY <3>1, <4>1, <4>2
    <3> QED BY <1>4, <2>1, <2>2, <3>2 DEF BlocksFollowBus
  <2>5. CASE bus[l].cmd.dir = RECEIVE /\ BlockOf(l) = b /\ blk'[b][2] = l
    <3>1. bus[l].cmd = bus[n].cmd
        BY <2>2, <2>3, <2>5, ReceiveBlocksDiffer DEF BlockOf
    <3> QED BY <2>1, <2>2, <2>4, <2>5, <3>1
  <2>6. CASE n < l /\ blk'[b][2] = blk[b][2]
      BY <1>4, <2>1, <2>2, <2>4, <2>6 DEF BlocksFollowBus
  <2>7. \/ n < l /\ blk'[b][2] = blk[b][2]
        \/ bus[l].cmd.dir = RECEIVE /\ BlockOf(l) = b /\ blk'[b][2] = l
    <3>1. CASE bus[l].cmd.dir = RECEIVE /\ blk' = [blk EXCEPT ![BlockOf(l)][2] = l]
        BY <2>1, <2>2, <2>3, <3>1 DEF Cells
    <3>2. CASE bus[l].cmd.dir = TRANSMIT /\ blk' = blk
        BY <2>2, <2>3, <3>2 DEF RECEIVE, TRANSMIT
    <3>3. CASE bus[l].err /\ blk' = blk
        BY <2>2, <2>3, <3>3
    <3> QED BY <1>5, <3>1, <3>2, <3>3 DEF FwCell2
  <2> QED BY <2>5, <2>6, <2>7
<1>6. ASSUME FwEntry \/ FwFlag
      PROVE  UNCHANGED <<bus, blk>> /\ fwPc # "cell2"
    BY <1>6 DEF FwEntry, FwFlag
<1>7. ASSUME RxLoad1 \/ RxLoad2
      PROVE  /\ UNCHANGED <<bus, fwPc>>
             /\ \A b \in Blocks \ (Answers \cup Shared) : blk'[b] = blk[b]
    BY <1>7 DEF RxLoad1, RxLoad2, TypeOK, board
<1>8. \/ \E c \in Commands, e \in BOOLEAN : FwBegin(c, e)
      \/ FwCell2
      \/ /\ UNCHANGED bus
         /\ fwPc = "cell2" => fwPc' = "cell2"
         /\ \A b \in Blocks \ (Answers \cup Shared) : blk'[b] = blk[b]
    BY <1>6, <1>7, Writers
<1>9. ASSUME /\ UNCHANGED bus
             /\ fwPc = "cell2" => fwPc' = "cell2"
             /\ \A b \in Blocks \ (Answers \cup Shared) : blk'[b] = blk[b]
      PROVE  /\ SinceMessage(blk[BlockOf(n)][1], n)'
             /\ fwPc' # "cell2" \/ n < Len(bus') =>
                   SinceMessage(blk[BlockOf(n)][2], n)'
    BY <1>4, <1>9 DEF BlocksFollowBus
<1> QED
    BY <1>3, <1>5, <1>8, <1>9

\* What the thread copies and forwards is a received message without error whose
\* data were complete before its entry was written.
LEMMA HandRegular ==
    ASSUME TypeOK, EntriesValid, EntriesTrue,
           rtPc \in {"data1", "data2", "send"}
    PROVE  /\ rtEntry.n \in 1..Len(bus) /\ BlockOf(rtEntry.n) \in Blocks
           /\ fwPc = "cell2" => rtEntry.n < Len(bus)
           /\ bus[rtEntry.n].cmd.dir = RECEIVE /\ ~bus[rtEntry.n].err
<1>1. rtEntry.eom /\ rtEntry.n \in 1..Written /\ ~rtEntry.read
    BY DEF EntriesValid, EntriesTrue
<1>2. rtEntry.n \in 1..Len(bus) /\ (fwPc = "cell2" => rtEntry.n < Len(bus))
    BY <1>1 DEF Written, TypeOK
<1>3. BlockOf(rtEntry.n) \in Blocks /\ bus[rtEntry.n].cmd \in CommandWords
    BY <1>2, BusElement
<1>4. ~bus[rtEntry.n].err /\ bus[rtEntry.n].cmd.dir # TRANSMIT
    BY <1>1 DEF EntriesTrue, Ignored
<1> QED
    BY <1>2, <1>3, <1>4 DEF CommandWords

\* The thread's copy stays as recent as the message it belongs to.
LEMMA CopyStep ==
    TypeOK /\ EntriesValid /\ EntriesTrue /\ BlocksFollowBus /\ CopyFollowsBus
    /\ [Next]_vars => CopyFollowsBus'
<1> SUFFICES ASSUME TypeOK, EntriesValid, EntriesTrue, BlocksFollowBus,
                    CopyFollowsBus, [Next]_vars, rtPc' \in {"data2", "send"},
                    BlockOf(rtEntry.n)' \notin Answers \cup Shared
             PROVE  /\ SinceMessage(rtCells[1], rtEntry.n)'
                    /\ rtPc' = "send" => SinceMessage(rtCells[2], rtEntry.n)'
    BY DEF CopyFollowsBus
<1>1. \A v, n : n \in 1..Len(bus) /\ v \in n..Len(bus)
                /\ bus[v].cmd = bus[n].cmd
                => v \in n..Len(bus') /\ bus'[v].cmd = bus'[n].cmd
    BY SinceGrows
<1>2. CASE RtData1
  <2>1. UNCHANGED <<bus, rtEntry>> /\ BlockOf(rtEntry.n)' = BlockOf(rtEntry.n)
        /\ rtPc = "data1" /\ rtPc' = "data2"
      BY <1>2 DEF RtData1, BlockOf
  <2>2. SinceMessage(blk[BlockOf(rtEntry.n)][1], rtEntry.n)
      BY <2>1, HandRegular DEF BlocksFollowBus
  <2>3. rtCells'[1] = blk[BlockOf(rtEntry.n)][1]
      BY <1>2 DEF RtData1, TypeOK, Cells
  <2> QED BY <2>1, <2>2, <2>3 DEF SinceMessage
<1>3. CASE RtData2
  <2>1. UNCHANGED <<bus, rtEntry>> /\ BlockOf(rtEntry.n)' = BlockOf(rtEntry.n)
        /\ rtPc = "data2"
      BY <1>3 DEF RtData2, BlockOf
  <2>2. SinceMessage(blk[BlockOf(rtEntry.n)][2], rtEntry.n)
      BY <2>1, HandRegular DEF BlocksFollowBus
  <2>3. rtCells'[2] = blk[BlockOf(rtEntry.n)][2] /\ rtCells'[1] = rtCells[1]
      BY <1>3 DEF RtData2, TypeOK, Cells
  <2> QED BY <2>1, <2>2, <2>3 DEF SinceMessage, CopyFollowsBus
<1>4. CASE RtSend
    BY <1>4 DEF RtSend
<1>5. CASE UNCHANGED <<rtPc, rtEntry, rtCells>>
  <2>1. rtEntry.n \in 1..Len(bus)
      BY <1>5, HandRegular
  <2>2. BlockOf(rtEntry.n)' = BlockOf(rtEntry.n)
      BY <1>5, <2>1, HistoryGrows DEF BlockOf
  <2> QED BY <1>1, <1>5, <2>1, <2>2 DEF SinceMessage, CopyFollowsBus
<1> QED
    BY <1>2, <1>3, <1>4, <1>5, Writers

\* What has been sent stays regular, and what is sent now is.
LEMMA PayloadStep ==
    TypeOK /\ EntriesValid /\ PayloadInv /\ [Next]_vars
    => PayloadRegular' /\ (\A f \in sent : f.upto \in 0..Len(bus))'
<1> SUFFICES ASSUME TypeOK, EntriesValid, PayloadInv, [Next]_vars,
                    NEW f \in sent'
             PROVE  /\ f.upto \in 0..Len(bus')
                    /\ f.n \in DOMAIN bus' /\ bus'[f.n].cmd.dir = RECEIVE
                    /\ ~bus'[f.n].err
                    /\ BlockOf(f.n)' \notin Answers \cup Shared =>
                         \A i \in {1, 2} :
                             /\ f.cells[i] \in f.n..f.upto
                             /\ bus'[f.cells[i]].cmd = bus'[f.n].cmd
    BY DEF PayloadRegular, BlockOf
<1>1. /\ Len(bus) \in Nat /\ Len(bus') \in Nat /\ Len(bus) <= Len(bus')
      /\ \A m \in 1..Len(bus) : bus'[m] = bus[m] /\ BlockOf(m)' = BlockOf(m)
    BY HistoryGrows
<1>2. bus \in Seq(Messages) /\ bus' \in Seq(Messages)
    BY TypeStep DEF TypeOK
<1>3. DOMAIN bus = 1..Len(bus) /\ DOMAIN bus' = 1..Len(bus')
    BY <1>2
<1>4. CASE f \in sent
  <2>1. /\ f.upto \in 0..Len(bus) /\ f.n \in 1..Len(bus)
        /\ bus[f.n].cmd.dir = RECEIVE /\ ~bus[f.n].err
        /\ BlockOf(f.n) \notin Answers \cup Shared =>
             \A i \in {1, 2} : /\ f.cells[i] \in f.n..f.upto
                               /\ bus[f.cells[i]].cmd = bus[f.n].cmd
      BY <1>3, <1>4 DEF PayloadInv, PayloadRegular
  <2>2. bus'[f.n] = bus[f.n] /\ BlockOf(f.n)' = BlockOf(f.n)
      BY <1>1, <2>1
  <2>3. ASSUME BlockOf(f.n) \notin Answers \cup Shared, NEW i \in {1, 2}
        PROVE  /\ f.cells[i] \in f.n..f.upto
               /\ bus'[f.cells[i]].cmd = bus'[f.n].cmd
    <3>1. /\ f.cells[i] \in f.n..f.upto
          /\ bus[f.cells[i]].cmd = bus[f.n].cmd
        BY <2>1, <2>3
    <3>2. f.cells[i] \in 1..Len(bus)
        BY <1>1, <2>1, <3>1
    <3> QED BY <1>1, <2>2, <3>1, <3>2
  <2> QED BY <1>1, <1>3, <2>1, <2>2, <2>3
<1>5. CASE f \notin sent
  <2>1. RtSend /\ f = [seq |-> seq, n |-> rtEntry.n, cells |-> rtCells,
                       upto |-> Len(bus)]
      BY <1>5, Writers DEF RtSend, RtData1, RtData2, history
  <2>2. rtPc = "send" /\ bus' = bus
      BY <2>1 DEF RtSend
  <2>3. /\ rtEntry.n \in 1..Len(bus)
        /\ bus[rtEntry.n].cmd.dir = RECEIVE /\ ~bus[rtEntry.n].err
      BY <2>2, HandRegular DEF PayloadInv
  <2>4. BlockOf(rtEntry.n) \notin Answers \cup Shared =>
            SinceMessage(rtCells[1], rtEntry.n)
            /\ SinceMessage(rtCells[2], rtEntry.n)
      BY <2>2 DEF PayloadInv, CopyFollowsBus
  <2> QED BY <1>1, <1>3, <2>1, <2>2, <2>3, <2>4 DEF SinceMessage
<1> QED
    BY <1>4, <1>5

\* Appending an answer.
LEMMA LoadsAppend ==
    ASSUME TypeOK, NEW op \in Answers, NEW f \in BOOLEAN, NEW l,
           l = Append(loads, [op |-> op, fits |-> f])
    PROVE  /\ Len(l) = Len(loads) + 1 /\ Len(loads) \in Nat
           /\ DOMAIN l = 1..Len(l)
           /\ l[Len(loads) + 1].op = op /\ l[Len(loads) + 1].fits = f
<1> DEFINE S == [op : Answers, fits : BOOLEAN]
           r == [op |-> op, fits |-> f]
<1>1. loads \in Seq(S) /\ r \in S /\ r.op = op /\ r.fits = f
    BY DEF TypeOK
<1> HIDE DEF S, r
<1>2. l = Append(loads, r)
    BY DEF r
<1>3. l \in Seq(S) /\ Len(l) = Len(loads) + 1 /\ l[Len(loads) + 1] = r
    BY <1>1, <1>2
<1> QED
    BY <1>1, <1>3

\* As loads and answers go on, a recent cell stays recent, for every earlier mark.
LEMMA RecentGrows ==
    ASSUME TypeOK, [Next]_vars
    PROVE  \A v, b : \A lo, k \in 0..Len(loads) :
               Recent(v, lo, b) /\ k <= lo => Recent(v, k, b) /\ Recent(v, k, b)'
<1> SUFFICES ASSUME NEW v, NEW b, NEW lo \in 0..Len(loads),
                    NEW k \in 0..Len(loads), Recent(v, lo, b), k <= lo
             PROVE  Recent(v, k, b) /\ Recent(v, k, b)'
    OBVIOUS
<1>1. /\ Len(loads) \in Nat /\ Len(loads') \in Nat
      /\ Len(loads) <= Len(loads')
      /\ \A j \in 1..Len(loads) : loads'[j] = loads[j]
    BY HistoryGrows
<1>2. DOMAIN loads = 1..Len(loads) /\ DOMAIN loads' = 1..Len(loads')
  <2>1. loads \in Seq([op : Answers, fits : BOOLEAN])
        /\ \/ loads' = loads
           \/ \E op \in Answers, f \in BOOLEAN :
                  loads' = Append(loads, [op |-> op, fits |-> f])
      BY Writers DEF TypeOK, RxParse, RxLoad1, RxLoad2
  <2>2. DOMAIN loads = 1..Len(loads)
      BY <2>1
  <2> QED BY <2>1, <2>2, LoadsAppend
<1>3. \A j : j \in DOMAIN loads => j \in DOMAIN loads' /\ loads'[j] = loads[j]
    BY <1>1, <1>2
<1>4. CASE v < 0 /\ -v \in DOMAIN loads /\ -v >= lo /\ loads[-v].op = b
           /\ loads[-v].fits
  <2>1. -v >= k
      BY <1>1, <1>2, <1>4
  <2>2. -v \in DOMAIN loads' /\ loads'[-v] = loads[-v]
      BY <1>3, <1>4
  <2> QED BY <1>4, <2>1, <2>2 DEF Recent
<1>5. CASE v = 0 /\ lo = 0
    BY <1>5 DEF Recent
<1>6. CASE v = 0 /\ \E j \in DOMAIN loads :
           j >= lo /\ loads[j].op = b /\ ~loads[j].fits
  <2>1. PICK j \in DOMAIN loads : j >= lo /\ loads[j].op = b /\ ~loads[j].fits
      BY <1>6
  <2>2. j >= k /\ j \in DOMAIN loads' /\ loads'[j] = loads[j]
      BY <1>1, <1>2, <1>3, <2>1
  <2> QED BY <1>6, <2>1, <2>2 DEF Recent
<1> QED
    BY <1>4, <1>5, <1>6 DEF Recent

\* The answer being loaded is the most recent one.
LEMMA LoadedIsRecent ==
    ASSUME TypeOK, LoadingLast, rxPc # "recv"
    PROVE  Recent(rxVal, Len(loads), rxOp)
<1> DEFINE l == Len(loads)
<1>1. l \in DOMAIN loads /\ l >= l /\ l \in Nat \ {0}
  <2>1. loads \in Seq([op : Answers, fits : BOOLEAN]) /\ loads # <<>>
      BY DEF TypeOK, LoadingLast
  <2>2. l \in Nat \ {0} /\ DOMAIN loads = 1..l
      BY <2>1
  <2> QED BY <2>2
<1>2. loads[l].op = rxOp
    BY DEF LoadingLast
<1>3. CASE loads[l].fits
  <2>1. rxVal = -l /\ -rxVal = l /\ rxVal < 0
      BY <1>1, <1>3 DEF LoadingLast, Words
  <2> QED BY <1>1, <1>2, <1>3, <2>1 DEF Recent
<1>4. CASE ~loads[l].fits
  <2>1. rxVal = 0
      BY <1>4 DEF LoadingLast, Words
  <2> QED BY <1>1, <1>2, <1>4, <2>1 DEF Recent
<1> QED
    BY <1>3, <1>4

\* load_datablk keeps loading the last answer.
LEMMA LoadingLastStep == TypeOK /\ LoadingLast /\ [Next]_vars => LoadingLast'
<1> SUFFICES ASSUME TypeOK, LoadingLast, [Next]_vars
             PROVE  LoadingLast'
    OBVIOUS
<1> USE DEF LoadingLast, TypeOK
<1>1. ASSUME NEW op \in Answers, NEW f \in BOOLEAN, RxParse(op, f)
      PROVE  LoadingLast'
  <2>1. /\ loads \in Seq([op : Answers, fits : BOOLEAN])
        /\ loads' = Append(loads, [op |-> op, fits |-> f])
      BY <1>1 DEF RxParse
  <2>2. /\ Len(loads') = Len(loads) + 1 /\ Len(loads) \in Nat
        /\ loads'[Len(loads) + 1].op = op /\ loads'[Len(loads) + 1].fits = f
        /\ loads' # <<>>
      BY <2>1, LoadsAppend
  <2>3. /\ rxOp' = op /\ rxVal' = Words(Len(loads) + 1, f) /\ loaded' = loaded
      BY <1>1 DEF RxParse, history
  <2>4. \A b \in Blocks : loaded'[b] <= Len(loads')
      BY <2>2, <2>3
  <2>5. /\ rxOp' = loads'[Len(loads')].op
        /\ rxVal' = Words(Len(loads'), loads'[Len(loads')].fits)
      BY <2>2, <2>3
  <2> QED BY <2>2, <2>4, <2>5 DEF Words
<1>2. CASE RxLoad1
    BY <1>2 DEF RxLoad1, history
<1>3. CASE RxLoad2
    BY <1>3 DEF RxLoad2
<1>4. CASE UNCHANGED <<rxPc, rxOp, rxVal, loads, loaded>>
    BY <1>4
<1> QED
    BY <1>1, <1>2, <1>3, <1>4, Writers

\* The blocks of answers stay recent: only load_datablk writes them.
LEMMA BlocksRecentStep ==
    TypeOK /\ LoadingLast /\ BlocksRecent /\ [Next]_vars => BlocksRecent'
<1> SUFFICES ASSUME TypeOK, LoadingLast, BlocksRecent, [Next]_vars,
                    NEW b \in Blocks \ ReceiveBlocks
             PROVE  /\ Recent(blk[b][1], loaded[b], b)'
                    /\ Recent(blk[b][2], loaded[b], b)'
                    /\ rxPc' = "load2" /\ rxOp' = b =>
                          Recent(blk[b][1], Len(loads), b)'
    BY DEF BlocksRecent
<1>1. /\ loaded[b] \in 0..Len(loads) /\ Len(loads) \in 0..Len(loads)
      /\ blk \in [Blocks -> Cells] /\ loaded \in [Blocks -> 0..MaxLoads]
    BY DEF LoadingLast, TypeOK
<1>2. \A v : \A lo, k \in 0..Len(loads) :
          Recent(v, lo, b) /\ k <= lo => Recent(v, k, b) /\ Recent(v, k, b)'
    BY RecentGrows
<1>3. /\ Recent(blk[b][1], loaded[b], b) /\ Recent(blk[b][2], loaded[b], b)
      /\ rxPc = "load2" /\ rxOp = b => Recent(blk[b][1], Len(loads), b)
    BY DEF BlocksRecent
<1>4. \/ \E c \in Commands, e \in BOOLEAN : FwBegin(c, e)
      \/ FwCell2 \/ RxLoad1 \/ RxLoad2 \/ UNCHANGED blk
    BY Writers
<1>5. ASSUME NEW c \in Commands, NEW e \in BOOLEAN, FwBegin(c, e)
      PROVE  blk'[b] = blk[b] /\ UNCHANGED <<rxPc, rxOp, loads, loaded>>
  <2>1. c.dir = RECEIVE => Get_Blknum(c) # b
      BY DEF ReceiveBlocks
  <2> QED BY <1>1, <1>5, <2>1 DEF FwBegin, rxLocal, history
<1>6. ASSUME FwCell2
      PROVE  blk'[b] = blk[b] /\ UNCHANGED <<rxPc, rxOp, loads, loaded>>
  <2> DEFINE l == Len(bus)
  <2>1. bus[l].cmd \in Commands /\ BlockOf(l) = Get_Blknum(bus[l].cmd)
      BY <1>6, BusNotEmpty, BusElement DEF FwCell2, BlockOf
  <2>2. bus[l].cmd.dir = RECEIVE => BlockOf(l) # b
      BY <2>1 DEF ReceiveBlocks
  <2>3. \/ blk' = blk
        \/ bus[l].cmd.dir = RECEIVE /\ blk' = [blk EXCEPT ![BlockOf(l)][2] = l]
      BY <1>6 DEF FwCell2
  <2>4. blk'[b] = blk[b]
      BY <1>1, <2>2, <2>3
  <2> QED BY <1>6, <2>4 DEF FwCell2, rxLocal, history
<1>7. CASE RxLoad1
  <2>1. /\ UNCHANGED <<rxOp, loads, loaded>> /\ rxPc = "load1"
        /\ blk' = [blk EXCEPT ![rxOp][1] = rxVal]
      BY <1>7 DEF RxLoad1, history
  <2>2. CASE rxOp = b
    <3>1. blk'[b][1] = rxVal /\ blk'[b][2] = blk[b][2]
        BY <1>1, <2>1, <2>2 DEF Cells
    <3>2. Recent(rxVal, Len(loads), b)
        BY <2>1, <2>2, LoadedIsRecent
    <3>3. Recent(rxVal, loaded[b], b)
        BY <1>1, <1>2, <3>2
    <3>4. /\ blk'[b][1] = rxVal /\ blk'[b][2] = blk[b][2] /\ loads' = loads
          /\ loaded'[b] = loaded[b]
        BY <2>1, <3>1
    <3> QED BY <1>3, <3>2, <3>3, <3>4 DEF Recent
  <2>3. CASE rxOp # b
    <3>1. blk'[b] = blk[b]
        BY <1>1, <2>1, <2>3
    <3> QED BY <1>3, <2>1, <2>3, <3>1 DEF Recent
  <2> QED BY <2>2, <2>3
<1>8. CASE RxLoad2
  <2>1. /\ UNCHANGED <<rxOp, loads>> /\ rxPc = "load2" /\ rxPc' = "recv"
        /\ blk' = [blk EXCEPT ![rxOp][2] = rxVal]
        /\ loaded' = [loaded EXCEPT ![rxOp] = Len(loads)]
      BY <1>8 DEF RxLoad2
  <2>2. CASE rxOp = b
    <3>1. /\ blk'[b][2] = rxVal /\ blk'[b][1] = blk[b][1]
          /\ loaded'[b] = Len(loads)
        BY <1>1, <2>1, <2>2 DEF Cells
    <3>2. Recent(rxVal, Len(loads), b) /\ Recent(blk[b][1], Len(loads), b)
        BY <1>3, <2>1, <2>2, LoadedIsRecent
    <3> QED BY <2>1, <3>1, <3>2 DEF Recent
  <2>3. CASE rxOp # b
    <3>1. blk'[b] = blk[b] /\ loaded'[b] = loaded[b]
        BY <1>1, <2>1, <2>3
    <3> QED BY <1>3, <2>1, <2>3, <3>1 DEF Recent
  <2> QED BY <2>2, <2>3
<1>9. ASSUME blk'[b] = blk[b], loaded' = loaded,
             rxPc' = "load2" => UNCHANGED <<rxPc, rxOp, loads>>
      PROVE  /\ Recent(blk[b][1], loaded[b], b)'
             /\ Recent(blk[b][2], loaded[b], b)'
             /\ rxPc' = "load2" /\ rxOp' = b => Recent(blk[b][1], Len(loads), b)'
  <2>1. PICK v, w : v = blk[b][1] /\ w = blk[b][2]
      OBVIOUS
  <2>2. PICK lo \in 0..Len(loads) : lo = loaded[b]
      BY <1>1
  <2>3. Recent(v, lo, b)' /\ Recent(w, lo, b)'
      BY <1>2, <1>3, <2>1, <2>2
  <2>4. rxPc' = "load2" /\ rxOp' = b => Recent(v, Len(loads), b)'
    <3>1. PICK l \in 0..Len(loads) : l = Len(loads)
        BY <1>1
    <3> QED BY <1>2, <1>3, <1>9, <2>1, <3>1
  <2> QED BY <1>9, <2>1, <2>2, <2>3, <2>4
<1>10. ASSUME UNCHANGED blk, ~RxLoad1, ~RxLoad2
       PROVE  loaded' = loaded /\ (rxPc' = "load2" => UNCHANGED <<rxPc, rxOp, loads>>)
    BY <1>10, Writers DEF RxParse, history
<1> QED
    BY <1>4, <1>5, <1>6, <1>7, <1>8, <1>9, <1>10

\* A later answer is never replaced by an earlier one as the last complete one.
LEMMA LoadedGrows ==
    ASSUME TypeOK, LoadingLast, [Next]_vars, NEW b \in Blocks
    PROVE  loaded[b] <= loaded'[b]
<1>1. \/ RxLoad2 \/ loaded' = loaded
    BY Writers DEF RxParse, RxLoad1, history
<1>2. RxLoad2 => loaded' = [loaded EXCEPT ![rxOp] = Len(loads)]
    BY DEF RxLoad2
<1>3. loaded \in [Blocks -> 0..MaxLoads] /\ loaded[b] <= Len(loads)
    BY DEF TypeOK, LoadingLast
<1> QED
    BY <1>1, <1>2, <1>3

\* The reply being put together stays as recent as its command asks for.
LEMMA ReplyRecentStep ==
    TypeOK /\ LoadingLast /\ BlocksRecent /\ ReplyRecent /\ [Next]_vars
    => ReplyRecent'
<1> SUFFICES ASSUME TypeOK, LoadingLast, BlocksRecent, ReplyRecent, [Next]_vars,
                    fwPc' \in {"cell2", "entry"},
                    bus'[Len(bus')].cmd.dir = TRANSMIT,
                    BlockOf(Len(bus))' \notin ReceiveBlocks
             PROVE  /\ fwFloor' <= loaded'[BlockOf(Len(bus))']
                    /\ Recent(fwCells[1], fwFloor, BlockOf(Len(bus)))'
                    /\ fwPc' = "entry" /\ ~bus'[Len(bus')].err =>
                          Recent(fwCells[2], fwFloor, BlockOf(Len(bus)))'
    BY DEF ReplyRecent
<1>1. \A v, b : \A lo, k \in 0..Len(loads) :
          Recent(v, lo, b) /\ k <= lo => Recent(v, k, b) /\ Recent(v, k, b)'
    BY RecentGrows
<1>2. ASSUME NEW c \in Commands, NEW e \in BOOLEAN, FwBegin(c, e)
      PROVE  /\ fwFloor' <= loaded'[BlockOf(Len(bus))']
             /\ Recent(fwCells[1], fwFloor, BlockOf(Len(bus)))'
             /\ fwPc' # "entry"
  <2>1. bus'[Len(bus')].cmd = c
      BY <1>2 DEF FwBegin, TypeOK
  <2>2. PICK b \in Blocks \ ReceiveBlocks : b = Get_Blknum(c)
      BY <2>1, BlockInUse DEF BlockOf
  <2>3. BlockOf(Len(bus))' = b /\ c.dir # RECEIVE
      BY <2>1, <2>2 DEF BlockOf, RECEIVE, TRANSMIT
  <2>4. /\ fwFloor' = loaded[b] /\ UNCHANGED <<loads, loaded>>
        /\ fwCells'[1] = blk[b][1] /\ fwPc' = "cell2"
      BY <1>2, <2>2, <2>3 DEF FwBegin, Cleared, rxLocal, history
  <2>5. Recent(blk[b][1], loaded[b], b) /\ loaded[b] \in 0..MaxLoads
      BY DEF BlocksRecent, TypeOK
  <2>6. Recent(fwCells[1], fwFloor, b)'
      BY <2>4, <2>5 DEF Recent
  <2> QED BY <2>3, <2>4, <2>5, <2>6
<1>3. ASSUME UNCHANGED bus, fwPc \in {"cell2", "entry"}
      PROVE  \E b \in Blocks \ ReceiveBlocks :
                 /\ b = BlockOf(Len(bus)) /\ b = BlockOf(Len(bus))'
                 /\ fwFloor \in 0..Len(loads) /\ loaded[b] \in 0..Len(loads)
                 /\ fwFloor <= loaded[b]
                 /\ Recent(fwCells[1], fwFloor, b)
                 /\ fwPc = "entry" /\ ~bus[Len(bus)].err =>
                       Recent(fwCells[2], fwFloor, b)
  <2>1. BlockOf(Len(bus))' = BlockOf(Len(bus))
      BY <1>3 DEF BlockOf
  <2>2. BlockOf(Len(bus)) \in Blocks \ ReceiveBlocks
      BY <1>3, <2>1, BusNotEmpty, BusElement
  <2>3. PICK b \in Blocks \ ReceiveBlocks : b = BlockOf(Len(bus))
      BY <2>2
  <2>4. /\ fwFloor <= loaded[b] /\ Recent(fwCells[1], fwFloor, b)
        /\ fwPc = "entry" /\ ~bus[Len(bus)].err => Recent(fwCells[2], fwFloor, b)
      BY <1>3, <2>3 DEF ReplyRecent
  <2>5. fwFloor \in 0..Len(loads) /\ loaded[b] \in 0..Len(loads)
      BY <2>4 DEF LoadingLast, TypeOK
  <2> QED BY <2>1, <2>3, <2>4, <2>5
<1>4. CASE FwCell2
  <2>1. /\ UNCHANGED <<bus, loads, loaded, fwFloor>> /\ fwPc = "cell2"
        /\ fwPc' = "entry"
      BY <1>4 DEF FwCell2, rxLocal, history
  <2>2. PICK b \in Blocks \ ReceiveBlocks :
                 /\ b = BlockOf(Len(bus)) /\ b = BlockOf(Len(bus))'
                 /\ fwFloor \in 0..Len(loads) /\ loaded[b] \in 0..Len(loads)
                 /\ fwFloor <= loaded[b]
                 /\ Recent(fwCells[1], fwFloor, b)
      BY <1>3, <2>1
  <2>3. bus[Len(bus)].cmd.dir # RECEIVE
      BY <2>1 DEF RECEIVE, TRANSMIT
  <2>4. /\ fwCells'[1] = fwCells[1]
        /\ ~bus[Len(bus)].err => fwCells'[2] = blk[b][2]
    <3>1. \/ fwCells' = [fwCells EXCEPT ![2] = blk[b][2]]
          \/ bus[Len(bus)].err /\ fwCells' = fwCells
        BY <1>4, <2>2, <2>3 DEF FwCell2
    <3>2. fwCells \in Cells
        BY DEF TypeOK
    <3> QED BY <3>1, <3>2 DEF Cells
  <2>5. Recent(blk[b][2], loaded[b], b)
      BY DEF BlocksRecent
  <2>6. Recent(blk[b][2], fwFloor, b)
      BY <1>1, <2>2, <2>5
  <2>7. Recent(fwCells[1], fwFloor, b)'
      BY <2>1, <2>2, <2>4 DEF Recent
  <2>8. ~bus[Len(bus)].err => Recent(fwCells[2], fwFloor, b)'
      BY <2>1, <2>4, <2>6 DEF Recent
  <2> QED BY <2>1, <2>2, <2>7, <2>8
<1>5. CASE FwEntry \/ FwFlag
    BY <1>5 DEF FwEntry, FwFlag
<1>6. CASE UNCHANGED <<bus, fwPc, fwFloor, fwCells, got>>
  <2>1. PICK b \in Blocks \ ReceiveBlocks :
                 /\ b = BlockOf(Len(bus)) /\ b = BlockOf(Len(bus))'
                 /\ fwFloor \in 0..Len(loads) /\ loaded[b] \in 0..Len(loads)
                 /\ fwFloor <= loaded[b]
                 /\ Recent(fwCells[1], fwFloor, b)
                 /\ fwPc = "entry" /\ ~bus[Len(bus)].err =>
                       Recent(fwCells[2], fwFloor, b)
      BY <1>3, <1>6
  <2>2. PICK v, w : v = fwCells[1] /\ w = fwCells[2]
      OBVIOUS
  <2>3. PICK k \in 0..Len(loads) : k = fwFloor
      BY <2>1
  <2>4. /\ Recent(v, k, b)'
        /\ fwPc = "entry" /\ ~bus[Len(bus)].err => Recent(w, k, b)'
      BY <1>1, <2>1, <2>2, <2>3
  <2>5. loaded'[b] \in Nat /\ loaded[b] <= loaded'[b]
    <3>1. loaded' \in [Blocks -> 0..MaxLoads]
      <4>1. RxLoad2 \/ loaded' = loaded
          BY Writers DEF RxParse, RxLoad1, history
      <4>2. RxLoad2 => loaded' = [loaded EXCEPT ![rxOp] = Len(loads)]
          BY DEF RxLoad2
      <4>3. /\ loaded \in [Blocks -> 0..MaxLoads]
            /\ Len(loads) \in 0..MaxLoads
          BY DEF TypeOK
      <4> QED BY <4>1, <4>2, <4>3
    <3> QED BY <3>1, LoadedGrows
  <2>6. fwFloor' <= loaded'[b]
      BY <1>6, <2>1, <2>5
  <2> QED BY <1>6, <2>1, <2>2, <2>3, <2>4, <2>6
<1> QED
    BY <1>2, <1>4, <1>5, <1>6, Writers

\* What the platform has retrieved stays regular, and so is a new reply.
LEMMA AnswerStep ==
    TypeOK /\ AnswerInv /\ [Next]_vars
    => /\ AnswerRegular'
       /\ (\A g \in got :
              /\ g.n \in 1..Len(bus)
              /\ BlockOf(g.n) \notin ReceiveBlocks => g.floor \in 0..Len(loads))'
<1> SUFFICES ASSUME TypeOK, AnswerInv, [Next]_vars, NEW g \in got'
             PROVE  /\ g.n \in 1..Len(bus')
                    /\ BlockOf(g.n)' \notin ReceiveBlocks =>
                         /\ g.floor \in 0..Len(loads')
                         /\ \A i \in {1, 2} :
                               Recent(g.cells[i], g.floor, BlockOf(g.n))'
    BY DEF AnswerRegular, BlockOf
<1>1. /\ Len(bus) \in Nat /\ Len(bus') \in Nat /\ Len(bus) <= Len(bus')
      /\ \A n \in 1..Len(bus) : BlockOf(n)' = BlockOf(n)
      /\ Len(loads) \in Nat /\ Len(loads') \in Nat /\ Len(loads) <= Len(loads')
    BY HistoryGrows
<1>2. CASE g \in got
  <2>1. g.n \in 1..Len(bus) /\ g.n \in 1..Len(bus')
        /\ BlockOf(g.n)' = BlockOf(g.n)
      BY <1>1, <1>2 DEF AnswerInv
  <2>2. ASSUME BlockOf(g.n) \notin ReceiveBlocks, NEW i \in {1, 2}
        PROVE  /\ g.floor \in 0..Len(loads)
               /\ Recent(g.cells[i], g.floor, BlockOf(g.n))'
    <3>1. g.floor \in 0..Len(loads) /\ Recent(g.cells[i], g.floor, BlockOf(g.n))
        BY <1>2, <2>2 DEF AnswerInv, AnswerRegular
    <3>2. PICK b : b = BlockOf(g.n)
        OBVIOUS
    <3>3. Recent(g.cells[i], g.floor, b)'
        BY <3>1, <3>2, RecentGrows
    <3> QED BY <2>1, <3>1, <3>2, <3>3
  <2> QED BY <1>1, <2>1, <2>2
<1>3. CASE g \notin got
  <2>1. FwEntry
      BY <1>3, Writers DEF FwBegin, FwCell2, FwFlag, history
  <2>2. /\ fwPc = "entry" /\ UNCHANGED <<bus, loads>>
        /\ g = [n |-> Len(bus), cells |-> fwCells, floor |-> fwFloor]
        /\ bus[Len(bus)].cmd.dir = TRANSMIT /\ ~bus[Len(bus)].err
      BY <1>3, <2>1 DEF FwEntry, rxLocal
  <2>3. g.n \in 1..Len(bus') /\ BlockOf(g.n)' = BlockOf(g.n)
      BY <2>2, BusNotEmpty DEF BlockOf
  <2>4. ASSUME BlockOf(g.n) \notin ReceiveBlocks
        PROVE  /\ g.floor \in 0..Len(loads')
               /\ \A i \in {1, 2} : Recent(g.cells[i], g.floor, BlockOf(g.n))
    <3>1. /\ fwFloor <= loaded[BlockOf(g.n)]
          /\ Recent(fwCells[1], fwFloor, BlockOf(g.n))
          /\ Recent(fwCells[2], fwFloor, BlockOf(g.n))
        BY <2>2, <2>4 DEF AnswerInv, ReplyRecent
    <3>2. PICK b \in Blocks : b = BlockOf(g.n)
        BY <2>2, <2>3, BusElement
    <3>3. loaded[b] \in 0..Len(loads) /\ fwFloor \in Nat
        BY DEF AnswerInv, LoadingLast, TypeOK
    <3> QED BY <2>2, <3>1, <3>2, <3>3
  <2>5. loads' = loads
      BY <2>2
  <2> QED BY <2>3, <2>4, <2>5 DEF Recent
<1> QED
    BY <1>2, <1>3

\* Every part of the two invariants holds at the start and is kept.
LEMMA DataStep ==
    /\ Init => PayloadInv /\ AnswerInv
    /\ TypeOK /\ StackInv /\ PayloadInv /\ AnswerInv /\ [Next]_vars
       => PayloadInv' /\ AnswerInv'
<1>1. ASSUME Init
      PROVE  PayloadInv
    BY <1>1 DEF Init, PayloadInv, EntriesTrue, BlocksFollowBus, CopyFollowsBus,
                PayloadRegular, NoEntry
<1>2. ASSUME Init
      PROVE  AnswerInv
  <2>1. \A b \in Blocks : loaded[b] = 0 /\ blk[b][1] = 0 /\ blk[b][2] = 0
      BY <1>2 DEF Init, Cleared
  <2>2. rxPc = "recv" /\ fwPc = "idle" /\ got = {} /\ loads = <<>>
      BY <1>2 DEF Init
  <2>3. LoadingLast /\ BlocksRecent
      BY <2>1, <2>2 DEF LoadingLast, BlocksRecent, Recent
  <2> QED BY <2>2, <2>3 DEF AnswerInv, ReplyRecent, AnswerRegular
<1>3. ASSUME TypeOK, StackInv, PayloadInv, [Next]_vars
      PROVE  PayloadInv'
  <2>1. EntriesTrue' /\ BlocksFollowBus' /\ CopyFollowsBus'
      BY <1>3, EntriesTrueStep, BlocksFollowBusStep, CopyStep
      DEF StackInv, PayloadInv
  <2> QED BY <1>3, <2>1, PayloadStep DEF StackInv, PayloadInv
<1>4. ASSUME TypeOK, AnswerInv, [Next]_vars
      PROVE  AnswerInv'
  <2>1. LoadingLast' /\ BlocksRecent' /\ ReplyRecent'
      BY <1>4, LoadingLastStep, BlocksRecentStep, ReplyRecentStep DEF AnswerInv
  <2> QED BY <1>4, <2>1, AnswerStep DEF AnswerInv
<1> QED
    BY <1>1, <1>2, <1>3, <1>4

\* In both directions the data that arrive belong to the message that announces
\* them: what rt_1553_thread forwards is the message's own data or later data of
\* its command, and what the platform retrieves is at least as recent as the last
\* answer load_datablk had completed when the command arrived, although blocks are
\* read and written word by word without a lock.
THEOREM DataIsRegular == Spec => []DataRegular
<1>1. Init => PayloadInv /\ AnswerInv
    BY DataStep
<1>2. TypeOK /\ StackInv /\ PayloadInv /\ AnswerInv /\ [Next]_vars
      => PayloadInv' /\ AnswerInv'
    BY DataStep
<1>3. PayloadInv /\ AnswerInv => DataRegular
    BY DEF PayloadInv, AnswerInv, DataRegular
<1> QED
    BY <1>1, <1>2, <1>3, StackInvariant, PTL DEF Spec
=============================================================================

------------------------------- MODULE IcuRt -------------------------------
(***************************************************************************)
(* The remote-terminal side of the ICU bridge while it runs:               *)
(*   - the dual-port RAM of the 1553 module in RT mode: the message stack, *)
(*     the msg_status byte and the data blocks (src/lib/rtset.c);          *)
(*   - the module's firmware, which serves the bus and writes that RAM     *)
(*     (external: modelled from how rtset.c reads it);                     *)
(*   - rt_1553_thread, which polls msg_status, takes one stack entry per   *)
(*     raised flag and forwards its data block over UDP                    *)
(*     (src/src/icu/mil_std_1553.c, handle_received_data of client.c);     *)
(*   - the network receive thread, whose parse_buffer loads IRST's answers *)
(*     into data blocks through load_datablk.                              *)
(*                                                                         *)
(* The four run concurrently without a lock.  Every access to the shared   *)
(* RAM is a step of its own; a data block is two cells, the least number   *)
(* that lets a block be read while it is half written.                     *)
(*                                                                         *)
(* A cell holds n > 0 for data of the n-th message on the bus, -k for the  *)
(* payload of the k-th answer loaded from IRST, and 0 for cleared words.   *)
(***************************************************************************)
EXTENDS Integers, Sequences, FiniteSets

CONSTANTS
    StackSize,   \* RT_MSG_ENTRIES, 512 in flags_px.h
    Commands,    \* commands the bus controller issues to this RT
    ClearedSlots,\* slots of the stack that Run_RT_Px clears: 256, on an AMD 0
    GetCommands, \* config.ini's get_command sections, in order
    LargestBlock,\* Validate_Block_Number's: 199 before firmware 2.13, else 255
    Answers,     \* opcodes of the datagrams IRST sends
    MaxMsgs,     \* bound on the messages on the bus
    MaxLoads     \* bound on the answers loaded

RECEIVE == "RECEIVE"
TRANSMIT == "TRANSMIT"

SubAddresses == 0..31
BROADCAST_BLOCK_BASE == 40
BlockNumbers == 0..LargestBlock

\* A command word as Parse_CommandWord_Px splits it; bcast: addressed to RT 31.
CommandWords == [dir : {RECEIVE, TRANSMIT}, sa : SubAddresses, bcast : BOOLEAN]

ASSUME StackSizeAssumption == StackSize \in Nat \ {0}
ASSUME ClearedSlotsAssumption == ClearedSlots \in 0..StackSize
ASSUME CommandsAssumption == Commands \subseteq CommandWords
ASSUME LargestBlockAssumption == LargestBlock \in {199, 255}
ASSUME GetCommandsAssumption == GetCommands \in Seq([op : 0..255, sub : 0..255])
\* Load_Datablk_Px refuses the others and loads nothing.
ASSUME AnswersAssumption == Answers \subseteq BlockNumbers
ASSUME BoundsAssumption == MaxMsgs \in Nat /\ MaxLoads \in Nat

VARIABLES
    bus,            \* the messages the firmware has begun to serve, in order
    fwPc, fwFloor,  \* firmware: step of the current message; see FwBegin
    fwCells,        \* data the firmware has read for a TRANSMIT command
    fwNext,         \* slot of the stack the firmware writes next
    stack,          \* the message stack: slot |-> entry
    msg_status,     \* the "message received" byte
    blk,            \* the data blocks
    next_rt_entry,  \* cardpx[handle].next_rt_entry
    running,        \* the board's start register
    rtPc, rtEntry, rtCells,  \* rt_1553_thread: step, localMsgStack, msgdata
    seq,            \* msg_seq_counter of handle_received_data
    rxPc, rxOp, rxVal,       \* receive thread inside load_datablk
    loads,          \* the answers given to load_datablk, in order
    isThreadRun, stop_flag,
    taken,          \* history: the messages taken off the stack, in order
    lapped,         \* history: an unread entry has been overwritten
    sent,           \* history: the datagrams sent to IRST
    got,            \* history: the data the platform retrieved
    loaded          \* history: the last answer completely loaded, per block

board == <<fwPc, fwFloor, fwCells, fwNext>>
rtLocal == <<rtPc, rtEntry, rtCells>>
rxLocal == <<rxPc, rxOp, rxVal, loads>>
history == <<taken, lapped, sent, got, loaded>>
vars == <<bus, board, stack, msg_status, blk, next_rt_entry, running, rtLocal,
          seq, rxLocal, isThreadRun, stop_flag, history>>

-----------------------------------------------------------------------------
(* Tables of the board. *)

Slots == 0..(StackSize - 1)

\* next_rt_entry % RT_MSG_ENTRIES; the counter never exceeds RT_MSG_ENTRIES.
Wrap(i) == IF i = StackSize THEN 0 ELSE i

\* rtid in the second assignment loop of rt_1553_thread: RT_Id_Px refuses an
\* op_code above 31 and leaves rtid as the last call made it.
RtId(i) ==
    LET made == {j \in 1..i : GetCommands[j].op \in SubAddresses}
    IN  IF made = {} THEN [dir |-> RECEIVE, sa |-> 31, bcast |-> FALSE]
        ELSE [dir |-> TRANSMIT, bcast |-> FALSE,
              sa |-> GetCommands[CHOOSE j \in made : \A k \in made : k <= j].op]

\* The sections whose op_code is assigned to c as a block number.
Assigned(c) == {i \in DOMAIN GetCommands :
                   RtId(i) = c /\ GetCommands[i].op <= LargestBlock}

\* blk_lookup after the three assignment loops, with block 0 for every
\* identifier that has not been assigned.
Get_Blknum(c) ==
    IF Assigned(c) # {}
    THEN GetCommands[CHOOSE i \in Assigned(c) : \A k \in Assigned(c) : k <= i].op
    ELSE IF c.dir = TRANSMIT THEN 0
    ELSE IF c.bcast THEN BROADCAST_BLOCK_BASE + c.sa ELSE c.sa

\* The blocks the commands and the answers touch; the others keep their zeros.
Blocks == {Get_Blknum(c) : c \in Commands} \cup Answers

\* A message on the bus: its command, and whether the module will report an error.
Messages == [cmd : Commands, err : BOOLEAN]

Entries == [n : 0..MaxMsgs, eom : BOOLEAN, read : BOOLEAN, err : BOOLEAN]
NoEntry == [n |-> 0, eom |-> FALSE, read |-> FALSE, err |-> FALSE]
Cleared == [i \in {1, 2} |-> 0]
Cells == [{1, 2} -> (-MaxLoads)..MaxMsgs]

BlockOf(n) == Get_Blknum(bus[n].cmd)

\* The loop body leaves a message with an error bit (rt_has_error) or a TRANSMIT
\* command alone.
Ignored(e) == e.err \/ bus[e.n].cmd.dir = TRANSMIT

-----------------------------------------------------------------------------
Init ==
    /\ bus = <<>>
    /\ fwPc = "idle" /\ fwFloor = 0 /\ fwCells = Cleared /\ fwNext = 0
    /\ stack = [s \in Slots |-> NoEntry]
    /\ msg_status = 0
    /\ blk = [b \in Blocks |-> Cleared]
    /\ next_rt_entry = 0
    /\ running = FALSE
    /\ rtPc = "setup" /\ rtEntry = NoEntry /\ rtCells = Cleared
    /\ seq = 1
    /\ rxPc = "recv" /\ rxOp = 0 /\ rxVal = 0 /\ loads = <<>>
    /\ isThreadRun = FALSE /\ stop_flag = FALSE
    /\ taken = <<>> /\ lapped = FALSE /\ sent = {} /\ got = {}
    /\ loaded = [b \in Blocks |-> 0]

-----------------------------------------------------------------------------
(* Firmware (external).  It serves one message at a time: moves the data,  *)
(* then writes the stack entry with END_OF_MSG, then raises msg_status.    *)

\* A command arrives and its first cell is moved.  err: the module will report
\* a bus error for it.  fwFloor records the last answer already complete.
FwBegin(c, err) ==
    /\ running /\ fwPc = "idle" /\ Len(bus) < MaxMsgs
    /\ bus' = Append(bus, [cmd |-> c, err |-> err])
    /\ fwPc' = "cell2"
    /\ fwFloor' = loaded[Get_Blknum(c)]
    /\ IF c.dir = RECEIVE
       THEN /\ blk' = [blk EXCEPT ![Get_Blknum(c)][1] = Len(bus) + 1]
            /\ fwCells' = Cleared
       ELSE /\ fwCells' = [Cleared EXCEPT ![1] = blk[Get_Blknum(c)][1]]
            /\ UNCHANGED blk
    /\ UNCHANGED <<fwNext, stack, msg_status, next_rt_entry, running, rtLocal,
                   seq, rxLocal, isThreadRun, stop_flag, history>>

\* The second cell; a message cut short by an error may not bring it.
FwCell2 ==
    /\ fwPc = "cell2"
    /\ fwPc' = "entry"
    /\ LET n == Len(bus)
           b == BlockOf(n)
       IN  \/ /\ bus[n].cmd.dir = RECEIVE
              /\ blk' = [blk EXCEPT ![b][2] = n]
              /\ UNCHANGED fwCells
           \/ /\ bus[n].cmd.dir = TRANSMIT
              /\ fwCells' = [fwCells EXCEPT ![2] = blk[b][2]]
              /\ UNCHANGED blk
           \/ bus[n].err /\ UNCHANGED <<blk, fwCells>>
    /\ UNCHANGED <<bus, fwFloor, fwNext, stack, msg_status, next_rt_entry,
                   running, rtLocal, seq, rxLocal, isThreadRun, stop_flag,
                   history>>

\* The entry is written with END_OF_MSG; an intact TRANSMIT answer has reached
\* the platform by now.
FwEntry ==
    /\ fwPc = "entry"
    /\ fwPc' = "flag"
    /\ stack' = [stack EXCEPT ![fwNext] =
           [n |-> Len(bus), eom |-> TRUE, read |-> FALSE,
            err |-> bus[Len(bus)].err]]
    /\ fwNext' = Wrap(fwNext + 1)
    /\ lapped' = (lapped \/ (stack[fwNext].eom /\ ~stack[fwNext].read))
    /\ got' = IF bus[Len(bus)].cmd.dir = TRANSMIT /\ ~bus[Len(bus)].err
              THEN got \cup {[n |-> Len(bus), cells |-> fwCells,
                              floor |-> fwFloor]}
              ELSE got
    /\ UNCHANGED <<bus, fwFloor, fwCells, msg_status, blk, next_rt_entry,
                   running, rtLocal, seq, rxLocal, isThreadRun, stop_flag,
                   taken, sent, loaded>>

FwFlag ==
    /\ fwPc = "flag"
    /\ fwPc' = "idle"
    /\ msg_status' = 1
    /\ UNCHANGED <<bus, fwFloor, fwCells, fwNext, stack, blk, next_rt_entry,
                   running, rtLocal, seq, rxLocal, isThreadRun, stop_flag,
                   history>>

-----------------------------------------------------------------------------
(* rt_1553_thread *)

\* Run_RT_Px clears the first slots of the stack and starts the board.
Run_RT ==
    /\ next_rt_entry' = 0
    /\ stack' = [s \in Slots |-> IF s < ClearedSlots THEN NoEntry ELSE stack[s]]
    /\ running' = TRUE

\* Set_Mode, Set_RT_Active, the assignment loops (Get_Blknum) and Run_RT_Px.
RtRun ==
    /\ rtPc = "setup"
    /\ Run_RT
    /\ rtPc' = "started"
    /\ UNCHANGED <<bus, board, msg_status, blk, rtEntry, rtCells, seq, rxLocal,
                   isThreadRun, stop_flag, history>>

\* Set_Mode, Set_RT_Active or Run_RT_Px reports an error: the thread returns.
RtSetupFails ==
    /\ rtPc = "setup"
    /\ rtPc' = "failed"
    /\ UNCHANGED <<bus, board, stack, msg_status, blk, next_rt_entry, running,
                   rtEntry, rtCells, seq, rxLocal, isThreadRun, stop_flag,
                   history>>

RtStarted ==
    /\ rtPc = "started"
    /\ isThreadRun' = TRUE
    /\ rtPc' = "poll"
    /\ UNCHANGED <<bus, board, stack, msg_status, blk, next_rt_entry, running,
                   rtEntry, rtCells, seq, rxLocal, stop_flag, history>>

\* Mutant of RtExit: the thread leaves only when no flag is raised.
RtExitWhenQuiet ==
    /\ rtPc = "poll" /\ stop_flag /\ msg_status = 0
    /\ rtPc' = "done"
    /\ UNCHANGED <<bus, board, stack, msg_status, blk, next_rt_entry, running,
                   rtEntry, rtCells, seq, rxLocal, isThreadRun, stop_flag,
                   history>>

\* while (!stop_flag)
RtExit ==
    /\ rtPc = "poll" /\ stop_flag
    /\ rtPc' = "done"
    /\ UNCHANGED <<bus, board, stack, msg_status, blk, next_rt_entry, running,
                   rtEntry, rtCells, seq, rxLocal, isThreadRun, stop_flag,
                   history>>

\* Mutant of RtPoll: the status is compared with > 1 instead of > 0.
RtPollOffByOne ==
    /\ rtPc = "poll" /\ ~stop_flag /\ msg_status > 1
    /\ rtPc' = "clear"
    /\ UNCHANGED <<bus, board, stack, msg_status, blk, next_rt_entry, running,
                   rtEntry, rtCells, seq, rxLocal, isThreadRun, stop_flag,
                   history>>

\* Read_RT_Status_Px, the read.  A byte of 0 leaves the state as it is.
RtPoll ==
    /\ rtPc = "poll" /\ ~stop_flag /\ msg_status = 1
    /\ rtPc' = "clear"
    /\ UNCHANGED <<bus, board, stack, msg_status, blk, next_rt_entry, running,
                   rtEntry, rtCells, seq, rxLocal, isThreadRun, stop_flag,
                   history>>

\* Mutant of RtClear: the byte is not reset.
RtClearForgotten ==
    /\ rtPc = "clear"
    /\ rtPc' = "get1"
    /\ UNCHANGED <<bus, board, stack, msg_status, blk, next_rt_entry, running,
                   rtEntry, rtCells, seq, rxLocal, isThreadRun, stop_flag,
                   history>>

\* Read_RT_Status_Px, the write of 0.
RtClear ==
    /\ rtPc = "clear"
    /\ msg_status' = 0
    /\ rtPc' = "get1"
    /\ UNCHANGED <<bus, board, stack, blk, next_rt_entry, running, rtEntry,
                   rtCells, seq, rxLocal, isThreadRun, stop_flag, history>>

\* Mutant of RtGet1: the counter is advanced before the entry is read.
RtGet1PreIncrement ==
    /\ rtPc = "get1"
    /\ next_rt_entry' = Wrap(Wrap(next_rt_entry) + 1)
    /\ rtEntry' = stack[next_rt_entry']
    /\ rtPc' = IF rtEntry'.eom THEN "get2" ELSE "poll"
    /\ UNCHANGED <<bus, board, stack, msg_status, blk, running, rtCells, seq,
                   rxLocal, isThreadRun, stop_flag, history>>

\* Get_Next_RT_Message_With_Status_Px: first copy; enomsg without END_OF_MSG.
RtGet1 ==
    /\ rtPc = "get1"
    /\ next_rt_entry' = Wrap(next_rt_entry)
    /\ rtEntry' = stack[next_rt_entry']
    /\ rtPc' = IF rtEntry'.eom THEN "get2" ELSE "poll"
    /\ UNCHANGED <<bus, board, stack, msg_status, blk, running, rtCells, seq,
                   rxLocal, isThreadRun, stop_flag, history>>

\* Second copy: ertbusy if it differs, enomsg if the entry was taken before.
RtGet2 ==
    /\ rtPc = "get2"
    /\ rtPc' = IF stack[next_rt_entry] = rtEntry /\ ~rtEntry.read
               THEN "mark" ELSE "poll"
    /\ UNCHANGED <<bus, board, stack, msg_status, blk, next_rt_entry, running,
                   rtEntry, rtCells, seq, rxLocal, isThreadRun, stop_flag,
                   history>>

\* The message is taken: only the status word of the entry is written back.
RtMark ==
    /\ rtPc = "mark"
    /\ stack' = [stack EXCEPT ![next_rt_entry] =
           [@ EXCEPT !.eom = rtEntry.eom, !.err = rtEntry.err, !.read = TRUE]]
    /\ next_rt_entry' = next_rt_entry + 1
    /\ taken' = Append(taken, rtEntry.n)
    /\ rtPc' = IF Ignored(rtEntry) THEN "poll" ELSE "data1"
    /\ UNCHANGED <<bus, board, msg_status, blk, running, rtEntry, rtCells, seq,
                   rxLocal, isThreadRun, stop_flag, lapped, sent, got,
                   loaded>>

\* Get_Blknum_Px and Read_Datablk_Px: the words are copied one after another.
RtData1 ==
    /\ rtPc = "data1"
    /\ rtCells' = [rtCells EXCEPT ![1] = blk[BlockOf(rtEntry.n)][1]]
    /\ rtPc' = "data2"
    /\ UNCHANGED <<bus, board, stack, msg_status, blk, next_rt_entry, running,
                   rtEntry, seq, rxLocal, isThreadRun, stop_flag, history>>

RtData2 ==
    /\ rtPc = "data2"
    /\ rtCells' = [rtCells EXCEPT ![2] = blk[BlockOf(rtEntry.n)][2]]
    /\ rtPc' = "send"
    /\ UNCHANGED <<bus, board, stack, msg_status, blk, next_rt_entry, running,
                   rtEntry, seq, rxLocal, isThreadRun, stop_flag, history>>

\* handle_received_data: the sequence number is used up whether or not sendto
\* succeeds.  upto: the last message begun when the data was sent.
RtSend ==
    /\ rtPc = "send"
    /\ seq' = seq + 1
    /\ \/ sent' = sent \cup {[seq |-> seq, n |-> rtEntry.n, cells |-> rtCells,
                              upto |-> Len(bus)]}
       \/ UNCHANGED sent
    /\ rtPc' = "poll"
    /\ UNCHANGED <<bus, board, stack, msg_status, blk, next_rt_entry, running,
                   rtEntry, rtCells, rxLocal, isThreadRun, stop_flag, taken,
                   lapped, got, loaded>>

-----------------------------------------------------------------------------
(* The receive thread: parse_buffer and load_datablk.                      *)

\* load_datablk zeroes the words; add_text leaves them so when the payload of
\* the k-th answer is longer than 64 bytes.
Words(k, fits) == IF fits THEN -k ELSE 0

\* A datagram other than ICU_STATUS_ACK arrives.  It is dropped, without a
\* change of state, until isThreadRun is set.
RxParse(op, fits) ==
    /\ rxPc = "recv" /\ ~stop_flag /\ isThreadRun
    /\ Len(loads) < MaxLoads
    /\ loads' = Append(loads, [op |-> op, fits |-> fits])
    /\ rxOp' = op
    /\ rxVal' = Words(Len(loads) + 1, fits)
    /\ rxPc' = "load1"
    /\ UNCHANGED <<bus, board, stack, msg_status, blk, next_rt_entry, running,
                   rtLocal, seq, isThreadRun, stop_flag, history>>

\* Load_Datablk_Px writes the words one after another.
RxLoad1 ==
    /\ rxPc = "load1"
    /\ blk' = [blk EXCEPT ![rxOp][1] = rxVal]
    /\ rxPc' = "load2"
    /\ UNCHANGED <<bus, board, stack, msg_status, next_rt_entry, running,
                   rtLocal, seq, rxOp, rxVal, loads, isThreadRun, stop_flag,
                   history>>

\* Mutant of RxLoad2: the copy stops one word short.
RxLoad2Short ==
    /\ rxPc = "load2"
    /\ loaded' = [loaded EXCEPT ![rxOp] = Len(loads)]
    /\ rxPc' = "recv"
    /\ UNCHANGED <<bus, board, stack, msg_status, blk, next_rt_entry, running,
                   rtLocal, seq, rxOp, rxVal, loads, isThreadRun, stop_flag,
                   taken, lapped, sent, got>>

RxLoad2 ==
    /\ rxPc = "load2"
    /\ blk' = [blk EXCEPT ![rxOp][2] = rxVal]
    /\ loaded' = [loaded EXCEPT ![rxOp] = Len(loads)]
    /\ rxPc' = "recv"
    /\ UNCHANGED <<bus, board, stack, msg_status, next_rt_entry, running,
                   rtLocal, seq, rxOp, rxVal, loads, isThreadRun, stop_flag,
                   taken, lapped, sent, got>>

-----------------------------------------------------------------------------
\* handle_sigint, as far as this thread sees it.
SigInt ==
    /\ ~stop_flag
    /\ stop_flag' = TRUE
    /\ UNCHANGED <<bus, board, stack, msg_status, blk, next_rt_entry, running,
                   rtLocal, seq, rxLocal, isThreadRun, history>>

Firmware == (\E c \in Commands, e \in BOOLEAN : FwBegin(c, e))
            \/ FwCell2 \/ FwEntry \/ FwFlag
RtThread == RtRun \/ RtSetupFails \/ RtStarted \/ RtExit \/ RtPoll \/ RtClear
            \/ RtGet1 \/ RtGet2 \/ RtMark \/ RtData1 \/ RtData2 \/ RtSend
RxThread == (\E op \in Answers, f \in BOOLEAN : RxParse(op, f))
            \/ RxLoad1 \/ RxLoad2

Next == Firmware \/ RtThread \/ RxThread \/ SigInt

Spec == Init /\ [][Next]_vars
-----------------------------------------------------------------------------
(* Properties *)

TypeOK ==
    /\ bus \in Seq(Messages) /\ Len(bus) <= MaxMsgs
    /\ fwPc \in {"idle", "cell2", "entry", "flag"}
    /\ (fwPc # "idle") => bus # <<>>
    /\ fwFloor \in 0..MaxLoads /\ fwCells \in Cells /\ fwNext \in Slots
    /\ stack \in [Slots -> Entries]
    /\ msg_status \in {0, 1}
    /\ blk \in [Blocks -> Cells]
    /\ next_rt_entry \in 0..StackSize
    /\ running \in BOOLEAN
    /\ rtPc \in {"setup", "failed", "started", "poll", "clear", "get1", "get2",
                 "mark", "data1", "data2", "send", "done"}
    /\ rtEntry \in Entries /\ rtCells \in Cells
    /\ seq \in Nat
    /\ rxPc \in {"recv", "load1", "load2"}
    /\ loads \in Seq([op : Answers, fits : BOOLEAN]) /\ Len(loads) <= MaxLoads
    /\ loaded \in [Blocks -> 0..MaxLoads]
    /\ rxOp \in BlockNumbers /\ (rxPc # "recv" => rxOp \in Answers)
    /\ rxVal \in (-MaxLoads)..0
    /\ isThreadRun \in BOOLEAN /\ stop_flag \in BOOLEAN /\ lapped \in BOOLEAN
    /\ taken \in Seq(1..MaxMsgs)

\* The number of messages whose stack entry is complete.
Written == IF fwPc \in {"cell2", "entry"} THEN Len(bus) - 1 ELSE Len(bus)

\* Entries the thread has not taken, and the wake-ups still to come for them:
\* a flag about to be raised, a raised flag, a flag consumed but not yet acted on.
Lag == Written - Len(taken)
One(b) == IF b THEN 1 ELSE 0
Owed == One(fwPc = "flag") + One(msg_status = 1)
        + One(rtPc \in {"get1", "get2", "mark"})
Debt == Lag - Owed

\* As long as the firmware has not overwritten an unread entry, the loop of
\* rt_1553_thread takes every message exactly once and in bus order, whatever
\* the interleaving with the firmware: no entry is skipped and none repeated.
TakenInOrder == ~lapped => \A i \in DOMAIN taken : taken[i] = i

\* Get_Next_RT_Message_Px is called only when it has a message to return: a
\* consumed flag is never wasted on enomsg or ertbusy while no entry is lost.
WakeupFindsMessage ==
    ~lapped /\ rtPc = "get1" =>
        LET e == stack[Wrap(next_rt_entry)]
        IN  e.eom /\ ~e.read /\ e.n = Len(taken) + 1

\* The blocks of two commands to receive: config.c accepts an op_code up to 255,
\* and one above 31 moves what was assigned last, subaddress 31 at first.
Shared == {Get_Blknum(c) : c \in {d \in Commands : d.dir = RECEIVE /\
             \E e \in Commands : /\ e.dir = RECEIVE /\ e # d
                                 /\ Get_Blknum(e) = Get_Blknum(d)}}

\* A datagram carries data of its own message or of later ones with the same
\* command (the block is overwritten while the entry waits), never older data and
\* never another command's, unless IRST answers under that block's number or an
\* op_code has given the block to two commands; and no message the module
\* reported as erroneous is forwarded.
PayloadRegular ==
    \A f \in sent :
        /\ f.n \in DOMAIN bus /\ bus[f.n].cmd.dir = RECEIVE /\ ~bus[f.n].err
        /\ BlockOf(f.n) \notin Answers \cup Shared =>
             \A i \in {1, 2} :
                 /\ f.cells[i] \in f.n..f.upto
                 /\ bus[f.cells[i]].cmd = bus[f.n].cmd

ReceiveBlocks == {Get_Blknum(c) : c \in {d \in Commands : d.dir = RECEIVE}}

\* The cell v of block b is at least as recent as the lo-th answer: it is of that
\* answer or of a later one under b's number, cleared if that one was too long.
Recent(v, lo, b) ==
    LET Loaded(k) == k \in DOMAIN loads /\ k >= lo /\ loads[k].op = b
    IN  \/ v < 0 /\ Loaded(-v) /\ loads[-v].fits
        \/ v = 0 /\ (lo = 0 \/ \E k \in DOMAIN loads : Loaded(k) /\ ~loads[k].fits)

\* Each half of what the platform retrieves is at least as recent as the last
\* answer that was completely loaded when its TRANSMIT command arrived, and was
\* loaded under the number of that command's block, unless the platform writes
\* to that block.
AnswerRegular ==
    \A g \in got :
        BlockOf(g.n) \notin ReceiveBlocks =>
            \A i \in {1, 2} : Recent(g.cells[i], g.floor, BlockOf(g.n))

\* Both ways: the data the RT thread reads after the entry that announced them,
\* and the answers written while the module may be sending them.
DataRegular == PayloadRegular /\ AnswerRegular

\* What makes TakenInOrder and WakeupFindsMessage inductive.  The unread entries
\* are the Lag slots from next_rt_entry on, cyclically, and hold the messages
\* after the last one taken; there are never fewer of them than wake-ups.
First == Wrap(next_rt_entry)
Offset(s) == IF s >= First THEN s - First ELSE s - First + StackSize
Unread(s) == stack[s].eom /\ ~stack[s].read

EntriesValid ==
    /\ \A s \in Slots : stack[s].eom => stack[s].n \in 1..Len(bus)
    /\ rtEntry.eom => rtEntry.n \in 1..Len(bus)
    /\ rtPc \in {"get2", "mark", "data1", "data2", "send"} => rtEntry.eom
    /\ rtPc \in {"get2", "mark"} =>
          next_rt_entry \in Slots /\ stack[next_rt_entry].eom

NotStarted ==
    /\ running <=> rtPc \notin {"setup", "failed"}
    /\ ~running => /\ bus = <<>> /\ taken = <<>> /\ fwNext = 0 /\ fwPc = "idle"
                   /\ msg_status = 0 /\ next_rt_entry = 0
                   /\ stack = [s \in Slots |-> NoEntry]

FlagHeld == rtPc = "clear" => msg_status = 1

StackWindow ==
    /\ Lag \in 0..StackSize
    /\ First + Lag \in {fwNext, fwNext + StackSize}
    /\ \A s \in Slots :
          IF Offset(s) < Lag
          THEN Unread(s) /\ stack[s].n = Len(taken) + 1 + Offset(s)
          ELSE ~Unread(s)

InHand ==
    rtPc \in {"get2", "mark"} =>
        rtEntry = stack[next_rt_entry] /\ ~rtEntry.read
        /\ rtEntry.n = Len(taken) + 1

StackInv ==
    /\ EntriesValid /\ NotStarted /\ FlagHeld
    /\ ~lapped => StackWindow /\ InHand /\ Debt >= 0 /\ TakenInOrder

\* The backlog is permanent: a message that shared its flag with another one
\* adds one to the number of entries for which no wake-up will come, and no
\* later step of the loop ever works that number off.
BacklogKept == [][~lapped' => Debt' >= Debt]_vars

-----------------------------------------------------------------------------
(* Fairness: the operating system schedules the two threads and the module  *)
(* completes a message it has begun.  Nothing obliges the platform to send. *)

Fairness ==
    /\ WF_vars(RtThread)
    /\ WF_vars(RxLoad1 \/ RxLoad2)
    /\ WF_vars(FwCell2 \/ FwEntry \/ FwFlag)

FairSpec == Spec /\ Fairness

\* SIGINT ends the thread: the loop has no step it can wait in for ever.
StopExits == stop_flag ~> rtPc \in {"done", "failed"}

\* When every message gets a flag of its own (the platform leaves the ICU time
\* to clear the flag between two messages), every message is taken.
PacedTaken ==
    [](Debt = 0) =>
        \A n \in 1..MaxMsgs :
            Written >= n ~> (Len(taken) >= n \/ stop_flag)

\* README, Communication Flow step 2, as far as the message stack is concerned:
\* every message on the bus is eventually taken and translated.
EveryMessageTaken ==
    \A n \in 1..MaxMsgs : Written >= n ~> (Len(taken) >= n \/ stop_flag)
=============================================================================

# ICU_1553: a TLA+ verification project

ICU_1553 is a bridge between a MIL-STD-1553 bus and UDP. Three programs run on
three machines:

    platform  --1553 bus-->  icu  --UDP-->  irst
    platform  <--1553 bus--  icu  <--UDP--  irst

`platform` is the bus controller, `icu` a remote terminal (RT) and UDP client,
`irst` a UDP server. `platform` and `icu` reach their 1553 modules through the Px
library in `lib/`, which maps the module's dual-port RAM (DPR) into the process;
the module's firmware works on the same RAM, with no lock and no interrupt in
the paths the programs use.

This directory holds TLA+ models of the programs, of the Px library and of the
kernel driver, TLC configurations, and proofs checked by TLAPS. `PROJECT.json` says
which lines of the source each definition models.

## 1. Inventory

| Component | State | Operations | Interacts with |
| --- | --- | --- | --- |
| icu RT thread (`icu/mil_std_1553.c`, `lib/rtset.c`) | message stack, `msg_status` byte, data blocks, `next_rt_entry`, sequence counter | set up the RT, poll, take an entry, read its block, forward | firmware (DPR), receive thread (data blocks), irst (UDP) |
| icu receive thread (`icu/client.c`) | receive buffer | `recvfrom`, `parse_buffer`, `load_datablk` | firmware (data blocks), main (module handle), SIGINT (socket) |
| icu transmit thread (`icu/client.c`) | `last_time` per message | send own status messages at their rate | irst (UDP) |
| icu main and SIGINT handler (`icu/icu.c`) | `handle`, `sockfd`, `stop_flag`, `isThreadRun` | start, join, release, free | all threads |
| irst (`irst/server.c`, `irst/irst.c`) | client address, sequence counter, message list | acknowledge statuses, send messages at their rate, shut down | icu (UDP) |
| platform (`platform/mil_std_1553.c`, `platform.c`) | frames and messages on the module, `last_time` per message | create frames, start a frame, wait for it, read the answer, shut down | firmware (DPR) |
| conversions | - | text to words and back, command words | both ends of the bus |
| configuration (`config.c` of each program) | message lists, static parser state | one call per line of `config.ini` | all programs |
| inih (`ini.c`), logger (`icu/logger.c`), display, CRC | - | parsing, formatting | - |
| Px library: handles (`lib/initcard.c`, `deviceio.c`) | handle table, device table with counts and mappings | initialise, attach, release a module; open, map, close a device | driver, all other routines |
| Px library: bus controller (`lib/bc*.c`) | message blocks, instruction stack and frame table, in DPR and on the host | create, alter, read messages and frames; start, jump, skip, halt | firmware |
| Px library: settings (`bcset.c`, `rtset.c`, `gset.c`, `mon*.c`) | fields of shared registers | set one field each | firmware |
| Px library: mode (`gset.c`, `gget.c`) | mode of the module and the handle's copy | set, restart, loopback tests | firmware |
| Px library: monitor (`mon*.c`, `gget.c`) | ring of message blocks, reader's position, DMA copy | run, clear, eight readers | firmware |
| Px library: transfers (`deviceio.c`, `blockRead.c`) | - | DMA read and write of any length and alignment | driver |
| kernel driver (`driver/excalbr.c`) | card table, interrupt flags, shadow register, DMA queue | load, unload, open, map, wait, read, write, interrupt | library, kernel |

What is hard to test here:

* **The DPR is shared without a lock.** The firmware completes messages while
  the RT thread reads the flag, the stack and the blocks. Flags are read and
  cleared in two accesses; blocks are read and written word by word.
* **Threads share plain variables**: `msg_seq_counter` and the client's address
  in irst, `handle` and `isThreadRun` in icu.
* **SIGINT** closes the socket under a thread that is in, or about to enter,
  `recvfrom`; main then tears the module down while threads may be using it.
* **Start-up steps fail** half way, with threads already running.
* **Polling loops** wait without a timeout, or with one that runs out while the
  module is still coming up.
* **The library is a set of small calls over shared words**: messages that move
  and grow, fields that share a byte, jumps written over messages; what one call
  leaves is what a later one of another kind finds.
* **Readers race the firmware** round the monitor's ring, which may overwrite a
  block at any word of a copy.
* **The driver's interrupt routine, work item and processes** share a record per
  card; locks cover the list operations only.
* **Boundaries**: ring wrap-around and overrun, frame and message tables, 0 and
  32 words, odd text lengths, a rate of 0 and rates that do not divide 1000.

`PROJECT.json` lists these hazards one by one, with the line and the properties
aimed at it.

What makes each component correct:

* RT thread: every message once, in bus order, with data no older than itself;
  no wake-up without a message; ends on SIGINT.
* receive thread: the platform retrieves the last answer loaded or a newer one.
* icu's life cycle: nothing is freed, unmapped or loaded while or before it may
  be; SIGINT ends the process.
* irst: one acknowledgement at most per status, and one in the end; no sequence
  number skipped; a known client gets every message; SIGINT ends the process.
* platform: a send waits for its own message on the bus; due messages are sent;
  a failed set-up runs nothing; the module is released; SIGINT ends the process.
* conversions: what is sent is what arrives.
* configuration: the lists are those of the file, without the refused values.
* handles: a handle works until it is released, whatever happens on others; a
  device is open exactly while somebody uses it.
* messages and frames: no call touches another message's words; frames name
  messages that exist; the board stays inside the frame it was sent to.
* settings: what a call accepted stays in force; times mean what was asked.
* mode: the handle's copy is the module's mode.
* monitor: one message at a time, none mixed, in order, none twice.
* transfers: the bytes asked for and no others.
* driver: no sleeper misses its interrupt, no queued request is left lying, no
  packet is used after it was freed, unloading returns everything, banks fit.
* pacing: never more often than the rate, never later than the loop explains.

## 2. Modules

| Module | Models | TLC | Proofs |
| --- | --- | --- | --- |
| `IcuRt` | icu RT thread, receive thread's loads, firmware in RT mode | `MCIcuRt`, `MCPrograms` | `IcuRtProofs` |
| `IcuProcess` | icu main, threads' life, SIGINT, module and socket | `MCPrograms` | `IcuProcessProofs` |
| `Irst` | the irst process | `MCIrst` | `IrstProofs` |
| `Platform` | the platform process, firmware in BC mode | `MCPrograms` | `PlatformProofs` |
| `Codec` | texts and command words | `MCPrograms` | - (Bitwise) |
| `Config` | `command_handler`, `parse_int_checked` | `MCPrograms` | - |
| `Schedule` | the transmit loop all three programs have | `MCPrograms` | `ScheduleProofs` |
| `PxHandles` | handle table and device table | `MCPx` | `PxProofs` |
| `DeviceUse` | what `PxHandles` promises about devices (abstract) | through `PxHandles` | `PxProofs` |
| `PxMessages` | BC messages and frames in DPR, board stopped | `MCPx` | `PxProofs` |
| `PxRunning` | BC calls on a running board, firmware in BC mode | `MCPx` | `PxProofs` |
| `PxSettings` | the routines that set a field or a time | `MCPx` | `PxProofs` |
| `PxMode` | mode changes | `MCPx` | `PxProofs` |
| `PxMon` | the monitor's ring and its readers | `MCPx` | `PxMonProofs` |
| `PxTransfer` | DMA reads and writes in pieces | `MCPx` | `PxProofs` |
| `DriverIrq` | interrupts and waiting processes | `MCDriver` | `DriverProofs` |
| `DriverDma` | the request queue | `MCDriver` | `DriverProofs` |
| `DriverLoad` | loading, bank layout, mmap, unloading | `MCDriver` | `DriverProofs` |

The MC modules give constants their values. `MCPrograms`, `MCPx` and `MCDriver`
also put several models into one run: the models have no variable in common, a
variable `part` says which of them a behaviour explores, and the others stand
still. Their runs are thus the runs of the single models, and the fairness of a
model is assumed of the behaviours that explore it. So that `MCPrograms` can extend
all its models, names that several of them would have are told apart: `LifeSpec`,
`PlatformSpec`, `PaceSpec`; `icu_stop_flag` and `bc_stop_flag` are the `stop_flag` of
icu (in `IcuProcess`) and of platform, `bcModule` and `bcBoard` platform's module.

### IcuRt

State: the DPR (`stack`, `msg_status`, `blk`, `running`), the library's
`next_rt_entry`, the RT thread (`rtPc`, and the entry and data it holds), the
receive thread inside `load_datablk` (`rxPc`), the sequence counter and the two
flags `isThreadRun` and `stop_flag`. History variables record what was taken,
sent, retrieved and loaded, and `lapped`, which becomes true when the firmware
overwrites an unread stack entry.

Actions: `RtRun`, `RtSetupFails` and `RtStarted` are the set-up of
`rt_1553_thread`; `RtPoll` and `RtClear` are the two accesses of
`Read_RT_Status_Px`; `RtGet1`, `RtGet2` and `RtMark` read the entry, read it
again and mark it read, as `Get_Next_RT_Message_Px` does; `RtData1` and
`RtData2` are `Read_Datablk_Px`; `RtSend` is `handle_received_data`. `RxParse`,
`RxLoad1` and `RxLoad2` are `parse_buffer` and `Load_Datablk_Px`. The firmware
(`FwBegin`, `FwCell2`, `FwEntry`, `FwFlag`: data, then the stack entry, then the
flag) is external and follows from what `rtset.c` expects to read. A data block
is two cells, enough to be seen half written. `Run_RT` clears the first
`ClearedSlots` entries of the stack, 256 of 512 in the library and none on an AMD.

`Get_Blknum` is `blk_lookup` after the three assignment loops of `rt_1553_thread`
over the sections `GetCommands`. `RT_Id_Px` refuses an op code above 31, nobody looks
at the result, and the block named by the op code is assigned to the identifier of
the call before: `RtId` and `Assigned` follow this.

### IcuProcess

`mainPc` is the next statement of `main`; each thread is the sequence of its
tests of shared state and its blocking calls. `module` is `"none"`, `"mapped"` or
`"unmapped"` (between the `munmap` and the end of `Release_Module_Px`). The
signal handler is three steps per SIGINT, and two can overlap. A write to an
unmapped module ends the process (`"segv"`).

### Irst

`RxNumber`/`RxBump` and `TxNumber`/`TxBump` are the read and the write of
`msg_seq_counter++`. The counter is reduced modulo `SeqModulus`, 2^32 in the code.
`txAt` is the loop variable of `transmit_data` and `TxSkip` the message that is not
due. `RxWoken` is `recvfrom` returning because of `shutdown` (0, the buffer unchanged
and `addr_len` 0) or of a closed descriptor (EBADF).

### Platform

`CreateFrame` is `create_frameid`; `BcStartFrame`, `BcRunBC`, `BcPoll` and
`BcReset` are the calls of `send_msg`, the last two being the read and the reset
inside `Get_Msgentry_Status_Px`; `BcNext` is the rest of the loop body and `BcSkip`
a message that is not due; `bcAt` is the thread's place in its two loops. The
firmware (external) executes the selected frame, writes END_OF_MSG and halts a
moment later, so that the next `Run_BC_Px` may find it not halted yet. `ReleaseModule`
is `release_module_1553`, which every error path runs.

### Codec, Config, Schedule

`Codec` carries one text per length through `create_frameid`, the bus and
`rt_1553_thread`, or through `load_datablk`, the bus and `read_msg`. What arrives of a
command is in two properties: `MessageArrives` has it be an end of the configured text,
complete from the second word on; `CommandTextArrives` has it be the text, as the
README of the repository shows, and is violated. `Config`
builds the message lists line by line and compares them with a definition over
the whole file. `Schedule` is the loop with its clock: `Sample`, `Skip`, `Send`,
`PassEnds`, `Sleep`.

### The Px library

`PxMessages` keeps the words of the four message blocks, and the registers
between two of them, in `mem`; `msgs` is `msgalloc` and `commandtype`. One action
per routine; `touched` records which words the last call read or wrote under
which id. A routine that takes a size from DPR (`Alter_Message_Px`,
`Read_Message_Px`, `Get_BC_Msgentry_Px`) takes it from `mem`, so a word another
routine has rewritten misleads it as in the code. An entry of a frame is named by a
number that is only compared with the frame's size: `ChangeEntry` takes negative ones
too. Four kinds of call do stray
(`FlaggedTooSmall`, `OverRegisters`, `LiveJump`, `OneWord`, each at its line among
the hazards); `sound` is false from the first of them on. The blocks are a constant:
the layouts of Intel/NIOS and of AMD modules put registers after different ones, and
`OverRegisters` is a message that reaches across any such gap.

`Alter_IMG` has a branch of its own on an Intel module that counts gaps in 250 ns:
it writes over the word that holds the entry's function bits.

`PxRunning` is the same stack while the board executes it; the instruction stack and
the frame table, which no routine changes while the board runs, are the constants
`Stack` and `FrameTable`. Each access of the DPR
by the host is a step: `Set_JumpLive` sets the halt bit, `Set_JumpLiveCheck` looks
at `NO_ALTER`, the pointer and the count follow. The firmware takes an
instruction, sends, and stores the status. Counts are those the three routines
accept: any up to the frame's size, negative ones included, which become large in the
16 bits they are stored in (`Stored`); `negative` remembers that one was accepted.

`PxSettings` has a register as the set of its 1 bits, and for each setting the
field the board takes it from. `asked` and `told` remember what the calls
accepted. A gap is written by one of three branches: a NIOS module and a recent Intel
count it in 250 ns, the others in 155 ns with a multiplier; the board tells by an option
bit (`res250`), which is a setting like the others and may be rewritten between. `PxMode` follows `Set_Mode_Px` and its relatives through their polls
against a module that resets, announces itself, gets ready and halts when it
likes; a time-out can come at any poll.

`PxMon` has the ring, the firmware's position in it, and one reader per behaviour
(`reader`): the current one, the IRIG one, those of the BC and RT modes, the
older ones, the block reader and `Get_Message_Px`, with or without the DMA copy,
overrun test and trigger. The firmware goes round `MonBlocks` blocks, 200, 400 or 800;
the 32-bit reader always round `OldBlocks`, 200 (`CutShort` when the ring is longer). A copy is two steps, head and words, and the second
look a third. `out` is what the last call handed over and what it should have
been; `pend` are the stored messages that no call has handed over yet. After a lap
the readers that look at time tags never go back (`HandedInOrder`). The block reader
does not look at them: when the firmware comes round while it copies, a block whose
head was copied before and whose counter was copied after passes the test of the
counters with an old time tag, possibly after a newer one, so it is excepted there.

`PxTransfer` is one request in up to three pieces; `moved` is the set of pairs of
a byte of the buffer and a byte of the module. A middle piece moved by hand begins at
the unit that the offset lies in (`UnitStart`: the code divides the offset by the
size of a unit), so a repeat code at an offset off that unit moves another address;
`RepeatKnownGood` names the requests for which this cannot happen. `PxHandles` follows
`Init_Attach_Px` through the ways of each kind of card (`call.pc`), each with its
failures.

**Refinement.** `DeviceUse` says that a device is opened by its first user and
closed by its last one, and nothing of the devices in `lost`, which were closed for
somebody else. `PxHandles` implements it (`DevicesUsed`, a PROPERTY of `px`): the users of a
device are the handles allocated on it and the call that has opened it and is
not finished; `open` is the device table's. The reference count, the mappings and
the paths of the initialisation are the detail.

### The kernel driver

`DriverIrq`: the interrupt routine is the status, the flags of the modules, and the
wake-up; a waiting ioctl is the steps of its loop: test, queue, test again,
sleep. The wait queue of a card is the kernel's doubly linked list, link by link
(`next`, `prev`): `WAIT_FOR_IRQ` uses the one entry of the card, `WAIT_FOR_MOD_IRQ` an
entry of the call and initialises the card's as well, whether it is linked or not
(`init_wait`). `IsrWalk` goes along that list as `wake_up` does, one entry a step, and
an entry initialised while linked leads it to itself. `GetMchShadow`, `ClearShadowLoad` and `ClearShadowStore` are the copy to
the process and the two halves of the `&=` that resets what was copied.
`DriverDma`: `QueueRequest` and `EndIo` step by step between the lock operations,
`StartIo` for the three ways a transfer ends; a request with a repeat code is queued
without a look at its range. `DriverLoad`: one step per kernel
call that can fail, the bank layouts of every kind of card, `mmap`'s test. That test
goes over all `MAX_BANKS` slots of the card's table; a slot not in use has address and
length 0 and stands for the first page of physical memory (`PHYSICAL`).

## 3. Runs

| Run | Checks | Instance |
| --- | --- | --- |
| `rt_safety` | `TakenInOrder`, `WakeupFindsMessage`, `DataRegular`, `BacklogKept` | 2-entry stack, 3 messages, 1 answer; a message to the RT, a request, a broadcast; an op code above 31 |
| `rt_backlog` | `EveryMessageTaken`, **violated** | 2-entry stack, 3 messages |
| `irst` | `AcksAnswerStatus`, `SeqNoGap`, `StatusAnswered`, `MessagesServed`, `SigintEndsIrst` | 1 client, 2 messages, counter modulo 4 |
| `programs` | `StopExits`, `PacedTaken` | `IcuRt`: 2-entry stack, 3 messages |
| | `LifeInv`, `FailedModuleNotLoaded`, `SigintEndsProcess` | `IcuProcess`: two SIGINTs |
| | `SendWaitsForBus`, `FailedSetupUndone`, `DueMessageSent`, `SigintEndsPlatform` | `Platform`: 3 frames; configurations that fill them, exceed them, or hold a refused command word |
| | `MessageArrives`; `ListsMatchFile`; `SpacingKept`, `NeverLater`, `RateNotExceeded` | all lengths 0..64, addresses at the ends; all files of up to 3 lines; 2 messages, a second of 10 ticks, 22 ticks |
| `icu_segv` | `GracefulShutdown`, **violated** | as `programs` |
| `sequential_text` | `CommandTextArrives`, **violated** | as `programs` |
| `px` | `StaysInside`, `FramesNameMessages`; `JumpWhole`, `RunsWholeFrames`; `BitsHold`, `TimesHold`; `ModeAgrees`; `NeverMixed`, `MonitorFollowsBus`; `TransferExact`; `HandlesUsable`, `DevicesUsed` | see below |
| `px_frame` | `AltersNamedEntry`, **violated** | as `px` |
| `px_invalid` | `InvalidDataAnswered`, **violated** | as `px` |
| `driver` | `WakeNotLost`; `NeverIdle`, `PacketAlive`; `NothingLeft`, `BanksFit` | see below |
| `driver_shadow` | `ShadowKeepsAll`, **violated** | as `driver` |
| `driver_wait` | `WokenByIsr`, **violated** | as `driver` |

Why the bounds are enough. A two-entry stack with three messages wraps and can
be overrun; three messages are the least for two to share a flag while a third
one wakes the thread. A modulus of 4 lets a stalled thread set irst's counter
back past numbers already given out, and lets the counter wrap; two messages let
one be due while the other is sent. Two SIGINTs overlap two handlers. The
platform's three messages give both lists and a list of two. Deadlock is not
checked because every run ends: the programs by their exit, the others at a
bound (`MaxMsgs`, `MaxLoads`, `MaxLines`, `Horizon`, and the `Max...` of the
library's and the driver's calls).

In `px`: four blocks of five to nine words, with registers after the second, run
full within four calls, so that messages move on to the next block, fit exactly
or are refused. Two frames share a message, so that a jump, skip or status can
hit it in the wrong one; four host calls meet five instructions of the board. The
counts are -1, 0 (the whole frame), 1 and 3, the last at the size of one frame and above
that of the other.
Two settings in any order are enough to see one disturb another; the times given
to the routines are both ends of what each accepts, the next value beyond, and
those where a multiplier changes, for gaps also 30 ms, from which a NIOS is calibrated; the
modules are an AMD, an Intel that counts gaps in 250 ns, and a NIOS with one function
and with several. Five mode calls
let a time-out be followed by a late module and another call. A ring of three
blocks with four messages is lapped, and is longer than a regular ring of two for the
32-bit reader, which is also tried with a regular ring of three; a DMA copy of two blocks
of it is refilled; the
monitor is started twice (`MaxMonRuns`) and cleared at any time.
Offsets 0 to 8 and lengths up to four units of eight meet every pair of
boundaries. Two slots and three calls let two handles share a device, a third be
refused, and a release or failure come in between; one device of each kind takes
every path. In `driver`: three processes and two modules with two interrupts let a
process be overtaken at each step, and one be linked behind another that uses the
card's entry; three processes let one queue a request while another
completes and a third frees; two cards let the second fail after the first.

### What the violated runs show

1. `rt_backlog`. The loop takes one entry per raised flag. Two messages that
   complete before the flag is read leave one entry that no flag announces; it is
   taken when another message arrives, and from then on the loop is one message
   behind. `BacklogKept` (proved) says that it never catches up; `PacedTaken`
   says that nothing is left if every message gets a flag of its own.
2. `icu_segv`. `main` joins the RT thread only, then releases the module. A receive
   thread that has passed `Load_Datablk_Px`'s checks then writes to unmapped
   memory.
3. `px_frame`. Five routines that change an entry of a frame reach it in the
   first frame only: half of a byte offset is added to a pointer to entries of
   eight bytes.
4. `sequential_text`. `create_frameid` packs the text from the first data word on and
   then stores the command word over it: the first two characters do not arrive.
5. `px_invalid`. `Set_Invalid_Data_Res_Px` with flag 0 clears nothing: the RTs go on
   responding.
6. `driver_wait`. Two processes in `WAIT_FOR_IRQ` share the wait entry of the card. The
   first to wake unlinks it while the second sleeps on it, and the interrupt routine no
   longer finds it.
7. `driver_shadow`. An interrupt between the copy of the shadow register and its
   reset is lost: the reset clears the bit of a module that has interrupted
   again, and the read-modify-write that does it can undo another module's bit.

Met while modelling, and left without a run of their own. Four of them a passing run
comes upon, and its property names them as exceptions:

* `RT_Id_Px` refuses an op code above 31, and the block of a section with such a code
  goes to another identifier, so that two commands can share it (`Shared` in
  `DataRegular`). `SubAddress` is read by nobody: if it differs from `OpCode`, an
  answer does not lie where requests of the `SubAddress` are served from.
* A count of -1 passes the test of `Start_Frame_Px`, `Select_Async_Frame_Px` and
  `Set_Jump_Px` against the frame's size and becomes 65535 in the board's register; the
  board runs on behind the frame (`negative` in `RunsWholeFrames`).
* A NIOS module takes 4000 off a gap of 30000 or more, a correction in nanoseconds
  applied to microseconds (`Shortened` in `TimesHold`).
* The 32-bit reader goes back to block 0 after 200 blocks; in the rings of 400 and 800
  blocks it never reads the rest (`CutShort` in `MonitorFollowsBus`).

The others are outside of what the properties say: a message without an acceptable
`Rate` keeps 0 and the loop divides by it (`FirstPass` ends in SIGFPE); when
`init_socket` fails, icu's `main` returns without releasing the module; the platform's
`command_handler` accepts subaddresses up to 255 where the command word has five bits;
`1000 / rate` truncates, so that 600 messages a second become 1000 (which is why
`RateIsNotExceeded` assumes that the rate divides the second). Those of the library
and the driver are among the hazards of `PROJECT.json`, each at its line, and a
property that one of them breaks names it as its exception and holds of everything
else.

### Fairness

Weak fairness of each thread (the operating system schedules every runnable
thread), of the signal handler once entered, of the firmware for a message it
has begun (a 1553 message has a bounded duration and always ends, with an error
if the RT is silent), and of the clock. None is assumed of the platform sending,
of datagrams arriving, or of Ctrl+C. `RxDatagram` is therefore not fair, and
`SigintEndsProcess` and `SigintEndsIrst` rest on the handler's `shutdown` and
`close` alone. In `Platform` the time-out of `Run_BC_Px` is always possible while
the board has not halted; it releases the module and sets `stop_flag`, which
`DueMessageSent` allows for.

## 4. Proofs

All theorems hold for every value of the constants that satisfies the named
assumptions of the modules.

**`IcuRtProofs`.** `TakenInOrder` and `WakeupFindsMessage` are not inductive: they do not
say which part of the ring is unread. `StackInv` does: the unread entries are the
`Lag` slots from `next_rt_entry` on, cyclically; they hold the messages that follow
the last one taken; the firmware's slot is just behind them; what the thread has
in hand is the first of them; and there are at least as many of them as wake-ups
to come (`Debt >= 0`). The window part is claimed while `lapped` is false. From
it follow `MessagesTakenInOrder`, `WakeupsFindMessages`, `TypeCorrect` and, as an
action property, `BacklogIsPermanent`. The lemmas, one per action, are about the
cyclic distance `Offset` and how it changes when either end of the window moves.
`DataRegular` says nothing about the data blocks, which its proof is about.
`PayloadInv`: an entry is written after the data of its message; the block of a
received message holds its data or later data of the same command, unless two
RECEIVE commands have that block in common (`Shared`); and so do the cells already
copied. `ProperOpCodes` shows that none have as long as every configured op code is a
subaddress; `config.c` accepts 0 to 255.
`AnswerInv`: a block that only answers write is as recent as its last complete
answer, its first cell is ahead while `load_datablk` writes the second, and what
the module has read for a TRANSMIT command is as recent as the answer that was
complete when the command arrived. They give `DataIsRegular`, lapped or not and for any op codes the file may hold.

**`IcuProcessProofs`.** `LifeInv` relates main's statement, the threads and the module:
a thread has not started before its creation and has ended after its join; the
module is mapped while the RT thread is between its creation and its end; an
answer on its way to the module implies `isThreadRun`. From it follow
`ThreadsJoinedBeforeFree`, `PolledModuleStaysMapped` and
`FailedModuleIsNeverLoaded`.

**`ScheduleProofs`.** `PacingInv`: types, stamps in the past, and
`sentCount[m] * Interval(m) <= last_time[m]`. It gives `SpacingIsKept` and
`StampsStayInPast`, and `RateIsNotExceeded` under the assumption that every rate
divides the second; without that it is false. `NoMessageIsLater` needs `LateInv`: in a
pass, each message before the current one was sent with the stamp of this pass, or
its interval had not elapsed and it cost no time; and when the clock was read
nobody had waited longer than `Waited`.

**`IrstProofs`.** `AcksAnswerStatus` needs `StatusPending`: from the `recvfrom` that
stored a status to the `sendto` that answers it, one acknowledgement is owed to
the client in `client_addr`, unless `shutdown` woke the call, and then the address
has no length and nothing is sent. `SeqNoGap` needs `BumpFollowsNumber`: a thread
between the two halves of `msg_seq_counter++` holds a number that was given out, so
that its successor, however late it is stored, has a predecessor.

**`PlatformProofs`.** `SetupStage` relates main's position, the module, the thread and
`stop_flag`; with `FramesFollow` (the frames are those of the first messages) it
gives `SetupFailureUndone`. `SendStage` is what `EachSendCarried` rests on: outside
of a wait every status word is clear and the board is done or about to halt, and
during one the board is in one of three situations: asked to run, running with an
outcome that is this call's, or done with this call's outcome in the status word.
Assumed: the messages of a configuration are told apart by their names, and the
two table sizes are positive.

**`DriverProofs`.** `WakeNotLost` needs that the wait queue is a sound list
(`ListOK`): from the head one comes through the linked entries and back, the
links of neighbours agree, a process that sleeps in `WAIT_FOR_MOD_IRQ` is linked, and
while the interrupt routine walks, every sleeper it still owes a wake-up is ahead of
it. That is claimed until a call initialises the card's entry while it is linked
(`torn`): from then on a waiter behind it may be cut off.
`PacketAlive` and `NeverIdle` need `DmaInv`: a process has a packet while its request
is under way; a packet is in the queue once, and only while it is not completed;
with a completion interrupt the packet the work item has taken is the head of the
queue until the work item removes it; and (`QueueMoves`, stronger than `NeverIdle`)
when the queue is not empty, a transfer, an interrupt, the work item or the
process of the head packet itself will move it. `NothingLeft` needs `TableSound`: what
a card holds is what `exc_cleanup_module` looks for. `BanksFit`, which names page 0 of physical memory beside the card's own, follows from
`BanksSound` and from the lemmas that each layout of `ExcFindResources` fits the
memory lengths it is chosen for. Assumed: the work item is no process, bounds are
numbers, and each kind of card has its list of memory lengths.

**`PxProofs`.** *Handles*: `HandlesInv`: what the slot of a call in progress holds at each
of its steps (`CallSound`), every given handle has its bank in the device's mappings
(`HandlesReady`), and each device's reference count is the number of its users
(`Counted`, except for lost devices). Every action of `PxHandles` is shown to be a
step of one of four kinds (`StepKind`): quiet, one user more, one user less, a device
lost. The invariant, and that the step is one of `DeviceUse` or a stutter, follow
from the kind alone. `GivenHandlesUsable` is the invariant's consequence,
`TableUsesDevices` the refinement. Assumed: device numbers of cards on the bus are
neither UNet numbers nor the two reserved ones. *Transfers*: `PlainSound`, the bytes
moved are those up to the current position, which after the first piece is at an
8-byte boundary; `RepeatSound`, under a repeat code whole units precede the middle
piece and an offset moved by hand is at a unit, so that nothing is cut off it. They give `TransfersAreExact`. Assumed: `PerformLongDMARead` reads in pieces of
a positive multiple of eight bytes, as its constant is. *Modes*: `ModeSound`, both copies are what was last agreed, or the
module has none and a reset was not seen through. *Running board*: `RunInv` ties the
two or three writes of each host call to what the registers hold meanwhile; every
complete pair of pointer and count selects entries of one frame (`Whole`), a
half-written pair belongs to the call in progress, and the entry being sent has
`NO_ALTER` unless a late clearing wiped it. It gives `JumpNeverTears` and
`BoardStaysInFrames`. Claimed until a negative count
is accepted (`negative`). Assumed: a frame's entries are consecutive in the stack, as
`Create_Frame_Px` puts them, and fewer than 65536. *Messages and frames*: `Laid`, the messages lie one
after the other inside the blocks; `Shapes`, as long as no call has strayed, each
has the words that the type a routine derives from its control word calls for,
whether it reads the host's `commandtype` or the DPR; `FramesLaid`, frames lie below
`nextstack`. `MessagesKeepToThemselves` and `FramesStayValid` hold for any four
blocks in ascending order, any command words and any table sizes. *Fields*:
`SettingsInv` adds to `BitsHold` what the fields that share a register need of the
modes. In RT mode `Set_Bit_Cnt_Px` writes the whole register and a bus controller's
zero crossing is in it, so no RT has asked for one; in BC/RT mode `Set_RT_Nonactive_Px`
clears the active bit only, so no RT has an interrupt bit beside it; `Stop_Px` ends a
replay, which no routine asks for; the trigger register is written from the host's
`triggers` and `trig_mode`, which hold trigger and mode bits only. No two fields have a
bit in common (`FieldsDisjoint`); each call writes bits of its own field, or a register
of its own, or is shown to spare its neighbours (`ChangeHolds`, `TwoRegisters`).
`SettingsHold` is for calls in any number and order: TLC tries two. It excepts flag 0 of
`Set_Invalid_Data_Res_Px` (`Unanswered`). *Times*:
`TimesAreKept` rests on lemmas about the quotients (`CountOf155`, `GapOf250`, `MinorTime`) for every argument, on every other routine leaving the numbers
alone, and, since the unit of a gap hangs on an option bit, on `SettingsInv`, by which
that bit stays what it was when the gap was written. It excepts the gaps of 30 ms and
more of a NIOS (`Shortened`). Assumed:
`Set_Frame_Time_Px`, `Set_Minor_Frame_Time_Px` and `Set_RT_Resp_Time_Px`, which do not
check their argument, are given one that their registers can hold.

**`PxMonProofs`.** For a ring, its banks and a DMA copy of any size, any number of
messages, starts and clearings, and every set-up of a reader. `MonNeverMixes` needs
`MonBase`: a block holds one message and no two blocks the same one (`RingSound`), and
a copy in progress is not newer than its block, whose `END_OF_MSG` is off from the
moment the two part until a whole message has been put there (`CopySound`).
`MonRefusesOnce` needs `RefusedGone`: the message last refused is marked in no block
and in no copy, and the firmware never writes an old one. `MonFollowsBus` needs all of
`MonInv`. `MonitorFollowsBus` says only what a call hands over; the invariant says where
the messages that were not handed over are, unless the 32-bit reader goes round a longer
ring (`CutShort`): the last `Len(pend)` blocks behind the
firmware, oldest first, hold them in order, and the reader is at the oldest
(`PendSound`); a marked block, a copy in progress and each block of the DMA copy that
the reader still comes to is one of them, at its own distance, or a message the
firmware did not store for want of the trigger, and then the reader passes it over
(`WindowSound`, with `ArmedSound` for the trigger); the message last handed over is gone
from ring and copies (`HandedGone`, `CacheSound`); and for the block reader its two
counts differ by what is in the ring and not in its buffer (`NewSound`). That a DMA copy
never empties a block of a message it does not hold rests on the copy being smaller
than the ring (`MonRingAssumption`, the program's `MAX_NUMBER_BLOCKS_IN_DMA_READ`); that
assumption, and that the last block of the ring ends a bank, are all that is assumed.

Only model-checked:

* every liveness property (fairness and ENABLED are beyond TLAPS);
* `MessageArrives`: `Codec` uses bitwise operators, which cannot be proved about;
* `ListsMatchFile`: its reference is a definition over the whole file, and relating
  it to the line-by-line one is induction over sequences.

## 5. Abstractions

* Payloads: in `IcuRt` a cell holds the number of the message or answer it comes
  from; lengths and bytes are in `Codec`.
* Time is in `Schedule` only; in `Irst` and `Platform` a message becomes due at any
  moment.
* Datagrams are complete and carry consistent headers; they can be lost (a datagram
  nobody receives is one not delivered) and come in any order.
* A board error during set-up is a choice, without the error code.
* `Config` keeps `OpCode` and `Rate` as the two kinds of checked field. `SubAddress`
  takes the same path, `Message` and the device, source and destination fields are
  plain assignments.
* Printing, logging and the CRC (which no receiver compares) are left out.

* The library is called by one thread in its models, as its own documentation
  asks; the other side of every shared word is the firmware, which is external
  and modelled from what the library expects of it.
* Calls of the library that return an error and change nothing are not steps,
  except where an error path gives something back.
* What RAM holds of the stack's other entries when `Run_RT_Px` clears part of it
  (`ClearedSlots`) is what the module's reset left, empty entries.
* `Get_Next_RT_Message_Px` takes two entries for an RT-to-RT transfer
  (`rtset.c:1838`); the platform sends none, and `IcuRt` has none.
* `Get_Message_Px` subtracts from the time tag what it takes for that of the block
  before (`mon.c:231`). `PxMon` leaves the difference out; it is a hazard without a
  property.
* The gaps given to `Create_Frame_Px` are not limited by it, and are not modelled; the
  gap of an entry is that of `Alter_IMG_Px`.
* A negative number of an entry can reach memory before the stack; `PxMessages` changes
  stack entries only.
* The driver moves what the library asks of it, at the address asked.
* In `PxMode` a reset clears the module's mode at once. Firmware that does so only when
  it gets ready, after a call that did not wait has written the mode, is left out.
* Time tags and message counters of `PxMon` do not wrap: they are numbers, in the
  proofs without a bound.
* In `DriverIrq` a pass of the interrupt routine over the modules is one step, and
  signals to a sleeping process are left out.

## 6. Not modelled

* `driver/ReadWrite.c` (Windows), `lib/deviceio-new.c`, `lib/irig.c` and
  `lib/univ.c`: no makefile of the repository builds them. Windows, DOS and MMSI
  branches of the files that are built.
* Routines that return one register or field, the tables of error texts, single
  word peeks and pokes, the keyboard: no state, or one access.
* `rtset.c`: the 0018 routines, the readers of the command stack that icu does not
  use, multiple block loads, the single-function register calls. They repeat
  what `IcuRt` and `PxSettings` have, or write plain tables.
* `Get_Message_Info_Px` and the conversions of monitor messages; the structure
  `PopulateCardStructure` fills in.
* The driver's `EXC_IOCTL_CALL_ENDIO` (a test entry), the ioctls that return one
  value, the text under `/proc`.
* inih, the logger, display and CRC.

## 7. Plan

Done: the modules of section 2 and the proofs of section 4. To do:

1. `System`: `IcuRt`'s forwarding, the network and irst's answers composed, and an
   abstract lossy FIFO bridge it implements.

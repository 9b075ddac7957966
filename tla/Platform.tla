------------------------------ MODULE Platform ------------------------------
(***************************************************************************)
(* The platform process (src/src/platform), bus controller of the system:  *)
(* main, init_module_1553 with create_frames, bc_1553_thread, and the Px   *)
(* routines they call on the module in BC mode (src/lib/bcrtmsg.c,         *)
(* bcframe.c, bcset.c, bcget.c).  The thread starts one frame at a time    *)
(* and spins on the status word of its only message.                       *)
(*                                                                         *)
(* The module's firmware (external) is modelled from how the library reads *)
(* it: writing the start register makes it run the selected frame, write   *)
(* END_OF_MSG into the status word and, a moment later, report HALTED and  *)
(* clear the start register.                                               *)
(***************************************************************************)
EXTENDS Integers, Sequences, FiniteSets

CONSTANTS
    Configs,      \* configurations main may read: the send_command messages and
                  \* the get_command messages, in order, and those of them
                  \* whose command word Create_1553_Message_Px refuses
    MSGMAX,       \* message identifiers are below it (1660 in flags_px.h)
    MAXFRAMES     \* frames a module holds (20 in flags_px.h)

AllMessages(c) == c.tx \o c.rx
Texts ==
    UNION {{AllMessages(c)[i] : i \in 1..Len(AllMessages(c))} : c \in Configs}

ASSUME ConfigsAssumption ==
    \A c \in Configs :
        /\ c.tx \in Seq(STRING) /\ c.rx \in Seq(STRING)
        /\ c.refused \subseteq STRING
        /\ \A i, j \in 1..Len(AllMessages(c)) :
              AllMessages(c)[i] = AllMessages(c)[j] => i = j
ASSUME LimitsAssumption == MSGMAX \in Nat \ {0} /\ MAXFRAMES \in Nat \ {0}

VARIABLES
    config,       \* the configuration read
    platformPc,
    bcModule,     \* handle >= 0: the module is initialised and mapped
    msgs,         \* msgalloc from identifier 1 on: the messages created
    frames,       \* framealloc: the message of each frame, first frame id 0
    pointer,      \* the frame the board's pointer register selects
    start,        \* the board's start register is set
    bcBoard,      \* firmware: "halted", "exec", the outcome, "eom"
    status,       \* each frame's message_status_word: "clear", "ok", "err"
    bcPc, bcAt,   \* bc_1553_thread: step, place in its pass over both lists,
    bcDue,        \* the messages that were due when it read the time,
    word,         \* its statusword
    due,          \* messages with elapsed_ms - last_time >= rate
    bc_stop_flag, bcInstalled, sigint,
    failed,       \* history: create_frames has given up
    executed,     \* history: the bus has carried this send_msg's message
    fresh         \* history: its data are in the message block

boardVars == <<pointer, start, bcBoard, status>>
allocVars == <<msgs, frames>>
bcVars == <<bcPc, bcAt, bcDue, word>>
sigVars == <<bc_stop_flag, bcInstalled, sigint>>
bcHistory == <<failed, executed, fresh>>
platformVars == <<config, platformPc, bcModule, allocVars, boardVars, bcVars,
                  due, sigVars, bcHistory>>

Configured == AllMessages(config)

PlatformEnded == {"exit0", "exit1", "killed"}
PlatformAlive == platformPc \notin PlatformEnded

\* msg->frame.id: zero, as memset left it, for a message that has no frame.
FrameId(m) ==
    IF \E i \in 1..Len(frames) : frames[i] = m
    THEN (CHOOSE i \in 1..Len(frames) : frames[i] = m) - 1
    ELSE 0

PlatformInit ==
    /\ config \in Configs
    /\ platformPc = "config"
    /\ bcModule = FALSE
    /\ msgs = <<>> /\ frames = <<>>
    /\ pointer = 0 /\ start = FALSE /\ bcBoard = "halted"
    /\ status = [i \in 0..(MAXFRAMES - 1) |-> "clear"]
    /\ bcPc = "none" /\ bcAt = 1 /\ bcDue = {} /\ word = "clear"
    /\ due = {}
    /\ bc_stop_flag = FALSE /\ bcInstalled = FALSE /\ sigint = FALSE
    /\ failed = FALSE /\ executed = FALSE /\ fresh = FALSE

-----------------------------------------------------------------------------
(* release_module_1553 and handle_error, which calls it *)

\* Mutant of ReleaseModule: the module is given back without setting stop_flag.
ReleaseGoesOn ==
    /\ bcModule' = FALSE
    /\ start' = IF bcModule THEN FALSE ELSE start
    /\ bcBoard' = IF bcModule THEN "halted" ELSE bcBoard
    /\ UNCHANGED <<bc_stop_flag, pointer, status>>

\* stop_flag, Stop_Px, Release_Module_Px, handle = -1; nothing if handle < 0.
ReleaseModule ==
    /\ bcModule' = FALSE
    /\ bc_stop_flag' = (bc_stop_flag \/ bcModule)
    /\ start' = IF bcModule THEN FALSE ELSE start
    /\ bcBoard' = IF bcModule THEN "halted" ELSE bcBoard
    /\ UNCHANGED <<pointer, status>>

-----------------------------------------------------------------------------
(* main and init_module_1553 *)

PlatformMain(from, to) == platformPc = from /\ platformPc' = to

BcReadConfig ==
    /\ PlatformMain("config", "initModule") \/ PlatformMain("config", "exit1")
    /\ UNCHANGED <<config, bcModule, allocVars, boardVars, bcVars, due, sigVars,
                   bcHistory>>

\* Init_Module_Px fails.
InitModuleFails ==
    /\ PlatformMain("initModule", "exit1")
    /\ UNCHANGED <<config, bcModule, allocVars, boardVars, bcVars, due, sigVars,
                   bcHistory>>

BcInitModule ==
    /\ PlatformMain("initModule", "setMode")
    /\ bcModule' = TRUE
    /\ UNCHANGED <<config, allocVars, boardVars, bcVars, due, sigVars,
                   bcHistory>>

\* Get_Card_Type_Px or Set_Mode_Px fails: handle_error, return.
SetModeFails ==
    /\ PlatformMain("setMode", "exit1")
    /\ ReleaseModule
    /\ UNCHANGED <<config, allocVars, bcVars, due, bcInstalled, sigint,
                   bcHistory>>

SetMode ==
    /\ PlatformMain("setMode", "create")
    /\ UNCHANGED <<config, bcModule, allocVars, boardVars, bcVars, due, sigVars,
                   bcHistory>>

\* Create_1553_Message_Px accepts the command word and has an identifier left,
\* and Create_Frame_Px has a frame left.
CanCreate(m) ==
    /\ m \notin config.refused
    /\ Len(msgs) + 1 # MSGMAX /\ Len(frames) < MAXFRAMES

\* create_frameid of the next message.
CreateFrame ==
    /\ platformPc = "create" /\ Len(frames) < Len(Configured)
    /\ LET m == Configured[Len(frames) + 1] IN
       /\ CanCreate(m)
       /\ msgs' = Append(msgs, m)
       /\ frames' = Append(frames, m)
       /\ status' = [status EXCEPT ![Len(frames)] = "clear"]
    /\ UNCHANGED <<config, platformPc, bcModule, pointer, start, bcBoard,
                   bcVars, due, sigVars, bcHistory>>

\* create_frameid fails; its message may have been created.  init_module_1553
\* does not look at the result of create_frames and goes on.
CreateFrameFails ==
    /\ platformPc = "create" /\ Len(frames) < Len(Configured)
    /\ LET m == Configured[Len(frames) + 1] IN
       /\ ~CanCreate(m)
       /\ msgs' = IF m \in config.refused \/ Len(msgs) + 1 = MSGMAX THEN msgs
                  ELSE Append(msgs, m)
    /\ platformPc' = "createThread"
    /\ failed' = TRUE
    /\ ReleaseModule
    /\ UNCHANGED <<config, frames, bcVars, due, bcInstalled, sigint, executed,
                   fresh>>

CreateFramesDone ==
    /\ PlatformMain("create", "createThread")
    /\ Len(frames) = Len(Configured)
    /\ UNCHANGED <<config, bcModule, allocVars, boardVars, bcVars, due, sigVars,
                   bcHistory>>

CreateThread ==
    /\ PlatformMain("createThread", "signal")
    /\ bcPc' = "check"
    /\ UNCHANGED <<config, bcModule, allocVars, boardVars, bcAt, bcDue, word,
                   due, sigVars, bcHistory>>

CreateThreadFails ==
    /\ PlatformMain("createThread", "exit1")
    /\ ReleaseModule
    /\ UNCHANGED <<config, allocVars, bcVars, due, bcInstalled, sigint,
                   bcHistory>>

BcInstallHandler ==
    /\ PlatformMain("signal", "join")
    /\ bcInstalled' = TRUE
    /\ UNCHANGED <<config, bcModule, allocVars, boardVars, bcVars, due,
                   bc_stop_flag, sigint, bcHistory>>

Join ==
    /\ PlatformMain("join", "release") /\ bcPc = "ended"
    /\ UNCHANGED <<config, bcModule, allocVars, boardVars, bcVars, due, sigVars,
                   bcHistory>>

\* release_module_1553, free, return.
MainReleases ==
    /\ PlatformMain("release", "exit0")
    /\ ReleaseModule
    /\ UNCHANGED <<config, allocVars, bcVars, due, bcInstalled, sigint,
                   bcHistory>>

\* SIGINT: handle_sigint sets stop_flag, once it is installed.
PlatformSigInt ==
    /\ PlatformAlive /\ ~sigint
    /\ sigint' = TRUE
    /\ IF bcInstalled THEN bc_stop_flag' = TRUE /\ UNCHANGED platformPc
       ELSE platformPc' = "killed" /\ UNCHANGED bc_stop_flag
    /\ UNCHANGED <<config, bcModule, allocVars, boardVars, bcVars, due,
                   bcInstalled, bcHistory>>

-----------------------------------------------------------------------------
(* bc_1553_thread *)

\* The clock reaches last_time + rate of message m.
Tick(m) ==
    /\ PlatformAlive /\ m \notin due
    /\ \E i \in 1..Len(Configured) : Configured[i] = m
    /\ due' = due \cup {m}
    /\ UNCHANGED <<config, platformPc, bcModule, allocVars, boardVars, bcVars,
                   sigVars, bcHistory>>

\* The message at the place the thread has come to.
Current == Configured[bcAt]

\* while (!stop_flag): the time is read once for a pass over both lists.
BcCheck ==
    /\ PlatformAlive /\ bcPc = "check"
    /\ IF bc_stop_flag THEN bcPc' = "ended" /\ UNCHANGED <<bcAt, bcDue>>
       ELSE bcPc' = "pass" /\ bcAt' = 1 /\ bcDue' = due
    /\ UNCHANGED <<config, platformPc, bcModule, allocVars, boardVars, word,
                   due, sigVars, bcHistory>>

BcPassEnds ==
    /\ PlatformAlive /\ bcPc = "pass" /\ bcAt > Len(Configured)
    /\ bcPc' = "check" /\ bcAt' = 1 /\ bcDue' = {}
    /\ UNCHANGED <<config, platformPc, bcModule, allocVars, boardVars, word,
                   due, sigVars, bcHistory>>

\* A message that is not due is passed over.
BcSkip ==
    /\ PlatformAlive /\ bcPc = "pass"
    /\ bcAt <= Len(Configured) /\ Current \notin bcDue
    /\ bcAt' = bcAt + 1
    /\ UNCHANGED <<config, platformPc, bcModule, allocVars, boardVars, bcPc,
                   bcDue, word, due, sigVars, bcHistory>>

\* send_msg: Start_Frame_Px selects the frame.
BcStartFrame ==
    /\ PlatformAlive /\ bcPc = "pass"
    /\ bcAt <= Len(Configured) /\ Current \in bcDue
    /\ bcModule /\ FrameId(Current) < Len(frames)
    /\ pointer' = FrameId(Current)
    /\ executed' = FALSE /\ fresh' = FALSE
    /\ bcPc' = "run"
    /\ UNCHANGED <<config, platformPc, bcModule, allocVars, start, bcBoard,
                   status, bcAt, bcDue, word, due, sigVars, failed>>

\* Start_Frame_Px refuses a released module or a frame that does not exist.
BcStartFrameFails ==
    /\ PlatformAlive /\ bcPc = "pass"
    /\ bcAt <= Len(Configured) /\ Current \in bcDue
    /\ ~(bcModule /\ FrameId(Current) < Len(frames))
    /\ ReleaseModule
    /\ bcPc' = "sendFailed"
    /\ UNCHANGED <<config, platformPc, allocVars, bcAt, bcDue, word, due,
                   bcInstalled, sigint, bcHistory>>

\* Mutant of BcRunBC: the start register is written without waiting for HALTED.
BcRunBCAtOnce ==
    /\ PlatformAlive /\ bcPc = "run"
    /\ start' = TRUE
    /\ bcPc' = "poll"
    /\ UNCHANGED <<config, platformPc, bcModule, allocVars, pointer, bcBoard,
                   status, bcAt, bcDue, word, due, sigVars, bcHistory>>

\* Run_BC_Px waits for the board to report HALTED and writes start = 1.
BcRunBC ==
    /\ PlatformAlive /\ bcPc = "run" /\ bcBoard = "halted"
    /\ start' = TRUE
    /\ bcPc' = "poll"
    /\ UNCHANGED <<config, platformPc, bcModule, allocVars, pointer, bcBoard,
                   status, bcAt, bcDue, word, due, sigVars, bcHistory>>

\* Its 10000 polls are over before the board halts (etimeout).
BcRunBCTimesOut ==
    /\ PlatformAlive /\ bcPc = "run" /\ bcBoard # "halted"
    /\ ReleaseModule
    /\ bcPc' = "sendFailed"
    /\ UNCHANGED <<config, platformPc, allocVars, bcAt, bcDue, word, due,
                   bcInstalled, sigint, bcHistory>>

\* Mutant of BcPoll: only a message without error bits ends the wait.
BcPollForSuccess ==
    /\ PlatformAlive /\ bcPc = "poll"
    /\ status[FrameId(Current)] = "ok"
    /\ word' = status[FrameId(Current)]
    /\ bcPc' = "reset"
    /\ UNCHANGED <<config, platformPc, bcModule, allocVars, boardVars, bcAt,
                   bcDue, due, sigVars, bcHistory>>

\* Get_Msgentry_Status_Px reads the status word until END_OF_MSG is there,
\* whatever the error bits and stop_flag ...
BcPoll ==
    /\ PlatformAlive /\ bcPc = "poll"
    /\ status[FrameId(Current)] # "clear"
    /\ word' = status[FrameId(Current)]
    /\ bcPc' = "reset"
    /\ UNCHANGED <<config, platformPc, bcModule, allocVars, boardVars, bcAt,
                   bcDue, due, sigVars, bcHistory>>

\* Mutant of BcReset: the status word is left as it is.
BcResetForgotten ==
    /\ PlatformAlive /\ bcPc = "reset"
    /\ bcPc' = "sent"
    /\ UNCHANGED <<config, platformPc, bcModule, allocVars, boardVars, bcAt,
                   bcDue, word, due, sigVars, bcHistory>>

\* ... and then clears it.
BcReset ==
    /\ PlatformAlive /\ bcPc = "reset"
    /\ status' = [status EXCEPT ![FrameId(Current)] = "clear"]
    /\ bcPc' = "sent"
    /\ UNCHANGED <<config, platformPc, bcModule, allocVars, pointer, start,
                   bcBoard, bcAt, bcDue, word, due, sigVars, bcHistory>>

\* The rest of the loop body, the result of send_msg ignored: a message sent is
\* printed and one requested is read, if the handle is still good;
\* last_time = elapsed_ms.
BcNext ==
    /\ PlatformAlive /\ bcPc \in {"sent", "sendFailed"}
    /\ due' = due \ {Current}
    /\ bcAt' = bcAt + 1
    /\ bcPc' = "pass" /\ word' = "clear"
    /\ UNCHANGED <<config, platformPc, bcModule, allocVars, boardVars, bcDue,
                   sigVars, bcHistory>>

-----------------------------------------------------------------------------
(* Firmware (external). *)

FwStart ==
    /\ PlatformAlive /\ start /\ bcBoard = "halted"
    /\ bcBoard' = "exec"
    /\ UNCHANGED <<config, platformPc, bcModule, allocVars, pointer, start,
                   status, bcVars, due, sigVars, bcHistory>>

\* The selected message crosses the bus; an RT that answers leaves its data in
\* the message block, otherwise the block keeps what it held.
FwExec(outcome) ==
    /\ PlatformAlive /\ bcBoard = "exec"
    /\ bcBoard' = outcome
    /\ executed' = (frames[pointer + 1] = Current)
    /\ fresh' = (executed' /\ outcome = "ok")
    /\ UNCHANGED <<config, platformPc, bcModule, allocVars, pointer, start,
                   status, bcVars, due, sigVars, failed>>

FwStatus ==
    /\ PlatformAlive /\ bcBoard \in {"ok", "err"}
    /\ status' = [status EXCEPT ![pointer] = bcBoard]
    /\ bcBoard' = "eom"
    /\ UNCHANGED <<config, platformPc, bcModule, allocVars, pointer, start,
                   bcVars, due, sigVars, bcHistory>>

FwHalt ==
    /\ PlatformAlive /\ bcBoard = "eom"
    /\ bcBoard' = "halted" /\ start' = FALSE
    /\ UNCHANGED <<config, platformPc, bcModule, allocVars, pointer, status,
                   bcVars, due, sigVars, bcHistory>>

-----------------------------------------------------------------------------
PlatformMainStep ==
    \/ BcReadConfig \/ InitModuleFails \/ BcInitModule \/ SetModeFails \/ SetMode
    \/ CreateFrame \/ CreateFrameFails \/ CreateFramesDone \/ CreateThread
    \/ CreateThreadFails \/ BcInstallHandler \/ Join \/ MainReleases
BcStep ==
    \/ BcCheck \/ BcPassEnds \/ BcSkip \/ BcStartFrame \/ BcStartFrameFails \/ BcRunBC
    \/ BcRunBCTimesOut \/ BcPoll \/ BcReset \/ BcNext
FwStep == FwStart \/ FwStatus \/ FwHalt \/ \E o \in {"ok", "err"} : FwExec(o)

PlatformNext ==
    \/ PlatformMainStep \/ BcStep \/ FwStep \/ PlatformSigInt
    \/ \E m \in Texts : Tick(m)

PlatformSpec == PlatformInit /\ [][PlatformNext]_platformVars

\* The thread is scheduled, the board works and time passes.
PlatformFairSpec ==
    /\ PlatformSpec
    /\ WF_platformVars(PlatformMainStep) /\ WF_platformVars(BcStep)
    /\ WF_platformVars(FwStep)
    /\ \A m \in Texts : WF_platformVars(Tick(m))

-----------------------------------------------------------------------------
PlatformTypeOK ==
    /\ config \in Configs
    /\ platformPc \in {"config", "initModule", "setMode", "create", "createThread",
                   "signal", "join", "release"} \cup PlatformEnded
    /\ bcModule \in BOOLEAN /\ start \in BOOLEAN
    /\ msgs \in Seq(Texts) /\ Len(msgs) < MSGMAX
    /\ frames \in Seq(Texts) /\ Len(frames) <= MAXFRAMES
    /\ pointer \in 0..(MAXFRAMES - 1)
    /\ bcBoard \in {"halted", "exec", "ok", "err", "eom"}
    /\ status \in [0..(MAXFRAMES - 1) -> {"clear", "ok", "err"}]
    /\ bcPc \in {"none", "check", "pass", "run", "poll", "reset", "sent",
                 "sendFailed", "ended"}
    /\ bcAt \in Nat \ {0} /\ bcDue \subseteq Texts /\ word \in {"clear", "ok", "err"}
    /\ due \subseteq Texts
    /\ bc_stop_flag \in BOOLEAN /\ bcInstalled \in BOOLEAN /\ sigint \in BOOLEAN
    /\ failed \in BOOLEAN /\ executed \in BOOLEAN /\ fresh \in BOOLEAN

\* When send_msg returns 0 the bus has carried the message of this very call,
\* not an earlier run of the frame, and the data read_msg will print are the
\* answer to it unless the status word reported an error.
SendWaitsForBus ==
    bcPc = "sent" => executed /\ (word = "ok" => fresh)

\* init_module_1553 ignores the result of create_frames; yet no frame is ever
\* started after a failure, because handle_error has set stop_flag.
NoRunAfterFailedSetup == failed => bcPc \in {"none", "check", "ended"}

\* Release_Module_Px's description: the module is released before every regular
\* end of the program, after errors as well.
ReleasedBeforeExit == platformPc \in {"exit0", "exit1"} => ~bcModule

\* A set-up that failed, at whichever step, is undone.
FailedSetupUndone == NoRunAfterFailedSetup /\ ReleasedBeforeExit

\* A message that has become due is sent, unless the program is told to stop.
DueMessageSent ==
    \A m \in Texts : m \in due ~> m \notin due \/ bc_stop_flag \/ ~PlatformAlive

\* README, Signal Handling: SIGINT ends the thread and the process, though the
\* thread spins on the status word without looking at stop_flag.
SigintEndsPlatform == sigint /\ bcInstalled ~> platformPc = "exit0"
=============================================================================

----------------------------- MODULE IcuProcess -----------------------------
(***************************************************************************)
(* The life of the icu process: main (icu.c), its three threads, the       *)
(* SIGINT handler, and the resources they share without a lock: the 1553   *)
(* module's handle and mapping, the socket, the configuration.  What the   *)
(* threads do with a message is in IcuRt; here a thread is the sequence of *)
(* its checks of the shared state and its blocking calls.                  *)
(*                                                                         *)
(* SIGINT may be delivered at any moment and, since any thread may receive *)
(* it, a second one may be handled while the first still is.               *)
(***************************************************************************)
EXTENDS Naturals, FiniteSets

CONSTANT Signals     \* the SIGINTs delivered during one execution

ASSUME SignalsAssumption == IsFiniteSet(Signals)

VARIABLES
    mainPc,      \* next statement of main, or how the process ended
    module,      \* the 1553 module: "none" (handle = -1), "mapped" (handle,
                 \* cardpx[handle].allocated and the mapped dual-port RAM),
                 \* "unmapped" (inside Release_Module_Px)
    rtThread, rxThread, txThread, \* the threads; "none" before pthread_create
    sockfd,      \* sockfd > 0
    socket,      \* the descriptor in the kernel: "none", "open", "closed"
    shut,        \* shutdown(sockfd, SHUT_RD) has marked the socket
    icu_isThreadRun, icu_stop_flag,
    installed,   \* signal(SIGINT, handle_sigint) has been called
    sigPc,       \* each SIGINT: "due", the handler's next statement, "done"
    freed,       \* main has freed the message lists and closed the log
    rtFailed     \* history: rt_1553_thread gave up during its setup

sockVars == <<sockfd, socket, shut>>
lifeVars == <<mainPc, module, rtThread, rxThread, txThread, sockVars,
              icu_isThreadRun, icu_stop_flag, installed, sigPc, freed,
              rtFailed>>

Ended == {"exit0", "exit1", "killed", "segv"}

\* A process that has ended takes its threads with it.
Alive == mainPc \notin Ended

LifeInit ==
    /\ mainPc = "config"
    /\ module = "none"
    /\ rtThread = "none" /\ rxThread = "none" /\ txThread = "none"
    /\ sockfd = FALSE /\ socket = "none" /\ shut = FALSE
    /\ icu_isThreadRun = FALSE /\ icu_stop_flag = FALSE /\ installed = FALSE
    /\ sigPc = [s \in Signals |-> "due"]
    /\ freed = FALSE /\ rtFailed = FALSE

-----------------------------------------------------------------------------
(* main *)

Main(from, to) == mainPc = from /\ mainPc' = to

\* ini_parse and init_logger.
ReadConfig ==
    /\ \/ Main("config", "initModule")
       \/ Main("config", "exit1")
    /\ UNCHANGED <<module, rtThread, rxThread, txThread, sockVars,
                   icu_isThreadRun, icu_stop_flag, installed, sigPc, freed,
                   rtFailed>>

\* init_module_1553 up to pthread_create: Init_Module_Px opens and maps.
InitModule ==
    /\ \/ /\ Main("initModule", "createRt")
          /\ module' = "mapped"
       \/ Main("initModule", "exit1") /\ UNCHANGED module
    /\ UNCHANGED <<rtThread, rxThread, txThread, sockVars, icu_isThreadRun,
                   icu_stop_flag, installed, sigPc, freed, rtFailed>>

\* pthread_create(rt_1553_thread); when it fails release_module_1553 runs.
CreateRt ==
    /\ \/ /\ Main("createRt", "initSocket")
          /\ rtThread' = "setup"
          /\ UNCHANGED <<module, icu_stop_flag>>
       \/ /\ Main("createRt", "exit1")
          /\ icu_stop_flag' = TRUE
          /\ module' = "none"
          /\ UNCHANGED rtThread
    /\ UNCHANGED <<rxThread, txThread, sockVars, icu_isThreadRun, installed,
                   sigPc, freed, rtFailed>>

\* init_socket: socket, bind, inet_pton.  On failure sockfd keeps the number
\* of a closed descriptor; main returns 1 at once.
InitSocket ==
    /\ \/ /\ Main("initSocket", "createRx")
          /\ sockfd' = TRUE /\ socket' = "open" /\ UNCHANGED shut
       \/ Main("initSocket", "exit1") /\ UNCHANGED sockVars
    /\ UNCHANGED <<module, rtThread, rxThread, txThread, icu_isThreadRun,
                   icu_stop_flag, installed, sigPc, freed, rtFailed>>

CreateRx ==
    /\ \/ Main("createRx", "createTx") /\ rxThread' = "check" /\ UNCHANGED socket
       \/ Main("createRx", "exit1") /\ socket' = "closed" /\ UNCHANGED rxThread
    /\ UNCHANGED <<module, rtThread, txThread, sockfd, shut, icu_isThreadRun,
                   icu_stop_flag, installed, sigPc, freed, rtFailed>>

CreateTx ==
    /\ \/ Main("createTx", "signal") /\ txThread' = "check" /\ UNCHANGED socket
       \/ Main("createTx", "exit1") /\ socket' = "closed" /\ UNCHANGED txThread
    /\ UNCHANGED <<module, rtThread, rxThread, sockfd, shut, icu_isThreadRun,
                   icu_stop_flag, installed, sigPc, freed, rtFailed>>

InstallHandler ==
    /\ Main("signal", "join1553")
    /\ installed' = TRUE
    /\ UNCHANGED <<module, rtThread, rxThread, txThread, sockVars,
                   icu_isThreadRun, icu_stop_flag, sigPc, freed, rtFailed>>

Join1553 ==
    /\ rtThread = "ended"
    /\ Main("join1553", "release")
    /\ UNCHANGED <<module, rtThread, rxThread, txThread, sockVars,
                   icu_isThreadRun, icu_stop_flag, installed, sigPc, freed,
                   rtFailed>>

\* release_module_1553: nothing if the thread has given the module back.
Release ==
    /\ \/ module # "none" /\ Main("release", "unmap") /\ icu_stop_flag' = TRUE
       \/ module = "none" /\ Main("release", "joinRx") /\ UNCHANGED icu_stop_flag
    /\ UNCHANGED <<module, rtThread, rxThread, txThread, sockVars,
                   icu_isThreadRun, installed, sigPc, freed, rtFailed>>

\* Release_Module_Px: CloseKernelDevice unmaps first ...
Unmap ==
    /\ Main("unmap", "deallocate")
    /\ module' = "unmapped"
    /\ UNCHANGED <<rtThread, rxThread, txThread, sockVars, icu_isThreadRun,
                   icu_stop_flag, installed, sigPc, freed, rtFailed>>

\* ... then allocated is cleared, and handle = -1.
Deallocate ==
    /\ Main("deallocate", "joinRx")
    /\ module' = "none"
    /\ UNCHANGED <<rtThread, rxThread, txThread, sockVars, icu_isThreadRun,
                   icu_stop_flag, installed, sigPc, freed, rtFailed>>

\* Mutant of JoinRx: the receive thread is not joined.
JoinRxSkipped ==
    /\ Main("joinRx", "joinTx")
    /\ UNCHANGED <<module, rtThread, rxThread, txThread, sockVars,
                   icu_isThreadRun, icu_stop_flag, installed, sigPc, freed,
                   rtFailed>>

JoinRx ==
    /\ rxThread = "ended"
    /\ Main("joinRx", "joinTx")
    /\ UNCHANGED <<module, rtThread, rxThread, txThread, sockVars,
                   icu_isThreadRun, icu_stop_flag, installed, sigPc, freed,
                   rtFailed>>

JoinTx ==
    /\ txThread = "ended"
    /\ Main("joinTx", "free")
    /\ UNCHANGED <<module, rtThread, rxThread, txThread, sockVars,
                   icu_isThreadRun, icu_stop_flag, installed, sigPc, freed,
                   rtFailed>>

\* free, close_logger.
Free ==
    /\ Main("free", "return")
    /\ freed' = TRUE
    /\ UNCHANGED <<module, rtThread, rxThread, txThread, sockVars,
                   icu_isThreadRun, icu_stop_flag, installed, sigPc, rtFailed>>

Return ==
    /\ Main("return", "exit0")
    /\ UNCHANGED <<module, rtThread, rxThread, txThread, sockVars,
                   icu_isThreadRun, icu_stop_flag, installed, sigPc, freed,
                   rtFailed>>

-----------------------------------------------------------------------------
(* SIGINT *)

\* Before signal() is called the default action ends the process.
SigKills(s) ==
    /\ Alive /\ ~installed /\ sigPc[s] = "due"
    /\ mainPc' = "killed"
    /\ sigPc' = [sigPc EXCEPT ![s] = "done"]
    /\ UNCHANGED <<module, rtThread, rxThread, txThread, sockVars,
                   icu_isThreadRun, icu_stop_flag, installed, freed, rtFailed>>

\* handle_sigint: stop_flag = 1.
SigStop(s) ==
    /\ Alive /\ installed /\ sigPc[s] = "due"
    /\ icu_stop_flag' = TRUE
    /\ sigPc' = [sigPc EXCEPT ![s] = "test"]
    /\ UNCHANGED <<mainPc, module, rtThread, rxThread, txThread, sockVars,
                   icu_isThreadRun, installed, freed, rtFailed>>

\* Mutant of SigShutdown: the descriptor is only closed.
SigShutdownSkipped(s) ==
    /\ Alive /\ sigPc[s] = "test"
    /\ sigPc' = [sigPc EXCEPT ![s] = IF sockfd THEN "close" ELSE "done"]
    /\ UNCHANGED <<mainPc, module, rtThread, rxThread, txThread, sockVars,
                   icu_isThreadRun, icu_stop_flag, installed, freed, rtFailed>>

\* close_socket: if(sockfd > 0) shutdown(sockfd, SHUT_RD).
SigShutdown(s) ==
    /\ Alive /\ sigPc[s] = "test"
    /\ sigPc' = [sigPc EXCEPT ![s] = IF sockfd THEN "close" ELSE "done"]
    /\ shut' = (shut \/ (sockfd /\ socket = "open"))
    /\ UNCHANGED <<mainPc, module, rtThread, rxThread, txThread, sockfd, socket,
                   icu_isThreadRun, icu_stop_flag, installed, freed, rtFailed>>

\* close(sockfd).
SigClose(s) ==
    /\ Alive /\ sigPc[s] = "close"
    /\ socket' = "closed"
    /\ sigPc' = [sigPc EXCEPT ![s] = "reset"]
    /\ UNCHANGED <<mainPc, module, rtThread, rxThread, txThread, sockfd, shut,
                   icu_isThreadRun, icu_stop_flag, installed, freed, rtFailed>>

\* sockfd = -1.
SigReset(s) ==
    /\ Alive /\ sigPc[s] = "reset"
    /\ sockfd' = FALSE
    /\ sigPc' = [sigPc EXCEPT ![s] = "done"]
    /\ UNCHANGED <<mainPc, module, rtThread, rxThread, txThread, socket, shut,
                   icu_isThreadRun, icu_stop_flag, installed, freed, rtFailed>>

-----------------------------------------------------------------------------
(* rt_1553_thread *)

RtSetup ==
    /\ Alive /\ rtThread = "setup"
    /\ rtThread' = "loop" /\ icu_isThreadRun' = TRUE
    /\ UNCHANGED <<mainPc, module, rxThread, txThread, sockVars, icu_stop_flag,
                   installed, sigPc, freed, rtFailed>>

\* Set_Mode, Set_RT_Active or Run_RT fails: the module is released and the
\* thread ends, while main may still be in init_socket.
RtGivesUp ==
    /\ Alive /\ rtThread = "setup"
    /\ module' = "none"
    /\ rtThread' = "ended" /\ rtFailed' = TRUE
    /\ UNCHANGED <<mainPc, rxThread, txThread, sockVars, icu_isThreadRun,
                   icu_stop_flag, installed, sigPc, freed>>

\* An iteration of the loop leaves this state as it is; stop_flag ends it.
RtLoopEnds ==
    /\ Alive /\ rtThread = "loop" /\ icu_stop_flag
    /\ rtThread' = "ended"
    /\ UNCHANGED <<mainPc, module, rxThread, txThread, sockVars,
                   icu_isThreadRun, icu_stop_flag, installed, sigPc, freed,
                   rtFailed>>

-----------------------------------------------------------------------------
(* receive_data *)

\* while (!stop_flag): recvfrom's arguments are read with the test passed.
RxCheck ==
    /\ Alive /\ rxThread = "check"
    /\ rxThread' = IF icu_stop_flag THEN "ended" ELSE "call"
    /\ UNCHANGED <<mainPc, module, rtThread, txThread, sockVars,
                   icu_isThreadRun, icu_stop_flag, installed, sigPc, freed,
                   rtFailed>>

\* recvfrom fails with EBADF for a closed descriptor, and blocks otherwise.
RxCall ==
    /\ Alive /\ rxThread = "call"
    /\ rxThread' = IF sockfd /\ socket = "open" THEN "blocked" ELSE "ended"
    /\ UNCHANGED <<mainPc, module, rtThread, txThread, sockVars,
                   icu_isThreadRun, icu_stop_flag, installed, sigPc, freed,
                   rtFailed>>

\* A datagram is delivered; the blocked call keeps the socket in existence,
\* and what has been queued is delivered even after the shutdown.
RxDatagram ==
    /\ Alive /\ rxThread = "blocked"
    /\ rxThread' = "parse"
    /\ UNCHANGED <<mainPc, module, rtThread, txThread, sockVars,
                   icu_isThreadRun, icu_stop_flag, installed, sigPc, freed,
                   rtFailed>>

\* The call returns 0 once the socket is shut down; close alone wakes nobody.
RxWoken ==
    /\ Alive /\ rxThread = "blocked" /\ shut
    /\ rxThread' = "ended"
    /\ UNCHANGED <<mainPc, module, rtThread, txThread, sockVars,
                   icu_isThreadRun, icu_stop_flag, installed, sigPc, freed,
                   rtFailed>>

\* Mutant of RxParses: answers are loaded without asking getIsThreadRun.
RxParseAlways ==
    /\ Alive /\ rxThread = "parse"
    /\ rxThread' \in {"check", "load"}
    /\ UNCHANGED <<mainPc, module, rtThread, txThread, sockVars,
                   icu_isThreadRun, icu_stop_flag, installed, sigPc, freed,
                   rtFailed>>

\* parse_buffer: an ICU_STATUS_ACK is only printed, anything else is loaded,
\* once the RT thread runs.
RxParses ==
    /\ Alive /\ rxThread = "parse"
    /\ \/ rxThread' = "check"
       \/ icu_isThreadRun /\ rxThread' = "load"
    /\ UNCHANGED <<mainPc, module, rtThread, txThread, sockVars,
                   icu_isThreadRun, icu_stop_flag, installed, sigPc, freed,
                   rtFailed>>

\* Load_Datablk_Px: the checks of the handle ...
RxLoad ==
    /\ Alive /\ rxThread = "load"
    /\ rxThread' = IF module # "none" THEN "write" ELSE "check"
    /\ UNCHANGED <<mainPc, module, rtThread, txThread, sockVars,
                   icu_isThreadRun, icu_stop_flag, installed, sigPc, freed,
                   rtFailed>>

\* ... and the write to the dual-port RAM, which faults once it is unmapped.
RxWrite ==
    /\ Alive /\ rxThread = "write"
    /\ IF module = "mapped" THEN rxThread' = "check" /\ UNCHANGED mainPc
       ELSE mainPc' = "segv" /\ UNCHANGED rxThread
    /\ UNCHANGED <<module, rtThread, txThread, sockVars, icu_isThreadRun,
                   icu_stop_flag, installed, sigPc, freed, rtFailed>>

-----------------------------------------------------------------------------
(* transmit_data *)

TxCheck ==
    /\ Alive /\ txThread = "check"
    /\ txThread' = IF icu_stop_flag THEN "ended" ELSE "send"
    /\ UNCHANGED <<mainPc, module, rtThread, rxThread, sockVars,
                   icu_isThreadRun, icu_stop_flag, installed, sigPc, freed,
                   rtFailed>>

\* A pass over the message list; sendto may fail, nothing waits for it.
TxSend ==
    /\ Alive /\ txThread = "send"
    /\ txThread' = "check"
    /\ UNCHANGED <<mainPc, module, rtThread, rxThread, sockVars,
                   icu_isThreadRun, icu_stop_flag, installed, sigPc, freed,
                   rtFailed>>

-----------------------------------------------------------------------------
MainStep ==
    \/ ReadConfig \/ InitModule \/ CreateRt \/ InitSocket \/ CreateRx \/ CreateTx
    \/ InstallHandler \/ Join1553 \/ Release \/ Unmap \/ Deallocate \/ JoinRx
    \/ JoinTx \/ Free \/ Return
Handler(s) == SigShutdown(s) \/ SigClose(s) \/ SigReset(s)
RtStep == RtSetup \/ RtGivesUp \/ RtLoopEnds
RxStep == RxCheck \/ RxCall \/ RxWoken \/ RxParses \/ RxLoad \/ RxWrite
TxStep == TxCheck \/ TxSend

LifeNext ==
    \/ MainStep \/ RtStep \/ RxStep \/ RxDatagram \/ TxStep
    \/ \E s \in Signals : SigKills(s) \/ SigStop(s) \/ Handler(s)

LifeSpec == LifeInit /\ [][LifeNext]_lifeVars

\* Every thread and every handler is scheduled; nobody is obliged to press
\* Ctrl+C or to send a datagram.
LifeFairSpec ==
    /\ LifeSpec
    /\ WF_lifeVars(MainStep) /\ WF_lifeVars(RtStep)
    /\ WF_lifeVars(RxStep) /\ WF_lifeVars(TxStep)
    /\ \A s \in Signals : WF_lifeVars(Handler(s))

-----------------------------------------------------------------------------
LifeTypeOK ==
    /\ mainPc \in {"config", "initModule", "createRt", "initSocket", "createRx",
                   "createTx", "signal", "join1553", "release", "unmap",
                   "deallocate", "joinRx", "joinTx", "free", "return"} \cup Ended
    /\ module \in {"none", "mapped", "unmapped"}
    /\ rtThread \in {"none", "setup", "loop", "ended"}
    /\ rxThread \in {"none", "check", "call", "blocked", "parse", "load", "write",
               "ended"}
    /\ txThread \in {"none", "check", "send", "ended"}
    /\ sockfd \in BOOLEAN /\ shut \in BOOLEAN
    /\ socket \in {"none", "open", "closed"}
    /\ icu_isThreadRun \in BOOLEAN /\ icu_stop_flag \in BOOLEAN
    /\ installed \in BOOLEAN
    /\ sigPc \in [Signals -> {"due", "test", "close", "reset", "done"}]
    /\ freed \in BOOLEAN /\ rtFailed \in BOOLEAN

\* main frees the message lists and closes the log only when no thread can use
\* them any more (icu.c joins all three threads first).
JoinedBeforeFree ==
    freed => rtThread = "ended" /\ rxThread = "ended" /\ txThread = "ended"

\* While rt_1553_thread runs, the module it polls is mapped and allocated: the
\* thread is the only one to release it before main has joined the thread.
PolledModuleMapped == Alive /\ rtThread \in {"setup", "loop"} => module = "mapped"

\* How far the threads can be for each statement of main (icu.c): a thread has
\* not started before its pthread_create and has ended after its join.
ThreadsFollowMain ==
    /\ mainPc \in {"config", "initModule", "createRt"} => rtThread = "none"
    /\ mainPc \in {"config", "initModule", "createRt", "initSocket", "createRx"}
         => rxThread = "none"
    /\ mainPc \in {"config", "initModule", "createRt", "initSocket", "createRx",
                   "createTx"} => txThread = "none"
    /\ mainPc \in {"release", "unmap", "deallocate", "joinRx", "joinTx", "free",
                   "return"} => rtThread = "ended"
    /\ mainPc \in {"joinTx", "free", "return"} => rxThread = "ended"
    /\ mainPc \in {"free", "return"} => txThread = "ended"

\* The module is mapped from the moment the RT thread can be created until it
\* has ended, and an answer is on its way to it only if isThreadRun was set,
\* which a thread that gave up during its setup has not done.
ModuleFollowsRt ==
    /\ mainPc = "createRt" => module = "mapped"
    /\ Alive /\ rtThread \in {"setup", "loop"} => module = "mapped"
    /\ icu_isThreadRun => rtThread \in {"loop", "ended"}
    /\ rtFailed => rtThread = "ended" /\ ~icu_isThreadRun
    /\ rxThread \in {"load", "write"} => icu_isThreadRun

\* The invariant the four orderings of start and shutdown rest on: main's
\* statement bounds every thread, and the threads bound the module's state.
LifeInv == LifeTypeOK /\ ThreadsFollowMain /\ ModuleFollowsRt /\ JoinedBeforeFree

\* A module whose RT setup failed is never loaded with an answer.
FailedModuleNotLoaded == rtFailed => rxThread \notin {"load", "write"}

\* README, Signal Handling: once handle_sigint has run, all threads end and the
\* process with them (by a return of main unless the write below faults).
SigintEndsProcess ==
    \A s \in Signals : sigPc[s] = "test" ~> mainPc \in {"exit0", "segv"}

\* README, Signal Handling: the shutdown is graceful; no thread is left writing
\* to a module that main has already unmapped.
GracefulShutdown == mainPc # "segv"
=============================================================================

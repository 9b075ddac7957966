------------------------------- MODULE PxMode -------------------------------
(***************************************************************************)
(* The mode of a module, kept twice: in the board_config register of the   *)
(* module and in the handle, whose copy is what every routine's mode test  *)
(* looks at.  Set_Mode_Px resets the module and waits for it; the loopback *)
(* tests and Set_ModuleTime_Px put it into a mode of their own and leave   *)
(* it there.  Every wait gives up after TIMEOUT_VAL polls, at whatever     *)
(* point the module then is.  The module is external.                      *)
(***************************************************************************)
EXTENDS Naturals

CONSTANTS
    UserModes,      \* the modes a program asks for
    ModeModules,    \* of [nios, monOnly]: processor, MONITOR_ONLY_MODE
    MaxModeCalls    \* bound on the calls

VARIABLES
    modeModule,     \* the module
    hostMode,       \* board_config of the handle
    boardMode,      \* board_config of the module; "none" after a reset
    board_id,       \* TRUE: 'E', the module is up
    board_ready,    \* the low bits of board_status are all set
    boardRuns,      \* the module has not reported BOARD_HALTED
    startReg,       \* the start register: 0, 1, or 5 to set the time
    booting,        \* the module is coming out of a reset
    modeCall,       \* the call in progress: step and mode
    agreed,         \* history: the mode last given to the module
    lostMode,       \* history: a reset the handle did not see through
    modeCalls

ModeVars == <<modeModule, hostMode, boardMode, board_id, board_ready, boardRuns, startReg,
              booting, modeCall, agreed, lostMode, modeCalls>>
BoardVars == <<board_id, board_ready, boardRuns, booting>>

NoModeCall == [pc |-> "idle", mode |-> "none"]
BeginCall(pc, m) == /\ modeCall = NoModeCall /\ modeCalls < MaxModeCalls
                /\ modeCalls' = modeCalls + 1
                /\ modeCall' = [pc |-> pc, mode |-> m]
CallWaits(pc) == /\ modeCall' = [modeCall EXCEPT !.pc = pc]
            /\ UNCHANGED modeCalls
Answers == /\ modeCall' = NoModeCall
           /\ UNCHANGED modeCalls
\* Both copies of the mode are written.
WritesMode(m) == /\ boardMode' = m /\ hostMode' = m /\ agreed' = m
                 /\ lostMode' = FALSE
KeepsMode == UNCHANGED <<hostMode, boardMode, agreed, lostMode>>

(***************************************************************************)
(* The module (external).                                                  *)
(***************************************************************************)
Announces ==
    /\ booting /\ ~board_id
    /\ board_id' = TRUE
    /\ KeepsMode
    /\ UNCHANGED <<modeModule, board_ready, boardRuns, booting, startReg, modeCall, modeCalls>>
BecomesReady ==
    /\ booting /\ board_id
    /\ board_ready' = TRUE /\ booting' = FALSE
    /\ KeepsMode
    /\ UNCHANGED <<modeModule, board_id, boardRuns, startReg, modeCall, modeCalls>>
Halts ==
    /\ startReg = 0 /\ boardRuns
    /\ boardRuns' = FALSE
    /\ KeepsMode
    /\ UNCHANGED <<modeModule, board_id, board_ready, booting, startReg, modeCall, modeCalls>>
\* A loopback test clears the start register when it is done, setting the time
\* reports in board_status.
BoardStarts ==
    /\ startReg # 0 /\ ~boardRuns /\ ~booting
    /\ boardRuns' = TRUE
    /\ KeepsMode
    /\ UNCHANGED <<modeModule, board_id, board_ready, booting, startReg, modeCall, modeCalls>>
TestDone ==
    /\ boardRuns /\ startReg = 1 /\ boardMode \in {"ILB", "ELB"}
    /\ startReg' = 0
    /\ KeepsMode
    /\ UNCHANGED <<modeModule, BoardVars, modeCall, modeCalls>>

(***************************************************************************)
(* Set_Mode_Px.                                                            *)
(***************************************************************************)
\* The identification and the status are cleared, then the module is reset;
\* that the reset may be refused is not looked at.
Set_Mode_PxEarly(m) ==
    /\ modeModule.nios /\ modeModule.monOnly => m = "MON"
    /\ BeginCall("waitE", m)
    /\ board_id' = FALSE /\ board_ready' = FALSE
    /\ booting' = TRUE /\ boardRuns' = FALSE /\ startReg' = 0
    /\ boardMode' = "none" /\ lostMode' = TRUE /\ hostMode' = m
    /\ UNCHANGED <<agreed, modeModule>>
Set_Mode_Px(m) ==
    /\ modeModule.nios /\ modeModule.monOnly => m = "MON"
    /\ BeginCall("waitE", m)
    /\ board_id' = FALSE /\ board_ready' = FALSE
    /\ \/ /\ booting' = TRUE /\ boardRuns' = FALSE /\ startReg' = 0
          /\ boardMode' = "none" /\ lostMode' = TRUE
          /\ UNCHANGED <<hostMode, agreed>>
       \/ /\ KeepsMode
          /\ UNCHANGED <<booting, boardRuns, startReg>>
    /\ UNCHANGED modeModule
SetModeFound ==
    /\ modeCall.pc = "waitE" /\ board_id
    /\ CallWaits("waitReady")
    /\ KeepsMode
    /\ UNCHANGED <<modeModule, BoardVars, startReg>>
SetModeTimeout ==
    /\ modeCall.pc = "waitE"
    /\ Answers
    /\ KeepsMode
    /\ UNCHANGED <<modeModule, BoardVars, startReg>>
\* The second wait is for the status; efound is still set, so that when it runs
\* out the call goes on all the same.  The handle's pointers are then set up
\* for the mode; where they point is the initial state of PxMessages and PxMon.
SetModeWrites ==
    /\ modeCall.pc = "waitReady"
    /\ Answers
    /\ WritesMode(modeCall.mode)
    /\ UNCHANGED <<modeModule, BoardVars, startReg>>

(***************************************************************************)
(* The loopback tests: 0xed and 0xff are modes ILB and ELB.                *)
(***************************************************************************)
LoopbackStart(m) ==
    /\ BeginCall("waitHalted", m)
    /\ startReg' = 0
    /\ WritesMode(m)
    /\ UNCHANGED <<modeModule, BoardVars>>
Internal_Loopback_Px == LoopbackStart("ILB")
External_Loopback_Px == ~(modeModule.nios /\ modeModule.monOnly) /\ LoopbackStart("ELB")
LoopbackRuns ==
    /\ modeCall.pc = "waitHalted" /\ modeCall.mode \in {"ILB", "ELB"} /\ ~boardRuns
    /\ CallWaits("waitDone")
    /\ startReg' = 1
    /\ KeepsMode
    /\ UNCHANGED <<modeModule, BoardVars>>
LoopbackEnds ==
    /\ modeCall.pc = "waitDone" /\ startReg = 0
    /\ Answers
    /\ KeepsMode
    /\ UNCHANGED <<modeModule, BoardVars, startReg>>
\* Any of their waits may run out.
WaitRunsOut ==
    /\ modeCall.pc \in {"waitHalted", "waitDone", "waitTime"}
    /\ Answers
    /\ KeepsMode
    /\ UNCHANGED <<modeModule, BoardVars, startReg>>

(***************************************************************************)
(* Set_ModuleTime_Px: the module is stopped, then put into download mode.  *)
(***************************************************************************)
Set_ModuleTime_Px ==
    /\ modeModule.nios
    /\ BeginCall("waitHalted", "DWNLD")
    /\ startReg' = 0
    /\ KeepsMode
    /\ UNCHANGED <<modeModule, BoardVars>>
ModuleTimeSets ==
    /\ modeCall.pc = "waitHalted" /\ modeCall.mode = "DWNLD" /\ ~boardRuns
    /\ CallWaits("waitTime")
    /\ startReg' = 5
    /\ WritesMode("DWNLD")
    /\ UNCHANGED <<modeModule, BoardVars>>
ModuleTimeEnds ==
    /\ modeCall.pc = "waitTime" /\ boardRuns
    /\ Answers
    /\ KeepsMode
    /\ UNCHANGED <<modeModule, BoardVars, startReg>>

\* Restart_Px sets bit 0 of the start register, as the Run routines do.
Restart_Px ==
    /\ BeginCall("idle", "none") /\ startReg = 0
    /\ startReg' = 1
    /\ KeepsMode
    /\ UNCHANGED <<modeModule, BoardVars>>

-----------------------------------------------------------------------------
ModeInit ==
    /\ modeModule \in ModeModules
    /\ hostMode = "init" /\ boardMode = "init" /\ agreed = "init"
    /\ board_id = TRUE /\ board_ready = TRUE
    /\ boardRuns = FALSE /\ startReg = 0 /\ booting = FALSE
    /\ modeCall = NoModeCall /\ modeCalls = 0
    /\ lostMode = FALSE
ModeNext ==
    \/ Announces \/ BecomesReady \/ Halts \/ BoardStarts \/ TestDone
    \/ \E m \in UserModes : Set_Mode_Px(m)
    \/ SetModeFound \/ SetModeTimeout \/ SetModeWrites
    \/ Internal_Loopback_Px \/ External_Loopback_Px \/ LoopbackRuns \/ LoopbackEnds
    \/ Set_ModuleTime_Px \/ ModuleTimeSets \/ ModuleTimeEnds \/ WaitRunsOut
    \/ Restart_Px

ModeSpec == ModeInit /\ [][ModeNext]_ModeVars

\* Between calls the handle has the mode the module was last given, whichever
\* wait ran out; the module has it too, unless a Set_Mode_Px whose reset got
\* through gave up waiting: the module then has none, and the handle's copy
\* goes on saying the old one.
ModeAgrees ==
    modeCall = NoModeCall =>
        /\ hostMode = agreed
        /\ boardMode = agreed \/ (boardMode = "none" /\ lostMode)
=============================================================================

--------------------------- MODULE PlatformProofs ---------------------------
(***************************************************************************)
(* The platform bus controller, proved for every configuration and every   *)
(* number of messages and frames: a send waits for its own run of its own  *)
(* frame, and a set-up that failed is undone.                              *)
(***************************************************************************)
EXTENDS Platform, TLAPS

USE ConfigsAssumption, LimitsAssumption

\* The frames created are those of the first messages.
FramesFollow ==
    /\ Len(frames) <= Len(Configured)
    /\ \A i \in 1..Len(frames) : frames[i] = Configured[i]

\* How far main has come, and with it the module and the thread.  The thread
\* exists once the frames are there or their creation has failed; a failure has
\* set stop_flag, because the module was still held.
SetupStage ==
    /\ platformPc \in {"config", "initModule", "setMode", "create", "createThread"} => bcPc = "none"
    /\ platformPc \in {"setMode", "create"} => bcModule
    /\ platformPc \in {"config", "initModule"} => ~bcModule
    /\ platformPc = "createThread" \/ bcPc # "none" => failed \/ Len(frames) = Len(Configured)
    /\ failed => bc_stop_flag
    /\ platformPc = "release" => bcPc = "ended"

\* Every status word but the one of the frame in use is clear.
ClearBut(S) == \A f \in (0..(MAXFRAMES - 1)) \ S : status[f] = "clear"

\* The board is done with what it was started for.
BoardDone == bcBoard \in {"halted", "eom"} /\ (start => bcBoard = "eom")

\* The run reported by o was one of this send.
Carried(o) == executed /\ (o = "ok" => fresh)

\* Where a send stands.
SendStage ==
    /\ bcPc \in {"run", "poll", "reset", "sent", "sendFailed"} => bcAt <= Len(Configured)
    /\ bcPc \in {"run", "poll", "reset"} => pointer = bcAt - 1 /\ ~failed
    /\ bcPc \notin {"poll", "reset"} => ClearBut({}) /\ BoardDone
    /\ bcPc = "poll" =>
          \/ ClearBut({}) /\ start /\ bcBoard \in {"halted", "exec"}
          \/ ClearBut({}) /\ bcBoard \in {"ok", "err"} /\ Carried(bcBoard)
          \/ /\ ClearBut({pointer}) /\ BoardDone
             /\ status[pointer] # "clear" /\ Carried(status[pointer])
    /\ bcPc = "reset" => ClearBut({pointer}) /\ BoardDone /\ Carried(word)

PlatformInv ==
    PlatformTypeOK /\ FramesFollow /\ SetupStage /\ SendStage /\ SendWaitsForBus /\ FailedSetupUndone
\* The messages of the configuration: each is there once.
LEMMA ConfiguredFacts ==
    ASSUME PlatformTypeOK
    PROVE  /\ Configured \in Seq(Texts) /\ Len(Configured) \in Nat
           /\ \A i \in 1..Len(Configured) : Configured[i] \in Texts
           /\ \A i, j \in 1..Len(Configured) : Configured[i] = Configured[j] => i = j
<1>1. config \in Configs /\ config.tx \in Seq(STRING) /\ config.rx \in Seq(STRING)
    BY DEF PlatformTypeOK
<1>2. Configured \in Seq(STRING) /\ Configured = AllMessages(config)
    BY <1>1 DEF Configured, AllMessages
<1>3. \A i \in 1..Len(Configured) : Configured[i] \in Texts
    BY <1>1, <1>2 DEF Texts
<1> QED BY <1>1, <1>2, <1>3

\* The configuration does not change.
LEMMA ConfigFixed == [PlatformNext]_platformVars => Configured' = Configured
<1> SUFFICES ASSUME [PlatformNext]_platformVars
             PROVE  config' = config
    BY DEF Configured
<1>1. PlatformMainStep => config' = config
    BY DEF PlatformMainStep, BcReadConfig, InitModuleFails, BcInitModule, SetModeFails, SetMode, CreateFrame,
           CreateFrameFails, CreateFramesDone, CreateThread, CreateThreadFails, BcInstallHandler,
           Join, MainReleases
<1>2. BcStep => config' = config
    BY DEF BcStep, BcCheck, BcPassEnds, BcSkip, BcStartFrame, BcStartFrameFails, BcRunBC,
           BcRunBCTimesOut, BcPoll, BcReset, BcNext
<1>3. FwStep \/ PlatformSigInt \/ (\E m \in Texts : Tick(m)) => config' = config
    BY DEF FwStep, FwStart, FwExec, FwStatus, FwHalt, PlatformSigInt, Tick
<1> QED BY <1>1, <1>2, <1>3 DEF PlatformNext, platformVars

\* Once its frames are there, the frame of a message is at the message's place.
LEMMA FrameOfMessage ==
    ASSUME PlatformTypeOK, FramesFollow, Len(frames) = Len(Configured), NEW i \in 1..Len(Configured)
    PROVE  FrameId(Configured[i]) = i - 1
<1>1. \A j \in 1..Len(frames) : frames[j] = Configured[i] <=> j = i
    BY ConfiguredFacts DEF FramesFollow
<1>2. i \in 1..Len(frames)
    OBVIOUS
<1>3. (CHOOSE j \in 1..Len(frames) : frames[j] = Configured[i]) = i
    BY <1>1, <1>2
<1> QED BY <1>1, <1>2, <1>3 DEF FrameId

\* The thread passes over the messages only when their frames are there.
LEMMA FramesThere ==
    ASSUME PlatformInv, bcPc \notin {"none", "check", "ended"}
    PROVE  /\ ~failed /\ Len(frames) = Len(Configured)
           /\ bcAt <= Len(Configured) =>
                 FrameId(Current) = bcAt - 1 /\ bcAt - 1 \in 0..(MAXFRAMES - 1)
<1>1. ~failed /\ Len(frames) = Len(Configured)
    BY DEF PlatformInv, FailedSetupUndone, NoRunAfterFailedSetup, SetupStage
<1>2. PlatformTypeOK /\ FramesFollow
    BY DEF PlatformInv
<1>3. ASSUME bcAt <= Len(Configured)
      PROVE  FrameId(Current) = bcAt - 1 /\ bcAt - 1 \in 0..(MAXFRAMES - 1)
  <2>1. bcAt \in 1..Len(Configured)
      BY <1>2, <1>3, ConfiguredFacts DEF PlatformTypeOK
  <2>2. FrameId(Current) = bcAt - 1
      BY <1>1, <1>2, <2>1, FrameOfMessage DEF Current
  <2> QED BY <1>1, <1>2, <2>1, <2>2 DEF PlatformTypeOK
<1> QED BY <1>1, <1>3

\* Release, called with any state of the board.
LEMMA ReleaseTypes ==
    ASSUME PlatformTypeOK, ReleaseModule
    PROVE  bcModule' \in BOOLEAN /\ bc_stop_flag' \in BOOLEAN /\ start' \in BOOLEAN
           /\ bcBoard' \in {"halted", "exec", "ok", "err", "eom"}
           /\ UNCHANGED <<pointer, status>>
<1>1. bcModule' \in BOOLEAN /\ bc_stop_flag' \in BOOLEAN
    BY Zenon DEF PlatformTypeOK, ReleaseModule
<1>2. start' \in BOOLEAN /\ bcBoard' \in {"halted", "exec", "ok", "err", "eom"}
    BY DEF PlatformTypeOK, ReleaseModule
<1>3. UNCHANGED <<pointer, status>>
    BY DEF ReleaseModule
<1> QED BY <1>1, <1>2, <1>3

\* Every step of main, the thread and the board keeps the types.
LEMMA TypeStep == PlatformInv /\ [PlatformNext]_platformVars => PlatformTypeOK'
<1> SUFFICES ASSUME PlatformInv, [PlatformNext]_platformVars
             PROVE  PlatformTypeOK'
    OBVIOUS
<1>a. PlatformTypeOK
    BY DEF PlatformInv
<1> USE <1>a DEF PlatformTypeOK, PlatformEnded, boardVars, allocVars, bcVars, sigVars, bcHistory, PlatformMain
<1>1. CASE BcReadConfig
    BY <1>1 DEF BcReadConfig
<1>2. CASE InitModuleFails
    BY <1>2 DEF InitModuleFails
<1>3. CASE BcInitModule
  <2>1. bcModule' \in BOOLEAN
      BY <1>3, Zenon DEF BcInitModule
  <2> QED BY <1>3, <2>1 DEF BcInitModule
<1>4. CASE SetModeFails
    BY <1>4, ReleaseTypes DEF SetModeFails
<1>5. CASE SetMode
    BY <1>5 DEF SetMode
<1>6. CASE CreateFrame
  <2>1. Configured[Len(frames) + 1] \in Texts
      BY <1>6, ConfiguredFacts DEF CreateFrame
  <2> QED BY <1>6, <2>1 DEF CreateFrame, CanCreate
<1>7. CASE CreateFrameFails
  <2>1. Configured[Len(frames) + 1] \in Texts
      BY <1>7, ConfiguredFacts DEF CreateFrameFails
  <2>2. msgs' \in Seq(Texts) /\ Len(msgs') < MSGMAX
      BY <1>7, <2>1 DEF CreateFrameFails
  <2>3. failed' \in BOOLEAN
      BY <1>7, Zenon DEF CreateFrameFails
  <2> QED BY <1>7, <2>2, <2>3, ReleaseTypes DEF CreateFrameFails
<1>8. CASE CreateFramesDone
    BY <1>8 DEF CreateFramesDone
<1>9. CASE CreateThread
    BY <1>9 DEF CreateThread
<1>10. CASE CreateThreadFails
    BY <1>10, ReleaseTypes DEF CreateThreadFails
<1>11. CASE BcInstallHandler
  <2>1. bcInstalled' \in BOOLEAN
      BY <1>11, Zenon DEF BcInstallHandler
  <2> QED BY <1>11, <2>1 DEF BcInstallHandler
<1>12. CASE Join
    BY <1>12 DEF Join
<1>13. CASE MainReleases
    BY <1>13, ReleaseTypes DEF MainReleases
<1>14. CASE BcCheck
    BY <1>14 DEF BcCheck
<1>15. CASE BcPassEnds
    BY <1>15 DEF BcPassEnds
<1>16. CASE BcSkip
    BY <1>16 DEF BcSkip
<1>17. CASE BcStartFrame
  <2>1. pointer' \in 0..(MAXFRAMES - 1)
      BY <1>17, FramesThere DEF BcStartFrame
  <2>2. executed' \in BOOLEAN /\ fresh' \in BOOLEAN
      BY <1>17, Zenon DEF BcStartFrame
  <2> QED BY <1>17, <2>1, <2>2 DEF BcStartFrame
<1>18. CASE BcStartFrameFails
    BY <1>18, ReleaseTypes DEF BcStartFrameFails
<1>19. CASE BcRunBC
  <2>1. start' \in BOOLEAN
      BY <1>19, Zenon DEF BcRunBC
  <2> QED BY <1>19, <2>1 DEF BcRunBC
<1>20. CASE BcRunBCTimesOut
    BY <1>20, ReleaseTypes DEF BcRunBCTimesOut
<1>21. CASE BcPoll
  <2>1. FrameId(Current) \in 0..(MAXFRAMES - 1)
      BY <1>21, FramesThere DEF BcPoll, PlatformInv, SendStage
  <2> QED BY <1>21, <2>1 DEF BcPoll
<1>22. CASE BcReset
  <2>1. FrameId(Current) \in 0..(MAXFRAMES - 1)
      BY <1>22, FramesThere DEF BcReset, PlatformInv, SendStage
  <2> QED BY <1>22, <2>1 DEF BcReset
<1>23. CASE BcNext
    BY <1>23 DEF BcNext
<1>24. CASE FwStart
    BY <1>24 DEF FwStart
<1>25. CASE FwStatus
    BY <1>25 DEF FwStatus
<1>26. CASE FwHalt
  <2>1. start' \in BOOLEAN
      BY <1>26, Zenon DEF FwHalt
  <2> QED BY <1>26, <2>1 DEF FwHalt
<1>27. CASE PlatformSigInt
  <2>1. sigint' \in BOOLEAN /\ bc_stop_flag' \in BOOLEAN
      BY <1>27, Zenon DEF PlatformSigInt
  <2> QED BY <1>27, <2>1 DEF PlatformSigInt
<1>28. ASSUME NEW o \in {"ok", "err"}, FwExec(o)
       PROVE  PlatformTypeOK'
  <2>1. executed' \in BOOLEAN /\ fresh' \in BOOLEAN
      BY <1>28, Zenon DEF FwExec
  <2> QED BY <1>28, <2>1 DEF FwExec
<1>29. ASSUME NEW m \in Texts, Tick(m)
       PROVE  PlatformTypeOK'
    BY <1>29 DEF Tick
<1>30. CASE UNCHANGED platformVars
    BY <1>30 DEF platformVars
<1> QED
    BY <1>1, <1>2, <1>3, <1>4, <1>5, <1>6, <1>7, <1>8, <1>9, <1>10, <1>11,
       <1>12, <1>13, <1>14, <1>15, <1>16, <1>17, <1>18, <1>19, <1>20, <1>21,
       <1>22, <1>23, <1>24, <1>25, <1>26, <1>27, <1>28, <1>29, <1>30
       DEF PlatformNext, PlatformMainStep, BcStep, FwStep

\* Setting up keeps in step: the frames with the configuration, the module and
\* the thread with main, and a failure with stop_flag.
LEMMA SetupStep ==
    PlatformInv /\ [PlatformNext]_platformVars => (FramesFollow /\ SetupStage /\ FailedSetupUndone)'
<1> SUFFICES ASSUME PlatformInv, [PlatformNext]_platformVars
             PROVE  (FramesFollow /\ SetupStage /\ FailedSetupUndone)'
    OBVIOUS
<1>a. PlatformTypeOK /\ FramesFollow /\ SetupStage /\ FailedSetupUndone /\ Configured' = Configured
    BY ConfigFixed DEF PlatformInv
<1>b. Len(Configured) \in Nat
    BY <1>a, ConfiguredFacts
<1> USE <1>a, <1>b DEF PlatformTypeOK, FramesFollow, SetupStage, FailedSetupUndone,
        NoRunAfterFailedSetup, ReleasedBeforeExit, PlatformEnded, boardVars, allocVars, bcVars, sigVars, bcHistory, PlatformMain
<1>1. CASE BcReadConfig
    BY <1>1 DEF BcReadConfig
<1>2. CASE InitModuleFails
    BY <1>2 DEF InitModuleFails
<1>3. CASE BcInitModule
    BY <1>3 DEF BcInitModule
<1>4. CASE SetModeFails
    BY <1>4 DEF SetModeFails, ReleaseModule
<1>5. CASE SetMode
    BY <1>5 DEF SetMode
<1>6. CASE CreateFrame
    BY <1>6 DEF CreateFrame
<1>7. CASE CreateFrameFails
    BY <1>7 DEF CreateFrameFails, ReleaseModule
<1>8. CASE CreateFramesDone
    BY <1>8 DEF CreateFramesDone
<1>9. CASE CreateThread
    BY <1>9 DEF CreateThread
<1>10. CASE CreateThreadFails
    BY <1>10 DEF CreateThreadFails, ReleaseModule
<1>11. CASE BcInstallHandler
    BY <1>11 DEF BcInstallHandler
<1>12. CASE Join
    BY <1>12 DEF Join
<1>13. CASE MainReleases
    BY <1>13 DEF MainReleases, ReleaseModule
<1>14. CASE BcCheck
    BY <1>14 DEF BcCheck
<1>15. CASE BcPassEnds
    BY <1>15 DEF BcPassEnds
<1>16. CASE BcSkip
    BY <1>16 DEF BcSkip
<1>17. CASE BcStartFrame
    BY <1>17 DEF BcStartFrame
<1>18. CASE BcStartFrameFails
    BY <1>18 DEF BcStartFrameFails, ReleaseModule
<1>19. CASE BcRunBC
    BY <1>19 DEF BcRunBC
<1>20. CASE BcRunBCTimesOut
    BY <1>20 DEF BcRunBCTimesOut, ReleaseModule
<1>21. CASE BcPoll
    BY <1>21 DEF BcPoll
<1>22. CASE BcReset
    BY <1>22 DEF BcReset
<1>23. CASE BcNext
    BY <1>23 DEF BcNext
<1>24. CASE FwStart
    BY <1>24 DEF FwStart
<1>25. CASE FwStatus
    BY <1>25 DEF FwStatus
<1>26. CASE FwHalt
    BY <1>26 DEF FwHalt
<1>27. CASE PlatformSigInt
    BY <1>27 DEF PlatformSigInt
<1>28. ASSUME NEW o \in {"ok", "err"}, FwExec(o)
       PROVE  (FramesFollow /\ SetupStage /\ FailedSetupUndone)'
    BY <1>28 DEF FwExec
<1>29. ASSUME NEW m \in Texts, Tick(m)
       PROVE  (FramesFollow /\ SetupStage /\ FailedSetupUndone)'
    BY <1>29 DEF Tick
<1>30. CASE UNCHANGED platformVars
    BY <1>30 DEF platformVars
<1> QED
    BY <1>1, <1>2, <1>3, <1>4, <1>5, <1>6, <1>7, <1>8, <1>9, <1>10, <1>11,
       <1>12, <1>13, <1>14, <1>15, <1>16, <1>17, <1>18, <1>19, <1>20, <1>21,
       <1>22, <1>23, <1>24, <1>25, <1>26, <1>27, <1>28, <1>29, <1>30
       DEF PlatformNext, PlatformMainStep, BcStep, FwStep

\* A send goes through its stages: whatever the board still does for an earlier
\* run, the status word it writes next is the one of this send.
LEMMA SendStep == PlatformInv /\ [PlatformNext]_platformVars => (SendStage /\ SendWaitsForBus)'
<1> SUFFICES ASSUME PlatformInv, [PlatformNext]_platformVars
             PROVE  (SendStage /\ SendWaitsForBus)'
    OBVIOUS
<1>a. PlatformTypeOK /\ SendStage /\ SendWaitsForBus /\ SetupStage /\ Configured' = Configured
    BY ConfigFixed DEF PlatformInv
<1>b. Len(Configured) \in Nat
    BY <1>a, ConfiguredFacts
<1>c. bcPc \notin {"none", "check", "ended"} /\ bcAt <= Len(Configured)
         => FrameId(Current) = bcAt - 1 /\ bcAt - 1 \in 0..(MAXFRAMES - 1) /\ ~failed
    BY FramesThere
<1> USE <1>a, <1>b DEF PlatformTypeOK, SendStage, SendWaitsForBus, ClearBut, BoardDone,
        Carried, boardVars, allocVars, bcVars, sigVars, bcHistory, PlatformMain
<1>1. CASE BcReadConfig
    BY <1>1 DEF BcReadConfig
<1>2. CASE InitModuleFails
    BY <1>2 DEF InitModuleFails
<1>3. CASE BcInitModule
    BY <1>3 DEF BcInitModule
<1>4. CASE SetModeFails
    BY <1>4 DEF SetModeFails, ReleaseModule, SetupStage
<1>5. CASE SetMode
    BY <1>5 DEF SetMode
<1>6. CASE CreateFrame
    BY <1>6 DEF CreateFrame, SetupStage
<1>7. CASE CreateFrameFails
    BY <1>7 DEF CreateFrameFails, ReleaseModule, SetupStage
<1>8. CASE CreateFramesDone
    BY <1>8 DEF CreateFramesDone
<1>9. CASE CreateThread
    BY <1>9 DEF CreateThread, SetupStage
<1>10. CASE CreateThreadFails
    BY <1>10 DEF CreateThreadFails, ReleaseModule, SetupStage
<1>11. CASE BcInstallHandler
    BY <1>11 DEF BcInstallHandler
<1>12. CASE Join
    BY <1>12 DEF Join
<1>13. CASE MainReleases
  <2>1. bcPc \notin {"poll", "reset"}
      BY <1>13 DEF MainReleases, SetupStage
  <2> QED BY <1>13, <2>1 DEF MainReleases, ReleaseModule
<1>14. CASE BcCheck
    BY <1>14 DEF BcCheck
<1>15. CASE BcPassEnds
    BY <1>15 DEF BcPassEnds
<1>16. CASE BcSkip
    BY <1>16 DEF BcSkip
<1>17. CASE BcStartFrame
    BY <1>17, <1>c DEF BcStartFrame
<1>18. CASE BcStartFrameFails
    BY <1>18 DEF BcStartFrameFails, ReleaseModule
<1>19. CASE BcRunBC
    BY <1>19, <1>c DEF BcRunBC
<1>20. CASE BcRunBCTimesOut
    BY <1>20 DEF BcRunBCTimesOut, ReleaseModule
<1>21. CASE BcPoll
    BY <1>21, <1>c DEF BcPoll
<1>22. CASE BcReset
    BY <1>22, <1>c DEF BcReset
<1>23. CASE BcNext
    BY <1>23 DEF BcNext
<1>24. CASE FwStart
    BY <1>24 DEF FwStart
<1>25. CASE FwStatus
    BY <1>25 DEF FwStatus
<1>26. CASE FwHalt
    BY <1>26 DEF FwHalt
<1>27. CASE PlatformSigInt
    BY <1>27 DEF PlatformSigInt
<1>28. ASSUME NEW o \in {"ok", "err"}, FwExec(o)
       PROVE  (SendStage /\ SendWaitsForBus)'
  <2>1. bcPc = "poll" /\ pointer = bcAt - 1 /\ bcAt <= Len(Configured)
      BY <1>28 DEF FwExec
  <2>2. Len(frames) = Len(Configured)
      BY <2>1, FramesThere
  <2>3. frames[pointer + 1] = Current
      BY <2>1, <2>2 DEF PlatformInv, FramesFollow, Current
  <2> QED BY <1>28, <2>1, <2>3 DEF FwExec
<1>29. ASSUME NEW m \in Texts, Tick(m)
       PROVE  (SendStage /\ SendWaitsForBus)'
    BY <1>29 DEF Tick
<1>30. CASE UNCHANGED platformVars
    BY <1>30 DEF platformVars
<1> QED
    BY <1>1, <1>2, <1>3, <1>4, <1>5, <1>6, <1>7, <1>8, <1>9, <1>10, <1>11,
       <1>12, <1>13, <1>14, <1>15, <1>16, <1>17, <1>18, <1>19, <1>20, <1>21,
       <1>22, <1>23, <1>24, <1>25, <1>26, <1>27, <1>28, <1>29, <1>30
       DEF PlatformNext, PlatformMainStep, BcStep, FwStep

\* The invariant holds in every state of the platform process.
LEMMA PlatformInvariant == PlatformSpec => []PlatformInv
<1>1. ASSUME PlatformInit
      PROVE  PlatformInv
  <2>1. PlatformTypeOK
    <3>1. /\ bcModule \in BOOLEAN /\ start \in BOOLEAN /\ bc_stop_flag \in BOOLEAN
          /\ bcInstalled \in BOOLEAN /\ sigint \in BOOLEAN /\ failed \in BOOLEAN
          /\ executed \in BOOLEAN /\ fresh \in BOOLEAN
        BY <1>1, Zenon DEF PlatformInit
    <3> QED BY <1>1, <3>1 DEF PlatformInit, PlatformTypeOK
  <2>2. Len(Configured) \in Nat
      BY <2>1, ConfiguredFacts
  <2>3. FramesFollow /\ SetupStage /\ FailedSetupUndone
      BY <1>1, <2>2 DEF PlatformInit, FramesFollow, SetupStage, FailedSetupUndone,
                        NoRunAfterFailedSetup, ReleasedBeforeExit
  <2>4. SendStage /\ SendWaitsForBus
      BY <1>1 DEF PlatformInit, SendStage, SendWaitsForBus, ClearBut, BoardDone
  <2> QED BY <2>1, <2>3, <2>4 DEF PlatformInv
<1>2. PlatformInv /\ [PlatformNext]_platformVars => PlatformInv'
    BY TypeStep, SetupStep, SendStep DEF PlatformInv
<1> QED
    BY <1>1, <1>2, PTL DEF PlatformSpec

\* The variables of the platform process keep their types: no table of messages
\* or frames is overrun.
THEOREM PlatformTypes == PlatformSpec => []PlatformTypeOK
<1>1. PlatformInv => PlatformTypeOK
    BY DEF PlatformInv
<1> QED
    BY <1>1, PlatformInvariant, PTL

\* send_msg returns after the bus has carried this call's message, for every
\* configuration: Run_BC_Px waits for the board to halt, and the status word
\* was cleared after the run before.
THEOREM EachSendCarried == PlatformSpec => []SendWaitsForBus
<1>1. PlatformInv => SendWaitsForBus
    BY DEF PlatformInv
<1> QED
    BY <1>1, PlatformInvariant, PTL

\* A set-up that failed starts no frame, although its result is ignored, and
\* the module is released before every regular end of the program.
THEOREM SetupFailureUndone == PlatformSpec => []FailedSetupUndone
<1>1. PlatformInv => FailedSetupUndone
    BY DEF PlatformInv
<1> QED
    BY <1>1, PlatformInvariant, PTL
=============================================================================

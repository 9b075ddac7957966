-------------------------- MODULE IcuProcessProofs --------------------------
(***************************************************************************)
(* Start and shutdown of the icu process, proved for any number of SIGINTs *)
(* (TLC checks two): LifeInv is inductive, and the three orderings follow. *)
(***************************************************************************)
EXTENDS IcuProcess, TLAPS

\* No step of main, a thread or a handler leaves LifeInv.
LEMMA LifeInductive == LifeInv /\ [LifeNext]_lifeVars => LifeInv'
<1> SUFFICES ASSUME LifeInv, [LifeNext]_lifeVars PROVE LifeInv'
    OBVIOUS
<1> USE DEF LifeInv, LifeTypeOK, ThreadsFollowMain, ModuleFollowsRt,
            JoinedBeforeFree, Alive, Ended, Main, sockVars
<1>1. CASE ReadConfig BY <1>1 DEF ReadConfig
<1>2. CASE InitModule BY <1>2 DEF InitModule
<1>3. CASE CreateRt BY <1>3 DEF CreateRt
<1>4. CASE InitSocket
  <2>1. sockfd' \in BOOLEAN BY <1>4, Zenon DEF InitSocket
  <2> QED BY <1>4, <2>1 DEF InitSocket
<1>5. CASE CreateRx BY <1>5 DEF CreateRx
<1>6. CASE CreateTx BY <1>6 DEF CreateTx
<1>7. CASE InstallHandler BY <1>7 DEF InstallHandler
<1>8. CASE Join1553 BY <1>8 DEF Join1553
<1>9. CASE Release
  <2>1. icu_stop_flag' \in BOOLEAN BY <1>9, Zenon DEF Release
  <2> QED BY <1>9, <2>1 DEF Release
<1>10. CASE Unmap BY <1>10 DEF Unmap
<1>11. CASE Deallocate BY <1>11 DEF Deallocate
<1>12. CASE JoinRx BY <1>12 DEF JoinRx
<1>13. CASE JoinTx BY <1>13 DEF JoinTx
<1>14. CASE Free BY <1>14 DEF Free
<1>15. CASE Return BY <1>15 DEF Return
<1>16. CASE RtSetup BY <1>16 DEF RtSetup
<1>17. CASE RtGivesUp
  <2>1. rtFailed' \in BOOLEAN BY <1>17, Zenon DEF RtGivesUp
  <2> QED BY <1>17, <2>1 DEF RtGivesUp
<1>18. CASE RtLoopEnds BY <1>18 DEF RtLoopEnds
<1>19. CASE RxCheck BY <1>19 DEF RxCheck
<1>20. CASE RxCall BY <1>20 DEF RxCall
<1>21. CASE RxDatagram BY <1>21 DEF RxDatagram
<1>22. CASE RxWoken BY <1>22 DEF RxWoken
<1>23. CASE RxParses BY <1>23 DEF RxParses
<1>24. CASE RxLoad BY <1>24 DEF RxLoad
<1>25. CASE RxWrite BY <1>25 DEF RxWrite
<1>26. CASE TxCheck BY <1>26 DEF TxCheck
<1>27. CASE TxSend BY <1>27 DEF TxSend
<1>28. ASSUME NEW s \in Signals, SigKills(s) PROVE LifeInv'
    BY <1>28 DEF SigKills
<1>29. ASSUME NEW s \in Signals, SigStop(s) PROVE LifeInv'
    BY <1>29 DEF SigStop
<1>30. ASSUME NEW s \in Signals, SigShutdown(s) PROVE LifeInv'
    BY <1>30 DEF SigShutdown
<1>31. ASSUME NEW s \in Signals, SigClose(s) PROVE LifeInv'
    BY <1>31 DEF SigClose
<1>32. ASSUME NEW s \in Signals, SigReset(s) PROVE LifeInv'
  <2>1. sockfd' \in BOOLEAN BY <1>32, Zenon DEF SigReset
  <2> QED BY <1>32, <2>1 DEF SigReset
<1>33. CASE UNCHANGED lifeVars BY <1>33 DEF lifeVars
<1> QED
    BY <1>1, <1>2, <1>3, <1>4, <1>5, <1>6, <1>7, <1>8, <1>9, <1>10, <1>11,
       <1>12, <1>13, <1>14, <1>15, <1>16, <1>17, <1>18, <1>19, <1>20, <1>21,
       <1>22, <1>23, <1>24, <1>25, <1>26, <1>27, <1>28, <1>29, <1>30, <1>31,
       <1>32, <1>33
    DEF LifeNext, MainStep, RtStep, RxStep, TxStep, Handler

\* In every state of the icu process main's statement bounds the threads'
\* progress and the threads bound the state of the module (icu.c, main).
THEOREM LifeInvariant == LifeSpec => []LifeInv
<1>1. LifeInit => LifeInv
    BY DEF LifeInit, LifeInv, LifeTypeOK, ThreadsFollowMain, ModuleFollowsRt,
           JoinedBeforeFree, Alive, Ended
<1> QED BY <1>1, LifeInductive, PTL DEF LifeSpec

\* main frees the message lists and closes the log only after every thread has
\* ended, however many SIGINTs arrive and wherever (icu.c:51-59).
THEOREM ThreadsJoinedBeforeFree == LifeSpec => []JoinedBeforeFree
<1>1. LifeInv => JoinedBeforeFree BY DEF LifeInv
<1> QED BY <1>1, LifeInvariant, PTL

\* The module rt_1553_thread polls stays mapped and allocated for as long as
\* the thread runs (mil_std_1553.c: release_module_1553 only after the join).
THEOREM PolledModuleStaysMapped == LifeSpec => []PolledModuleMapped
<1>1. LifeInv => PolledModuleMapped
    BY DEF LifeInv, ModuleFollowsRt, PolledModuleMapped
<1> QED BY <1>1, LifeInvariant, PTL

\* parse_buffer never loads an answer into a module whose RT setup failed.
THEOREM FailedModuleIsNeverLoaded == LifeSpec => []FailedModuleNotLoaded
<1>1. LifeInv => FailedModuleNotLoaded
    BY DEF LifeInv, ModuleFollowsRt, FailedModuleNotLoaded
<1> QED BY <1>1, LifeInvariant, PTL
=============================================================================

----------------------------- MODULE IrstProofs -----------------------------
(***************************************************************************)
(* The irst server, proved for any number of clients, messages and SIGINTs *)
(* and for the real modulus of the sequence counter (TLC checks one client *)
(* and four numbers).                                                      *)
(***************************************************************************)
EXTENDS Irst, TLAPS

USE ClientsAssumption, MessagesAssumption, SeqModulusAssumption

\* Between recvfrom and sendto the status in the buffer has not been answered,
\* unless the shutdown woke recvfrom: then the address has no length.
StatusPending ==
    /\ rxPc \in {"parse", "number", "bump", "send"} /\ addr_len
       /\ (rxPc = "parse" => rxBuf = "status")
       => client_addr \in Clients /\ owed[client_addr] >= 1

\* The number a thread is about to write back plus one has been given out.
BumpFollowsNumber ==
    /\ rxPc = "bump" => rxSeq \in created
    /\ txPc = "bump" => txSeq \in created

IrstInv ==
    TypeOK /\ AcksAnswerStatus /\ StatusPending /\ BumpFollowsNumber /\ SeqNoGap

\* The successor of a sequence number, and its predecessor.
LEMMA SeqArithmetic ==
    ASSUME NEW n \in 0..(SeqModulus - 1)
    PROVE  /\ (n + 1) % SeqModulus \in 0..(SeqModulus - 1)
           /\ (((n + 1) % SeqModulus) - 1) % SeqModulus = n
<1>1. CASE n + 1 < SeqModulus
  <2>1. (n + 1) % SeqModulus = n + 1 /\ n % SeqModulus = n
      BY <1>1
  <2> QED BY <1>1, <2>1
<1>2. CASE n + 1 = SeqModulus
  <2>1. (n + 1) % SeqModulus = 0
      BY <1>2
  <2>2. (0 - 1) % SeqModulus = SeqModulus - 1
      OBVIOUS
  <2> QED BY <1>2, <2>1, <2>2
<1> QED BY <1>1, <1>2

\* Every step of main, the threads and the handler keeps the types.
LEMMA TypeStep == TypeOK /\ [Next]_vars => TypeOK'
<1> SUFFICES ASSUME TypeOK, [Next]_vars
             PROVE  TypeOK'
    OBVIOUS
<1> USE DEF TypeOK, Ended, Main, sockVars, sigVars, addrVars, rxVars, txVars
<1>1. CASE ReadConfig
    BY <1>1 DEF ReadConfig
<1>2. CASE InitSocket
  <2>1. sockfd' \in BOOLEAN
      BY <1>2, Zenon DEF InitSocket
  <2> QED BY <1>2, <2>1 DEF InitSocket
<1>3. CASE CreateRx
    BY <1>3 DEF CreateRx
<1>4. CASE CreateTx
    BY <1>4 DEF CreateTx
<1>5. CASE InstallHandler
    BY <1>5 DEF InstallHandler
<1>6. CASE Join
    BY <1>6 DEF Join
<1>7. CASE RxCheck
    BY <1>7 DEF RxCheck
<1>8. CASE RxCall
    BY <1>8 DEF RxCall
<1>9. CASE RxWoken
  <2>1. addr_len' \in BOOLEAN
      BY <1>9, Zenon DEF RxWoken
  <2> QED BY <1>9, <2>1 DEF RxWoken
<1>10. CASE RxParse
    BY <1>10 DEF RxParse
<1>11. CASE RxNumber
    BY <1>11 DEF RxNumber
<1>12. CASE RxBump
  <2>1. msg_seq_counter' \in 0..(SeqModulus - 1)
      BY <1>12, SeqArithmetic DEF RxBump
  <2> QED BY <1>12, <2>1 DEF RxBump
<1>13. CASE RxSend
    BY <1>13 DEF RxSend, SendToSucceeds
<1>14. CASE TxCheck
    BY <1>14 DEF TxCheck
<1>15. CASE TxPassEnds
    BY <1>15 DEF TxPassEnds
<1>16. CASE TxSkip
    BY <1>16 DEF TxSkip
<1>17. CASE TxNumber
    BY <1>17 DEF TxNumber
<1>18. CASE TxBump
  <2>1. msg_seq_counter' \in 0..(SeqModulus - 1)
      BY <1>18, SeqArithmetic DEF TxBump
  <2> QED BY <1>18, <2>1 DEF TxBump
<1>19. CASE TxSend
  <2>1. Messages[txAt] \in Texts
      BY <1>19 DEF TxSend, Texts
  <2> QED BY <1>19, <2>1 DEF TxSend, SendToSucceeds
<1>20. ASSUME NEW c \in Clients, NEW op \in {"status", "other"}, RxDatagram(c, op)
       PROVE  TypeOK'
    BY <1>20 DEF RxDatagram
<1>21. ASSUME NEW m \in Texts, Tick(m)
       PROVE  TypeOK'
    BY <1>21 DEF Tick
<1>22. ASSUME NEW s \in Signals, SigKills(s)
       PROVE  TypeOK'
    BY <1>22 DEF SigKills
<1>23. ASSUME NEW s \in Signals, SigStop(s)
       PROVE  TypeOK'
    BY <1>23 DEF SigStop
<1>24. ASSUME NEW s \in Signals, SigCloseSocket(s)
       PROVE  TypeOK'
  <2>1. sockfd' \in BOOLEAN /\ shut' \in BOOLEAN
      BY <1>24, Zenon DEF SigCloseSocket
  <2> QED BY <1>24, <2>1 DEF SigCloseSocket
<1>25. CASE UNCHANGED vars
    BY <1>25 DEF vars
<1> QED
    BY <1>1, <1>2, <1>3, <1>4, <1>5, <1>6, <1>7, <1>8, <1>9, <1>10, <1>11,
       <1>12, <1>13, <1>14, <1>15, <1>16, <1>17, <1>18, <1>19, <1>20, <1>21,
       <1>22, <1>23, <1>24, <1>25
       DEF Next, MainStep, RxStep, TxStep

\* Only the receive thread and the clients touch what the acknowledgements
\* answer: recvfrom counts a status, sendto answers the one in the buffer.
LEMMA AckStep ==
    TypeOK /\ AcksAnswerStatus /\ StatusPending /\ [Next]_vars
       => AcksAnswerStatus' /\ StatusPending'
<1> SUFFICES ASSUME TypeOK, AcksAnswerStatus, StatusPending, [Next]_vars
             PROVE  (AcksAnswerStatus /\ StatusPending)'
    OBVIOUS
<1> USE DEF TypeOK, AcksAnswerStatus, StatusPending, Main, sockVars, sigVars, addrVars, rxVars, txVars
<1>1. CASE ReadConfig
    BY <1>1 DEF ReadConfig
<1>2. CASE InitSocket
    BY <1>2 DEF InitSocket
<1>3. CASE CreateRx
    BY <1>3 DEF CreateRx
<1>4. CASE CreateTx
    BY <1>4 DEF CreateTx
<1>5. CASE InstallHandler
    BY <1>5 DEF InstallHandler
<1>6. CASE Join
    BY <1>6 DEF Join
<1>7. CASE RxCheck
    BY <1>7 DEF RxCheck
<1>8. CASE RxCall
    BY <1>8 DEF RxCall
<1>9. CASE RxWoken
    BY <1>9 DEF RxWoken
<1>10. CASE RxParse
    BY <1>10 DEF RxParse
<1>11. CASE RxNumber
    BY <1>11 DEF RxNumber
<1>12. CASE RxBump
    BY <1>12 DEF RxBump
<1>13. CASE RxSend
    BY <1>13 DEF RxSend, SendToSucceeds
<1>14. CASE TxCheck
    BY <1>14 DEF TxCheck
<1>15. CASE TxPassEnds
    BY <1>15 DEF TxPassEnds
<1>16. CASE TxSkip
    BY <1>16 DEF TxSkip
<1>17. CASE TxNumber
    BY <1>17 DEF TxNumber
<1>18. CASE TxBump
    BY <1>18 DEF TxBump
<1>19. CASE TxSend
    BY <1>19 DEF TxSend
<1>20. ASSUME NEW c \in Clients, NEW op \in {"status", "other"}, RxDatagram(c, op)
       PROVE  (AcksAnswerStatus /\ StatusPending)'
    BY <1>20 DEF RxDatagram
<1>21. ASSUME NEW m \in Texts, Tick(m)
       PROVE  (AcksAnswerStatus /\ StatusPending)'
    BY <1>21 DEF Tick
<1>22. ASSUME NEW s \in Signals, SigKills(s)
       PROVE  (AcksAnswerStatus /\ StatusPending)'
    BY <1>22 DEF SigKills
<1>23. ASSUME NEW s \in Signals, SigStop(s)
       PROVE  (AcksAnswerStatus /\ StatusPending)'
    BY <1>23 DEF SigStop
<1>24. ASSUME NEW s \in Signals, SigCloseSocket(s)
       PROVE  (AcksAnswerStatus /\ StatusPending)'
    BY <1>24 DEF SigCloseSocket
<1>25. CASE UNCHANGED vars
    BY <1>25 DEF vars
<1> QED
    BY <1>1, <1>2, <1>3, <1>4, <1>5, <1>6, <1>7, <1>8, <1>9, <1>10, <1>11,
       <1>12, <1>13, <1>14, <1>15, <1>16, <1>17, <1>18, <1>19, <1>20, <1>21,
       <1>22, <1>23, <1>24, <1>25
       DEF Next, MainStep, RxStep, TxStep

\* A number is given out after its predecessor, and a thread that has stalled
\* writes back the successor of a number that was given out.
LEMMA SeqStep ==
    TypeOK /\ BumpFollowsNumber /\ SeqNoGap /\ [Next]_vars => BumpFollowsNumber' /\ SeqNoGap'
<1> SUFFICES ASSUME TypeOK, BumpFollowsNumber, SeqNoGap, [Next]_vars
             PROVE  (BumpFollowsNumber /\ SeqNoGap)'
    OBVIOUS
<1> USE DEF TypeOK, BumpFollowsNumber, SeqNoGap, Main, sockVars, sigVars, addrVars, rxVars, txVars
<1>1. CASE ReadConfig
    BY <1>1 DEF ReadConfig
<1>2. CASE InitSocket
    BY <1>2 DEF InitSocket
<1>3. CASE CreateRx
    BY <1>3 DEF CreateRx
<1>4. CASE CreateTx
    BY <1>4 DEF CreateTx
<1>5. CASE InstallHandler
    BY <1>5 DEF InstallHandler
<1>6. CASE Join
    BY <1>6 DEF Join
<1>7. CASE RxCheck
    BY <1>7 DEF RxCheck
<1>8. CASE RxCall
    BY <1>8 DEF RxCall
<1>9. CASE RxWoken
    BY <1>9 DEF RxWoken
<1>10. CASE RxParse
    BY <1>10 DEF RxParse
<1>11. CASE RxNumber
    BY <1>11 DEF RxNumber
<1>12. CASE RxBump
  <2>1. (msg_seq_counter' - 1) % SeqModulus = rxSeq /\ rxSeq \in created
      BY <1>12, SeqArithmetic DEF RxBump
  <2> QED BY <1>12, <2>1 DEF RxBump
<1>13. CASE RxSend
    BY <1>13 DEF RxSend
<1>14. CASE TxCheck
    BY <1>14 DEF TxCheck
<1>15. CASE TxPassEnds
    BY <1>15 DEF TxPassEnds
<1>16. CASE TxSkip
    BY <1>16 DEF TxSkip
<1>17. CASE TxNumber
    BY <1>17 DEF TxNumber
<1>18. CASE TxBump
  <2>1. (msg_seq_counter' - 1) % SeqModulus = txSeq /\ txSeq \in created
      BY <1>18, SeqArithmetic DEF TxBump
  <2> QED BY <1>18, <2>1 DEF TxBump
<1>19. CASE TxSend
    BY <1>19 DEF TxSend
<1>20. ASSUME NEW c \in Clients, NEW op \in {"status", "other"}, RxDatagram(c, op)
       PROVE  (BumpFollowsNumber /\ SeqNoGap)'
    BY <1>20 DEF RxDatagram
<1>21. ASSUME NEW m \in Texts, Tick(m)
       PROVE  (BumpFollowsNumber /\ SeqNoGap)'
    BY <1>21 DEF Tick
<1>22. ASSUME NEW s \in Signals, SigKills(s)
       PROVE  (BumpFollowsNumber /\ SeqNoGap)'
    BY <1>22 DEF SigKills
<1>23. ASSUME NEW s \in Signals, SigStop(s)
       PROVE  (BumpFollowsNumber /\ SeqNoGap)'
    BY <1>23 DEF SigStop
<1>24. ASSUME NEW s \in Signals, SigCloseSocket(s)
       PROVE  (BumpFollowsNumber /\ SeqNoGap)'
    BY <1>24 DEF SigCloseSocket
<1>25. CASE UNCHANGED vars
    BY <1>25 DEF vars
<1> QED
    BY <1>1, <1>2, <1>3, <1>4, <1>5, <1>6, <1>7, <1>8, <1>9, <1>10, <1>11,
       <1>12, <1>13, <1>14, <1>15, <1>16, <1>17, <1>18, <1>19, <1>20, <1>21,
       <1>22, <1>23, <1>24, <1>25
       DEF Next, MainStep, RxStep, TxStep

\* The invariant holds in every state of the server.
LEMMA IrstInvariant == Spec => []IrstInv
<1>1. ASSUME Init
      PROVE  IrstInv
  <2>1. TypeOK
    <3>1. /\ sockfd \in BOOLEAN /\ shut \in BOOLEAN /\ stop_flag \in BOOLEAN
          /\ installed \in BOOLEAN /\ addr_len \in BOOLEAN
        BY <1>1, Zenon DEF Init
    <3> QED BY <1>1, <3>1 DEF Init, TypeOK, Ended
  <2> QED BY <1>1, <2>1 DEF Init, IrstInv, AcksAnswerStatus, StatusPending, BumpFollowsNumber,
                            SeqNoGap
<1>2. IrstInv /\ [Next]_vars => IrstInv'
    BY TypeStep, AckStep, SeqStep DEF IrstInv
<1> QED
    BY <1>1, <1>2, PTL DEF Spec

\* The variables of irst keep their types.
THEOREM IrstTypes == Spec => []TypeOK
<1>1. IrstInv => TypeOK
    BY DEF IrstInv
<1> QED
    BY <1>1, IrstInvariant, PTL

\* parse_buffer never acknowledges a status twice, whatever the shutdown does to
\* the blocked recvfrom, for any number of clients.
THEOREM NoExtraAcks == Spec => []AcksAnswerStatus
<1>1. IrstInv => AcksAnswerStatus
    BY DEF IrstInv
<1> QED
    BY <1>1, IrstInvariant, PTL

\* create_header skips no sequence number although its threads race on the
\* counter, for every modulus.
THEOREM NoNumberSkipped == Spec => []SeqNoGap
<1>1. IrstInv => SeqNoGap
    BY DEF IrstInv
<1> QED
    BY <1>1, IrstInvariant, PTL
=============================================================================

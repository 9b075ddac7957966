-------------------------------- MODULE Irst --------------------------------
(***************************************************************************)
(* The irst process (src/src/irst): main, the receive thread that answers  *)
(* ICU_STATUS with an acknowledgement, the transmit thread that sends the  *)
(* messages of config.ini, and the SIGINT handler.  The threads share,     *)
(* without a lock, the socket, the last sender's address and the static    *)
(* sequence counter of create_header; reading and writing that counter are *)
(* two steps.                                                              *)
(*                                                                         *)
(* The network (external) delivers complete datagrams of its clients: an   *)
(* ICU_STATUS or another opcode.  Which messages are due is left to the    *)
(* clock; Schedule looks at the clock itself.                              *)
(***************************************************************************)
EXTENDS Integers, Sequences, FiniteSets

CONSTANTS
    Clients,     \* addresses that send datagrams to irst
    Messages,    \* the send_command sections of config.ini, in order
    SeqModulus,  \* 2^32 in the code: msg_seq_counter is a uint32_t
    Signals      \* the SIGINTs delivered during one execution

NoClient == "none"     \* client_addr as the loader has zeroed it

ASSUME ClientsAssumption == NoClient \notin Clients
ASSUME MessagesAssumption == Messages \in Seq(STRING)
ASSUME SeqModulusAssumption == SeqModulus \in Nat /\ SeqModulus > 1

VARIABLES
    mainPc,
    sockfd, socket, shut,    \* as in IcuProcess: sockfd > 0, kernel, SHUT_RD
    stop_flag, installed, sigPc,
    client_addr, addr_len,   \* written by recvfrom, read by sendto
    msg_seq_counter,
    rxPc, rxBuf, rxSeq,      \* receive thread: step, opcode in buffer, number
    txPc, txAt, txDue,       \* transmit thread: step, i, the messages that were due
    txSeq,                   \*   when it read the time, and the number
    due,                     \* messages with elapsed_ms - last_time >= rate
    created,                 \* history: the sequence numbers given out
    owed,                    \* history: statuses received minus acks sent
    served                   \* history: the messages each client was sent

sockVars == <<sockfd, socket, shut>>
sigVars == <<stop_flag, installed, sigPc>>
addrVars == <<client_addr, addr_len>>
rxVars == <<rxPc, rxBuf, rxSeq>>
txVars == <<txPc, txAt, txDue, txSeq>>
vars == <<mainPc, sockVars, sigVars, addrVars, msg_seq_counter, rxVars,
          txVars, due, created, owed, served>>

Ended == {"exit0", "exit1", "killed"}
Alive == mainPc \notin Ended
Texts == {Messages[i] : i \in 1..Len(Messages)}

Init ==
    /\ mainPc = "config"
    /\ sockfd = FALSE /\ socket = "none" /\ shut = FALSE
    /\ stop_flag = FALSE /\ installed = FALSE
    /\ sigPc = [s \in Signals |-> "due"]
    /\ client_addr = NoClient /\ addr_len = TRUE   \* sizeof(client_addr)
    /\ msg_seq_counter = 1
    /\ rxPc = "none" /\ rxBuf \in {"status", "other"}   \* uninitialised
    /\ rxSeq = 0
    /\ txPc = "none" /\ txAt = 1 /\ txDue = {} /\ txSeq = 0
    /\ due = {}
    /\ created = {} /\ owed = [c \in Clients |-> 0]
    /\ served = [c \in Clients |-> {}]

-----------------------------------------------------------------------------
(* main and init_socket *)

Main(from, to) == mainPc = from /\ mainPc' = to

ReadConfig ==
    /\ Main("config", "initSocket") \/ Main("config", "exit1")
    /\ UNCHANGED <<sockVars, sigVars, addrVars, msg_seq_counter, rxVars,
                   txVars, due, created, owed, served>>

InitSocket ==
    /\ \/ /\ Main("initSocket", "createRx")
          /\ sockfd' = TRUE /\ socket' = "open"
       \/ Main("initSocket", "exit1") /\ UNCHANGED <<sockfd, socket>>
    /\ UNCHANGED <<shut, sigVars, addrVars, msg_seq_counter, rxVars, txVars,
                   due, created, owed, served>>

CreateRx ==
    /\ \/ Main("createRx", "createTx") /\ rxPc' = "check" /\ UNCHANGED socket
       \/ Main("createRx", "exit1") /\ socket' = "closed" /\ UNCHANGED rxPc
    /\ UNCHANGED <<sockfd, shut, sigVars, addrVars, msg_seq_counter, rxBuf,
                   rxSeq, txVars, due, created, owed, served>>

CreateTx ==
    /\ \/ Main("createTx", "signal") /\ txPc' = "check" /\ UNCHANGED socket
       \/ Main("createTx", "exit1") /\ socket' = "closed" /\ UNCHANGED txPc
    /\ UNCHANGED <<sockfd, shut, sigVars, addrVars, msg_seq_counter, rxVars,
                   txAt, txDue, txSeq, due, created, owed, served>>

InstallHandler ==
    /\ Main("signal", "joinRx")
    /\ installed' = TRUE
    /\ UNCHANGED <<sockVars, stop_flag, sigPc, addrVars, msg_seq_counter,
                   rxVars, txVars, due, created, owed, served>>

\* The two joins, free(messages) and the return.
Join ==
    /\ \/ Main("joinRx", "joinTx") /\ rxPc = "ended"
       \/ Main("joinTx", "free") /\ txPc = "ended"
       \/ Main("free", "exit0")
    /\ UNCHANGED <<sockVars, sigVars, addrVars, msg_seq_counter, rxVars,
                   txVars, due, created, owed, served>>

-----------------------------------------------------------------------------
(* SIGINT *)

SigKills(s) ==
    /\ Alive /\ ~installed /\ sigPc[s] = "due"
    /\ mainPc' = "killed"
    /\ sigPc' = [sigPc EXCEPT ![s] = "done"]
    /\ UNCHANGED <<sockVars, stop_flag, installed, addrVars, msg_seq_counter,
                   rxVars, txVars, due, created, owed, served>>

\* Mutant of SigStop: the handler closes the socket and forgets stop_flag.
SigStopForgotten(s) ==
    /\ Alive /\ installed /\ sigPc[s] = "due"
    /\ sigPc' = [sigPc EXCEPT ![s] = "test"]
    /\ UNCHANGED <<mainPc, sockVars, stop_flag, installed, addrVars,
                   msg_seq_counter, rxVars, txVars, due, created, owed, served>>

\* handle_sigint: stop_flag = 1, then close_socket.
SigStop(s) ==
    /\ Alive /\ installed /\ sigPc[s] = "due"
    /\ stop_flag' = TRUE
    /\ sigPc' = [sigPc EXCEPT ![s] = "test"]
    /\ UNCHANGED <<mainPc, sockVars, installed, addrVars, msg_seq_counter,
                   rxVars, txVars, due, created, owed, served>>

\* close_socket: test and shutdown, close, sockfd = -1.
SigCloseSocket(s) ==
    /\ Alive
    /\ \/ /\ sigPc[s] = "test" /\ sockfd
          /\ sigPc' = [sigPc EXCEPT ![s] = "close"]
          /\ shut' = (shut \/ socket = "open")
          /\ UNCHANGED <<sockfd, socket>>
       \/ /\ sigPc[s] = "test" /\ ~sockfd
          /\ sigPc' = [sigPc EXCEPT ![s] = "done"]
          /\ UNCHANGED sockVars
       \/ /\ sigPc[s] = "close"
          /\ sigPc' = [sigPc EXCEPT ![s] = "reset"]
          /\ socket' = "closed"
          /\ UNCHANGED <<sockfd, shut>>
       \/ /\ sigPc[s] = "reset"
          /\ sigPc' = [sigPc EXCEPT ![s] = "done"]
          /\ sockfd' = FALSE
          /\ UNCHANGED <<socket, shut>>
    /\ UNCHANGED <<mainPc, stop_flag, installed, addrVars, msg_seq_counter,
                   rxVars, txVars, due, created, owed, served>>

-----------------------------------------------------------------------------
(* receive_data *)

RxCheck ==
    /\ Alive /\ rxPc = "check"
    /\ rxPc' = IF stop_flag THEN "ended" ELSE "call"
    /\ UNCHANGED <<mainPc, sockVars, sigVars, addrVars, msg_seq_counter, rxBuf,
                   rxSeq, txVars, due, created, owed, served>>

\* recvfrom blocks on an open socket and fails with EBADF on a closed one.
RxCall ==
    /\ Alive /\ rxPc = "call"
    /\ rxPc' = IF sockfd /\ socket = "open" THEN "blocked" ELSE "ended"
    /\ UNCHANGED <<mainPc, sockVars, sigVars, addrVars, msg_seq_counter, rxBuf,
                   rxSeq, txVars, due, created, owed, served>>

\* The network delivers a datagram of client c.
RxDatagram(c, op) ==
    /\ Alive /\ rxPc = "blocked"
    /\ rxPc' = "parse" /\ rxBuf' = op
    /\ client_addr' = c /\ addr_len' = TRUE
    /\ owed' = [owed EXCEPT ![c] = @ + (IF op = "status" THEN 1 ELSE 0)]
    /\ UNCHANGED <<mainPc, sockVars, sigVars, msg_seq_counter, rxSeq, txVars,
                   due, created, served>>

\* After the shutdown recvfrom returns 0 and sets addr_len to 0.  The code only
\* tests for a negative result, so the previous datagram is parsed once more.
RxWoken ==
    /\ Alive /\ rxPc = "blocked" /\ shut
    /\ rxPc' = "parse" /\ addr_len' = FALSE
    /\ UNCHANGED <<mainPc, sockVars, sigVars, client_addr, msg_seq_counter,
                   rxBuf, rxSeq, txVars, due, created, owed, served>>

\* Mutant of RxParse: the test of the opcode is inverted.
RxParseInverted ==
    /\ Alive /\ rxPc = "parse"
    /\ rxPc' = IF rxBuf = "status" THEN "check" ELSE "number"
    /\ UNCHANGED <<mainPc, sockVars, sigVars, addrVars, msg_seq_counter, rxBuf,
                   rxSeq, txVars, due, created, owed, served>>

\* Mutant of RxParse: a status ends the loop, as a failed recvfrom does.
RxParseBreaks ==
    /\ Alive /\ rxPc = "parse"
    /\ rxPc' = IF rxBuf = "status" THEN "ended" ELSE "check"
    /\ UNCHANGED <<mainPc, sockVars, sigVars, addrVars, msg_seq_counter, rxBuf,
                   rxSeq, txVars, due, created, owed, served>>

\* parse_buffer: ICU_STATUS is acknowledged, anything else only printed.
RxParse ==
    /\ Alive /\ rxPc = "parse"
    /\ rxPc' = IF rxBuf = "status" THEN "number" ELSE "check"
    /\ UNCHANGED <<mainPc, sockVars, sigVars, addrVars, msg_seq_counter, rxBuf,
                   rxSeq, txVars, due, created, owed, served>>

\* Mutant of RxNumber: ++msg_seq_counter.
RxNumberPreIncrement ==
    /\ Alive /\ rxPc = "number"
    /\ rxSeq' = (msg_seq_counter + 1) % SeqModulus
    /\ created' = created \cup {rxSeq'}
    /\ rxPc' = "bump"
    /\ UNCHANGED <<mainPc, sockVars, sigVars, addrVars, msg_seq_counter, rxBuf,
                   txVars, due, owed, served>>

\* create_header: msg_seq_counter++ reads the counter ...
RxNumber ==
    /\ Alive /\ rxPc = "number"
    /\ rxSeq' = msg_seq_counter
    /\ created' = created \cup {rxSeq'}
    /\ rxPc' = "bump"
    /\ UNCHANGED <<mainPc, sockVars, sigVars, addrVars, msg_seq_counter, rxBuf,
                   txVars, due, owed, served>>

\* ... and writes it back.
RxBump ==
    /\ Alive /\ rxPc = "bump"
    /\ msg_seq_counter' = (rxSeq + 1) % SeqModulus
    /\ rxPc' = "send"
    /\ UNCHANGED <<mainPc, sockVars, sigVars, addrVars, rxBuf, rxSeq, txVars,
                   due, created, owed, served>>

\* sendto succeeds on an open socket, for the address of a client.
SendToSucceeds == sockfd /\ socket = "open" /\ client_addr # NoClient /\ addr_len

\* data_packing: the acknowledgement goes to whoever sent last.
RxSend ==
    /\ Alive /\ rxPc = "send"
    /\ IF SendToSucceeds THEN owed' = [owed EXCEPT ![client_addr] = @ - 1]
       ELSE UNCHANGED owed
    /\ rxPc' = "check" /\ rxSeq' = 0
    /\ UNCHANGED <<mainPc, sockVars, sigVars, addrVars, msg_seq_counter, rxBuf,
                   txVars, due, created, served>>

-----------------------------------------------------------------------------
(* transmit_data *)

\* The clock reaches last_time + rate of message m.
Tick(m) ==
    /\ Alive /\ m \notin due
    /\ due' = due \cup {m}
    /\ UNCHANGED <<mainPc, sockVars, sigVars, addrVars, msg_seq_counter, rxVars,
                   txVars, created, owed, served>>

\* while (!stop_flag): the time is read once for a pass over the messages.
TxCheck ==
    /\ Alive /\ txPc = "check"
    /\ IF stop_flag THEN txPc' = "ended" /\ UNCHANGED <<txAt, txDue>>
       ELSE txPc' = "pass" /\ txAt' = 1 /\ txDue' = due
    /\ UNCHANGED <<mainPc, sockVars, sigVars, addrVars, msg_seq_counter, rxVars,
                   txSeq, due, created, owed, served>>

\* The pass is over; usleep(1000) if nothing was sent.
TxPassEnds ==
    /\ Alive /\ txPc = "pass" /\ txAt > Len(Messages)
    /\ txPc' = "check" /\ txAt' = 1 /\ txDue' = {}
    /\ UNCHANGED <<mainPc, sockVars, sigVars, addrVars, msg_seq_counter, rxVars,
                   txSeq, due, created, owed, served>>

\* A message that is not due is passed over.
TxSkip ==
    /\ Alive /\ txPc = "pass" /\ txAt <= Len(Messages) /\ Messages[txAt] \notin txDue
    /\ txAt' = txAt + 1
    /\ UNCHANGED <<mainPc, sockVars, sigVars, addrVars, msg_seq_counter, rxVars,
                   txPc, txDue, txSeq, due, created, owed, served>>

TxNumber ==
    /\ Alive /\ txPc = "pass" /\ txAt <= Len(Messages) /\ Messages[txAt] \in txDue
    /\ txSeq' = msg_seq_counter
    /\ created' = created \cup {txSeq'}
    /\ txPc' = "bump"
    /\ UNCHANGED <<mainPc, sockVars, sigVars, addrVars, msg_seq_counter, rxVars,
                   txAt, txDue, due, owed, served>>

TxBump ==
    /\ Alive /\ txPc = "bump"
    /\ msg_seq_counter' = (txSeq + 1) % SeqModulus
    /\ txPc' = "send"
    /\ UNCHANGED <<mainPc, sockVars, sigVars, addrVars, rxVars, txAt, txDue,
                   txSeq, due, created, owed, served>>

\* Mutant of TxSend: the loop is left after the first message sent.
TxSendBreaks ==
    /\ Alive /\ txPc = "send"
    /\ served' = IF SendToSucceeds
                 THEN [served EXCEPT ![client_addr] = @ \cup {Messages[txAt]}]
                 ELSE served
    /\ due' = due \ {Messages[txAt]}
    /\ txPc' = "pass" /\ txAt' = Len(Messages) + 1 /\ txSeq' = 0
    /\ UNCHANGED <<mainPc, sockVars, sigVars, addrVars, msg_seq_counter, rxVars,
                   txDue, created, owed>>

\* data_packing, then last_time = elapsed_ms whether or not sendto succeeded.
TxSend ==
    /\ Alive /\ txPc = "send"
    /\ served' = IF SendToSucceeds
                 THEN [served EXCEPT ![client_addr] = @ \cup {Messages[txAt]}]
                 ELSE served
    /\ due' = due \ {Messages[txAt]}
    /\ txPc' = "pass" /\ txAt' = txAt + 1 /\ txSeq' = 0
    /\ UNCHANGED <<mainPc, sockVars, sigVars, addrVars, msg_seq_counter, rxVars,
                   txDue, created, owed>>

-----------------------------------------------------------------------------
MainStep ==
    ReadConfig \/ InitSocket \/ CreateRx \/ CreateTx \/ InstallHandler \/ Join
RxStep ==
    RxCheck \/ RxCall \/ RxWoken \/ RxParse \/ RxNumber \/ RxBump \/ RxSend
TxStep == TxCheck \/ TxPassEnds \/ TxSkip \/ TxNumber \/ TxBump \/ TxSend

Next ==
    \/ MainStep \/ RxStep \/ TxStep
    \/ \E c \in Clients, op \in {"status", "other"} : RxDatagram(c, op)
    \/ \E m \in Texts : Tick(m)
    \/ \E s \in Signals : SigKills(s) \/ SigStop(s) \/ SigCloseSocket(s)

Spec == Init /\ [][Next]_vars

\* The threads and the handler are scheduled and time passes; nobody is obliged
\* to press Ctrl+C or to send a datagram.
FairSpec ==
    /\ Spec
    /\ WF_vars(MainStep) /\ WF_vars(RxStep) /\ WF_vars(TxStep)
    /\ \A s \in Signals : WF_vars(SigCloseSocket(s))
    /\ \A m \in Texts : WF_vars(Tick(m))

-----------------------------------------------------------------------------
TypeOK ==
    /\ mainPc \in {"config", "initSocket", "createRx", "createTx", "signal",
                   "joinRx", "joinTx", "free"} \cup Ended
    /\ sockfd \in BOOLEAN /\ shut \in BOOLEAN
    /\ socket \in {"none", "open", "closed"}
    /\ stop_flag \in BOOLEAN /\ installed \in BOOLEAN
    /\ sigPc \in [Signals -> {"due", "test", "close", "reset", "done"}]
    /\ client_addr \in Clients \cup {NoClient} /\ addr_len \in BOOLEAN
    /\ msg_seq_counter \in 0..(SeqModulus - 1)
    /\ rxPc \in {"none", "check", "call", "blocked", "parse", "number", "bump",
                 "send", "ended"}
    /\ rxBuf \in {"status", "other"} /\ rxSeq \in 0..(SeqModulus - 1)
    /\ txPc \in {"none", "check", "pass", "bump", "send", "ended"}
    /\ txAt \in 1..(Len(Messages) + 1) /\ txDue \subseteq Texts
    /\ txPc \in {"bump", "send"} => txAt <= Len(Messages)
    /\ txSeq \in 0..(SeqModulus - 1)
    /\ due \subseteq Texts /\ created \subseteq 0..(SeqModulus - 1)
    /\ owed \in [Clients -> Int] /\ served \in [Clients -> SUBSET Texts]

\* No client is sent more acknowledgements than it sent statuses (parse_buffer),
\* not even when the shutdown makes the last datagram be parsed twice.
AcksAnswerStatus == \A c \in Clients : owed[c] >= 0

\* The threads race on msg_seq_counter, so a number may be given out twice, but
\* none is ever skipped: before every number but the first its predecessor has
\* been given out, and the counter follows a number given out (create_header).
SeqNoGap ==
    \A n \in created \cup {msg_seq_counter} :
        n # 1 => (n - 1) % SeqModulus \in created

\* A received status is acknowledged unless SIGINT comes first.
StatusAnswered ==
    \A c \in Clients : owed[c] > 0 ~> owed[c] <= 0 \/ stop_flag \/ ~Alive

\* The client that irst knows is eventually sent every message of config.ini.
MessagesServed ==
    \A c \in Clients, m \in Texts :
        client_addr = c ~> \/ m \in served[c] \/ client_addr # c
                          \/ stop_flag \/ ~Alive

\* README, Signal Handling: SIGINT ends all threads and the process.
SigintEndsIrst == \A s \in Signals : sigPc[s] = "test" ~> mainPc = "exit0"
=============================================================================

----------------------------- MODULE DriverDma -----------------------------
(***************************************************************************)
(* DMA transfers in the kernel driver.  read and write queue a packet; the *)
(* one that finds the queue empty starts the transfer; the completion      *)
(* interrupt schedules EndIo, which takes the packet off the queue, starts *)
(* the next one and wakes the waiting processes.  The lock covers only the *)
(* list operations.  An 807 board has no completion interrupt: StartIo     *)
(* polls and calls EndIo itself, in the process.  On an AFDX board StartIo *)
(* returns without starting a transfer that ends at the end of the memory, *)
(* or one with a repeat code: it compares the file position, whose upper   *)
(* half holds that code, with the length of the memory.                    *)
(* The transfer itself and the interrupt are external.                     *)
(***************************************************************************)
EXTENDS Naturals, Sequences, SequencesExt

CONSTANTS
    Users,        \* processes, one request at a time
    Boards,       \* of {"4000", "807", "AFDX"}
    DmaBuffer,    \* EXC_DMA_BUFFER_SIZE
    MemLength,    \* dwTotalDPRAMMemLength, on AFDX also EXCAFDXPCI_TOTAL_MEM
    MaxRequests   \* bound on the requests

VARIABLES
    subtype,        \* dwBoardSubType
    dma_queue,    \* packets, named by the process they belong to
    user,         \* where each process is in QueueRequest
    completed,    \* f_completed of each packet
    alive,        \* packets allocated and not freed
    edge,         \* packets an AFDX board takes to end past its memory
    queuedSleep,  \* processes asleep on dma_waitQueue
    flight,       \* transfers started and not completed
    irq,          \* completion interrupt raised
    work,         \* EndIo is scheduled
    endio,        \* EndIo by executor: step and packet
    misuse,       \* history: a freed packet was used
    requests

ASSUME BoundsAssumption ==
    DmaBuffer \in Nat /\ MemLength \in Nat /\ MaxRequests \in Nat

DmaVars == <<subtype, dma_queue, user, completed, alive, edge, queuedSleep, flight,
             irq, work, endio, misuse, requests>>

Worker == "work"
Executors == Users \cup {Worker}
Quiet == [step |-> "none", pkt |-> {}]

ASSUME WorkerAssumption == Worker \notin Users

Uses(p) == misuse' = (misuse \/ p \notin alive)

(***************************************************************************)
(* StartIo.                                                                *)
(***************************************************************************)
\* What starting packet p does to the hardware: an 807 board has finished the
\* transfer (or given up) before StartIo goes on to call EndIo.
StartIo(p) ==
    /\ Uses(p)
    /\ flight' = IF subtype = "807" \/ p \in edge THEN flight ELSE flight + 1

(***************************************************************************)
(* QueueRequest.                                                           *)
(***************************************************************************)
\* The packet is made, then queued under the lock.
QueueRequest(u, offset, count, repeats) ==
    /\ user[u] = "idle" /\ requests < MaxRequests
    /\ requests' = requests + 1
    /\ alive' = alive \cup {u} /\ completed' = completed \ {u}
    /\ edge' = IF subtype = "AFDX" /\ (repeats \/ offset + count >= MemLength)
               THEN edge \cup {u} ELSE edge \ {u}
    /\ dma_queue' = Append(dma_queue, u)
    /\ user' = [user EXCEPT ![u] = IF dma_queue = <<>> THEN "start" ELSE "wait"]
    /\ UNCHANGED <<subtype, queuedSleep, flight, irq, work, endio, misuse>>

\* ExcRead and ExcWrite check the request alike; what differs is the copying.
\* The range is checked only of a request without a repeat code.
ExcRead(u) ==
    \E offset \in 0..MemLength, count \in 1..DmaBuffer, repeats \in BOOLEAN :
       /\ repeats \/ offset + count <= MemLength
       /\ QueueRequest(u, offset, count, repeats)

\* The queue was empty: this process starts the transfer.
QueueStart(u) ==
    /\ user[u] = "start"
    /\ StartIo(u)
    /\ user' = [user EXCEPT ![u] = IF subtype = "807" THEN "inEndIo" ELSE "wait"]
    /\ endio' = IF subtype = "807" THEN [endio EXCEPT ![u] = [step |-> "take", pkt |-> {}]]
                ELSE endio
    /\ UNCHANGED <<subtype, dma_queue, completed, alive, edge, queuedSleep, irq, work,
                   requests>>

\* The while condition, then prepare_to_wait and schedule; the condition is
\* not tested again in between.
QueueSleep(u) ==
    /\ user[u] = "wait" /\ u \notin completed
    /\ user' = [user EXCEPT ![u] = "goingToSleep"]
    /\ UNCHANGED <<subtype, dma_queue, completed, alive, edge, queuedSleep, flight,
                   irq, work, endio, misuse, requests>>

QueueAsleep(u) ==
    /\ user[u] = "goingToSleep"
    /\ user' = [user EXCEPT ![u] = "asleep"]
    /\ queuedSleep' = queuedSleep \cup {u}
    /\ UNCHANGED <<subtype, dma_queue, completed, alive, edge, flight, irq, work,
                   endio, misuse, requests>>

QueueWoken(u) ==
    /\ user[u] = "asleep" /\ u \notin queuedSleep
    /\ user' = [user EXCEPT ![u] = "wait"]
    /\ UNCHANGED <<subtype, dma_queue, completed, alive, edge, queuedSleep, flight,
                   irq, work, endio, misuse, requests>>

\* The data is copied out of the packet and the packet freed.
QueueDone(u) ==
    /\ user[u] = "wait" /\ u \in completed
    /\ Uses(u)
    /\ alive' = alive \ {u}
    /\ user' = [user EXCEPT ![u] = "idle"]
    /\ UNCHANGED <<subtype, dma_queue, completed, edge, queuedSleep, flight, irq,
                   work, endio, requests>>

(***************************************************************************)
(* The card, the interrupt and EndIo.                                      *)
(***************************************************************************)
\* A transfer ends.  Two that were started over one another may end as one.
TransferEnds ==
    /\ flight > 0
    /\ flight' \in {flight - 1, 0}
    /\ irq' = TRUE
    /\ UNCHANGED <<subtype, dma_queue, user, completed, alive, edge, queuedSleep,
                   work, endio, misuse, requests>>

\* The service routine resets the interrupt and schedules the work; work
\* that is already scheduled is not scheduled twice.
IsrDma ==
    /\ irq /\ irq' = FALSE
    /\ work' = TRUE
    /\ UNCHANGED <<subtype, dma_queue, user, completed, alive, edge, queuedSleep,
                   flight, endio, misuse, requests>>

\* The work runs: never twice at a time.
RunWork ==
    /\ work /\ endio[Worker] = Quiet
    /\ work' = FALSE
    /\ endio' = [endio EXCEPT ![Worker] = [step |-> "take", pkt |-> {}]]
    /\ UNCHANGED <<subtype, dma_queue, user, completed, alive, edge, queuedSleep,
                   flight, irq, misuse, requests>>

Leave(e) == [u \in Users |-> IF u = e THEN "wait" ELSE user[u]]

\* The head of the queue, read without the lock, and the copy into it.
EndIoTake(e) ==
    /\ endio[e].step = "take"
    /\ IF dma_queue = <<>>
       THEN /\ endio' = [endio EXCEPT ![e] = Quiet]
            /\ user' = Leave(e)
            /\ UNCHANGED misuse
       ELSE /\ endio' = [endio EXCEPT ![e] = [step |-> "delete", pkt |-> {Head(dma_queue)}]]
            /\ Uses(Head(dma_queue))
            /\ UNCHANGED user
    /\ UNCHANGED <<subtype, dma_queue, completed, alive, edge, queuedSleep, flight,
                   irq, work, requests>>

\* The list without packet p.
list_del(q, p) ==
    IF \E i \in 1..Len(q) : q[i] = p
    THEN RemoveAt(q, CHOOSE i \in 1..Len(q) : q[i] = p)
    ELSE q

\* Mutant of EndIoDelete: the flag first, the list after the lock is taken.
EndIoDeleteLate(e) ==
    \/ /\ endio[e].step = "delete"
       /\ completed' = completed \cup endio[e].pkt
       /\ endio' = [endio EXCEPT ![e].step = "unlink"]
       /\ UNCHANGED <<dma_queue, misuse>>
       /\ UNCHANGED <<subtype, user, alive, edge, queuedSleep, flight, irq, work, requests>>
    \/ /\ endio[e].step = "unlink"
       /\ \E p \in endio[e].pkt : dma_queue' = list_del(dma_queue, p) /\ Uses(p)
       /\ endio' = [endio EXCEPT ![e] = [step |-> "next", pkt |-> {}]]
       /\ UNCHANGED <<subtype, user, completed, alive, edge, queuedSleep, flight, irq,
                      work, requests>>

\* Under the lock: off the list, completed.
EndIoDelete(e) ==
    /\ endio[e].step = "delete"
    /\ \E p \in endio[e].pkt :
          /\ dma_queue' = list_del(dma_queue, p)
          /\ completed' = completed \cup {p}
          /\ Uses(p)
    /\ endio' = [endio EXCEPT ![e] = [step |-> "next", pkt |-> {}]]
    /\ UNCHANGED <<subtype, user, alive, edge, queuedSleep, flight, irq, work, requests>>

\* Mutant of EndIoNext: leaves the next packet for a later request to start.
EndIoNextNot(e) ==
    /\ endio[e].step = "next"
    /\ endio' = [endio EXCEPT ![e] = [step |-> "wake", pkt |-> {}]]
    /\ UNCHANGED <<subtype, dma_queue, user, completed, alive, edge, queuedSleep,
                   flight, irq, work, misuse, requests>>

\* After the lock is released: whether there is a next packet ...
EndIoNext(e) ==
    /\ endio[e].step = "next"
    /\ endio' = [endio EXCEPT ![e] =
                   IF dma_queue = <<>> THEN [step |-> "wake", pkt |-> {}]
                   ELSE [step |-> "start", pkt |-> {Head(dma_queue)}]]
    /\ UNCHANGED <<subtype, dma_queue, user, completed, alive, edge, queuedSleep,
                   flight, irq, work, misuse, requests>>

\* ... which is started; on an 807 board EndIo is called again from there.
EndIoStart(e) ==
    /\ endio[e].step = "start"
    /\ \E p \in endio[e].pkt : StartIo(p)
    /\ endio' = [endio EXCEPT ![e] =
                   [step |-> IF subtype = "807" THEN "take" ELSE "wake", pkt |-> {}]]
    /\ UNCHANGED <<subtype, dma_queue, user, completed, alive, edge, queuedSleep, irq,
                   work, requests>>

EndIoWake(e) ==
    /\ endio[e].step = "wake"
    /\ queuedSleep' = {}
    /\ endio' = [endio EXCEPT ![e] = Quiet]
    /\ user' = Leave(e)
    /\ UNCHANGED <<subtype, dma_queue, completed, alive, edge, flight, irq, work,
                   misuse, requests>>

DmaInit ==
    /\ subtype \in Boards
    /\ dma_queue = <<>> /\ user = [u \in Users |-> "idle"]
    /\ completed = {} /\ alive = {} /\ edge = {} /\ queuedSleep = {}
    /\ flight = 0 /\ irq = FALSE /\ work = FALSE
    /\ endio = [e \in Executors |-> Quiet]
    /\ misuse = FALSE /\ requests = 0

DmaNext ==
    \/ \E u \in Users : \/ ExcRead(u) \/ QueueStart(u) \/ QueueSleep(u)
                        \/ QueueAsleep(u) \/ QueueWoken(u) \/ QueueDone(u)
    \/ TransferEnds \/ IsrDma \/ RunWork
    \/ \E e \in Executors : \/ EndIoTake(e) \/ EndIoDelete(e) \/ EndIoNext(e)
                            \/ EndIoStart(e) \/ EndIoWake(e)

DmaSpec == DmaInit /\ [][DmaNext]_DmaVars

(***************************************************************************)
(* Properties.                                                             *)
(***************************************************************************)
\* The types of the driver's variables.
DmaTypeOK ==
    /\ subtype \in Boards
    /\ dma_queue \in Seq(Users)
    /\ user \in [Users -> {"idle", "start", "wait", "goingToSleep", "asleep", "inEndIo"}]
    /\ completed \subseteq Users /\ alive \subseteq Users /\ edge \subseteq Users
    /\ queuedSleep \subseteq Users
    /\ flight \in Nat /\ irq \in BOOLEAN /\ work \in BOOLEAN
    /\ endio \in [Executors -> [step : {"none", "take", "delete", "next", "start", "wake"},
                                pkt : SUBSET Users]]
    /\ misuse \in BOOLEAN /\ requests \in Nat

\* Somebody is on the way to complete the packet at the head of the queue: a
\* transfer, its interrupt, EndIo before its look at the queue, or the
\* process that found the queue empty.
Progress ==
    \/ flight > 0 \/ irq \/ work
    \/ \E e \in Executors : endio[e].step \in {"take", "delete", "next", "start"}
    \/ \E u \in Users : user[u] = "start"

\* The engine is never left idle with packets queued: however QueueRequest
\* and EndIo interleave outside the lock, one of them starts the next
\* transfer.  (A packet that StartIo refuses on an AFDX board stays queued.)
NeverIdle == dma_queue # <<>> /\ Head(dma_queue) \notin edge => Progress

\* With a completion interrupt, no packet is used after its process has freed
\* it: EndIo completes a packet as the last thing it does to it, and takes the
\* next one from a list only it shortens.
PacketAlive == subtype # "807" => ~misuse
=============================================================================

----------------------------- MODULE DriverIrq -----------------------------
(***************************************************************************)
(* Interrupts in the kernel driver: the interrupt service routine records  *)
(* which modules interrupted, in a shadow register and in one flag per     *)
(* module, and wakes the processes that wait in an ioctl.  The service     *)
(* routine runs on one processor while the ioctls run on others, so every  *)
(* access of the shared record of the card is a step of its own; a pass    *)
(* over the modules of the interrupt, or over the pairs of a waiting call, *)
(* is one step.  The wait queue of the card is the kernel's doubly linked  *)
(* list of entries, one of the card (WAIT_FOR_IRQ) and one of each call of *)
(* WAIT_FOR_MOD_IRQ, changed under its lock but for init_wait:             *)
(* prepare_to_wait links an entry that is not linked and marks the process *)
(* sleeping, wake_up goes along the list unmarking and unlinking, schedule *)
(* returns when the process is not marked, or on a signal, and finish_wait *)
(* unlinks.  The queue of all cards has entries of single calls only and   *)
(* is the set of the processes marked on it.                               *)
(***************************************************************************)
EXTENDS Integers, FiniteSets

CONSTANTS
    Procs,        \* user processes with the device open
    Mods,         \* modules of the card
    CardTypes,    \* of {"4000PCI", "PCIPX", "429MX"}
    MaxRaised,    \* bound on the interrupts of the modules
    MaxIoctls     \* bound on the ioctls

VARIABLES
    cardType,              \* dwBoardType
    intStatus,             \* interrupt status register of the card
    isr,                   \* the service routine: step, and modules it took
    fModWakeup,            \* one flag per module
    MchIntShadowRegister,  \* modules that interrupted and were not reported
    at,                    \* where each process is
    want,                  \* modules a process waits for
    sleeping,              \* processes marked TASK_INTERRUPTIBLE
    next, prev,            \* links of the card's waitQueue
    cardProc,              \* the process the card's own wait entry wakes
    torn,                  \* history: that entry was initialised while linked
    late,                  \* processes whose deadline has passed
    copy,                  \* the process's copy of the shadow register
    loaded,                \* what `&=' has loaded of the shadow register
    opens,                 \* dwRefCount
    owed,                  \* history: interrupts recorded and not yet reported
    raisedCnt, ioctls

IrqVars == <<cardType, intStatus, isr, fModWakeup, MchIntShadowRegister, at,
             want, sleeping, next, prev, cardProc, torn, late, copy, loaded,
             opens, owed, raisedCnt, ioctls>>

\* The nodes of the list: its head, the card's entry, and the entry on the
\* stack of each process in WAIT_FOR_MOD_IRQ.
Nodes == Procs \cup {"head", "card"}

ASSUME ProcsAssumption == "head" \notin Procs /\ "card" \notin Procs

(***************************************************************************)
(* The wait queue of the card.                                             *)
(***************************************************************************)
Queue == <<next, prev, cardProc, torn>>

\* An entry is linked if it is not its own neighbour.
Linked(e) == next[e] # e

\* wake_up holds the lock of the queue while it goes along the list.
QueueFree == isr.step # "walk"

list_add(e) ==
    /\ next' = [next EXCEPT ![e] = next["head"], !["head"] = e]
    /\ prev' = [prev EXCEPT ![next["head"]] = e, ![e] = "head"]

list_del_init(e) ==
    /\ next' = [next EXCEPT ![prev[e]] = next[e], ![e] = e]
    /\ prev' = [prev EXCEPT ![next[e]] = prev[e], ![e] = e]

\* init_wait on the card's entry takes no lock and does not look whether it
\* is linked: its neighbours go on pointing at it.
init_wait(p) ==
    /\ cardProc' = p
    /\ next' = [next EXCEPT !["card"] = "card"]
    /\ prev' = [prev EXCEPT !["card"] = "card"]
    /\ torn' = (torn \/ Linked("card"))

prepare_to_wait(e, p) ==
    /\ QueueFree
    /\ IF Linked(e) THEN UNCHANGED <<next, prev>> ELSE list_add(e)
    /\ sleeping' = sleeping \cup {p}
    /\ UNCHANGED <<cardProc, torn>>

finish_wait(e, p) ==
    /\ sleeping' = sleeping \ {p}
    /\ IF next[e] = e /\ prev[e] = e THEN UNCHANGED <<next, prev>>
       ELSE QueueFree /\ list_del_init(e)
    /\ UNCHANGED <<cardProc, torn>>

(***************************************************************************)
(* The card and the service routine.                                       *)
(***************************************************************************)
\* A module raises its interrupt.
ModuleInterrupts(m) ==
    /\ raisedCnt < MaxRaised /\ raisedCnt' = raisedCnt + 1
    /\ intStatus' = intStatus \cup {m}
    /\ UNCHANGED <<cardType, isr, fModWakeup, MchIntShadowRegister, at, want,
                   sleeping, Queue, late, copy, loaded, opens, owed,
                   ioctls>>

\* The status is read and written back to the reset register.  With no bit
\* set the routine returns, except on a 429MX, where it goes on to wake_up.
IsrStatus ==
    /\ isr.step = "off"
    /\ intStatus # {} \/ cardType = "429MX"
    /\ isr' = [isr EXCEPT !.step = "record", !.took = intStatus]
    /\ intStatus' = {}
    /\ UNCHANGED <<cardType, fModWakeup, MchIntShadowRegister, at, want,
                   sleeping, Queue, late, copy, loaded, opens, owed,
                   raisedCnt, ioctls>>

\* The modules that interrupted; the flags only on a 4000PCI (or 1394) card.
IsrModules ==
    /\ isr.step = "record"
    /\ MchIntShadowRegister' = MchIntShadowRegister \cup isr.took
    /\ fModWakeup' = IF cardType = "4000PCI" THEN fModWakeup \cup isr.took
                     ELSE fModWakeup
    /\ owed' = owed \cup isr.took
    /\ isr' = [isr EXCEPT !.step = "wake"]
    /\ UNCHANGED <<cardType, intStatus, at, want, sleeping, Queue, late,
                   copy, loaded, opens, raisedCnt, ioctls>>

IsrKeeps == <<cardType, intStatus, fModWakeup, MchIntShadowRegister, at, want,
              cardProc, torn, late, copy, loaded, opens, owed, raisedCnt, ioctls>>

\* wake_up of the card's queue starts behind the head ...
IsrWake ==
    /\ isr.step = "wake"
    /\ isr' = [isr EXCEPT !.step = "walk", !.pos = next["head"]]
    /\ UNCHANGED <<IsrKeeps, sleeping, next, prev>>

\* ... wakes and unlinks an entry whose process is marked, and goes on to the
\* entry that followed.  An entry initialised while linked follows itself.
Waiter(e) == IF e = "card" THEN cardProc ELSE e
IsrWalk ==
    /\ isr.step = "walk" /\ isr.pos # "head"
    /\ IF Waiter(isr.pos) \in sleeping THEN list_del_init(isr.pos)
       ELSE UNCHANGED <<next, prev>>
    /\ sleeping' = sleeping \ {Waiter(isr.pos)}
    /\ isr' = [isr EXCEPT !.pos = next[isr.pos]]
    /\ UNCHANGED IsrKeeps

\* Back at the head, the queue of all cards is woken.
IsrWalked ==
    /\ isr.step = "walk" /\ isr.pos = "head"
    /\ isr' = [isr EXCEPT !.step = "multi"]
    /\ UNCHANGED <<IsrKeeps, sleeping, next, prev>>
IsrMulti ==
    /\ isr.step = "multi"
    /\ sleeping' = {p \in sleeping : at[p] \notin {"multiqueued", "multiasleep"}}
    /\ isr' = [isr EXCEPT !.step = "off", !.took = {}]
    /\ UNCHANGED <<IsrKeeps, next, prev>>

(***************************************************************************)
(* open and close.                                                         *)
(***************************************************************************)
ExcOpen(p) ==
    /\ at[p] = "closed"
    /\ MchIntShadowRegister' = IF opens = 0 THEN {} ELSE MchIntShadowRegister
    /\ owed' = IF opens = 0 THEN {} ELSE owed
    /\ opens' = opens + 1
    /\ at' = [at EXCEPT ![p] = "idle"]
    /\ UNCHANGED <<cardType, intStatus, isr, fModWakeup, want, sleeping,
                   Queue, late, copy, loaded, raisedCnt, ioctls>>

ExcRelease(p) ==
    /\ at[p] = "idle"
    /\ opens' = opens - 1
    /\ at' = [at EXCEPT ![p] = "closed"]
    /\ UNCHANGED <<cardType, intStatus, isr, fModWakeup, MchIntShadowRegister,
                   want, sleeping, Queue, late, copy, loaded, owed,
                   raisedCnt, ioctls>>

(***************************************************************************)
(* The ioctls that wait.                                                   *)
(***************************************************************************)
Ioctl(p) == at[p] = "idle" /\ ioctls < MaxIoctls /\ ioctls' = ioctls + 1

Kept == <<cardType, intStatus, isr, MchIntShadowRegister, copy, loaded, opens,
          owed, raisedCnt>>

\* EXC_IOCTL_WAIT_FOR_IRQ: sleep until any interrupt of the card.  The wait
\* entry is the card's, not the call's: init_wait takes it from a process
\* that sleeps on it, and finish_wait unlinks it whoever sleeps on it.
WaitForIrq(p) ==
    /\ Ioctl(p)
    /\ init_wait(p)
    /\ at' = [at EXCEPT ![p] = "any"]
    /\ UNCHANGED <<Kept, fModWakeup, want, sleeping, late>>

WaitForIrqQueue(p) ==
    /\ at[p] = "any"
    /\ prepare_to_wait("card", p)
    /\ at' = [at EXCEPT ![p] = "anyasleep"]
    /\ UNCHANGED <<Kept, fModWakeup, want, late, ioctls>>

\* schedule returns because the process was woken, or signalled.
WaitForIrqDone(p) ==
    /\ at[p] = "anyasleep"
    /\ finish_wait("card", p)
    /\ at' = [at EXCEPT ![p] = "idle"]
    /\ UNCHANGED <<Kept, fModWakeup, want, late, ioctls>>

\* EXC_IOCTL_WAIT_FOR_MOD_IRQ forgets an earlier interrupt of its module.  It
\* waits with an entry of its own, but initialises the card's too.
WaitForModIrq(p) ==
    /\ Ioctl(p)
    /\ init_wait(p)
    /\ \E m \in Mods : /\ want' = [want EXCEPT ![p] = {m}]
                       /\ fModWakeup' = fModWakeup \ {m}
    /\ late' = late \ {p}
    /\ at' = [at EXCEPT ![p] = "mod"]
    /\ UNCHANGED <<Kept, sleeping>>

\* The while condition; inside the loop the process is queued first ...
WaitModEnter(p) ==
    /\ at[p] = "mod" /\ want[p] \cap fModWakeup = {} /\ p \notin late
    /\ at' = [at EXCEPT ![p] = "modenter"]
    /\ UNCHANGED <<Kept, Queue, sleeping, fModWakeup, want, late, ioctls>>
WaitModQueue(p) ==
    /\ at[p] = "modenter"
    /\ prepare_to_wait(p, p)
    /\ at' = [at EXCEPT ![p] = "modqueued"]
    /\ UNCHANGED <<Kept, fModWakeup, want, late, ioctls>>

\* Mutant of WaitModTest: sleeps without looking at the flag again.
WaitModTestNot(p) ==
    /\ at[p] = "modqueued"
    /\ at' = [at EXCEPT ![p] = "modasleep"]
    /\ UNCHANGED <<Kept, Queue, sleeping, fModWakeup, want, late, ioctls>>

\* ... and then looks at the flag again before it sleeps.
WaitModTest(p) ==
    /\ at[p] = "modqueued"
    /\ IF want[p] \cap fModWakeup # {}
       THEN /\ finish_wait(p, p)
            /\ at' = [at EXCEPT ![p] = "modend"]
       ELSE /\ at' = [at EXCEPT ![p] = "modasleep"]
            /\ UNCHANGED <<sleeping, Queue>>
    /\ UNCHANGED <<Kept, fModWakeup, want, late, ioctls>>

\* schedule_timeout returns: woken, signalled, or its time is up.
WaitModWoken(p) ==
    /\ at[p] = "modasleep"
    /\ late' \in {late, late \cup {p}}
    /\ finish_wait(p, p)
    /\ at' = [at EXCEPT ![p] = "mod"]
    /\ UNCHANGED <<Kept, fModWakeup, want, ioctls>>

\* The loop ends; the flag decides whether the call reports a timeout.
WaitModDone(p) ==
    /\ at[p] = "modend" \/ (at[p] = "mod" /\ (want[p] \cap fModWakeup # {} \/ p \in late))
    /\ fModWakeup' = fModWakeup \ want[p]
    /\ at' = [at EXCEPT ![p] = "idle"]
    /\ want' = [want EXCEPT ![p] = {}] /\ late' = late \ {p}
    /\ UNCHANGED <<Kept, Queue, sleeping, ioctls>>

\* EXC_IOCTL_WAIT_FOR_MULT_IRQ_MULT_DEV: several modules, none forgotten.
WaitForMultIrq(p) ==
    /\ Ioctl(p)
    /\ \E ms \in SUBSET Mods : Cardinality(ms) > 1 /\ want' = [want EXCEPT ![p] = ms]
    /\ late' = late \ {p}
    /\ at' = [at EXCEPT ![p] = "multi"]
    /\ UNCHANGED <<Kept, Queue, fModWakeup, sleeping>>

\* A pass over the pairs takes the flags that are set; with none the process
\* is queued, passes over the pairs again, and sleeps.
WaitMultScan(p) ==
    /\ at[p] = "multi"
    /\ IF p \in late \/ want[p] \cap fModWakeup # {}
       THEN /\ fModWakeup' = IF p \in late THEN fModWakeup ELSE fModWakeup \ want[p]
            /\ at' = [at EXCEPT ![p] = "idle"]
            /\ want' = [want EXCEPT ![p] = {}] /\ late' = late \ {p}
       ELSE /\ at' = [at EXCEPT ![p] = "multienter"]
            /\ UNCHANGED <<fModWakeup, want, late>>
    /\ UNCHANGED <<Kept, Queue, sleeping, ioctls>>
WaitMultQueue(p) ==
    /\ at[p] = "multienter"
    /\ sleeping' = sleeping \cup {p}
    /\ at' = [at EXCEPT ![p] = "multiqueued"]
    /\ UNCHANGED <<Kept, Queue, fModWakeup, want, late, ioctls>>

WaitMultRescan(p) ==
    /\ at[p] = "multiqueued"
    /\ IF want[p] \cap fModWakeup # {}
       THEN /\ fModWakeup' = fModWakeup \ want[p]
            /\ sleeping' = sleeping \ {p}
            /\ at' = [at EXCEPT ![p] = "idle"]
            /\ want' = [want EXCEPT ![p] = {}] /\ late' = late \ {p}
       ELSE /\ at' = [at EXCEPT ![p] = "multiasleep"]
            /\ UNCHANGED <<fModWakeup, sleeping, want, late>>
    /\ UNCHANGED <<Kept, Queue, ioctls>>

WaitMultWoken(p) ==
    /\ at[p] = "multiasleep"
    /\ late' \in {late, late \cup {p}}
    /\ sleeping' = sleeping \ {p}
    /\ at' = [at EXCEPT ![p] = "multi"]
    /\ UNCHANGED <<Kept, Queue, fModWakeup, want, ioctls>>

(***************************************************************************)
(* EXC_IOCTL_GET_MCH_SHADOW.                                               *)
(***************************************************************************)
GetMchShadow(p) ==
    /\ Ioctl(p)
    /\ copy' = [copy EXCEPT ![p] = MchIntShadowRegister]
    /\ at' = [at EXCEPT ![p] = "reporting"]
    /\ owed' = owed \ MchIntShadowRegister
    /\ UNCHANGED <<cardType, intStatus, isr, fModWakeup, MchIntShadowRegister,
                   want, sleeping, Queue, late, loaded, opens, raisedCnt>>

\* `MchIntShadowRegister &= ~ShadowOfShadow': a load and a store.
ClearShadowLoad(p) ==
    /\ at[p] = "reporting"
    /\ loaded' = [loaded EXCEPT ![p] = MchIntShadowRegister]
    /\ at' = [at EXCEPT ![p] = "clearing"]
    /\ UNCHANGED <<cardType, intStatus, isr, fModWakeup, MchIntShadowRegister,
                   want, sleeping, Queue, late, copy, opens, owed,
                   raisedCnt, ioctls>>

ClearShadowStore(p) ==
    /\ at[p] = "clearing"
    /\ MchIntShadowRegister' = loaded[p] \ copy[p]
    /\ at' = [at EXCEPT ![p] = "idle"]
    /\ copy' = [copy EXCEPT ![p] = {}] /\ loaded' = [loaded EXCEPT ![p] = {}]
    /\ UNCHANGED <<cardType, intStatus, isr, fModWakeup, want, sleeping,
                   Queue, late, opens, owed, raisedCnt,
                   ioctls>>

IrqInit ==
    /\ cardType \in CardTypes
    /\ intStatus = {} /\ isr = [step |-> "off", took |-> {}, pos |-> "head"]
    /\ fModWakeup = {} /\ MchIntShadowRegister = {}
    /\ at = [p \in Procs |-> "closed"] /\ want = [p \in Procs |-> {}]
    /\ sleeping = {} /\ late = {}
    /\ next = [e \in Nodes |-> e] /\ prev = [e \in Nodes |-> e]
    /\ cardProc \in Procs /\ torn = FALSE
    /\ copy = [p \in Procs |-> {}] /\ loaded = [p \in Procs |-> {}]
    /\ opens = 0 /\ owed = {} /\ raisedCnt = 0 /\ ioctls = 0

IrqNext ==
    \/ \E m \in Mods : ModuleInterrupts(m)
    \/ IsrStatus \/ IsrModules \/ IsrWake \/ IsrWalk \/ IsrWalked \/ IsrMulti
    \/ \E p \in Procs :
          \/ ExcOpen(p) \/ ExcRelease(p)
          \/ WaitForIrq(p) \/ WaitForIrqQueue(p) \/ WaitForIrqDone(p)
          \/ WaitForModIrq(p) \/ WaitModEnter(p) \/ WaitModQueue(p) \/ WaitModTest(p)
          \/ WaitModWoken(p) \/ WaitModDone(p)
          \/ WaitForMultIrq(p) \/ WaitMultScan(p) \/ WaitMultQueue(p) \/ WaitMultRescan(p)
          \/ WaitMultWoken(p)
          \/ GetMchShadow(p) \/ ClearShadowLoad(p) \/ ClearShadowStore(p)

IrqSpec == IrqInit /\ [][IrqNext]_IrqVars

(***************************************************************************)
(* Properties.                                                             *)
(***************************************************************************)
\* The types of the record of the card and of the waiting processes.
IrqTypeOK ==
    /\ cardType \in CardTypes
    /\ intStatus \subseteq Mods /\ fModWakeup \subseteq Mods
    /\ MchIntShadowRegister \subseteq Mods /\ owed \subseteq Mods
    /\ isr \in [step : {"off", "record", "wake", "walk", "multi"},
                took : SUBSET Mods, pos : Nodes]
    /\ at \in [Procs -> {"closed", "idle", "any", "anyasleep", "mod", "modenter", "modqueued",
                         "modasleep", "modend", "multi", "multienter", "multiqueued",
                         "multiasleep", "reporting", "clearing"}]
    /\ want \in [Procs -> SUBSET Mods]
    /\ sleeping \subseteq Procs /\ late \subseteq Procs
    /\ next \in [Nodes -> Nodes] /\ prev \in [Nodes -> Nodes]
    /\ cardProc \in Procs /\ torn \in BOOLEAN
    /\ copy \in [Procs -> SUBSET Mods] /\ loaded \in [Procs -> SUBSET Mods]
    /\ opens \in Int /\ raisedCnt \in Nat /\ ioctls \in Nat

\* A process never sleeps through the interrupt it waits for: if its module's
\* flag is set while it is asleep in WAIT_FOR_MOD_IRQ or in
\* WAIT_FOR_MULT_IRQ_MULT_DEV, the service routine is about to wake it, or on
\* its way along the list.  Until, that is, a call initialises the card's wait
\* entry while another process is linked by it: the list ends there.
WakeNotLost ==
    ~torn =>
    \A p \in Procs :
       p \in sleeping /\ want[p] \cap fModWakeup # {}
       => /\ at[p] = "modasleep" => isr.step \in {"wake", "walk"}
          /\ at[p] = "multiasleep" => isr.step \in {"wake", "walk", "multi"}

\* What the comment of WAIT_FOR_IRQ says, "process will be woken up in Isr when
\* interrupt occurs": when the service routine has gone along the list, no
\* process is left asleep in that call.
WokenByIsr ==
    [][isr.step = "walk" /\ isr.step' = "multi"
       => \A p \in Procs : at[p] = "anyasleep" => p \notin sleeping]_IrqVars

\* GET_MCH_SHADOW loses no interrupt between the transfer and the reset: one
\* that was recorded and not reported to a process is in the shadow register.
ShadowKeepsAll == owed \subseteq MchIntShadowRegister
=============================================================================

------------------------------ MODULE PxHandles ------------------------------
(***************************************************************************)
(* The handle table of the Px library (cardpx) over the device table of    *)
(* deviceio.c (DevInfo): a module is initialised or attached, a slot of    *)
(* the table is taken, the device opened and counted, the module's bank    *)
(* mapped, the module reset and waited for; every step may fail.  Release  *)
(* gives all of it back.  The library is called by one thread; a call of   *)
(* Init_Attach_Px is a sequence of actions, driven by call.pc.             *)
(***************************************************************************)
EXTENDS Naturals, FiniteSets

CONSTANTS
    NumCards,       \* NUMCARDS, slots of the handle table
    PciDevices,     \* boards of the 4000 family
    ExCards,        \* ExpressCards, addressed like PCMCIA cards or boards
    Pcmcia,         \* PCMCIA cards
    UNets,          \* remote devices
    ModuleNums,     \* module numbers asked for
    MaxHandleCalls  \* bound on the calls made

VARIABLES
    cardpx,         \* the table of modules
    g_handlepx,     \* the handle of the calls that take none
    DevInfo,        \* per device: open, references, banks mapped
    call,           \* the call of Init_Attach_Px in progress
    remote,         \* handles with a connection to a remote device
    lost,           \* devices closed by a call that had not opened them
    handleCalls     \* calls made

HandleVars == <<cardpx, g_handlepx, DevInfo, call, remote, lost, handleCalls>>

SIMULATE == "simulate"
INVALID_DEV_PX == "invalid"
EXC_PCMCIA_MODULE == 100
EXC_PCMCIA_MODULE_2ND == 101
SINGLE_MODULE_CARD == 255
NUMMODULES == 16
MAX_MODULES == 9
MAX_MODULES_ON_BOARD == 8
GLOBALREG_BANK == 4
EXC_BANK_CONTROL == 1
XILINX_RETRIES == 3

Handles == 0..(NumCards - 1)
Physical == PciDevices \cup ExCards \cup Pcmcia

\* The device number of a simulated module, the one a released slot holds and
\* those of remote devices are no numbers of devices of this machine.
ASSUME HandlesAssumption ==
    /\ NumCards \in Nat \ {0} /\ ModuleNums \subseteq Nat
    /\ Physical \cap (UNets \cup {SIMULATE, INVALID_DEV_PX}) = {}

DeviceNums == Physical \cup UNets \cup {SIMULATE}
NoBank == "none"
Heap == "heap"

Fresh == [allocated |-> FALSE, card_addr |-> INVALID_DEV_PX, module |-> 0, orig |-> 0,
          isUNet |-> FALSE, isPCMCIA |-> FALSE, isExCARD |-> FALSE,
          moduleType |-> "none", bank |-> NoBank]
NoCall == [pc |-> "idle", h |-> 0, reset |-> FALSE, tries |-> 0]

(***************************************************************************)
(* deviceio.c: operators on the entry of a device.                         *)
(***************************************************************************)
\* The first to open resets the mappings and reads the types of the modules,
\* through the bank of global registers; on a card that has no such
\* registers that bank stays mapped.
OpenKernelDevice(dv, d) ==
    IF d.open THEN [d EXCEPT !.ref = @ + 1]
    ELSE [open |-> TRUE, ref |-> d.ref + 1,
          mapped |-> IF dv \in Pcmcia THEN {GLOBALREG_BANK} ELSE {}]

UnMapMemory(d) == [d EXCEPT !.mapped = {}]

\* Mutant of CloseKernelDevice: closes for every user.
CloseKernelDeviceAll(d) ==
    IF ~d.open THEN d ELSE [UnMapMemory(d) EXCEPT !.open = FALSE, !.ref = @ - 1]

CloseKernelDevice(d) ==
    IF ~d.open THEN d
    ELSE IF d.ref > 1 THEN [d EXCEPT !.ref = @ - 1]
    ELSE [UnMapMemory(d) EXCEPT !.open = FALSE, !.ref = 0]

\* A bank already mapped is found; any other may fail to be mapped.
MapMemory(d, bank) == [d EXCEPT !.mapped = @ \cup {bank}]
MayFail(d, bank) == bank \notin d.mapped

Card(h) == cardpx[h]
Slot(h, r) == cardpx' = [cardpx EXCEPT ![h] = r]
Dev(d, r) == DevInfo' = [DevInfo EXCEPT ![d] = r]
CallGoes(pc) == call' = [call EXCEPT !.pc = pc]
Ends == call' = NoCall
Called == call = NoCall /\ handleCalls < MaxHandleCalls /\ handleCalls' = handleCalls + 1
cur == cardpx[call.h]

(***************************************************************************)
(* Init_Attach_Px.                                                         *)
(***************************************************************************)
\* The slot already allocated to the module, else the first free one, whose
\* other fields keep what the last module left in them.
Init_Attach_Px(dv, m, reset) ==
    LET known == {h \in Handles : Card(h).allocated /\ Card(h).card_addr # SIMULATE
                                  /\ Card(h).card_addr = dv /\ Card(h).orig = m}
        free == {h \in Handles : ~Card(h).allocated}
        first(S) == CHOOSE h \in S : \A i \in S : h <= i
    IN  /\ Called
        /\ \/ /\ m >= NUMMODULES /\ m \notin {EXC_PCMCIA_MODULE, EXC_PCMCIA_MODULE_2ND}
              /\ Ends /\ UNCHANGED <<cardpx, g_handlepx>>
           \/ /\ m < NUMMODULES \/ m \in {EXC_PCMCIA_MODULE, EXC_PCMCIA_MODULE_2ND}
              /\ \/ /\ known # {}
                    /\ g_handlepx' = first(known)
                    /\ Ends /\ UNCHANGED cardpx
                 \/ /\ known = {} /\ free # {}
                    /\ g_handlepx' = first(free)
                    /\ Slot(first(free), [Card(first(free)) EXCEPT
                                             !.card_addr = dv, !.module = m, !.orig = m])
                    /\ call' = [pc |-> "info", h |-> first(free), reset |-> reset, tries |-> 0]
                 \/ /\ known = {} /\ free = {}
                    /\ Ends /\ UNCHANGED <<cardpx, g_handlepx>>
        /\ UNCHANGED <<DevInfo, remote, lost>>

\* The board is asked for its type, and for the module's unless it is
\* addressed as a PCMCIA card; both open the device and close it again.
BoardInfo ==
    /\ call.pc = "info"
    /\ \/ /\ cur.card_addr = SIMULATE
          /\ CallGoes("simulate") /\ UNCHANGED cardpx
       \/ /\ cur.card_addr # SIMULATE
          /\ Ends /\ UNCHANGED cardpx
       \/ /\ cur.card_addr # SIMULATE
          /\ \/ /\ cur.orig < MAX_MODULES_ON_BOARD
                /\ \E t \in {"PX", "none", "other"} : Slot(call.h, [cur EXCEPT !.moduleType = t])
             \/ cur.orig >= EXC_PCMCIA_MODULE /\ UNCHANGED cardpx
          /\ CallGoes(IF cur.card_addr \in UNets THEN "unet" ELSE "pci")
    /\ UNCHANGED <<g_handlepx, DevInfo, remote, lost, handleCalls>>

\* A simulated module lives in memory of its own.
SimulateBank ==
    /\ call.pc = "simulate"
    /\ \/ Ends /\ UNCHANGED cardpx
       \/ /\ Slot(call.h, [cur EXCEPT !.bank = Heap, !.isUNet = FALSE,
                                      !.moduleType = "PX"])
          /\ CallGoes("populate")
    /\ UNCHANGED <<g_handlepx, DevInfo, remote, lost, handleCalls>>

\* The connection, then memory for the image of the module: without it the
\* connection stays.
ConnectUNet ==
    /\ call.pc = "unet"
    /\ \/ /\ Slot(call.h, [cur EXCEPT !.isUNet = TRUE])
          /\ Ends /\ UNCHANGED remote
       \/ /\ Slot(call.h, [cur EXCEPT !.isUNet = TRUE])
          /\ remote' = remote \cup {call.h}
          /\ Ends
       \/ /\ Slot(call.h, [cur EXCEPT !.isUNet = TRUE, !.bank = Heap, !.isExCARD = FALSE,
                                      !.isPCMCIA = FALSE])
          /\ remote' = remote \cup {call.h}
          /\ CallGoes(IF call.reset THEN "unet_reset" ELSE "populate")
    /\ UNCHANGED <<g_handlepx, DevInfo, lost, handleCalls>>

\* The module is back within TIMEOUT_VAL looks, or the connection is ended.
ResetUNet ==
    /\ call.pc = "unet_reset"
    /\ \/ CallGoes("populate") /\ UNCHANGED remote
       \/ remote' = remote \ {call.h} /\ Ends
    /\ UNCHANGED <<cardpx, g_handlepx, DevInfo, lost, handleCalls>>

\* An ExpressCard addressed as a PCMCIA card is a board with modules 0 and 1.
ConnectPCI ==
    LET ex == cur.card_addr \in ExCards
        m == IF ex /\ cur.module >= EXC_PCMCIA_MODULE THEN cur.module - EXC_PCMCIA_MODULE
             ELSE cur.module
    IN  /\ call.pc = "pci"
        /\ Slot(call.h, [cur EXCEPT !.isUNet = FALSE, !.isExCARD = ex, !.module = m])
        /\ CallGoes(IF m >= EXC_PCMCIA_MODULE THEN "pcmcia_open" ELSE "pcie_open")
        /\ UNCHANGED <<g_handlepx, DevInfo, remote, lost, handleCalls>>

(***************************************************************************)
(* InitPCMCIA.                                                             *)
(***************************************************************************)
OpenPCMCIA ==
    LET d == cur.card_addr
    IN  /\ call.pc = "pcmcia_open"
        /\ \/ ~DevInfo[d].open /\ Ends /\ UNCHANGED DevInfo
           \/ /\ Dev(d, OpenKernelDevice(d, DevInfo[d]))
              /\ CallGoes("pcmcia_map")
        /\ UNCHANGED <<cardpx, g_handlepx, remote, lost, handleCalls>>

\* The bank of the card, the processor behind it and, for an AMD, the bank
\* of control registers.
MapPCMCIA ==
    LET d == cur.card_addr
        bank == IF cur.module = EXC_PCMCIA_MODULE_2ND THEN 3 ELSE 0
        Mapped == MapMemory(DevInfo[d], bank)
        FoundSlot(m) == Slot(call.h, [cur EXCEPT !.isPCMCIA = TRUE, !.bank = bank, !.module = m,
                                          !.moduleType = "pcmcia"])
        Go == CallGoes(IF call.reset THEN "pcmcia_reset" ELSE "populate")
    IN  /\ call.pc = "pcmcia_map"
        /\ \/ /\ MayFail(DevInfo[d], bank)
              /\ Dev(d, CloseKernelDevice(DevInfo[d]))
              /\ Ends /\ UNCHANGED cardpx
           \/ FoundSlot(cur.module - EXC_PCMCIA_MODULE) /\ Dev(d, Mapped) /\ Go      \* NIOS
           \/ FoundSlot(SINGLE_MODULE_CARD) /\ Dev(d, Mapped) /\ Go                  \* Intel
           \/ /\ FoundSlot(SINGLE_MODULE_CARD)                                       \* AMD
              /\ \/ Dev(d, MapMemory(Mapped, EXC_BANK_CONTROL)) /\ Go
                 \/ /\ MayFail(Mapped, EXC_BANK_CONTROL)
                    /\ Dev(d, CloseKernelDevice(Mapped)) /\ Ends
        /\ UNCHANGED <<g_handlepx, remote, lost, handleCalls>>

\* Reset_Card_Px may refuse, where it asks whether the channel is present and
\* may be reset: on a NIOS.
ResetRefused(c) == c.module # SINGLE_MODULE_CARD

\* The reset is refused; the card does not come back, which also marks the slot, or
\* comes back unhealthy.
ResetPCMCIA ==
    LET d == cur.card_addr
        Fails == Dev(d, CloseKernelDevice(DevInfo[d])) /\ Ends
    IN  /\ call.pc = "pcmcia_reset"
        /\ \/ CallGoes("populate") /\ UNCHANGED <<cardpx, DevInfo>>
           \/ ResetRefused(cur) /\ Fails /\ UNCHANGED cardpx
           \/ Fails /\ Slot(call.h, [cur EXCEPT !.card_addr = INVALID_DEV_PX, !.module = 99])
           \/ Fails /\ UNCHANGED cardpx
        /\ UNCHANGED <<g_handlepx, remote, lost, handleCalls>>

(***************************************************************************)
(* InitPCIe.                                                               *)
(***************************************************************************)
\* Modules 4 to 7 are in banks 5 to 8; the type is the one read by BoardInfo,
\* or what the slot still holds of an earlier module.
OpenPCIe ==
    LET d == cur.card_addr
    IN  /\ call.pc = "pcie_open"
        /\ Slot(call.h, [cur EXCEPT !.module = IF @ > 3 THEN @ + 1 ELSE @])
        /\ \/ /\ cur.moduleType # "PX"
              /\ Ends
              /\ UNCHANGED DevInfo
           \/ /\ cur.moduleType = "PX" /\ ~DevInfo[d].open
              /\ Ends /\ UNCHANGED DevInfo
           \/ /\ cur.moduleType = "PX"
              /\ Dev(d, OpenKernelDevice(d, DevInfo[d]))
              /\ CallGoes("pcie_map")
        /\ UNCHANGED <<g_handlepx, remote, lost, handleCalls>>

\* Mutant of MapPCIe: a module that cannot be mapped leaves its device open.
MapPCIeLeaves ==
    LET d == cur.card_addr
    IN  /\ call.pc = "pcie_map"
        /\ \/ /\ MayFail(DevInfo[d], cur.module)
              /\ Ends /\ UNCHANGED <<cardpx, DevInfo>>
           \/ /\ Dev(d, MapMemory(DevInfo[d], cur.module))
              /\ Slot(call.h, [cur EXCEPT !.bank = cur.module, !.isPCMCIA = @ /\ ~call.reset])
              /\ CallGoes(IF call.reset THEN "pcie_reset" ELSE "populate")
        /\ UNCHANGED <<g_handlepx, remote, lost, handleCalls>>

\* The bank; the processor makes no difference here.  Only a reset takes back
\* that the slot held a PCMCIA card.
MapPCIe ==
    LET d == cur.card_addr
    IN  /\ call.pc = "pcie_map"
        /\ \/ /\ MayFail(DevInfo[d], cur.module)
              /\ Dev(d, CloseKernelDevice(DevInfo[d]))
              /\ Ends /\ UNCHANGED cardpx
           \/ /\ Dev(d, MapMemory(DevInfo[d], cur.module))
              /\ Slot(call.h, [cur EXCEPT !.bank = cur.module, !.isPCMCIA = @ /\ ~call.reset])
              /\ CallGoes(IF call.reset THEN "pcie_reset" ELSE "populate")
        /\ UNCHANGED <<g_handlepx, remote, lost, handleCalls>>

\* One turn of the loop: a module that does not come back, or whose Xilinx
\* fails a third time, is given up.  What Reset_Card_Px answers is ignored.
ResetPCIe ==
    LET d == cur.card_addr
        Fails == Dev(d, CloseKernelDevice(DevInfo[d])) /\ Ends
    IN  /\ call.pc = "pcie_reset"
        /\ \/ CallGoes("populate") /\ UNCHANGED DevInfo
           \/ Fails
           \/ call.tries + 1 = XILINX_RETRIES /\ Fails
           \/ /\ call.tries + 1 < XILINX_RETRIES
              /\ call' = [call EXCEPT !.tries = @ + 1] /\ UNCHANGED DevInfo
        /\ UNCHANGED <<cardpx, g_handlepx, remote, lost, handleCalls>>

\* All kinds end here: the slot is allocated.
Populate ==
    /\ call.pc = "populate"
    /\ Slot(call.h, [cur EXCEPT !.allocated = TRUE])
    /\ Ends
    /\ UNCHANGED <<g_handlepx, DevInfo, remote, lost, handleCalls>>

(***************************************************************************)
(* The other calls.                                                        *)
(***************************************************************************)
Release_Module_Px(h) ==
    LET c == Card(h)
    IN  /\ Called
        /\ \/ /\ ~c.allocated
              /\ Ends /\ UNCHANGED <<cardpx, DevInfo, remote>>
           \/ /\ c.allocated
              /\ Slot(h, [c EXCEPT !.allocated = FALSE, !.card_addr = INVALID_DEV_PX,
                                   !.isUNet = FALSE, !.bank = IF c.isUNet THEN NoBank ELSE @])
              /\ remote' = IF c.isUNet THEN remote \ {h} ELSE remote
              /\ IF c.card_addr \in Physical /\ ~c.isUNet
                 THEN Dev(c.card_addr, CloseKernelDevice(DevInfo[c.card_addr]))
                 ELSE UNCHANGED DevInfo
              /\ Ends
        /\ UNCHANGED <<g_handlepx, lost>>

\* The first allocated slot with that number, whatever its board.
Select_Module(m) ==
    /\ Called
    /\ LET match == {h \in Handles : Card(h).allocated /\ Card(h).module = m}
       IN  \/ /\ match # {} /\ m < NUMMODULES
              /\ g_handlepx' = CHOOSE h \in match : \A i \in match : h <= i
              /\ Ends
           \/ match = {} /\ Ends /\ UNCHANGED g_handlepx
    /\ UNCHANGED <<cardpx, DevInfo, remote, lost>>

\* Host_Reset_PCMCIA_Px, Global_Ttag_Reset_PCMCIA_Px and
\* Get_PCMCIA_HWInterface_Rev_Px map the bank of control registers; when that
\* fails they close the device, which the handle goes on using.
ControlBank(h) ==
    LET d == Card(h).card_addr
    IN  /\ Called
        /\ Card(h).allocated /\ Card(h).isPCMCIA /\ d \in Physical /\ ~Card(h).isUNet
        /\ \/ /\ MayFail(DevInfo[d], EXC_BANK_CONTROL) /\ DevInfo[d].open
              /\ Dev(d, CloseKernelDevice(DevInfo[d]))
              /\ lost' = lost \cup {d} /\ Ends
           \/ /\ ~DevInfo[d].open
              /\ UNCHANGED <<DevInfo, lost>> /\ Ends
           \/ /\ DevInfo[d].open
              /\ Dev(d, MapMemory(DevInfo[d], EXC_BANK_CONTROL))
              /\ UNCHANGED lost /\ Ends
        /\ UNCHANGED <<cardpx, g_handlepx, remote>>

\* What a wait for an interrupt, or a question for the count of interrupts,
\* on a handle answers before it gets to the driver.
ReachesDriver(h) ==
    LET c == Card(h)
    IN  CASE ~c.allocated -> "ebadhandle"
          [] c.allocated /\ (c.card_addr = SIMULATE \/ h \in remote) -> "ok"
          [] OTHER -> IF /\ c.module < MAX_MODULES \/ c.module = SINGLE_MODULE_CARD
                         /\ DevInfo[c.card_addr].open
                      THEN "ok" ELSE "ekernelbadparam"

\* Init_Card and Release_Card are Init_Module_Px and Release_Module_Px of
\* module 0 and of handle 0.
HandleInit ==
    /\ cardpx = [h \in Handles |-> Fresh]
    /\ g_handlepx = 0
    /\ DevInfo = [d \in Physical |-> [open |-> FALSE, ref |-> 0, mapped |-> {}]]
    /\ call = NoCall /\ remote = {} /\ lost = {} /\ handleCalls = 0

HandleNext ==
    \/ \E d \in DeviceNums, m \in ModuleNums, reset \in BOOLEAN : Init_Attach_Px(d, m, reset)
    \/ BoardInfo \/ SimulateBank \/ ConnectUNet \/ ResetUNet \/ ConnectPCI
    \/ OpenPCMCIA \/ MapPCMCIA \/ ResetPCMCIA \/ OpenPCIe \/ MapPCIe \/ ResetPCIe \/ Populate
    \/ \E h \in Handles : Release_Module_Px(h) \/ ControlBank(h)
    \/ \E m \in ModuleNums : Select_Module(m)

HandleSpec == HandleInit /\ [][HandleNext]_HandleVars

(***************************************************************************)
(* Properties.                                                             *)
(***************************************************************************)
\* A handle that has been given out can be used until it is released,
\* whatever is initialised, released or fails on other handles meanwhile: its
\* device is open, its memory mapped, its waits reach the driver.  Not so once
\* one of the PCMCIA control calls has failed on the device.
HandlesUsable ==
    \A h \in Handles :
       /\ Card(h).allocated /\ Card(h).card_addr \in Physical \ lost
       => /\ Card(h).bank \in DevInfo[Card(h).card_addr].mapped
          /\ ReachesDriver(h) = "ok"

\* The device is in use by the handles allocated on it and by the call that
\* has opened it and not yet ended.
Opened == {"pcmcia_map", "pcmcia_reset", "pcie_map", "pcie_reset", "populate"}
UsersOf(d) ==
    {h \in Handles : /\ Card(h).card_addr = d
                     /\ Card(h).allocated \/ (call.h = h /\ call.pc \in Opened)}

Use == INSTANCE DeviceUse
          WITH Devices <- Physical, Users <- Handles,
               users <- [d \in Physical |-> UsersOf(d)],
               open <- [d \in Physical |-> DevInfo[d].open]

\* The handle table uses the devices as DeviceUse says: a device is opened by
\* the first handle on it and closed by the last, on the error paths of the
\* initialisation too.
DevicesUsed == Use!UseInit /\ [][Use!UseNext]_Use!UseVars
=============================================================================

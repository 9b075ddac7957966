------------------------------ MODULE PxProofs ------------------------------
(***************************************************************************)
(* Proofs about the Px library, its monitor apart (PxMonProofs): the       *)
(* handle table (PxHandles) and the transfers (PxTransfer), the mode of a  *)
(* module (PxMode), the bus controller while the board runs (PxRunning),   *)
(* its message blocks and frames while it is stopped (PxMessages) and the  *)
(* fields and times kept in registers (PxSettings).                        *)
(*                                                                         *)
(* That a handle stays usable needs a count: a device is closed, and its   *)
(* banks unmapped, by the one who takes its reference count to zero, so    *)
(* the count of each device has to be the number of its users (Counted),   *)
(* where a call of Init_Attach_Px counts from the step that opened the     *)
(* device to its end.  Every step of the table leaves all devices alone,   *)
(* or adds one user to one device, or takes one away, or loses one; the    *)
(* count and the refinement of DeviceUse are proved of these four kinds    *)
(* of step (Quiet, Taken, GivenUp, Lost).                                  *)
(***************************************************************************)
EXTENDS PxMode, PxRunning, PxMessages, PxSettings, PxHandles, PxTransfer,
        FiniteSetTheorems, WellFoundedInduction, TLAPS

(***************************************************************************)
(* The inductive invariant.                                                *)
(***************************************************************************)
Slots ==
    [allocated : BOOLEAN, card_addr : DeviceNums \cup {INVALID_DEV_PX}, module : Nat,
     orig : Nat, isUNet : BOOLEAN, isPCMCIA : BOOLEAN, isExCARD : BOOLEAN,
     moduleType : {"none", "other", "PX", "pcmcia"}, bank : {NoBank, Heap} \cup Nat]
DeviceEntries == [open : BOOLEAN, ref : Nat, mapped : SUBSET Nat]
CallSteps == {"idle", "info", "simulate", "unet", "unet_reset", "pci", "pcmcia_open",
              "pcie_open"} \cup Opened

HandleTypeOK ==
    /\ cardpx \in [Handles -> Slots]
    /\ g_handlepx \in Handles
    /\ DevInfo \in [Physical -> DeviceEntries]
    /\ call \in [pc : CallSteps, h : Handles, reset : BOOLEAN, tries : Nat]
    /\ lost \in SUBSET Physical

\* What the slot of the call in progress holds, by the step it has come to.
CallSound ==
    /\ call.pc # "idle" => ~cur.allocated
    /\ call.pc = "info" => /\ cur.card_addr \in DeviceNums /\ cur.module = cur.orig
                           /\ cur.module < NUMMODULES \/ cur.module \in {100, 101}
    /\ call.pc = "simulate" => cur.card_addr = SIMULATE
    /\ call.pc \in {"unet", "unet_reset"} => cur.card_addr \in UNets
    /\ call.pc = "pci" => /\ cur.card_addr \in Physical
                          /\ cur.module < 8 \/ cur.module \in {100, 101}
    /\ call.pc \in {"pcmcia_open", "pcmcia_map"} =>
          cur.card_addr \in Physical /\ ~cur.isUNet /\ cur.module \in {100, 101}
    /\ call.pc = "pcie_open" =>
          cur.card_addr \in Physical /\ ~cur.isUNet /\ cur.module < 8
    /\ call.pc = "pcie_map" =>
          cur.card_addr \in Physical /\ ~cur.isUNet /\ cur.module < MAX_MODULES
    /\ call.pc \in {"pcmcia_reset", "pcie_reset"} => cur.card_addr \in Physical

\* The handle's wait gets past the tests of its slot, and its bank is mapped.
Ready(h) ==
    Card(h).card_addr \in Physical =>
       /\ ~Card(h).isUNet
       /\ Card(h).module < MAX_MODULES \/ Card(h).module = SINGLE_MODULE_CARD
       /\ Card(h).card_addr \notin lost => Card(h).bank \in DevInfo[Card(h).card_addr].mapped
HandlesReady ==
    /\ \A h \in Handles : Card(h).allocated => Ready(h)
    /\ call.pc \in {"pcmcia_reset", "pcie_reset", "populate"} => Ready(call.h)

\* A device is counted once for each of its users and open while it has one.
Counted ==
    \A d \in Physical \ lost : /\ DevInfo[d].ref = Cardinality(UsersOf(d))
                               /\ DevInfo[d].open <=> UsersOf(d) # {}

HandlesInv == HandleTypeOK /\ CallSound /\ HandlesReady /\ Counted

(***************************************************************************)
(* The four kinds of step.                                                 *)
(***************************************************************************)
\* Every device but d, if any, keeps its users and its entry.
OthersSame(d) ==
    \A e \in Physical \ {d} : UsersOf(e)' = UsersOf(e) /\ DevInfo'[e] = DevInfo[e]
DevicesKept ==
    \A d \in Physical : /\ DevInfo'[d].open = DevInfo[d].open
                        /\ DevInfo'[d].ref = DevInfo[d].ref
                        /\ DevInfo[d].mapped \subseteq DevInfo'[d].mapped
Quiet ==
    /\ lost' = lost /\ DevicesKept
    /\ \A d \in Physical : UsersOf(d)' = UsersOf(d)
Taken(d, u) ==
    /\ d \in Physical /\ u \in Handles /\ u \notin UsersOf(d)
    /\ lost' = lost /\ OthersSame(d)
    /\ UsersOf(d)' = UsersOf(d) \cup {u}
    /\ DevInfo'[d] = OpenKernelDevice(d, DevInfo[d])
GivenUp(d, u) ==
    /\ d \in Physical /\ u \in UsersOf(d)
    /\ lost' = lost /\ OthersSame(d)
    /\ UsersOf(d)' = UsersOf(d) \ {u}
    /\ DevInfo'[d].open = CloseKernelDevice(DevInfo[d]).open
    /\ DevInfo'[d].ref = CloseKernelDevice(DevInfo[d]).ref
    /\ DevInfo[d].ref > 1 => DevInfo[d].mapped \subseteq DevInfo'[d].mapped
Lost(d) ==
    /\ d \in Physical /\ lost' = lost \cup {d}
    /\ OthersSame(d) /\ UsersOf(d)' = UsersOf(d)
StepKind ==
    \/ Quiet
    \/ \E d \in Physical : Lost(d) \/ \E u \in Handles : Taken(d, u) \/ GivenUp(d, u)

\* The users of a device are handles, finitely many.
LEMMA UsersFinite ==
    ASSUME NEW d
    PROVE  UsersOf(d) \in SUBSET Handles /\ IsFiniteSet(UsersOf(d))
<1>1. IsFiniteSet(Handles)
  BY FS_Interval, HandlesAssumption DEF Handles
<1>2. QED
  BY <1>1, FS_Subset DEF UsersOf

LEMMA UsersFiniteNext ==
    ASSUME NEW d
    PROVE  UsersOf(d)' \in SUBSET Handles
  BY DEF UsersOf

\* OpenKernelDevice and CloseKernelDevice, field by field.
LEMMA OpenFacts ==
    ASSUME NEW dv, NEW d \in DeviceEntries
    PROVE  /\ OpenKernelDevice(dv, d) \in DeviceEntries
           /\ OpenKernelDevice(dv, d).open
           /\ OpenKernelDevice(dv, d).ref = d.ref + 1
           /\ d.open => OpenKernelDevice(dv, d).mapped = d.mapped
  BY DEF OpenKernelDevice, DeviceEntries, GLOBALREG_BANK

LEMMA CloseFacts ==
    ASSUME NEW d \in DeviceEntries
    PROVE  /\ CloseKernelDevice(d) \in DeviceEntries
           /\ CloseKernelDevice(d).open <=> d.open /\ d.ref > 1
           /\ d.open => CloseKernelDevice(d).ref = IF d.ref > 1 THEN d.ref - 1 ELSE 0
           /\ d.ref > 1 => CloseKernelDevice(d).mapped = d.mapped
<1>1. /\ d.ref \in Nat /\ d.open \in BOOLEAN /\ d.mapped \in SUBSET Nat
      /\ d = [open |-> d.open, ref |-> d.ref, mapped |-> d.mapped]
  BY DEF DeviceEntries
<1>2. CASE ~d.open
  BY <1>1, <1>2 DEF CloseKernelDevice
<1>3. CASE d.open /\ d.ref > 1
  <2>1. CloseKernelDevice(d) = [d EXCEPT !.ref = @ - 1]
    BY <1>3 DEF CloseKernelDevice
  <2>2. CloseKernelDevice(d) = [open |-> d.open, ref |-> d.ref - 1, mapped |-> d.mapped]
    BY <1>1, <2>1
  <2>3. QED
    BY <1>1, <1>3, <2>2 DEF DeviceEntries
<1>4. CASE d.open /\ ~(d.ref > 1)
  <2>1. CloseKernelDevice(d) = [open |-> FALSE, ref |-> 0, mapped |-> {}]
    BY <1>1, <1>4 DEF CloseKernelDevice, UnMapMemory
  <2>2. QED
    BY <1>1, <1>4, <2>1 DEF DeviceEntries
<1>5. QED
  BY <1>1, <1>2, <1>3, <1>4

LEMMA MapFacts ==
    ASSUME NEW d \in DeviceEntries, NEW b \in Nat
    PROVE  /\ MapMemory(d, b) \in DeviceEntries
           /\ MapMemory(d, b).open = d.open /\ MapMemory(d, b).ref = d.ref
           /\ MapMemory(d, b).mapped = d.mapped \cup {b}
  BY DEF MapMemory, DeviceEntries

\* A step of any kind keeps the count.
LEMMA KindKeepsCount ==
    ASSUME HandleTypeOK, HandleTypeOK', Counted, StepKind
    PROVE  Counted'
<1> SUFFICES ASSUME NEW e \in Physical, e \notin lost'
             PROVE  /\ DevInfo'[e].ref = Cardinality(UsersOf(e)')
                    /\ DevInfo'[e].open <=> UsersOf(e)' # {}
  BY DEF Counted
<1>0. /\ DevInfo[e] \in DeviceEntries /\ DevInfo'[e] \in DeviceEntries
      /\ IsFiniteSet(UsersOf(e))
      /\ DevInfo[e].ref \in Nat
  BY UsersFinite DEF HandleTypeOK, DeviceEntries
<1>1. CASE Quiet
  BY <1>1 DEF Quiet, DevicesKept, Counted
<1>2. ASSUME NEW d \in Physical, Lost(d) PROVE DevInfo'[e].ref = Cardinality(UsersOf(e)')
                    /\ (DevInfo'[e].open <=> UsersOf(e)' # {})
  BY <1>2 DEF Lost, OthersSame, Counted
<1>3. ASSUME NEW d \in Physical, NEW u \in Handles, Taken(d, u)
      PROVE  DevInfo'[e].ref = Cardinality(UsersOf(e)')
             /\ (DevInfo'[e].open <=> UsersOf(e)' # {})
  <2>1. CASE e # d
    BY <1>3, <2>1 DEF Taken, OthersSame, Counted
  <2>2. CASE e = d
    <3>1. Cardinality(UsersOf(d) \cup {u}) = Cardinality(UsersOf(d)) + 1
      BY <1>0, <1>3, <2>2, FS_AddElement DEF Taken
    <3>2. /\ DevInfo[d].ref = Cardinality(UsersOf(d))
          /\ DevInfo'[d].ref = DevInfo[d].ref + 1 /\ DevInfo'[d].open
      <4>1. d \in Physical \ lost /\ DevInfo[d] \in DeviceEntries
            /\ DevInfo'[d] = OpenKernelDevice(d, DevInfo[d])
        BY <1>0, <1>3, <2>2 DEF Taken
      <4>2. DevInfo[d].ref = Cardinality(UsersOf(d))
        BY <4>1 DEF Counted
      <4>3. DevInfo'[d].ref = DevInfo[d].ref + 1 /\ DevInfo'[d].open
        <5>1. /\ OpenKernelDevice(d, DevInfo[d]).ref = DevInfo[d].ref + 1
              /\ OpenKernelDevice(d, DevInfo[d]).open
          BY <4>1, OpenFacts
        <5>2. QED
          BY <4>1, <5>1
      <4>4. QED
        BY <4>2, <4>3
    <3>3. QED
      BY <1>3, <2>2, <3>1, <3>2 DEF Taken
  <2>3. QED
    BY <2>1, <2>2
<1>4. ASSUME NEW d \in Physical, NEW u \in Handles, GivenUp(d, u)
      PROVE  DevInfo'[e].ref = Cardinality(UsersOf(e)')
             /\ (DevInfo'[e].open <=> UsersOf(e)' # {})
  <2>1. CASE e # d
    BY <1>4, <2>1 DEF GivenUp, OthersSame, Counted
  <2>2. CASE e = d
    <3>1. Cardinality(UsersOf(d) \ {u}) = Cardinality(UsersOf(d)) - 1
      BY <1>0, <1>4, <2>2, FS_RemoveElement DEF GivenUp
    <3>2. /\ DevInfo[d].ref = Cardinality(UsersOf(d))
          /\ DevInfo[d].open
      BY <1>0, <1>4, <2>2 DEF GivenUp, Counted
    <3>3. IsFiniteSet(UsersOf(d) \ {u})
      BY <1>0, <2>2, FS_RemoveElement
    <3>4. Cardinality(UsersOf(d) \ {u}) \in Nat
          /\ (Cardinality(UsersOf(d) \ {u}) = 0 <=> UsersOf(d) \ {u} = {})
      BY <3>3, FS_CardinalityType, FS_EmptySet
    <3>5. /\ DevInfo'[d].ref = IF DevInfo[d].ref > 1 THEN DevInfo[d].ref - 1 ELSE 0
          /\ DevInfo'[d].open <=> DevInfo[d].ref > 1
      <4>1. /\ DevInfo'[d].open = CloseKernelDevice(DevInfo[d]).open
            /\ DevInfo'[d].ref = CloseKernelDevice(DevInfo[d]).ref
            /\ DevInfo[d] \in DeviceEntries
        BY <1>0, <1>4, <2>2 DEF GivenUp
      <4>2. QED
        BY <3>2, <4>1, CloseFacts
    <3>6. DevInfo'[d].ref = Cardinality(UsersOf(d) \ {u})
      BY <1>0, <2>2, <3>1, <3>2, <3>4, <3>5
    <3>7. DevInfo[d].ref > 1 <=> Cardinality(UsersOf(d) \ {u}) # 0
      BY <1>0, <2>2, <3>1, <3>2, <3>4
    <3>8. UsersOf(e)' = UsersOf(d) \ {u}
      BY <1>4, <2>2 DEF GivenUp
    <3>9. QED
      BY <2>2, <3>4, <3>5, <3>6, <3>7, <3>8
  <2>3. QED
    BY <2>1, <2>2
<1>5. QED
  BY <1>1, <1>2, <1>3, <1>4 DEF StepKind

\* Whoever uses a device before and after a step finds its banks mapped as
\* before: they are unmapped for the last user only, and mapped anew for a first.
LEMMA KindKeepsBanks ==
    ASSUME HandleTypeOK, Counted, StepKind,
           NEW e \in Physical, e \notin lost', NEW h \in UsersOf(e), h \in UsersOf(e)'
    PROVE  e \notin lost /\ DevInfo[e].mapped \subseteq DevInfo'[e].mapped
<1>0. DevInfo[e] \in DeviceEntries /\ IsFiniteSet(UsersOf(e)) /\ DevInfo[e].ref \in Nat
  BY UsersFinite DEF HandleTypeOK, DeviceEntries
<1>1. CASE Quiet
  BY <1>1 DEF Quiet, DevicesKept
<1>2. ASSUME NEW d \in Physical, Lost(d)
      PROVE  e \notin lost /\ DevInfo[e].mapped \subseteq DevInfo'[e].mapped
  BY <1>2 DEF Lost, OthersSame
<1>3. ASSUME NEW d \in Physical, NEW u \in Handles, Taken(d, u)
      PROVE  e \notin lost /\ DevInfo[e].mapped \subseteq DevInfo'[e].mapped
  <2>1. e \notin lost /\ DevInfo[e].open
    BY <1>3 DEF Taken, Counted
  <2>2. DevInfo'[e] = DevInfo[e] \/ DevInfo'[e] = OpenKernelDevice(e, DevInfo[e])
    BY <1>3 DEF Taken, OthersSame
  <2>3. QED
    BY <1>0, <2>1, <2>2, OpenFacts
<1>4. ASSUME NEW d \in Physical, NEW u \in Handles, GivenUp(d, u)
      PROVE  e \notin lost /\ DevInfo[e].mapped \subseteq DevInfo'[e].mapped
  <2>1. CASE e # d
    BY <1>4, <2>1 DEF GivenUp, OthersSame
  <2>2. CASE e = d
    <3>1. h # u /\ u \in UsersOf(d)
      BY <1>4, <2>2 DEF GivenUp
    <3>2. Cardinality(UsersOf(d) \ {u}) = Cardinality(UsersOf(d)) - 1
          /\ IsFiniteSet(UsersOf(d) \ {u})
      BY <1>0, <2>2, <3>1, FS_RemoveElement
    <3>3. Cardinality(UsersOf(d) \ {u}) \in Nat /\ Cardinality(UsersOf(d) \ {u}) # 0
      <4>1. UsersOf(d) \ {u} # {}
        BY <2>2, <3>1
      <4>2. QED
        BY <3>2, <4>1, FS_CardinalityType, FS_EmptySet
    <3>4. e \notin lost /\ DevInfo[d].ref = Cardinality(UsersOf(d))
      BY <1>4, <2>2 DEF GivenUp, Counted
    <3>5. DevInfo[d].ref > 1
      BY <1>0, <2>2, <3>2, <3>3, <3>4
    <3>6. QED
      BY <1>4, <2>2, <3>4, <3>5 DEF GivenUp
  <2>3. QED
    BY <2>1, <2>2
<1>5. QED
  BY <1>1, <1>2, <1>3, <1>4 DEF StepKind

\* A step of any kind is a step of DeviceUse or none.
LEMMA KindUses ==
    ASSUME HandleTypeOK, HandleTypeOK', Counted, Counted', StepKind
    PROVE  [Use!UseNext]_(Use!UseVars)
<1> DEFINE U == [d \in Physical |-> UsersOf(d)]
           O == [d \in Physical |-> DevInfo[d].open]
<1>1. ASSUME Quiet PROVE UNCHANGED Use!UseVars
  <2>1. U' = U /\ O' = O
    BY <1>1 DEF Quiet, DevicesKept
  <2>2. QED
    BY <1>1, <2>1 DEF Quiet, Use!UseVars
<1>2. ASSUME NEW d \in Physical, OthersSame(d), lost' = lost \cup {d}
      PROVE  Use!Lose(d)
  <2>1. UsersOf(d)' \in SUBSET Handles /\ DevInfo'[d].open \in BOOLEAN
    BY UsersFiniteNext DEF HandleTypeOK, DeviceEntries
  <2>2. U' = [U EXCEPT ![d] = UsersOf(d)'] /\ O' = [O EXCEPT ![d] = DevInfo'[d].open]
    BY <1>2 DEF OthersSame
  <2>3. QED
    BY <1>2, <2>1, <2>2 DEF Use!Lose
<1>3. ASSUME NEW d \in Physical, NEW u \in Handles, Taken(d, u)
      PROVE  Use!UseNext
  <2>1. CASE d \in lost
    BY <1>2, <1>3, <2>1 DEF Taken, Use!UseNext
  <2>2. CASE d \notin lost
    <3>1. lost' = lost /\ u \notin U[d]
      BY <1>3 DEF Taken
    <3>2. U' = [U EXCEPT ![d] = @ \cup {u}]
      BY <1>3 DEF Taken, OthersSame
    <3>3. DevInfo'[d].open = TRUE
      <4>1. DevInfo'[d].open \in BOOLEAN
        BY DEF HandleTypeOK, DeviceEntries
      <4>2. DevInfo'[d].open
        BY <1>3, <2>2 DEF Taken, Counted
      <4>3. QED
        BY <4>1, <4>2
    <3>4. O' = [O EXCEPT ![d] = TRUE]
      BY <1>3, <3>3 DEF Taken, OthersSame
    <3>5. Use!Take(d, u)
      BY <3>1, <3>2, <3>4 DEF Use!Take
    <3>6. QED
      BY <3>5 DEF Use!UseNext
  <2>3. QED
    BY <2>1, <2>2
<1>4. ASSUME NEW d \in Physical, NEW u \in Handles, GivenUp(d, u)
      PROVE  Use!UseNext
  <2>1. CASE d \in lost
    BY <1>2, <1>4, <2>1 DEF GivenUp, Use!UseNext
  <2>2. CASE d \notin lost
    <3>1. lost' = lost /\ u \in U[d]
      BY <1>4 DEF GivenUp
    <3>2. U' = [U EXCEPT ![d] = @ \ {u}]
      BY <1>4 DEF GivenUp, OthersSame
    <3>3. DevInfo'[d].open = (U[d] # {u})
      <4>1. DevInfo'[d].open \in BOOLEAN
        BY DEF HandleTypeOK, DeviceEntries
      <4>2. DevInfo'[d].open <=> U[d] # {u}
        BY <1>4, <2>2 DEF GivenUp, Counted
      <4>3. QED
        BY <4>1, <4>2
    <3>4. O' = [O EXCEPT ![d] = (U[d] # {u})]
      BY <1>4, <3>3 DEF GivenUp, OthersSame
    <3>5. Use!Give(d, u)
      BY <3>1, <3>2, <3>4 DEF Use!Give
    <3>6. QED
      BY <3>5 DEF Use!UseNext
  <2>3. QED
    BY <2>1, <2>2
<1>5. ASSUME NEW d \in Physical, Lost(d) PROVE Use!UseNext
  BY <1>2, <1>5 DEF Lost, Use!UseNext
<1>6. QED
  BY <1>1, <1>3, <1>4, <1>5 DEF StepKind

(***************************************************************************)
(* The steps of a call of Init_Attach_Px, by what they do to the devices.  *)
(* In all of them the slot of the call becomes r, still not allocated.     *)
(***************************************************************************)
\* A handle allocated before and after a step that changes slot c only, and
\* leaves that one not allocated, stays ready.
LEMMA OthersReady ==
    ASSUME HandlesInv, StepKind, NEW c \in Handles, NEW r \in Slots, ~r.allocated,
           cardpx' = [cardpx EXCEPT ![c] = r]
    PROVE  \A h \in Handles : Card(h)'.allocated => Ready(h)'
<1> SUFFICES ASSUME NEW h \in Handles, Card(h)'.allocated, Card(h)'.card_addr \in Physical
             PROVE  /\ ~Card(h)'.isUNet
                    /\ Card(h)'.module < MAX_MODULES \/ Card(h)'.module = SINGLE_MODULE_CARD
                    /\ Card(h)'.card_addr \notin lost'
                       => Card(h)'.bank \in DevInfo'[Card(h)'.card_addr].mapped
  BY DEF Ready
<1>1. cardpx'[h] = cardpx[h]
  BY DEF HandlesInv, HandleTypeOK, Card
<1>2. PICK d \in Physical : d = cardpx[h].card_addr
  BY <1>1 DEF Card
<1>3. Ready(h) /\ Card(h).allocated /\ Card(h)' = Card(h)
  BY <1>1 DEF HandlesInv, HandlesReady, Card
<1>4. ASSUME d \notin lost'
      PROVE  Card(h).bank \in DevInfo'[d].mapped
  <2>1. h \in UsersOf(d) /\ h \in UsersOf(d)'
    BY <1>1, <1>2, <1>3 DEF UsersOf, Card
  <2>2. HandleTypeOK /\ Counted
    BY DEF HandlesInv
  <2>3. d \notin lost /\ DevInfo[d].mapped \subseteq DevInfo'[d].mapped
    BY <1>4, <2>1, <2>2, KindKeepsBanks
  <2>4. QED
    BY <1>2, <1>3, <2>3 DEF Ready, Card
<1>5. QED
  BY <1>2, <1>3, <1>4 DEF Ready, Card

LEMMA CallQuiet ==
    ASSUME HandlesInv, call.pc # "idle", NEW r \in Slots, ~r.allocated,
           cardpx' = [cardpx EXCEPT ![call.h] = r], lost' = lost, DevicesKept,
           call'.pc \in Opened => call'.h = call.h,
           \A d \in Physical : r.card_addr = d /\ call'.pc \in Opened
                               <=> cur.card_addr = d /\ call.pc \in Opened
    PROVE  Quiet
<1> SUFFICES ASSUME NEW d \in Physical PROVE UsersOf(d)' = UsersOf(d)
  BY DEF Quiet
<1>1. call.h \in Handles /\ ~cur.allocated
  BY DEF HandlesInv, HandleTypeOK, CallSound
<1>2. /\ cardpx'[call.h] = r
      /\ \A h \in Handles : h # call.h => cardpx'[h] = cardpx[h]
  BY <1>1 DEF HandlesInv, HandleTypeOK
<1>3. ASSUME NEW h \in Handles PROVE h \in UsersOf(d)' <=> h \in UsersOf(d)
  <2>1. CASE h = call.h
    BY <1>1, <1>2, <2>1 DEF UsersOf, Card, cur
  <2>2. CASE h # call.h
    BY <1>1, <1>2, <2>2 DEF UsersOf, Card, cur
  <2>3. QED
    BY <2>1, <2>2
<1>4. QED
  BY <1>3, UsersFinite, UsersFiniteNext

LEMMA CallTakes ==
    ASSUME HandlesInv, call.pc # "idle", NEW r \in Slots, ~r.allocated,
           cardpx' = [cardpx EXCEPT ![call.h] = r], lost' = lost,
           NEW d \in Physical, cur.card_addr = d, r.card_addr = d,
           DevInfo' = [DevInfo EXCEPT ![d] = OpenKernelDevice(d, DevInfo[d])],
           call.pc \notin Opened, call'.pc \in Opened, call'.h = call.h
    PROVE  Taken(d, call.h)
<1>1. call.h \in Handles /\ ~cur.allocated
  BY DEF HandlesInv, HandleTypeOK, CallSound
<1>2. /\ cardpx'[call.h] = r
      /\ \A h \in Handles : h # call.h => cardpx'[h] = cardpx[h]
  BY <1>1 DEF HandlesInv, HandleTypeOK
<1>3. ASSUME NEW h \in Handles, NEW e \in Physical
      PROVE  h \in UsersOf(e)' <=> h \in UsersOf(e) \/ (e = d /\ h = call.h)
  <2>1. CASE h = call.h
    BY <1>1, <1>2, <2>1 DEF UsersOf, Card, cur
  <2>2. CASE h # call.h
    BY <1>1, <1>2, <2>2 DEF UsersOf, Card, cur
  <2>3. QED
    BY <2>1, <2>2
<1>4. call.h \notin UsersOf(d)
  BY <1>1 DEF UsersOf, Card, cur
<1>5. ASSUME NEW e \in Physical \ {d} PROVE UsersOf(e)' = UsersOf(e)
  <2>1. \A h \in Handles : h \in UsersOf(e)' <=> h \in UsersOf(e)
    BY <1>3
  <2>2. QED
    BY <2>1, UsersFinite, UsersFiniteNext
<1>6. UsersOf(d)' = UsersOf(d) \cup {call.h}
  BY <1>1, <1>3, UsersFinite, UsersFiniteNext
<1>7. /\ DevInfo'[d] = OpenKernelDevice(d, DevInfo[d])
      /\ \A e \in Physical \ {d} : DevInfo'[e] = DevInfo[e]
  BY DEF HandlesInv, HandleTypeOK
<1>8. QED
  BY <1>1, <1>4, <1>5, <1>6, <1>7 DEF Taken, OthersSame

LEMMA CallGives ==
    ASSUME HandlesInv, call.pc # "idle", NEW r \in Slots, ~r.allocated,
           cardpx' = [cardpx EXCEPT ![call.h] = r], lost' = lost,
           NEW d \in Physical, cur.card_addr = d, NEW e \in DeviceEntries,
           DevInfo' = [DevInfo EXCEPT ![d] = e],
           e.open = CloseKernelDevice(DevInfo[d]).open,
           e.ref = CloseKernelDevice(DevInfo[d]).ref,
           DevInfo[d].ref > 1 => DevInfo[d].mapped \subseteq e.mapped,
           call.pc \in Opened, call' = NoCall
    PROVE  GivenUp(d, call.h)
<1>1. call.h \in Handles /\ ~cur.allocated /\ call'.pc \notin Opened
  BY DEF HandlesInv, HandleTypeOK, CallSound, NoCall, Opened
<1>2. /\ cardpx'[call.h] = r
      /\ \A h \in Handles : h # call.h => cardpx'[h] = cardpx[h]
  BY <1>1 DEF HandlesInv, HandleTypeOK
<1>3. ASSUME NEW h \in Handles, NEW x \in Physical
      PROVE  h \in UsersOf(x)' <=> h \in UsersOf(x) /\ ~(x = d /\ h = call.h)
  <2>1. CASE h = call.h
    BY <1>1, <1>2, <2>1 DEF UsersOf, Card, cur
  <2>2. CASE h # call.h
    BY <1>1, <1>2, <2>2 DEF UsersOf, Card, cur
  <2>3. QED
    BY <2>1, <2>2
<1>4. call.h \in UsersOf(d)
  BY <1>1 DEF UsersOf, Card, cur
<1>5. ASSUME NEW x \in Physical \ {d} PROVE UsersOf(x)' = UsersOf(x)
  <2>1. \A h \in Handles : h \in UsersOf(x)' <=> h \in UsersOf(x)
    BY <1>3
  <2>2. QED
    BY <2>1, UsersFinite, UsersFiniteNext
<1>6. UsersOf(d)' = UsersOf(d) \ {call.h}
  BY <1>1, <1>3, UsersFinite, UsersFiniteNext
<1>7. /\ DevInfo'[d] = e
      /\ \A x \in Physical \ {d} : DevInfo'[x] = DevInfo[x]
  BY DEF HandlesInv, HandleTypeOK
<1>8. QED
  BY <1>4, <1>5, <1>6, <1>7 DEF GivenUp, OthersSame

\* What a call's step has to give, when it ends the call and when it goes on.
StepGood == HandleTypeOK' /\ StepKind /\ CallSound' /\ HandlesReady'

LEMMA CallEnded ==
    ASSUME HandlesInv, call.pc # "idle", NEW r \in Slots, ~r.allocated,
           cardpx' = [cardpx EXCEPT ![call.h] = r], lost' = lost,
           g_handlepx' = g_handlepx, DevInfo' \in [Physical -> DeviceEntries],
           StepKind, call' = NoCall
    PROVE  StepGood
<1>1. call.h \in Handles /\ 0 \in Handles
  BY HandlesAssumption DEF HandlesInv, HandleTypeOK, Handles
<1>2. HandleTypeOK'
  <2>1. cardpx' \in [Handles -> Slots]
    BY <1>1 DEF HandlesInv, HandleTypeOK
  <2>2. call' \in [pc : CallSteps, h : Handles, reset : BOOLEAN, tries : Nat]
    BY <1>1 DEF NoCall, CallSteps
  <2>3. QED
    BY <2>1, <2>2 DEF HandlesInv, HandleTypeOK
<1>3. CallSound'
  BY DEF CallSound, NoCall
<1>4. HandlesReady'
  <2>1. \A h \in Handles : Card(h)'.allocated => Ready(h)'
    BY <1>1, OthersReady
  <2>2. QED
    BY <2>1 DEF HandlesReady, NoCall
<1>5. QED
  BY <1>2, <1>3, <1>4 DEF StepGood

LEMMA CallGoesOn ==
    ASSUME HandlesInv, call.pc # "idle", NEW r \in Slots, ~r.allocated,
           cardpx' = [cardpx EXCEPT ![call.h] = r], lost' = lost,
           g_handlepx' = g_handlepx, DevInfo' \in [Physical -> DeviceEntries],
           StepKind, call' \in [pc : CallSteps, h : Handles, reset : BOOLEAN, tries : Nat],
           call'.h = call.h
    PROVE  /\ HandleTypeOK'
           /\ cur' = r /\ Card(call.h)' = r
           /\ \A h \in Handles : Card(h)'.allocated => Ready(h)'
<1>1. call.h \in Handles
  BY DEF HandlesInv, HandleTypeOK
<1>2. cardpx' \in [Handles -> Slots] /\ cardpx'[call.h] = r
  BY <1>1 DEF HandlesInv, HandleTypeOK
<1>3. HandleTypeOK'
  BY <1>2 DEF HandlesInv, HandleTypeOK
<1>4. cur' = r /\ Card(call.h)' = r
  BY <1>2 DEF cur, Card
<1>5. \A h \in Handles : Card(h)'.allocated => Ready(h)'
  BY <1>1, OthersReady
<1>6. QED
  BY <1>3, <1>4, <1>5

LEMMA QuietEnds ==
    ASSUME HandlesInv, call.pc # "idle", NEW r \in Slots, ~r.allocated,
           cardpx' = [cardpx EXCEPT ![call.h] = r],
           UNCHANGED <<g_handlepx, lost, DevInfo>>, call' = NoCall,
           cur.card_addr \notin Physical \/ call.pc \notin Opened
    PROVE  StepGood
<1>1. DevicesKept /\ DevInfo' \in [Physical -> DeviceEntries]
  BY DEF DevicesKept, HandlesInv, HandleTypeOK
<1>2. call'.pc \notin Opened
  BY DEF NoCall, Opened
<1>3. Quiet
  BY <1>1, <1>2, CallQuiet
<1>4. StepKind
  BY <1>3 DEF StepKind
<1>5. QED
  BY <1>1, <1>4, CallEnded

LEMMA QuietGoes ==
    ASSUME HandlesInv, call.pc # "idle", NEW r \in Slots, ~r.allocated,
           cardpx' = [cardpx EXCEPT ![call.h] = r],
           UNCHANGED <<g_handlepx, lost>>, DevicesKept,
           DevInfo' \in [Physical -> DeviceEntries],
           NEW p \in CallSteps, call' = [call EXCEPT !.pc = p],
           \A d \in Physical : r.card_addr = d /\ p \in Opened
                               <=> cur.card_addr = d /\ call.pc \in Opened
    PROVE  /\ HandleTypeOK' /\ StepKind
           /\ cur' = r /\ Card(call.h)' = r /\ call'.pc = p /\ call'.h = call.h
           /\ \A h \in Handles : Card(h)'.allocated => Ready(h)'
<1>1. /\ call' \in [pc : CallSteps, h : Handles, reset : BOOLEAN, tries : Nat]
      /\ call'.h = call.h /\ call'.pc = p
  BY DEF HandlesInv, HandleTypeOK
<1>2. Quiet
  BY <1>1, CallQuiet
<1>3. StepKind
  BY <1>2 DEF StepKind
<1>4. QED
  BY <1>1, <1>3, CallGoesOn

LEMMA GivesEnds ==
    ASSUME HandlesInv, call.pc \in Opened, NEW r \in Slots, ~r.allocated,
           cardpx' = [cardpx EXCEPT ![call.h] = r], UNCHANGED <<g_handlepx, lost>>,
           cur.card_addr \in Physical, NEW e \in DeviceEntries,
           e.open = DevInfo[cur.card_addr].open, e.ref = DevInfo[cur.card_addr].ref,
           DevInfo[cur.card_addr].mapped \subseteq e.mapped,
           DevInfo' = [DevInfo EXCEPT ![cur.card_addr] = CloseKernelDevice(e)],
           call' = NoCall
    PROVE  StepGood
<1>1. PICK d \in Physical : d = cur.card_addr
  OBVIOUS
<1>2. DevInfo[d] \in DeviceEntries /\ CloseKernelDevice(e) \in DeviceEntries
  BY CloseFacts DEF HandlesInv, HandleTypeOK
<1>3. /\ CloseKernelDevice(e).open = CloseKernelDevice(DevInfo[d]).open
      /\ CloseKernelDevice(e).ref = CloseKernelDevice(DevInfo[d]).ref
  <2>1. e.open = DevInfo[d].open /\ e.ref = DevInfo[d].ref
    BY <1>1
  <2>2. CASE ~e.open
    BY <2>1, <2>2 DEF CloseKernelDevice
  <2>3. CASE e.open /\ e.ref > 1
    BY <1>2, <2>1, <2>3 DEF CloseKernelDevice, DeviceEntries
  <2>4. CASE e.open /\ ~(e.ref > 1)
    BY <1>2, <2>1, <2>4 DEF CloseKernelDevice, UnMapMemory, DeviceEntries
  <2>5. QED
    BY <2>2, <2>3, <2>4
<1>4. DevInfo[d].ref > 1 => DevInfo[d].mapped \subseteq CloseKernelDevice(e).mapped
  BY <1>1, CloseFacts
<1>5. call.pc # "idle" /\ DevInfo' = [DevInfo EXCEPT ![d] = CloseKernelDevice(e)]
  BY <1>1 DEF Opened
<1>6. GivenUp(d, call.h)
  BY <1>1, <1>2, <1>3, <1>4, <1>5, CallGives
<1>7. StepKind /\ DevInfo' \in [Physical -> DeviceEntries]
  BY <1>2, <1>5, <1>6 DEF StepKind, HandlesInv, HandleTypeOK
<1>8. QED
  BY <1>5, <1>7, CallEnded

LEMMA TakesGoes ==
    ASSUME HandlesInv, call.pc # "idle", call.pc \notin Opened, NEW r \in Slots, ~r.allocated,
           cardpx' = [cardpx EXCEPT ![call.h] = r], UNCHANGED <<g_handlepx, lost>>,
           cur.card_addr \in Physical, r.card_addr = cur.card_addr,
           DevInfo' = [DevInfo EXCEPT ![cur.card_addr] =
                          OpenKernelDevice(cur.card_addr, DevInfo[cur.card_addr])],
           NEW p \in Opened, call' = [call EXCEPT !.pc = p]
    PROVE  /\ HandleTypeOK' /\ StepKind
           /\ cur' = r /\ call'.pc = p
           /\ \A h \in Handles : Card(h)'.allocated => Ready(h)'
<1>1. /\ call' \in [pc : CallSteps, h : Handles, reset : BOOLEAN, tries : Nat]
      /\ call'.h = call.h /\ call'.pc = p
  BY DEF HandlesInv, HandleTypeOK, CallSteps
<1>2. PICK d \in Physical : d = cur.card_addr
  OBVIOUS
<1>3. DevInfo' = [DevInfo EXCEPT ![d] = OpenKernelDevice(d, DevInfo[d])]
  BY <1>2
<1>4. DevInfo[d] \in DeviceEntries /\ OpenKernelDevice(d, DevInfo[d]) \in DeviceEntries
  <2>1. DevInfo[d] \in DeviceEntries
    BY DEF HandlesInv, HandleTypeOK
  <2>2. QED
    BY <2>1, OpenFacts
<1>5. Taken(d, call.h)
  BY <1>1, <1>2, <1>3, CallTakes
<1>6. StepKind /\ DevInfo' \in [Physical -> DeviceEntries]
  BY <1>3, <1>4, <1>5 DEF StepKind, HandlesInv, HandleTypeOK, Taken
<1>7. QED
  BY <1>1, <1>6, CallGoesOn

LEMMA SlotKept ==
    ASSUME HandlesInv
    PROVE  cur \in Slots /\ call.h \in Handles /\ cardpx = [cardpx EXCEPT ![call.h] = cur]
  BY DEF HandlesInv, HandleTypeOK, cur

(***************************************************************************)
(* The actions.                                                            *)
(***************************************************************************)
LEMMA BoardInfoGood == ASSUME HandlesInv, BoardInfo PROVE StepGood
<1>1. /\ call.pc = "info" /\ ~cur.allocated /\ cur.card_addr \in DeviceNums
      /\ cur.module = cur.orig /\ (cur.module < NUMMODULES \/ cur.module \in {100, 101})
      /\ UNCHANGED <<g_handlepx, DevInfo, lost>>
      /\ call.pc \notin Opened
  BY DEF BoardInfo, HandlesInv, CallSound, Opened
<1>2. cur \in Slots /\ cur.module \in Nat
  BY SlotKept DEF Slots
<1>3. DevicesKept /\ DevInfo' \in [Physical -> DeviceEntries]
  BY <1>1 DEF DevicesKept, HandlesInv, HandleTypeOK
<1>4. CASE cur.card_addr = SIMULATE /\ CallGoes("simulate") /\ UNCHANGED cardpx
  <2>1. "simulate" \in CallSteps /\ "simulate" \notin Opened
    BY DEF CallSteps, Opened
  <2>2. /\ HandleTypeOK' /\ StepKind /\ cur' = cur /\ call'.pc = "simulate"
        /\ \A h \in Handles : Card(h)'.allocated => Ready(h)'
    BY <1>1, <1>2, <1>3, <1>4, <2>1, SlotKept, QuietGoes DEF CallGoes
  <2>3. QED
    BY <1>1, <1>4, <2>2 DEF StepGood, CallSound, HandlesReady
<1>5. CASE Ends /\ UNCHANGED cardpx
  BY <1>1, <1>2, <1>5, SlotKept, QuietEnds DEF Ends
<1>6. ASSUME cur.card_addr # SIMULATE,
             NEW r \in Slots, cardpx' = [cardpx EXCEPT ![call.h] = r],
             ~r.allocated, r.card_addr = cur.card_addr, r.module = cur.module,
             cur.module < 8 \/ cur.module \in {100, 101},
             CallGoes(IF cur.card_addr \in UNets THEN "unet" ELSE "pci")
      PROVE  StepGood
  <2>1. PICK p \in {"unet", "pci"} : /\ call' = [call EXCEPT !.pc = p]
                                     /\ p = "unet" <=> cur.card_addr \in UNets
    BY <1>6 DEF CallGoes
  <2>2. p \in CallSteps /\ p \notin Opened
    BY DEF CallSteps, Opened
  <2>3. /\ HandleTypeOK' /\ StepKind /\ cur' = r /\ call'.pc = p
        /\ \A h \in Handles : Card(h)'.allocated => Ready(h)'
    BY <1>1, <1>2, <1>3, <1>6, <2>1, <2>2, QuietGoes
  <2>4. cur.card_addr \in UNets \/ cur.card_addr \in Physical
    BY <1>1, <1>6 DEF DeviceNums
  <2>5. QED
    BY <1>1, <1>6, <2>1, <2>3, <2>4 DEF StepGood, CallSound, HandlesReady
<1>7. CASE /\ cur.card_addr # SIMULATE
           /\ \/ /\ cur.orig < MAX_MODULES_ON_BOARD
                 /\ \E t \in {"PX", "none", "other"} : Slot(call.h, [cur EXCEPT !.moduleType = t])
              \/ cur.orig >= EXC_PCMCIA_MODULE /\ UNCHANGED cardpx
           /\ CallGoes(IF cur.card_addr \in UNets THEN "unet" ELSE "pci")
  <2>1. CASE /\ cur.orig < MAX_MODULES_ON_BOARD
             /\ \E t \in {"PX", "none", "other"} : Slot(call.h, [cur EXCEPT !.moduleType = t])
    <3>1. PICK t \in {"PX", "none", "other"} : Slot(call.h, [cur EXCEPT !.moduleType = t])
      BY <2>1
    <3>2. LET r == [cur EXCEPT !.moduleType = t]
          IN  r \in Slots /\ r.allocated = cur.allocated /\ r.card_addr = cur.card_addr
              /\ r.module = cur.module
      BY <1>2 DEF Slots
    <3>3. cur.module < 8
      BY <1>1, <2>1 DEF MAX_MODULES_ON_BOARD
    <3>4. QED
      BY <1>1, <1>6, <1>7, <3>1, <3>2, <3>3 DEF Slot
  <2>2. CASE cur.orig >= EXC_PCMCIA_MODULE /\ UNCHANGED cardpx
    <3>1. cur.module \in {100, 101}
      BY <1>1, <1>2, <2>2 DEF EXC_PCMCIA_MODULE, NUMMODULES
    <3>2. QED
      BY <1>1, <1>2, <1>6, <1>7, <2>2, <3>1, SlotKept
  <2>3. QED
    BY <1>7, <2>1, <2>2
<1>8. QED
  BY <1>4, <1>5, <1>7 DEF BoardInfo

LEMMA SimulateBankGood == ASSUME HandlesInv, SimulateBank PROVE StepGood
<1>1. /\ call.pc = "simulate" /\ ~cur.allocated /\ cur.card_addr = SIMULATE
      /\ UNCHANGED <<g_handlepx, DevInfo, lost>>
      /\ call.pc \notin Opened
  BY DEF SimulateBank, HandlesInv, CallSound, Opened
<1>2. cur \in Slots /\ SIMULATE \notin Physical
  BY SlotKept, HandlesAssumption
<1>3. DevicesKept /\ DevInfo' \in [Physical -> DeviceEntries]
  BY <1>1 DEF DevicesKept, HandlesInv, HandleTypeOK
<1>4. CASE Ends /\ UNCHANGED cardpx
  BY <1>1, <1>2, <1>4, SlotKept, QuietEnds DEF Ends
<1>5. CASE /\ Slot(call.h, [cur EXCEPT !.bank = Heap, !.isUNet = FALSE, !.moduleType = "PX"])
           /\ CallGoes("populate")
  <2>1. PICK r : r = [cur EXCEPT !.bank = Heap, !.isUNet = FALSE, !.moduleType = "PX"]
    OBVIOUS
  <2>2. r \in Slots /\ r.allocated = cur.allocated /\ r.card_addr = cur.card_addr
    BY <1>2, <2>1 DEF Slots
  <2>3. "populate" \in CallSteps
    BY DEF CallSteps, Opened
  <2>4. /\ HandleTypeOK' /\ StepKind /\ cur' = r /\ call'.pc = "populate" /\ call'.h = call.h
        /\ Card(call.h)' = r
        /\ \A h \in Handles : Card(h)'.allocated => Ready(h)'
    <3>1. cardpx' = [cardpx EXCEPT ![call.h] = r] /\ call' = [call EXCEPT !.pc = "populate"]
      BY <1>5, <2>1 DEF CallGoes, Slot
    <3>2. \A d \in Physical : r.card_addr # d /\ cur.card_addr # d
      BY <1>1, <1>2, <2>2
    <3>3. ~r.allocated /\ call.pc # "idle"
      BY <1>1, <2>2
    <3>4. QED
      BY <1>1, <1>3, <2>2, <2>3, <3>1, <3>2, <3>3, QuietGoes
  <2>5. Ready(call.h)'
    BY <1>1, <1>2, <2>2, <2>4 DEF Ready
  <2>6. QED
    BY <1>1, <2>2, <2>4, <2>5 DEF StepGood, CallSound, HandlesReady
<1>6. QED
  BY <1>4, <1>5 DEF SimulateBank

LEMMA ConnectUNetGood == ASSUME HandlesInv, ConnectUNet PROVE StepGood
<1>1. /\ call.pc = "unet" /\ ~cur.allocated /\ cur.card_addr \in UNets
      /\ UNCHANGED <<g_handlepx, DevInfo, lost>>
      /\ call.pc \notin Opened
  BY DEF ConnectUNet, HandlesInv, CallSound, Opened
<1>2. cur \in Slots /\ cur.card_addr \notin Physical
  BY <1>1, SlotKept, HandlesAssumption
<1>3. DevicesKept /\ DevInfo' \in [Physical -> DeviceEntries]
  BY <1>1 DEF DevicesKept, HandlesInv, HandleTypeOK
<1>4. CASE Slot(call.h, [cur EXCEPT !.isUNet = TRUE]) /\ Ends
  <2>1. LET r == [cur EXCEPT !.isUNet = TRUE]
        IN  r \in Slots /\ r.allocated = cur.allocated
    BY <1>2 DEF Slots
  <2>2. QED
    BY <1>1, <1>2, <1>4, <2>1, QuietEnds DEF Ends, Slot
<1>5. CASE /\ Slot(call.h, [cur EXCEPT !.isUNet = TRUE, !.bank = Heap, !.isExCARD = FALSE,
                                       !.isPCMCIA = FALSE])
           /\ CallGoes(IF call.reset THEN "unet_reset" ELSE "populate")
  <2>1. PICK r : r = [cur EXCEPT !.isUNet = TRUE, !.bank = Heap, !.isExCARD = FALSE,
                                 !.isPCMCIA = FALSE]
    OBVIOUS
  <2>2. r \in Slots /\ r.allocated = cur.allocated /\ r.card_addr = cur.card_addr
    BY <1>2, <2>1 DEF Slots
  <2>3. PICK p \in {"unet_reset", "populate"} : call' = [call EXCEPT !.pc = p]
    BY <1>5 DEF CallGoes
  <2>4. p \in CallSteps
    BY DEF CallSteps, Opened
  <2>5. /\ HandleTypeOK' /\ StepKind /\ cur' = r /\ call'.pc = p /\ call'.h = call.h
        /\ Card(call.h)' = r
        /\ \A h \in Handles : Card(h)'.allocated => Ready(h)'
    <3>1. cardpx' = [cardpx EXCEPT ![call.h] = r]
      BY <1>5, <2>1 DEF Slot
    <3>2. \A d \in Physical : r.card_addr # d /\ cur.card_addr # d
      BY <1>2, <2>2
    <3>3. ~r.allocated /\ call.pc # "idle"
      BY <1>1, <2>2
    <3>4. QED
      BY <1>1, <1>3, <2>2, <2>3, <2>4, <3>1, <3>2, <3>3, QuietGoes
  <2>6. Ready(call.h)'
    BY <1>2, <2>2, <2>5 DEF Ready
  <2>7. QED
    BY <1>1, <2>2, <2>5, <2>6 DEF StepGood, CallSound, HandlesReady
<1>6. QED
  BY <1>4, <1>5 DEF ConnectUNet

LEMMA ResetUNetGood == ASSUME HandlesInv, ResetUNet PROVE StepGood
<1>1. /\ call.pc = "unet_reset" /\ ~cur.allocated /\ cur.card_addr \in UNets
      /\ UNCHANGED <<cardpx, g_handlepx, DevInfo, lost>>
      /\ call.pc \notin Opened
  BY DEF ResetUNet, HandlesInv, CallSound, Opened
<1>2. cur \in Slots /\ cur.card_addr \notin Physical
  BY <1>1, SlotKept, HandlesAssumption
<1>3. DevicesKept /\ DevInfo' \in [Physical -> DeviceEntries]
  BY <1>1 DEF DevicesKept, HandlesInv, HandleTypeOK
<1>4. CASE Ends
  BY <1>1, <1>2, <1>4, SlotKept, QuietEnds DEF Ends
<1>5. CASE CallGoes("populate")
  <2>1. "populate" \in CallSteps
    BY DEF CallSteps, Opened
  <2>2. /\ HandleTypeOK' /\ StepKind /\ cur' = cur /\ call'.pc = "populate"
        /\ Card(call.h)' = cur
        /\ \A h \in Handles : Card(h)'.allocated => Ready(h)'
    BY <1>1, <1>2, <1>3, <1>5, <2>1, SlotKept, QuietGoes DEF CallGoes
  <2>3. Ready(call.h)'
    BY <1>2, <2>2 DEF Ready
  <2>4. QED
    BY <1>1, <2>2, <2>3 DEF StepGood, CallSound, HandlesReady
<1>6. QED
  BY <1>4, <1>5 DEF ResetUNet

LEMMA ConnectPCIGood == ASSUME HandlesInv, ConnectPCI PROVE StepGood
<1>1. /\ call.pc = "pci" /\ ~cur.allocated /\ cur.card_addr \in Physical
      /\ cur.module < 8 \/ cur.module \in {100, 101}
      /\ UNCHANGED <<g_handlepx, DevInfo, lost>>
      /\ call.pc \notin Opened
  BY DEF ConnectPCI, HandlesInv, CallSound, Opened
<1>2. cur \in Slots /\ cur.module \in Nat
  BY SlotKept DEF Slots
<1>3. DevicesKept /\ DevInfo' \in [Physical -> DeviceEntries]
  BY <1>1 DEF DevicesKept, HandlesInv, HandleTypeOK
<1> DEFINE ex == cur.card_addr \in ExCards
           m == IF ex /\ cur.module >= EXC_PCMCIA_MODULE THEN cur.module - EXC_PCMCIA_MODULE
                ELSE cur.module
<1>4. m \in Nat /\ (m < 8 \/ m \in {100, 101}) /\ ex \in BOOLEAN
  BY <1>1, <1>2 DEF EXC_PCMCIA_MODULE
<1>5. PICK n \in Nat, b \in BOOLEAN : n = m /\ b = ex
  BY <1>4
<1>6. PICK r : r = [cur EXCEPT !.isUNet = FALSE, !.isExCARD = b, !.module = n]
  OBVIOUS
<1>7. /\ r \in Slots /\ r.allocated = cur.allocated /\ r.card_addr = cur.card_addr
      /\ ~r.isUNet /\ r.module = n
  BY <1>2, <1>6 DEF Slots
<1>8. PICK p \in {"pcmcia_open", "pcie_open"} :
          call' = [call EXCEPT !.pc = p] /\ (p = "pcmcia_open" <=> n >= 100)
  BY <1>5 DEF ConnectPCI, CallGoes, EXC_PCMCIA_MODULE
<1>9. p \in CallSteps /\ p \notin Opened
  BY DEF CallSteps, Opened
<1>10. cardpx' = [cardpx EXCEPT ![call.h] = r]
  BY <1>5, <1>6 DEF ConnectPCI, Slot
<1>11. /\ HandleTypeOK' /\ StepKind /\ cur' = r /\ call'.pc = p
       /\ \A h \in Handles : Card(h)'.allocated => Ready(h)'
  <2> HIDE DEF ex, m
  <2>1. QED
    <3>1. ~r.allocated /\ r \in Slots /\ call.pc # "idle"
      BY <1>1, <1>7
    <3>2. UNCHANGED <<g_handlepx, lost>> /\ call' = [call EXCEPT !.pc = p] /\ p \in CallSteps
      BY <1>1, <1>8, <1>9
    <3>3. p \notin Opened /\ call.pc \notin Opened
      BY <1>1, <1>9
    <3>4. QED
      BY <1>3, <1>10, <3>1, <3>2, <3>3, QuietGoes
<1>12. n < 8 \/ n \in {100, 101}
  BY <1>4, <1>5
<1>13. QED
  <2> HIDE DEF ex, m
  <2>1. QED
    BY <1>1, <1>7, <1>8, <1>11, <1>12 DEF StepGood, CallSound, HandlesReady

LEMMA OpenPCMCIAGood == ASSUME HandlesInv, OpenPCMCIA PROVE StepGood
<1>1. /\ call.pc = "pcmcia_open" /\ ~cur.allocated /\ cur.card_addr \in Physical
      /\ ~cur.isUNet /\ cur.module \in {100, 101}
      /\ UNCHANGED <<cardpx, g_handlepx, lost>>
      /\ call.pc \notin Opened
  BY DEF OpenPCMCIA, HandlesInv, CallSound, Opened
<1>2. CASE Ends /\ UNCHANGED DevInfo
  BY <1>1, <1>2, SlotKept, QuietEnds DEF Ends
<1>3. CASE /\ Dev(cur.card_addr, OpenKernelDevice(cur.card_addr, DevInfo[cur.card_addr]))
           /\ CallGoes("pcmcia_map")
  <2>1. "pcmcia_map" \in Opened
    BY DEF Opened
  <2>2. /\ HandleTypeOK' /\ StepKind /\ cur' = cur /\ call'.pc = "pcmcia_map"
        /\ \A h \in Handles : Card(h)'.allocated => Ready(h)'
    BY <1>1, <1>3, <2>1, SlotKept, TakesGoes DEF CallGoes, Dev
  <2>3. QED
    BY <1>1, <2>2 DEF StepGood, CallSound, HandlesReady
<1>4. QED
  BY <1>2, <1>3 DEF OpenPCMCIA

\* The slot of a call whose module is found and mapped: the call goes on, and
\* the handle is ready.
LEMMA MappedGoes ==
    ASSUME HandlesInv, call.pc \in {"pcmcia_map", "pcie_map"}, NEW r \in Slots,
           ~cur.allocated, cur.card_addr \in Physical,
           ~r.allocated, r.card_addr = cur.card_addr, ~r.isUNet,
           r.module < MAX_MODULES \/ r.module = SINGLE_MODULE_CARD,
           cardpx' = [cardpx EXCEPT ![call.h] = r], UNCHANGED <<g_handlepx, lost>>,
           NEW e \in DeviceEntries, DevInfo' = [DevInfo EXCEPT ![cur.card_addr] = e],
           e.open = DevInfo[cur.card_addr].open, e.ref = DevInfo[cur.card_addr].ref,
           DevInfo[cur.card_addr].mapped \subseteq e.mapped, r.bank \in e.mapped,
           NEW p \in {"pcmcia_reset", "pcie_reset", "populate"},
           call' = [call EXCEPT !.pc = p]
    PROVE  StepGood
<1>1. DevInfo' \in [Physical -> DeviceEntries] /\ DevicesKept /\ DevInfo'[r.card_addr] = e
  BY DEF HandlesInv, HandleTypeOK, DevicesKept
<1>2. p \in CallSteps /\ p \in Opened /\ call.pc \in Opened /\ call.pc # "idle"
  BY DEF CallSteps, Opened
<1>3. /\ HandleTypeOK' /\ StepKind
      /\ cur' = r /\ Card(call.h)' = r /\ call'.pc = p /\ call'.h = call.h
      /\ \A h \in Handles : Card(h)'.allocated => Ready(h)'
  BY <1>1, <1>2, QuietGoes
<1>4. Ready(call.h)'
  BY <1>1, <1>3 DEF Ready
<1>5. QED
  BY <1>3, <1>4 DEF StepGood, CallSound, HandlesReady

LEMMA MapPCMCIAGood == ASSUME HandlesInv, MapPCMCIA PROVE StepGood
<1> DEFINE bank == IF cur.module = EXC_PCMCIA_MODULE_2ND THEN 3 ELSE 0
           Mapped == MapMemory(DevInfo[cur.card_addr], bank)
           FoundSlot(m) == [cur EXCEPT !.isPCMCIA = TRUE, !.bank = bank, !.module = m,
                                   !.moduleType = "pcmcia"]
           Go == CallGoes(IF call.reset THEN "pcmcia_reset" ELSE "populate")
<1>1. /\ call.pc = "pcmcia_map" /\ ~cur.allocated /\ cur.card_addr \in Physical
      /\ ~cur.isUNet /\ cur.module \in {100, 101}
      /\ UNCHANGED <<g_handlepx, lost>>
      /\ call.pc \in Opened
  BY DEF MapPCMCIA, HandlesInv, CallSound, Opened
<1>2. DevInfo[cur.card_addr] \in DeviceEntries /\ bank \in Nat
  BY <1>1 DEF HandlesInv, HandleTypeOK
<1>3. /\ Mapped \in DeviceEntries
      /\ Mapped.open = DevInfo[cur.card_addr].open /\ Mapped.ref = DevInfo[cur.card_addr].ref
      /\ Mapped.mapped = DevInfo[cur.card_addr].mapped \cup {bank}
  BY <1>2, MapFacts
<1>4. ASSUME NEW m \in Nat
      PROVE  /\ FoundSlot(m) \in Slots /\ FoundSlot(m).allocated = cur.allocated
             /\ FoundSlot(m).card_addr = cur.card_addr /\ FoundSlot(m).isUNet = cur.isUNet
             /\ FoundSlot(m).bank = bank /\ FoundSlot(m).module = m
  BY <1>2, SlotKept DEF Slots
<1>5. ASSUME Go
      PROVE  \E p \in {"pcmcia_reset", "pcie_reset", "populate"} : call' = [call EXCEPT !.pc = p]
  BY <1>5 DEF CallGoes
<1>6. SINGLE_MODULE_CARD \in Nat /\ EXC_BANK_CONTROL \in Nat
  BY DEF SINGLE_MODULE_CARD, EXC_BANK_CONTROL
<1>7. ASSUME NEW m \in Nat, m < MAX_MODULES \/ m = SINGLE_MODULE_CARD,
             cardpx' = [cardpx EXCEPT ![call.h] = FoundSlot(m)], Go,
             NEW e \in DeviceEntries, DevInfo' = [DevInfo EXCEPT ![cur.card_addr] = e],
             e.open = Mapped.open, e.ref = Mapped.ref, Mapped.mapped \subseteq e.mapped
      PROVE  StepGood
  <2>1. PICK p \in {"pcmcia_reset", "pcie_reset", "populate"} : call' = [call EXCEPT !.pc = p]
    BY <1>5, <1>7
  <2>2. PICK r \in Slots : /\ r.allocated = cur.allocated /\ r.card_addr = cur.card_addr
                           /\ r.isUNet = cur.isUNet /\ r.bank = bank /\ r.module = m
                           /\ cardpx' = [cardpx EXCEPT ![call.h] = r]
    BY <1>4, <1>7
  <2>3. /\ e.open = DevInfo[cur.card_addr].open /\ e.ref = DevInfo[cur.card_addr].ref
        /\ DevInfo[cur.card_addr].mapped \subseteq e.mapped /\ r.bank \in e.mapped
    BY <1>3, <1>7, <2>2
  <2> HIDE DEF bank, Mapped, FoundSlot, Go
  <2>4. QED
    BY <1>1, <1>7, <2>1, <2>2, <2>3, MappedGoes
<1>8. ASSUME NEW r \in Slots, ~r.allocated, cardpx' = [cardpx EXCEPT ![call.h] = r],
             NEW e \in DeviceEntries,
             e.open = DevInfo[cur.card_addr].open, e.ref = DevInfo[cur.card_addr].ref,
             DevInfo[cur.card_addr].mapped \subseteq e.mapped,
             Dev(cur.card_addr, CloseKernelDevice(e)), Ends
      PROVE  StepGood
  <2> HIDE DEF bank, Mapped, FoundSlot, Go
  <2>1. QED
    BY <1>1, <1>8, GivesEnds DEF Dev, Ends
<1>9. CASE /\ Dev(cur.card_addr, CloseKernelDevice(DevInfo[cur.card_addr]))
           /\ Ends /\ UNCHANGED cardpx
  BY <1>1, <1>2, <1>8, <1>9, SlotKept
<1>10. CASE /\ Slot(call.h, FoundSlot(cur.module - EXC_PCMCIA_MODULE))
            /\ Dev(cur.card_addr, Mapped) /\ Go
  <2>1. PICK m \in Nat : m = cur.module - EXC_PCMCIA_MODULE /\ m < MAX_MODULES
    BY <1>1 DEF EXC_PCMCIA_MODULE, MAX_MODULES
  <2>2. cardpx' = [cardpx EXCEPT ![call.h] = FoundSlot(m)]
    BY <1>10, <2>1 DEF Slot
  <2>3. DevInfo' = [DevInfo EXCEPT ![cur.card_addr] = Mapped]
    BY <1>10 DEF Dev
  <2> HIDE DEF bank, Mapped, FoundSlot, Go
  <2>4. QED
    BY <1>3, <1>7, <1>10, <2>1, <2>2, <2>3
<1>11. CASE /\ Slot(call.h, FoundSlot(SINGLE_MODULE_CARD))
            /\ Dev(cur.card_addr, Mapped) /\ Go
  <2> HIDE DEF bank, Mapped, FoundSlot, Go
  <2>1. QED
    BY <1>3, <1>6, <1>7, <1>11 DEF Slot, Dev
<1>12. CASE /\ Slot(call.h, FoundSlot(SINGLE_MODULE_CARD))
            /\ Dev(cur.card_addr, MapMemory(Mapped, EXC_BANK_CONTROL)) /\ Go
  <2> HIDE DEF bank, Mapped, FoundSlot, Go
  <2>1. PICK e \in DeviceEntries : /\ e = MapMemory(Mapped, EXC_BANK_CONTROL)
                                   /\ e.open = Mapped.open /\ e.ref = Mapped.ref
                                   /\ Mapped.mapped \subseteq e.mapped
    BY <1>3, <1>6, MapFacts
  <2>2. QED
    BY <1>6, <1>7, <1>12, <2>1 DEF Slot, Dev
<1>13. CASE /\ Slot(call.h, FoundSlot(SINGLE_MODULE_CARD))
            /\ Dev(cur.card_addr, CloseKernelDevice(Mapped)) /\ Ends
  <2>1. PICK r \in Slots : ~r.allocated /\ r = FoundSlot(SINGLE_MODULE_CARD)
    BY <1>1, <1>4, <1>6
  <2>2. cardpx' = [cardpx EXCEPT ![call.h] = r]
    BY <1>13, <2>1 DEF Slot
  <2> HIDE DEF bank, Mapped, FoundSlot, Go
  <2>3. DevInfo[cur.card_addr].mapped \subseteq Mapped.mapped
    BY <1>3
  <2>4. QED
    BY <1>3, <1>8, <1>13, <2>1, <2>2, <2>3
<1>14. QED
  BY <1>9, <1>10, <1>11, <1>12, <1>13 DEF MapPCMCIA

LEMMA ResetPCMCIAGood == ASSUME HandlesInv, ResetPCMCIA PROVE StepGood
<1>1. /\ call.pc = "pcmcia_reset" /\ ~cur.allocated /\ cur.card_addr \in Physical
      /\ UNCHANGED <<g_handlepx, lost>> /\ Ready(call.h)
      /\ call.pc \in Opened
  BY DEF ResetPCMCIA, HandlesInv, CallSound, HandlesReady, Opened
<1>2. DevInfo[cur.card_addr] \in DeviceEntries
  BY <1>1 DEF HandlesInv, HandleTypeOK
<1>3. ASSUME NEW r \in Slots, ~r.allocated, cardpx' = [cardpx EXCEPT ![call.h] = r],
             Dev(cur.card_addr, CloseKernelDevice(DevInfo[cur.card_addr])), Ends
      PROVE  StepGood
  BY <1>1, <1>2, <1>3, GivesEnds DEF Dev, Ends
<1>4. CASE CallGoes("populate") /\ UNCHANGED <<cardpx, DevInfo>>
  <2>1. "populate" \in CallSteps /\ "populate" \in Opened
    BY DEF CallSteps, Opened
  <2>2. DevicesKept /\ DevInfo' \in [Physical -> DeviceEntries]
    BY <1>4 DEF DevicesKept, HandlesInv, HandleTypeOK
  <2>3. /\ HandleTypeOK' /\ StepKind /\ cur' = cur /\ call'.pc = "populate"
        /\ Card(call.h)' = cur
        /\ \A h \in Handles : Card(h)'.allocated => Ready(h)'
    BY <1>1, <1>4, <2>1, <2>2, SlotKept, QuietGoes DEF CallGoes
  <2>4. Ready(call.h)'
    BY <1>1, <1>4, <2>3 DEF Ready, Card, cur
  <2>5. QED
    BY <1>1, <2>3, <2>4 DEF StepGood, CallSound, HandlesReady
<1>5. CASE /\ Dev(cur.card_addr, CloseKernelDevice(DevInfo[cur.card_addr])) /\ Ends
           /\ UNCHANGED cardpx
  BY <1>1, <1>3, <1>5, SlotKept
<1>6. CASE /\ Dev(cur.card_addr, CloseKernelDevice(DevInfo[cur.card_addr])) /\ Ends
           /\ Slot(call.h, [cur EXCEPT !.card_addr = INVALID_DEV_PX, !.module = 99])
  <2>1. LET r == [cur EXCEPT !.card_addr = INVALID_DEV_PX, !.module = 99]
        IN  r \in Slots /\ r.allocated = cur.allocated
    BY SlotKept DEF Slots
  <2>2. QED
    BY <1>1, <1>3, <1>6, <2>1 DEF Slot
<1>7. QED
  BY <1>4, <1>5, <1>6 DEF ResetPCMCIA

LEMMA OpenPCIeGood == ASSUME HandlesInv, OpenPCIe PROVE StepGood
<1>1. /\ call.pc = "pcie_open" /\ ~cur.allocated /\ cur.card_addr \in Physical
      /\ ~cur.isUNet /\ cur.module < 8
      /\ UNCHANGED <<g_handlepx, lost>>
      /\ call.pc \notin Opened
  BY DEF OpenPCIe, HandlesInv, CallSound, Opened
<1>2. PICK r : r = [cur EXCEPT !.module = IF @ > 3 THEN @ + 1 ELSE @]
  OBVIOUS
<1>3. /\ r \in Slots /\ r.allocated = cur.allocated /\ r.card_addr = cur.card_addr
      /\ r.isUNet = cur.isUNet /\ r.module < MAX_MODULES
  BY <1>1, <1>2, SlotKept DEF Slots, MAX_MODULES
<1>4. cardpx' = [cardpx EXCEPT ![call.h] = r]
  BY <1>2 DEF OpenPCIe, Slot
<1>5. CASE Ends /\ UNCHANGED DevInfo
  BY <1>1, <1>3, <1>4, <1>5, QuietEnds DEF Ends
<1>6. CASE /\ Dev(cur.card_addr, OpenKernelDevice(cur.card_addr, DevInfo[cur.card_addr]))
           /\ CallGoes("pcie_map")
  <2>1. "pcie_map" \in Opened
    BY DEF Opened
  <2>2. /\ HandleTypeOK' /\ StepKind /\ cur' = r /\ call'.pc = "pcie_map"
        /\ \A h \in Handles : Card(h)'.allocated => Ready(h)'
    BY <1>1, <1>3, <1>4, <1>6, <2>1, TakesGoes DEF CallGoes, Dev
  <2>3. QED
    BY <1>1, <1>3, <2>2 DEF StepGood, CallSound, HandlesReady
<1>7. QED
  BY <1>5, <1>6 DEF OpenPCIe

LEMMA MapPCIeGood == ASSUME HandlesInv, MapPCIe PROVE StepGood
<1>1. /\ call.pc = "pcie_map" /\ ~cur.allocated /\ cur.card_addr \in Physical
      /\ ~cur.isUNet /\ cur.module < MAX_MODULES
      /\ UNCHANGED <<g_handlepx, lost>>
      /\ call.pc \in Opened
  BY DEF MapPCIe, HandlesInv, CallSound, Opened
<1>2. DevInfo[cur.card_addr] \in DeviceEntries /\ cur.module \in Nat
  BY <1>1, SlotKept DEF HandlesInv, HandleTypeOK, Slots
<1>3. CASE /\ Dev(cur.card_addr, CloseKernelDevice(DevInfo[cur.card_addr]))
           /\ Ends /\ UNCHANGED cardpx
  BY <1>1, <1>2, <1>3, SlotKept, GivesEnds DEF Dev, Ends
<1>4. CASE /\ Dev(cur.card_addr, MapMemory(DevInfo[cur.card_addr], cur.module))
           /\ Slot(call.h, [cur EXCEPT !.bank = cur.module, !.isPCMCIA = @ /\ ~call.reset])
           /\ CallGoes(IF call.reset THEN "pcie_reset" ELSE "populate")
  <2>1. PICK b \in BOOLEAN : b = (cur.isPCMCIA /\ ~call.reset)
    OBVIOUS
  <2>2. PICK r : r = [cur EXCEPT !.bank = cur.module, !.isPCMCIA = b]
    OBVIOUS
  <2>3. /\ r \in Slots /\ r.allocated = cur.allocated /\ r.card_addr = cur.card_addr
        /\ r.isUNet = cur.isUNet /\ r.module = cur.module /\ r.bank = cur.module
    BY <1>2, <2>2, SlotKept DEF Slots
  <2>4. cardpx' = [cardpx EXCEPT ![call.h] = r]
    BY <1>4, <2>1, <2>2 DEF Slot
  <2>5. PICK e \in DeviceEntries :
          /\ DevInfo' = [DevInfo EXCEPT ![cur.card_addr] = e]
          /\ e.open = DevInfo[cur.card_addr].open /\ e.ref = DevInfo[cur.card_addr].ref
          /\ e.mapped = DevInfo[cur.card_addr].mapped \cup {cur.module}
    <3>1. LET e == MapMemory(DevInfo[cur.card_addr], cur.module)
          IN  /\ e \in DeviceEntries
              /\ e.open = DevInfo[cur.card_addr].open /\ e.ref = DevInfo[cur.card_addr].ref
              /\ e.mapped = DevInfo[cur.card_addr].mapped \cup {cur.module}
      BY <1>2, MapFacts
    <3>2. QED
      BY <1>4, <3>1 DEF Dev
  <2>6. PICK p \in {"pcmcia_reset", "pcie_reset", "populate"} : call' = [call EXCEPT !.pc = p]
    BY <1>4 DEF CallGoes
  <2>7. r.bank \in e.mapped /\ DevInfo[cur.card_addr].mapped \subseteq e.mapped
    BY <2>3, <2>5
  <2>8. QED
    BY <1>1, <2>3, <2>4, <2>5, <2>6, <2>7, MappedGoes
<1>5. QED
  BY <1>3, <1>4 DEF MapPCIe

LEMMA ResetPCIeGood == ASSUME HandlesInv, ResetPCIe PROVE StepGood
<1>1. /\ call.pc = "pcie_reset" /\ ~cur.allocated /\ cur.card_addr \in Physical
      /\ UNCHANGED <<cardpx, g_handlepx, lost>> /\ Ready(call.h)
      /\ call.pc \in Opened
  BY DEF ResetPCIe, HandlesInv, CallSound, HandlesReady, Opened
<1>2. DevInfo[cur.card_addr] \in DeviceEntries
  BY <1>1 DEF HandlesInv, HandleTypeOK
<1>3. CASE Dev(cur.card_addr, CloseKernelDevice(DevInfo[cur.card_addr])) /\ Ends
  BY <1>1, <1>2, <1>3, SlotKept, GivesEnds DEF Dev, Ends
<1>4. ASSUME NEW p \in {"pcie_reset", "populate"}, UNCHANGED DevInfo,
             call' \in [pc : CallSteps, h : Handles, reset : BOOLEAN, tries : Nat],
             call'.pc = p, call'.h = call.h
      PROVE  StepGood
  <2>1. p \in Opened
    BY DEF Opened
  <2>2. DevicesKept /\ DevInfo' \in [Physical -> DeviceEntries]
    BY <1>4 DEF DevicesKept, HandlesInv, HandleTypeOK
  <2>3. Quiet
    BY <1>1, <1>4, <2>1, <2>2, SlotKept, CallQuiet
  <2>4. StepKind
    BY <2>3 DEF StepKind
  <2>5. /\ HandleTypeOK' /\ cur' = cur /\ Card(call.h)' = cur
        /\ \A h \in Handles : Card(h)'.allocated => Ready(h)'
    BY <1>1, <1>4, <2>2, <2>4, SlotKept, CallGoesOn
  <2>6. Ready(call.h)'
    BY <1>1, <1>4, <2>5 DEF Ready, Card, cur
  <2>7. QED
    BY <1>1, <1>4, <2>4, <2>5, <2>6 DEF StepGood, CallSound, HandlesReady
<1>5. CASE CallGoes("populate") /\ UNCHANGED DevInfo
  <2>1. /\ call' \in [pc : CallSteps, h : Handles, reset : BOOLEAN, tries : Nat]
        /\ call'.pc = "populate" /\ call'.h = call.h
    BY <1>5 DEF CallGoes, HandlesInv, HandleTypeOK, CallSteps, Opened
  <2>2. QED
    BY <1>4, <1>5, <2>1
<1>6. CASE call' = [call EXCEPT !.tries = @ + 1] /\ UNCHANGED DevInfo
  <2>1. /\ call' \in [pc : CallSteps, h : Handles, reset : BOOLEAN, tries : Nat]
        /\ call'.pc = "pcie_reset" /\ call'.h = call.h
    BY <1>1, <1>6 DEF HandlesInv, HandleTypeOK
  <2>2. QED
    BY <1>4, <1>6, <2>1
<1>7. QED
  BY <1>3, <1>5, <1>6 DEF ResetPCIe

LEMMA PopulateGood == ASSUME HandlesInv, Populate PROVE StepGood
<1>1. /\ call.pc = "populate" /\ ~cur.allocated /\ Ready(call.h) /\ call.h \in Handles
      /\ UNCHANGED <<g_handlepx, DevInfo, lost>> /\ call.pc \in Opened
      /\ call' = NoCall /\ call'.pc \notin Opened /\ call'.pc = "idle"
  BY DEF Populate, HandlesInv, HandleTypeOK, CallSound, HandlesReady, Opened, Ends, NoCall
<1>2. PICK r : r = [cur EXCEPT !.allocated = TRUE]
  OBVIOUS
<1>3. /\ r \in Slots /\ r.allocated /\ r.card_addr = cur.card_addr /\ r.isUNet = cur.isUNet
      /\ r.module = cur.module /\ r.bank = cur.bank
  BY <1>2, SlotKept DEF Slots
<1>4. /\ cardpx' \in [Handles -> Slots] /\ cardpx'[call.h] = r
      /\ \A h \in Handles : h # call.h => cardpx'[h] = cardpx[h]
  BY <1>1, <1>2, <1>3 DEF Populate, Slot, HandlesInv, HandleTypeOK
<1>5. HandleTypeOK'
  <2>1. call' \in [pc : CallSteps, h : Handles, reset : BOOLEAN, tries : Nat]
    BY <1>1, HandlesAssumption DEF NoCall, CallSteps, Handles
  <2>2. QED
    BY <1>1, <1>4, <2>1 DEF HandlesInv, HandleTypeOK
<1>6. ASSUME NEW d \in Physical PROVE UsersOf(d)' = UsersOf(d)
  <2>1. ASSUME NEW h \in Handles PROVE h \in UsersOf(d)' <=> h \in UsersOf(d)
    <3>1. CASE h = call.h
      BY <1>1, <1>3, <1>4, <3>1 DEF UsersOf, Card, cur
    <3>2. CASE h # call.h
      BY <1>1, <1>4, <3>2 DEF UsersOf, Card
    <3>3. QED
      BY <3>1, <3>2
  <2>2. QED
    BY <2>1, UsersFinite, UsersFiniteNext
<1>7. Quiet
  BY <1>1, <1>6 DEF Quiet, DevicesKept, HandlesInv, HandleTypeOK
<1>8. ASSUME NEW h \in Handles, Card(h)'.allocated PROVE Ready(h)'
  <2>1. CASE h = call.h
    BY <1>1, <1>3, <1>4, <2>1 DEF Ready, Card, cur
  <2>2. CASE h # call.h
    <3>1. Card(h)' = Card(h) /\ Ready(h)
      BY <1>4, <1>8, <2>2 DEF HandlesInv, HandlesReady, Card
    <3>2. QED
      BY <1>1, <3>1 DEF Ready, Card
  <2>3. QED
    BY <2>1, <2>2
<1>9. CallSound' /\ HandlesReady'
  BY <1>1, <1>8 DEF CallSound, HandlesReady
<1>10. QED
  BY <1>5, <1>7, <1>9 DEF StepGood, StepKind

\* A call that changes no slot and no device.
LEMMA NothingGood ==
    ASSUME HandlesInv, call = NoCall, call' = NoCall, g_handlepx' \in Handles,
           UNCHANGED <<cardpx, DevInfo, lost>>
    PROVE  StepGood
<1>1. HandleTypeOK'
  BY DEF HandlesInv, HandleTypeOK
<1>2. \A d \in Physical : UsersOf(d)' = UsersOf(d)
  BY DEF UsersOf, Card
<1>3. Quiet
  BY <1>2 DEF Quiet, DevicesKept, HandlesInv, HandleTypeOK
<1>4. call'.pc = "idle"
  BY DEF NoCall
<1>5. ASSUME NEW h \in Handles, Card(h)'.allocated PROVE Ready(h)'
  BY <1>5 DEF HandlesInv, HandlesReady, Ready, Card
<1>6. CallSound' /\ HandlesReady'
  BY <1>4, <1>5 DEF CallSound, HandlesReady
<1>7. QED
  BY <1>1, <1>3, <1>6 DEF StepGood, StepKind

\* The first of a set of handles is one of them.
LEMMA FirstHandle ==
    ASSUME NEW S \in SUBSET Handles, S # {}
    PROVE  (CHOOSE h \in S : \A i \in S : h <= i) \in S
<1>1. S \subseteq Nat
  BY HandlesAssumption DEF Handles
<1>2. PICK R : R = OpToRel(<, Nat)
  OBVIOUS
<1>3. \A x, y \in Nat : y < x => <<y, x>> \in R
  BY <1>2 DEF OpToRel
<1>4. PICK x \in S : \A y \in S : ~(<<y, x>> \in R)
  BY <1>1, <1>2, NatLessThanWellFounded, WFMin
<1>5. ASSUME NEW y \in S PROVE x <= y
  <2>1. x \in Nat /\ y \in Nat /\ ~(y < x)
    BY <1>1, <1>3, <1>4
  <2>2. QED
    BY <2>1
<1>6. QED
  BY <1>5

LEMMA SelectGood == ASSUME HandlesInv, NEW m, Select_Module(m) PROVE StepGood
<1>1. call = NoCall /\ call' = NoCall /\ UNCHANGED <<cardpx, DevInfo, lost>>
  BY DEF Select_Module, Called, Ends
<1>2. PICK S : S = {h \in Handles : Card(h).allocated /\ Card(h).module = m}
  OBVIOUS
<1>3. S \subseteq Handles
  BY <1>2
<1>4. \/ S # {} /\ g_handlepx' = CHOOSE h \in S : \A i \in S : h <= i
      \/ UNCHANGED g_handlepx
  BY <1>2 DEF Select_Module
<1>5. g_handlepx' \in Handles
  <2>1. CASE UNCHANGED g_handlepx
    BY <2>1 DEF HandlesInv, HandleTypeOK
  <2>2. CASE S # {} /\ g_handlepx' = CHOOSE h \in S : \A i \in S : h <= i
    BY <1>3, <2>2, FirstHandle
  <2>3. QED
    BY <1>4, <2>1, <2>2
<1>6. QED
  BY <1>1, <1>5, NothingGood

LEMMA InitAttachGood ==
    ASSUME HandlesInv, NEW dv \in DeviceNums, NEW m \in ModuleNums, NEW reset \in BOOLEAN,
           Init_Attach_Px(dv, m, reset)
    PROVE  StepGood
<1>1. PICK K, F : /\ K = {h \in Handles : Card(h).allocated /\ Card(h).card_addr # SIMULATE
                                         /\ Card(h).card_addr = dv /\ Card(h).orig = m}
                  /\ F = {h \in Handles : ~Card(h).allocated}
  OBVIOUS
<1>2. K \subseteq Handles /\ F \subseteq Handles
  BY <1>1
<1>3. call = NoCall /\ UNCHANGED <<DevInfo, remote, lost>>
  BY DEF Init_Attach_Px, Called
<1> DEFINE f == CHOOSE h \in F : \A i \in F : h <= i
<1>4. \/ Ends /\ UNCHANGED <<cardpx, g_handlepx>>
      \/ /\ K # {} /\ g_handlepx' = CHOOSE h \in K : \A i \in K : h <= i
         /\ Ends /\ UNCHANGED cardpx
      \/ /\ m < NUMMODULES \/ m \in {EXC_PCMCIA_MODULE, EXC_PCMCIA_MODULE_2ND}
         /\ F # {} /\ g_handlepx' = f
         /\ Slot(f, [Card(f) EXCEPT !.card_addr = dv, !.module = m, !.orig = m])
         /\ call' = [pc |-> "info", h |-> f, reset |-> reset, tries |-> 0]
  BY <1>1 DEF Init_Attach_Px
<1>5. CASE Ends /\ UNCHANGED <<cardpx, g_handlepx>>
  BY <1>3, <1>5, NothingGood DEF HandlesInv, HandleTypeOK, Ends
<1>6. CASE /\ K # {} /\ g_handlepx' = CHOOSE h \in K : \A i \in K : h <= i
           /\ Ends /\ UNCHANGED cardpx
  <2>1. g_handlepx' \in Handles
    BY <1>2, <1>6, FirstHandle
  <2>2. QED
    BY <1>3, <1>6, <2>1, NothingGood DEF Ends
<1>7. CASE /\ m < NUMMODULES \/ m \in {EXC_PCMCIA_MODULE, EXC_PCMCIA_MODULE_2ND}
           /\ F # {} /\ g_handlepx' = f
           /\ Slot(f, [Card(f) EXCEPT !.card_addr = dv, !.module = m, !.orig = m])
           /\ call' = [pc |-> "info", h |-> f, reset |-> reset, tries |-> 0]
  <2>1. PICK c \in F : c = f
    BY <1>2, <1>7, FirstHandle
  <2>2. c \in Handles /\ ~Card(c).allocated
    BY <1>1
  <2>3. PICK r : r = [Card(c) EXCEPT !.card_addr = dv, !.module = m, !.orig = m]
    OBVIOUS
  <2>4. /\ r \in Slots /\ ~r.allocated /\ r.card_addr = dv /\ r.module = m /\ r.orig = m
    <3>1. Card(c) \in Slots /\ m \in Nat
      BY <2>2, HandlesAssumption DEF Card, HandlesInv, HandleTypeOK
    <3>2. QED
      BY <2>2, <2>3, <3>1 DEF Slots
  <2>5. /\ call' = [pc |-> "info", h |-> c, reset |-> reset, tries |-> 0]
        /\ cardpx' = [cardpx EXCEPT ![c] = r] /\ g_handlepx' = c
    BY <1>7, <2>1, <2>3 DEF Slot
  <2> HIDE DEF f
  <2>6. /\ cardpx' \in [Handles -> Slots] /\ cardpx'[c] = r
        /\ \A h \in Handles : h # c => cardpx'[h] = cardpx[h]
    BY <2>2, <2>4, <2>5 DEF HandlesInv, HandleTypeOK
  <2>7. HandleTypeOK'
    <3>1. call' \in [pc : CallSteps, h : Handles, reset : BOOLEAN, tries : Nat]
      BY <2>2, <2>5 DEF CallSteps
    <3>2. QED
      BY <1>3, <2>2, <2>5, <2>6, <3>1 DEF HandlesInv, HandleTypeOK
  <2>8. ASSUME NEW d \in Physical PROVE UsersOf(d)' = UsersOf(d)
    <3>1. call.pc \notin Opened /\ call'.pc \notin Opened
      BY <1>3, <2>5 DEF NoCall, Opened
    <3>2. ASSUME NEW h \in Handles PROVE h \in UsersOf(d)' <=> h \in UsersOf(d)
      <4>1. CASE h = c
        BY <2>2, <2>4, <2>6, <3>1, <4>1 DEF UsersOf, Card
      <4>2. CASE h # c
        BY <2>6, <3>1, <4>2 DEF UsersOf, Card
      <4>3. QED
        BY <4>1, <4>2
    <3>3. QED
      BY <3>2, UsersFinite, UsersFiniteNext
  <2>9. StepKind
    BY <1>3, <2>8 DEF StepKind, Quiet, DevicesKept, HandlesInv, HandleTypeOK
  <2>10. \A h \in Handles : Card(h)'.allocated => Ready(h)'
    BY <2>2, <2>4, <2>5, <2>9, OthersReady
  <2>11. cur' = r /\ call'.pc = "info"
    BY <2>5, <2>6 DEF cur
  <2>12. CallSound' /\ HandlesReady'
    BY <1>7, <2>4, <2>10, <2>11
       DEF CallSound, HandlesReady, EXC_PCMCIA_MODULE, EXC_PCMCIA_MODULE_2ND
  <2>13. QED
    BY <2>7, <2>9, <2>12 DEF StepGood
<1>8. QED
  BY <1>4, <1>5, <1>6, <1>7

LEMMA ReleaseGood == ASSUME HandlesInv, NEW h \in Handles, Release_Module_Px(h) PROVE StepGood
<1>1. call = NoCall /\ call' = NoCall /\ UNCHANGED <<g_handlepx, lost>>
  BY DEF Release_Module_Px, Called, Ends
<1>2. CASE UNCHANGED <<cardpx, DevInfo>>
  BY <1>1, <1>2, NothingGood DEF HandlesInv, HandleTypeOK
<1>3. CASE /\ Card(h).allocated
           /\ Slot(h, [Card(h) EXCEPT !.allocated = FALSE, !.card_addr = INVALID_DEV_PX,
                          !.isUNet = FALSE, !.bank = IF Card(h).isUNet THEN NoBank ELSE @])
           /\ IF Card(h).card_addr \in Physical /\ ~Card(h).isUNet
              THEN Dev(Card(h).card_addr, CloseKernelDevice(DevInfo[Card(h).card_addr]))
              ELSE UNCHANGED DevInfo
  <2>1. PICK b : b = IF Card(h).isUNet THEN NoBank ELSE Card(h).bank
    OBVIOUS
  <2>2. PICK r : r = [Card(h) EXCEPT !.allocated = FALSE, !.card_addr = INVALID_DEV_PX,
                                     !.isUNet = FALSE, !.bank = b]
    OBVIOUS
  <2>3. Card(h) \in Slots /\ Card(h) = cardpx[h]
    BY DEF Card, HandlesInv, HandleTypeOK
  <2>4. r \in Slots /\ ~r.allocated
    <3>1. b \in {NoBank, Heap} \cup Nat
      BY <2>1, <2>3 DEF Slots
    <3>2. QED
      BY <2>2, <2>3, <3>1 DEF Slots
  <2>5. cardpx' = [cardpx EXCEPT ![h] = r]
    BY <1>3, <2>1, <2>2, <2>3 DEF Slot, Slots
  <2>6. /\ cardpx' \in [Handles -> Slots] /\ cardpx'[h] = r
        /\ \A i \in Handles : i # h => cardpx'[i] = cardpx[i]
    BY <2>4, <2>5 DEF HandlesInv, HandleTypeOK
  <2>7. call.pc \notin Opened /\ call'.pc \notin Opened /\ call'.pc = "idle"
    BY <1>1 DEF NoCall, Opened
  <2>8. ASSUME NEW d \in Physical
        PROVE  UsersOf(d)' = IF Card(h).card_addr = d THEN UsersOf(d) \ {h} ELSE UsersOf(d)
    <3>1. ASSUME NEW i \in Handles
          PROVE  i \in UsersOf(d)' <=> i # h /\ i \in UsersOf(d)
      <4>1. CASE i = h
        BY <2>4, <2>6, <2>7, <4>1 DEF UsersOf, Card
      <4>2. CASE i # h
        BY <2>6, <2>7, <4>2 DEF UsersOf, Card
      <4>3. QED
        BY <4>1, <4>2
    <3>2. UsersOf(d)' = UsersOf(d) \ {h}
      BY <3>1, UsersFinite, UsersFiniteNext
    <3>3. Card(h).card_addr # d => h \notin UsersOf(d)
      BY DEF UsersOf
    <3>4. QED
      BY <3>2, <3>3
  <2>9. StepKind /\ DevInfo' \in [Physical -> DeviceEntries]
    <3>1. CASE Card(h).card_addr \in Physical
      <4>1. PICK d \in Physical : d = Card(h).card_addr
        BY <3>1
      <4>2. ~Card(h).isUNet /\ h \in UsersOf(d)
        BY <1>3, <4>1 DEF HandlesInv, HandlesReady, Ready, UsersOf
      <4>3. DevInfo' = [DevInfo EXCEPT ![d] = CloseKernelDevice(DevInfo[d])]
        BY <1>3, <4>1, <4>2 DEF Dev
      <4>4. DevInfo \in [Physical -> DeviceEntries] /\ DevInfo[d] \in DeviceEntries
        BY DEF HandlesInv, HandleTypeOK
      <4>5. /\ CloseKernelDevice(DevInfo[d]) \in DeviceEntries
            /\ DevInfo[d].ref > 1 => CloseKernelDevice(DevInfo[d]).mapped = DevInfo[d].mapped
        BY <4>4, CloseFacts
      <4>6. /\ DevInfo' \in [Physical -> DeviceEntries]
            /\ DevInfo'[d] = CloseKernelDevice(DevInfo[d])
            /\ \A e \in Physical \ {d} : DevInfo'[e] = DevInfo[e]
        BY <4>3, <4>4, <4>5
      <4>7. UsersOf(d)' = UsersOf(d) \ {h} /\ \A e \in Physical \ {d} : UsersOf(e)' = UsersOf(e)
        BY <2>8, <4>1
      <4>8. GivenUp(d, h)
        BY <1>1, <4>2, <4>5, <4>6, <4>7 DEF GivenUp, OthersSame
      <4>9. QED
        BY <4>6, <4>8 DEF StepKind
    <3>2. CASE Card(h).card_addr \notin Physical
      <4>1. UNCHANGED DevInfo /\ \A d \in Physical : UsersOf(d)' = UsersOf(d)
        BY <1>3, <2>8, <3>2
      <4>2. QED
        BY <1>1, <4>1 DEF StepKind, Quiet, DevicesKept, HandlesInv, HandleTypeOK
    <3>3. QED
      BY <3>1, <3>2
  <2>10. HandleTypeOK'
    BY <1>1, <2>6, <2>9 DEF HandlesInv, HandleTypeOK
  <2>11. \A i \in Handles : Card(i)'.allocated => Ready(i)'
    BY <2>4, <2>5, <2>9, OthersReady
  <2>12. CallSound' /\ HandlesReady'
    BY <2>7, <2>11 DEF CallSound, HandlesReady
  <2>13. QED
    BY <2>9, <2>10, <2>12 DEF StepGood
<1>4. QED
  BY <1>2, <1>3 DEF Release_Module_Px

LEMMA ControlBankGood == ASSUME HandlesInv, NEW h \in Handles, ControlBank(h) PROVE StepGood
<1>1. /\ call = NoCall /\ call' = NoCall /\ UNCHANGED <<cardpx, g_handlepx>>
      /\ call'.pc = "idle" /\ Card(h).card_addr \in Physical
  BY DEF ControlBank, Called, Ends, NoCall
<1>2. PICK d \in Physical : d = Card(h).card_addr
  BY <1>1
<1>3. DevInfo \in [Physical -> DeviceEntries] /\ DevInfo[d] \in DeviceEntries
  BY DEF HandlesInv, HandleTypeOK
<1>4. \A e \in Physical : UsersOf(e)' = UsersOf(e)
  BY <1>1 DEF UsersOf, Card
<1>5. ASSUME NEW e \in DeviceEntries, DevInfo' = [DevInfo EXCEPT ![d] = e],
             \/ lost' = lost \cup {d}
             \/ /\ lost' = lost /\ e.open = DevInfo[d].open /\ e.ref = DevInfo[d].ref
                /\ DevInfo[d].mapped \subseteq e.mapped
      PROVE  StepGood
  <2>1. /\ DevInfo' \in [Physical -> DeviceEntries] /\ DevInfo'[d] = e
        /\ \A x \in Physical \ {d} : DevInfo'[x] = DevInfo[x]
    BY <1>3, <1>5
  <2>2. HandleTypeOK'
    BY <1>1, <1>5, <2>1 DEF HandlesInv, HandleTypeOK
  <2>3. CASE lost' = lost \cup {d}
    <3>1. Lost(d)
      BY <1>4, <2>1, <2>3 DEF Lost, OthersSame
    <3>2. ASSUME NEW i \in Handles, Card(i)'.allocated PROVE Ready(i)'
      <4>1. Card(i)' = Card(i) /\ Ready(i)
        BY <1>1, <3>2 DEF HandlesInv, HandlesReady, Card
      <4>2. QED
        BY <2>1, <2>3, <4>1 DEF Ready
    <3>3. QED
      BY <1>1, <2>2, <3>1, <3>2 DEF StepGood, StepKind, CallSound, HandlesReady
  <2>4. CASE /\ lost' = lost /\ e.open = DevInfo[d].open /\ e.ref = DevInfo[d].ref
             /\ DevInfo[d].mapped \subseteq e.mapped
    <3>1. DevicesKept
      BY <2>1, <2>4 DEF DevicesKept
    <3>2. ASSUME NEW i \in Handles, Card(i)'.allocated PROVE Ready(i)'
      <4>1. Card(i)' = Card(i) /\ Ready(i)
        BY <1>1, <3>2 DEF HandlesInv, HandlesReady, Card
      <4>2. QED
        BY <2>4, <3>1, <4>1 DEF Ready, DevicesKept
    <3>3. QED
      BY <1>1, <1>4, <2>2, <2>4, <3>1, <3>2
         DEF StepGood, StepKind, Quiet, CallSound, HandlesReady
  <2>5. QED
    BY <1>5, <2>3, <2>4
<1>6. CASE Dev(d, CloseKernelDevice(DevInfo[d])) /\ lost' = lost \cup {d}
  BY <1>3, <1>5, <1>6, CloseFacts DEF Dev
<1>7. CASE UNCHANGED <<DevInfo, lost>>
  BY <1>1, <1>7, NothingGood DEF HandlesInv, HandleTypeOK
<1>8. CASE Dev(d, MapMemory(DevInfo[d], EXC_BANK_CONTROL)) /\ UNCHANGED lost
  <2>1. EXC_BANK_CONTROL \in Nat
    BY DEF EXC_BANK_CONTROL
  <2>2. PICK e \in DeviceEntries :
          /\ e = MapMemory(DevInfo[d], EXC_BANK_CONTROL)
          /\ e.open = DevInfo[d].open /\ e.ref = DevInfo[d].ref
          /\ DevInfo[d].mapped \subseteq e.mapped
    BY <1>3, <2>1, MapFacts
  <2>3. QED
    BY <1>5, <1>8, <2>2 DEF Dev
<1>9. QED
  BY <1>2, <1>6, <1>7, <1>8 DEF ControlBank

(***************************************************************************)
(* The theorems.                                                           *)
(***************************************************************************)
LEMMA HandlesInvInit == HandleInit => HandlesInv
<1> SUFFICES ASSUME HandleInit PROVE HandlesInv
  OBVIOUS
<1>1. /\ Fresh \in Slots /\ ~Fresh.allocated /\ 0 \in Handles
      /\ [open |-> FALSE, ref |-> 0, mapped |-> {}] \in DeviceEntries
  BY HandlesAssumption DEF Fresh, Slots, DeviceNums, DeviceEntries, Handles
<1>2. NoCall \in [pc : CallSteps, h : Handles, reset : BOOLEAN, tries : Nat]
      /\ NoCall.pc = "idle" /\ NoCall.pc \notin Opened
  BY <1>1 DEF NoCall, CallSteps, Opened
<1>3. HandleTypeOK
  BY <1>1, <1>2 DEF HandleInit, HandleTypeOK
<1>4. CallSound /\ HandlesReady
  BY <1>1, <1>2 DEF HandleInit, CallSound, HandlesReady, Card
<1>5. Counted
  <2>1. ASSUME NEW d \in Physical PROVE UsersOf(d) = {}
    BY <1>1, <1>2 DEF HandleInit, UsersOf, Card
  <2>2. Cardinality({}) = 0
    BY FS_EmptySet
  <2>3. QED
    BY <2>1, <2>2 DEF HandleInit, Counted
<1>6. QED
  BY <1>3, <1>4, <1>5 DEF HandlesInv

\* A step of the table, one action at a time.
LEMMA HandleStepGood == ASSUME HandlesInv, HandleNext PROVE StepGood
<1>1. CASE \E d \in DeviceNums, m \in ModuleNums, reset \in BOOLEAN : Init_Attach_Px(d, m, reset)
  BY <1>1, InitAttachGood
<1>2. CASE \E h \in Handles : Release_Module_Px(h) \/ ControlBank(h)
  BY <1>2, ReleaseGood, ControlBankGood
<1>3. CASE \E m \in ModuleNums : Select_Module(m)
  BY <1>3, SelectGood
<1>4. QED
  BY <1>1, <1>2, <1>3, BoardInfoGood, SimulateBankGood, ConnectUNetGood, ResetUNetGood,
     ConnectPCIGood, OpenPCMCIAGood, MapPCMCIAGood, ResetPCMCIAGood, OpenPCIeGood,
     MapPCIeGood, ResetPCIeGood, PopulateGood DEF HandleNext

LEMMA HandlesInvNext == HandlesInv /\ [HandleNext]_HandleVars => HandlesInv'
<1> SUFFICES ASSUME HandlesInv, [HandleNext]_HandleVars PROVE HandlesInv'
  OBVIOUS
<1>1. CASE HandleNext
  <2>1. StepGood
    BY <1>1, HandleStepGood
  <2>2. Counted'
    BY <2>1, KindKeepsCount DEF StepGood, HandlesInv
  <2>3. QED
    BY <2>1, <2>2 DEF StepGood, HandlesInv
<1>2. CASE UNCHANGED HandleVars
  <2>1. \A d : UsersOf(d)' = UsersOf(d)
    BY <1>2 DEF HandleVars, UsersOf, Card
  <2>2. HandleTypeOK' /\ CallSound' /\ HandlesReady'
    BY <1>2 DEF HandleVars, HandlesInv, HandleTypeOK, CallSound, HandlesReady, Ready, Card, cur
  <2>3. Counted'
    BY <1>2, <2>1 DEF HandleVars, HandlesInv, Counted
  <2>4. QED
    BY <2>2, <2>3 DEF HandlesInv
<1>3. QED
  BY <1>1, <1>2

LEMMA HandlesInvHolds == HandleSpec => []HandlesInv
  BY HandlesInvInit, HandlesInvNext, PTL DEF HandleSpec

\* A handle that was given out finds its device open, its bank mapped and its
\* way to the driver, whatever other handles do and whatever fails, for any
\* number of slots, devices and calls: the errors of Init_Attach_Px and the
\* releases close only what they had opened.
THEOREM GivenHandlesUsable == HandleSpec => []HandlesUsable
<1>1. HandlesInv => HandlesUsable
  <2> SUFFICES ASSUME HandlesInv, NEW h \in Handles, Card(h).allocated,
                      Card(h).card_addr \in Physical \ lost
               PROVE  /\ Card(h).bank \in DevInfo[Card(h).card_addr].mapped
                      /\ ReachesDriver(h) = "ok"
    BY DEF HandlesUsable
  <2>1. Ready(h)
    BY DEF HandlesInv, HandlesReady
  <2>2. h \in UsersOf(Card(h).card_addr)
    BY DEF UsersOf
  <2>3. DevInfo[Card(h).card_addr].open
    BY <2>2 DEF HandlesInv, Counted
  <2>4. QED
    BY <2>1, <2>3 DEF Ready, ReachesDriver
<1>2. QED
  BY <1>1, HandlesInvHolds, PTL

\* The handle table implements DeviceUse: each of its steps opens a device for
\* one more handle, closes it for one of its handles, loses one, or touches
\* none, and a device is open exactly while it has a user.
THEOREM TableUsesDevices == HandleSpec => DevicesUsed
<1>1. HandleInit => Use!UseInit
  <2> SUFFICES ASSUME HandleInit PROVE Use!UseInit
    OBVIOUS
  <2>1. ASSUME NEW d \in Physical PROVE UsersOf(d) = {} /\ DevInfo[d].open = FALSE
    BY DEF HandleInit, UsersOf, Card, Fresh, NoCall, Opened
  <2>2. [d \in Physical |-> UsersOf(d)] = [d \in Physical |-> {}]
    BY <2>1
  <2>3. [d \in Physical |-> DevInfo[d].open] = [d \in Physical |-> FALSE]
    BY <2>1
  <2>4. QED
    BY <2>2, <2>3 DEF HandleInit, Use!UseInit
<1>2. HandlesInv /\ HandlesInv' /\ [HandleNext]_HandleVars => [Use!UseNext]_(Use!UseVars)
  <2> SUFFICES ASSUME HandlesInv, HandlesInv', [HandleNext]_HandleVars
               PROVE  [Use!UseNext]_(Use!UseVars)
    OBVIOUS
  <2>1. CASE HandleNext
    BY <2>1, HandleStepGood, KindUses DEF StepGood, HandlesInv
  <2>2. CASE UNCHANGED HandleVars
    <3>1. UNCHANGED <<[d \in Physical |-> UsersOf(d)], [d \in Physical |-> DevInfo[d].open],
                      lost>>
      BY <2>2 DEF HandleVars, UsersOf, Card
    <3>2. QED
      BY <3>1 DEF Use!UseVars
  <2>3. QED
    BY <2>1, <2>2
<1>3. QED
  BY <1>1, <1>2, HandlesInvHolds, PTL DEF HandleSpec, DevicesUsed

(***************************************************************************)
(* Transfers in pieces.                                                    *)
(***************************************************************************)

TransferTypeOK ==
    /\ req \in [long : BOOLEAN, write : BOOLEAN, afdx : BOOLEAN, code : {0, 2, 4, 8},
                off : Nat, len : Nat]
    /\ sent \in Nat /\ left \in Int /\ bufPos \in Nat /\ modPos \in Nat
    /\ req.long => ~req.write /\ ~req.afdx /\ req.code = 0
    /\ ~req.long => sent = req.len
    /\ stage # "refused" => Accepts(req)

\* Without a repeat code the bytes moved are those up to where the transfer has
\* come, and after the first piece it is at a boundary.
PlainSound ==
    /\ sent <= req.len
    /\ stage \in {"align", "middle", "leftover"} =>
          left \in Nat /\ bufPos + left = sent /\ modPos = req.off + bufPos
    /\ stage \in {"middle", "leftover"} => modPos % 8 = 0
    /\ stage \in {"align", "middle"} => moved = Span(0, req.off, bufPos)
    /\ stage = "leftover" => left % 8 # 0 /\ moved = Span(0, req.off, bufPos + Whole)
    /\ stage = "ok" => /\ Span(0, req.off, sent) \subseteq moved
                       /\ \/ moved = Span(0, req.off, sent)
                          \/ req.write /\ (req.off + req.len) % 8 \in 1..4

\* With one, what precedes the middle is a whole number of units.
RepeatSound ==
    /\ stage = "align" => moved = {} /\ left = req.len /\ bufPos = 0 /\ modPos = req.off
    /\ stage = "middle" => /\ modPos = req.off /\ left = req.len - bufPos
                           /\ bufPos \in {0, 2, 4, 6} /\ bufPos % req.code = 0
                           /\ left >= 0 /\ left % 8 = 0
                           /\ moved = Repeat(0, req.off, bufPos, req.code)
    /\ stage # "leftover"
    /\ stage = "ok" => moved = Repeat(0, req.off, req.len, req.code)

TransferInv ==
    /\ TransferTypeOK
    /\ req.code = 0 => PlainSound
    /\ req.code # 0 /\ RepeatKnownGood => RepeatSound

\* One span after the other.
LEMMA SpanJoins ==
    \A a \in Int, b \in Int, n \in Nat, k \in Nat :
       \A e : e \in Span(a, b, n + k) <=> e \in Span(a, b, n) \/ e \in Span(a + n, b + n, k)
<1> SUFFICES ASSUME NEW a \in Int, NEW b \in Int, NEW n \in Nat, NEW k \in Nat
             PROVE  \A e : e \in Span(a, b, n + k)
                           <=> e \in Span(a, b, n) \/ e \in Span(a + n, b + n, k)
  OBVIOUS
<1>1. ASSUME NEW e \in Span(a, b, n) PROVE e \in Span(a, b, n + k)
  <2>1. PICK x \in 0..(n - 1) : e = <<a + x, b + x>>
    BY DEF Span
  <2>2. x \in 0..(n + k - 1)
    OBVIOUS
  <2>3. QED
    BY <2>1, <2>2 DEF Span
<1>2. ASSUME NEW e \in Span(a + n, b + n, k) PROVE e \in Span(a, b, n + k)
  <2>1. PICK x \in 0..(k - 1) : e = <<a + n + x, b + n + x>>
    BY DEF Span
  <2>2. n + x \in 0..(n + k - 1) /\ a + (n + x) = a + n + x /\ b + (n + x) = b + n + x
    OBVIOUS
  <2>3. e = <<a + (n + x), b + (n + x)>>
    BY <2>1, <2>2
  <2>4. QED
    BY <2>2, <2>3 DEF Span
<1>3. ASSUME NEW e \in Span(a, b, n + k)
      PROVE  e \in Span(a, b, n) \/ e \in Span(a + n, b + n, k)
  <2>1. PICK x \in 0..(n + k - 1) : e = <<a + x, b + x>>
    BY DEF Span
  <2>2. CASE x < n
    <3>1. x \in 0..(n - 1)
      BY <2>2
    <3>2. QED
      BY <2>1, <3>1 DEF Span
  <2>3. CASE x >= n
    <3>1. x - n \in 0..(k - 1) /\ a + n + (x - n) = a + x /\ b + n + (x - n) = b + x
      BY <2>3
    <3>2. e = <<a + n + (x - n), b + n + (x - n)>>
      BY <2>1, <3>1
    <3>3. QED
      BY <3>1, <3>2 DEF Span
  <2>4. QED
    BY <2>2, <2>3
<1>4. QED
  BY <1>1, <1>2, <1>3

\* The bytes up to the p-th, and the next ones.
LEMMA SpanGoesOn ==
    \A o \in Nat, p \in Nat, k \in Nat :
       \A e : e \in Span(0, o, p + k) <=> e \in Span(0, o, p) \/ e \in Span(p, o + p, k)
<1> SUFFICES ASSUME NEW o \in Nat, NEW p \in Nat, NEW k \in Nat
             PROVE  \A e : e \in Span(0, o, p + k)
                           <=> e \in Span(0, o, p) \/ e \in Span(p, o + p, k)
  OBVIOUS
<1>1. PICK z \in Int : z = 0
  OBVIOUS
<1>2. o \in Int
  OBVIOUS
<1>3. \A e : e \in Span(z, o, p + k) <=> e \in Span(z, o, p) \/ e \in Span(z + p, o + p, k)
  BY <1>2, SpanJoins
<1>4. z + p = p
  BY <1>1
<1>5. QED
  BY <1>1, <1>3, <1>4

\* Nothing is an empty span, or repeated no times.
LEMMA EmptyPieces ==
    /\ \A a, b : Span(a, b, 0) = {}
    /\ \A a, b, w : Repeat(a, b, 0, w) = {}
<1>1. 0 .. 0 - 1 = {}
  OBVIOUS
<1>2. QED
  BY <1>1 DEF Span, Repeat

\* The remainders of what follows whole units.
LEMMA UnitsFollow ==
    ASSUME NEW w \in {2, 4, 8}, NEW n \in Nat, n % w = 0, NEW x \in Nat
    PROVE  (n + x) % w = x % w /\ x % w \in 0..(w - 1)
<1>1. CASE w = 2
  BY <1>1
<1>2. CASE w = 4
  BY <1>2
<1>3. CASE w = 8
  BY <1>3
<1>4. QED
  BY <1>1, <1>2, <1>3

\* Units at one address, after a whole number of them.
LEMMA RepeatJoins ==
    \A w \in {2, 4, 8}, b \in Int, n \in Nat, k \in Nat :
       n % w = 0 =>
          \A e : e \in Repeat(0, b, n + k, w)
                 <=> e \in Repeat(0, b, n, w) \/ e \in Repeat(n, b, k, w)
<1> SUFFICES ASSUME NEW w \in {2, 4, 8}, NEW b \in Int, NEW n \in Nat, NEW k \in Nat, n % w = 0
             PROVE  \A e : e \in Repeat(0, b, n + k, w)
                           <=> e \in Repeat(0, b, n, w) \/ e \in Repeat(n, b, k, w)
  OBVIOUS
<1>1. ASSUME NEW e \in Repeat(0, b, n, w) PROVE e \in Repeat(0, b, n + k, w)
  <2>1. PICK x \in 0..(n - 1) : e = <<0 + x, b + (x % w)>>
    BY DEF Repeat
  <2>2. x \in 0..(n + k - 1)
    OBVIOUS
  <2>3. QED
    BY <2>1, <2>2 DEF Repeat
<1>2. ASSUME NEW e \in Repeat(n, b, k, w) PROVE e \in Repeat(0, b, n + k, w)
  <2>1. PICK x \in 0..(k - 1) : e = <<n + x, b + (x % w)>>
    BY DEF Repeat
  <2>2. n + x \in 0..(n + k - 1) /\ 0 + (n + x) = n + x /\ (n + x) % w = x % w
    BY UnitsFollow
  <2>3. e = <<0 + (n + x), b + ((n + x) % w)>>
    BY <2>1, <2>2
  <2>4. QED
    BY <2>2, <2>3 DEF Repeat
<1>3. ASSUME NEW e \in Repeat(0, b, n + k, w)
      PROVE  e \in Repeat(0, b, n, w) \/ e \in Repeat(n, b, k, w)
  <2>1. PICK x \in 0..(n + k - 1) : e = <<0 + x, b + (x % w)>>
    BY DEF Repeat
  <2>2. CASE x < n
    <3>1. x \in 0..(n - 1)
      BY <2>2
    <3>2. QED
      BY <2>1, <3>1 DEF Repeat
  <2>3. CASE x >= n
    <3>1. PICK y \in 0..(k - 1) : x = n + y
      BY <2>3, x - n \in 0..(k - 1)
    <3>2. 0 + x = n + y /\ x % w = y % w
      BY <3>1, UnitsFollow
    <3>3. e = <<n + y, b + (y % w)>>
      BY <2>1, <3>2
    <3>4. QED
      BY <3>3 DEF Repeat
  <2>4. QED
    BY <2>2, <2>3
<1>4. QED
  BY <1>1, <1>2, <1>3

\* The bytes up to the boundary, moved from one double word or from two, are
\* the next ones.
LEMMA AlignMovesNext ==
    ASSUME bufPos \in Nat, modPos \in Nat, modPos % 8 # 0
    PROVE  /\ ToBoundary \in 1..7 /\ (modPos + ToBoundary) % 8 = 0
           /\ AlignPiece = Span(bufPos, modPos, ToBoundary)
<1>1. PICK p \in Nat : p = modPos
  OBVIOUS
<1>2. PICK r \in 1..7 : r = p % 8
  BY <1>1
<1>3. ToBoundary = 8 - r /\ (p + (8 - r)) % 8 = 0
  BY <1>1, <1>2 DEF ToBoundary
<1>4. DoubleWord = IF r < 4 THEN p - r ELSE p - (r - 4)
  BY <1>1, <1>2 DEF DoubleWord
<1>5. CASE r < 4
  <2>1. DoubleWord + 4 - (4 - r) = p /\ DoubleWord + 4 = p + (4 - r) /\ 4 - r > 0
        /\ ToBoundary >= 4 /\ ToBoundary - 4 = 4 - r /\ (4 - r) + 4 = 8 - r /\ 4 - r \in Nat
    BY <1>2, <1>3, <1>4, <1>5
  <2>2. AlignPiece = Span(bufPos, p, 4 - r) \cup Span(bufPos + (4 - r), p + (4 - r), 4)
    BY <2>1 DEF AlignPiece
  <2>3. AlignPiece = Span(bufPos, p, (4 - r) + 4)
    <3>1. PICK c \in Nat, d \in Nat : c = bufPos /\ d = 4 - r
      BY <2>1
    <3>2. \A e : e \in Span(c, p, d + 4) <=> e \in Span(c, p, d) \/ e \in Span(c + d, p + d, 4)
      <4>1. PICK f \in Nat : f = 4
        OBVIOUS
      <4>2. c \in Int /\ p \in Int
        OBVIOUS
      <4>3. \A e : e \in Span(c, p, d + f) <=> e \in Span(c, p, d) \/ e \in Span(c + d, p + d, f)
        BY <4>2, SpanJoins
      <4>4. QED
        BY <4>1, <4>3
    <3>3. AlignPiece = Span(c, p, d) \cup Span(c + d, p + d, 4)
      BY <2>2, <3>1
    <3>4. AlignPiece = Span(c, p, d + 4)
      BY <3>2, <3>3
    <3>5. QED
      BY <3>1, <3>4
  <2>4. QED
    BY <1>1, <1>3, <2>1, <2>3
<1>6. CASE r = 4
  <2>1. DoubleWord = p /\ ToBoundary = 4 /\ bufPos + 0 = bufPos
    BY <1>2, <1>3, <1>4, <1>6
  <2>2. AlignPiece = Span(bufPos, p + 4 - 0, 0) \cup Span(bufPos + 0, p, 4)
    BY <2>1 DEF AlignPiece
  <2>3. AlignPiece = Span(bufPos, p, 4)
    BY <2>1, <2>2, EmptyPieces
  <2>4. QED
    BY <1>1, <1>3, <1>6, <2>1, <2>3
<1>7. CASE r > 4
  <2>1. DoubleWord + 4 - (8 - r) = p /\ ToBoundary = 8 - r /\ ~(ToBoundary >= 4)
    BY <1>2, <1>3, <1>4, <1>7
  <2>2. AlignPiece = Span(bufPos, p, 8 - r)
    BY <2>1 DEF AlignPiece
  <2>3. QED
    BY <1>1, <1>3, <2>1, <2>2
<1>8. QED
  BY <1>5, <1>6, <1>7

\* Every step keeps the request and the types.
LEMMA TransferTypes == TransferInv /\ [TransferNext]_TransferVars => TransferTypeOK' /\ req' = req
<1> SUFFICES ASSUME TransferInv, [TransferNext]_TransferVars PROVE TransferTypeOK' /\ req' = req
  OBVIOUS
<1>1. TransferTypeOK
  BY DEF TransferInv
<1>2. CASE Align
  <2>1. req' = req /\ sent' = sent /\ left' \in Int /\ bufPos' \in Nat /\ modPos' \in Nat
    <3>1. CASE modPos % 8 = 0
      BY <1>1, <1>2, <3>1 DEF Align, TransferTypeOK
    <3>2. CASE modPos % 8 # 0
      <4>1. ToBoundary \in 1..7
        BY <1>1, <3>2, AlignMovesNext DEF TransferTypeOK
      <4>2. QED
        BY <1>1, <1>2, <3>2, <4>1 DEF Align, TransferTypeOK
    <3>3. QED
      BY <3>1, <3>2
  <2>2. stage # "refused"
    BY <1>2 DEF Align
  <2>3. QED
    BY <1>1, <2>1, <2>2 DEF TransferTypeOK, Accepts
<1>3. CASE RepeatLeading
  <2>1. PICK n \in 0..7 : left' = left - n /\ bufPos' = bufPos + n
    BY <1>1, <1>3, left % 8 \in 0..7 DEF RepeatLeading, TransferTypeOK
  <2>2. req' = req /\ sent' = sent /\ modPos' = modPos /\ stage # "refused"
    BY <1>3 DEF RepeatLeading
  <2>3. QED
    BY <1>1, <2>1, <2>2 DEF TransferTypeOK, Accepts
<1>4. CASE MiddleByHand \/ MiddleByDma \/ NoMiddle \/ Leftover
  <2>1. /\ UNCHANGED <<req, sent, left, bufPos, modPos>> /\ stage # "refused"
    BY <1>4 DEF MiddleByHand, MiddleByDma, NoMiddle, Leftover
  <2>2. QED
    BY <1>1, <2>1 DEF TransferTypeOK, Accepts
<1>5. CASE PerformLongDMARead
  <2>1. /\ req' = req /\ stage # "refused" /\ sent < req.len
        /\ left' = Chunk(req.len - sent) /\ sent' = sent + left'
        /\ bufPos' = sent /\ modPos' = req.off + sent
    BY <1>5 DEF PerformLongDMARead
  <2>2. req.long /\ req.len \in Nat /\ req.off \in Nat /\ sent \in Nat
    BY <1>1, <2>1 DEF TransferTypeOK
  <2>3. left' \in Nat
    BY <2>1, <2>2, TransferAssumption DEF Chunk
  <2>4. QED
    BY <1>1, <2>1, <2>2, <2>3 DEF TransferTypeOK, Accepts
<1>6. CASE UNCHANGED TransferVars
  BY <1>1, <1>6 DEF TransferVars, TransferTypeOK, Accepts
<1>7. QED
  BY <1>2, <1>3, <1>4, <1>5, <1>6 DEF TransferNext

\* The last piece: whole units, and fewer than eight bytes.
LEMMA WholeAndRest ==
    ASSUME left \in Nat
    PROVE  /\ Whole \in Nat /\ left % 8 \in 0..7 /\ Whole + (left % 8) = left
           /\ Whole % 8 = 0 /\ (left % 8 = 0 => Whole = left)
BY DEF Whole

\* A transfer without a repeat code goes on where it has come to.
LEMMA PlainStep ==
    ASSUME TransferInv, [TransferNext]_TransferVars, req.code = 0
    PROVE  PlainSound'
<1>1. /\ TransferTypeOK /\ PlainSound /\ req' = req
  BY TransferTypes DEF TransferInv
<1>2. PICK o \in Nat, n \in Nat : o = req.off /\ n = req.len
  BY <1>1 DEF TransferTypeOK
<1>3. sent \in Nat /\ bufPos \in Nat /\ modPos \in Nat /\ 0 + bufPos = bufPos
  BY <1>1 DEF TransferTypeOK
<1>4. CASE Align
  <2>1. /\ stage = "align" /\ left \in Nat /\ bufPos + left = sent
        /\ modPos = o + bufPos /\ moved = Span(0, o, bufPos) /\ sent <= n /\ sent' = sent
    BY <1>1, <1>2, <1>4 DEF Align, PlainSound
  <2>2. CASE modPos % 8 = 0
    BY <1>1, <1>2, <1>4, <2>1, <2>2 DEF Align, PlainSound
  <2>3. CASE modPos % 8 # 0
    <3>1. PICK t \in 1..7 : /\ t = ToBoundary /\ (modPos + t) % 8 = 0
                            /\ AlignPiece = Span(bufPos, modPos, t)
      BY <1>3, <2>3, AlignMovesNext
    <3>2. /\ left' = left - t /\ bufPos' = bufPos + t /\ modPos' = modPos + t
          /\ stage' = (IF left < t THEN "wild" ELSE "middle")
          /\ moved' = moved \cup Span(bufPos, modPos, t)
      BY <1>4, <2>3, <3>1 DEF Align
    <3>3. moved' = Span(0, o, bufPos + t)
      <4>1. \A e : e \in Span(0, o, bufPos + t)
                    <=> e \in Span(0, o, bufPos) \/ e \in Span(bufPos, modPos, t)
        BY <1>3, <2>1, t \in Nat, SpanGoesOn
      <4>2. QED
        BY <2>1, <3>2, <4>1
    <3>4. QED
      BY <1>1, <1>2, <1>3, <2>1, <3>1, <3>2, <3>3 DEF PlainSound
  <2>4. QED
    BY <2>2, <2>3
<1>5. CASE RepeatLeading
  BY <1>5 DEF RepeatLeading
<1>6. CASE MiddleByHand \/ MiddleByDma \/ NoMiddle
  <2>1. /\ stage = "middle" /\ left \in Nat /\ bufPos + left = sent /\ modPos % 8 = 0
        /\ modPos = o + bufPos /\ moved = Span(0, o, bufPos) /\ sent <= n
        /\ UNCHANGED <<req, sent, left, bufPos, modPos>>
    BY <1>1, <1>2, <1>6 DEF MiddleByHand, MiddleByDma, NoMiddle, PlainSound
  <2>2. /\ Whole \in Nat /\ Whole' = Whole /\ Whole + (left % 8) = left
        /\ (left % 8 = 0 => Whole = left)
    BY <2>1, WholeAndRest DEF Whole
  <2>3. Span(0, o, bufPos) \cup Span(bufPos, modPos, Whole) = Span(0, o, bufPos + Whole)
    <3>1. \A e : e \in Span(0, o, bufPos + Whole)
                  <=> e \in Span(0, o, bufPos) \/ e \in Span(bufPos, modPos, Whole)
      BY <1>3, <2>1, <2>2, SpanGoesOn
    <3>2. QED
      BY <3>1
  <2>4. stage' = "failed" \/ (stage' = Rest /\ moved' = Span(0, o, bufPos + Whole))
    <3>1. CASE MiddleByHand
      <4>1. UnitStart = modPos
        BY <1>3, <2>1 DEF UnitStart, UnitMoved
      <4>2. QED
        BY <2>1, <2>3, <3>1, <4>1 DEF MiddleByHand
    <3>2. CASE MiddleByDma
      BY <2>1, <2>3, <3>2 DEF MiddleByDma
    <3>3. CASE NoMiddle
      <4>1. Whole = 0 /\ bufPos + Whole = bufPos
        BY <1>3, <3>3 DEF NoMiddle
      <4>2. QED
        BY <2>1, <3>3, <4>1 DEF NoMiddle
    <3>4. QED
      BY <1>6, <3>1, <3>2, <3>3
  <2>5. CASE stage' = "failed"
    BY <1>1, <1>2, <2>1, <2>5 DEF PlainSound
  <2>6. CASE stage' = Rest /\ left % 8 = 0 /\ moved' = Span(0, o, bufPos + Whole)
    <3>1. stage' = "ok" /\ bufPos + Whole = sent
      BY <2>1, <2>2, <2>6 DEF Rest
    <3>2. QED
      BY <1>1, <1>2, <2>1, <2>6, <3>1 DEF PlainSound
  <2>7. CASE stage' = Rest /\ left % 8 # 0 /\ moved' = Span(0, o, bufPos + Whole)
    BY <1>1, <1>2, <2>1, <2>2, <2>7 DEF PlainSound, Rest
  <2>8. QED
    BY <2>4, <2>5, <2>6, <2>7
<1>7. CASE Leftover
  <2>1. /\ stage = "leftover" /\ left \in Nat /\ bufPos + left = sent /\ modPos % 8 = 0
        /\ modPos = o + bufPos /\ left % 8 # 0 /\ moved = Span(0, o, bufPos + Whole)
        /\ stage' = "ok" /\ moved' = moved \cup LeftPiece /\ sent' = sent /\ sent <= n
    BY <1>1, <1>2, <1>7 DEF Leftover, PlainSound
  <2>2. PICK w \in Nat, k \in 0..7 : /\ w = Whole /\ k = left % 8 /\ w + k = left
                                    /\ w % 8 = 0 /\ DoubleWord = modPos
    <3>1. DoubleWord = modPos
      BY <1>3, <2>1 DEF DoubleWord
    <3>2. QED
      BY <2>1, <3>1, WholeAndRest
  <2>3. Span(0, o, bufPos + w) \cup Span(bufPos + w, modPos + w, k) = Span(0, o, sent)
    <3>1. 0 + (bufPos + w) = bufPos + w /\ o + (bufPos + w) = modPos + w
          /\ (bufPos + w) + k = sent
      BY <1>3, <2>1, <2>2
    <3>2. PICK p \in Nat : p = bufPos + w
      BY <1>3
    <3>3. \A e : e \in Span(0, o, p + k) <=> e \in Span(0, o, p) \/ e \in Span(p, o + p, k)
      BY k \in Nat, SpanGoesOn
    <3>4. QED
      BY <3>1, <3>2, <3>3
  <2>4. CASE req.write /\ k <= 4
    <3>1. LeftPiece = Span(bufPos + w, modPos + w, k) \cup Span(bufPos + w + k, modPos + w + 4, k)
      BY <2>2, <2>4 DEF LeftPiece
    <3>2. Span(0, o, sent) \subseteq moved'
      BY <2>1, <2>2, <2>3, <3>1
    <3>3. (o + n) % 8 \in 1..4
      <4>1. sent = n
        BY <1>1, <1>2, <2>4 DEF TransferTypeOK
      <4>2. o + n = modPos + w + k /\ k \in 1..4
        BY <1>3, <2>1, <2>2, <2>4, <4>1
      <4>3. (modPos + w + k) % 8 = k
        BY <1>3, <2>1, <2>2, <4>2
      <4>4. QED
        BY <4>2, <4>3
    <3>4. QED
      BY <1>1, <1>2, <2>1, <2>4, <3>2, <3>3 DEF PlainSound
  <2>5. CASE ~(req.write /\ k <= 4)
    <3>1. LeftPiece = Span(bufPos + w, modPos + w, k)
      BY <2>2, <2>5 DEF LeftPiece
    <3>2. moved' = Span(0, o, sent)
      BY <2>1, <2>2, <2>3, <3>1
    <3>3. QED
      BY <1>1, <1>2, <2>1, <3>2 DEF PlainSound
  <2>6. QED
    BY <2>4, <2>5
<1>8. CASE PerformLongDMARead
  <2>1. /\ stage = "ok" /\ sent < n /\ stage' = "align" /\ moved' = moved
        /\ left' = Chunk(n - sent) /\ sent' = sent + left'
        /\ bufPos' = sent /\ modPos' = o + sent
    BY <1>2, <1>8 DEF PerformLongDMARead
  <2>2. req.long /\ ~req.write
    BY <1>1, <1>2, <2>1 DEF TransferTypeOK
  <2>3. moved = Span(0, o, sent)
    BY <1>1, <1>2, <2>1, <2>2 DEF PlainSound
  <2>4. left' \in Nat /\ left' <= n - sent
    BY <1>3, <2>1, TransferAssumption DEF Chunk
  <2>5. sent' <= n /\ bufPos' + left' = sent'
    BY <1>3, <2>1, <2>4
  <2>6. QED
    BY <1>1, <1>2, <2>1, <2>3, <2>4, <2>5 DEF PlainSound
<1>9. CASE UNCHANGED TransferVars
  BY <1>1, <1>9 DEF TransferVars, PlainSound, Whole
<1>10. QED
  BY <1>4, <1>5, <1>6, <1>7, <1>8, <1>9 DEF TransferNext

\* A transfer with a repeat code moves whole units, all at the place asked for.
LEMMA RepeatStep ==
    ASSUME TransferInv, [TransferNext]_TransferVars, req.code # 0, RepeatKnownGood
    PROVE  RepeatSound'
<1>1. /\ TransferTypeOK /\ RepeatSound /\ req' = req
  BY TransferTypes DEF TransferInv
<1>2. PICK o \in Nat, n \in Nat, w \in {2, 4, 8} : o = req.off /\ n = req.len /\ w = req.code
  BY <1>1 DEF TransferTypeOK
<1>3. bufPos \in Nat /\ modPos \in Nat /\ left \in Int /\ ~req.long /\ sent = n
  BY <1>1, <1>2 DEF TransferTypeOK
<1>4. /\ n % 8 = 0 \/ (o = 0 /\ w # 8)
      /\ n >= 16 \/ (w = UnitMoved /\ o % UnitMoved = 0)
  BY <1>2 DEF RepeatKnownGood
<1>5. CASE Align
  BY <1>5 DEF Align
<1>6. CASE RepeatLeading
  <2>1. /\ stage = "align" /\ moved = {} /\ left = n /\ bufPos = 0 /\ modPos = o
        /\ stage' = "middle" /\ modPos' = modPos
    BY <1>1, <1>2, <1>6 DEF RepeatLeading, RepeatSound
  <2>2. Accepts(req)
    BY <1>1, <2>1 DEF TransferTypeOK
  <2>3. PICK k \in 0..7 : k = IF w = 8 THEN 0 ELSE n % 8
    BY n % 8 \in 0..7
  <2>4. /\ moved' = moved \cup Repeat(bufPos, modPos * w, k, w)
        /\ left' = left - k /\ bufPos' = bufPos + k
    BY <1>2, <1>6, <2>1, <2>3 DEF RepeatLeading
  <2>5. k \in {0, 2, 4, 6} /\ k % w = 0 /\ n - k >= 0 /\ (n - k) % 8 = 0
    <3>1. CASE w = 2
      BY <1>2, <2>2, <2>3, <3>1 DEF Accepts
    <3>2. CASE w = 4
      BY <1>2, <2>2, <2>3, <3>2 DEF Accepts
    <3>3. CASE w = 8
      BY <1>4, <2>3, <3>3
    <3>4. QED
      BY <3>1, <3>2, <3>3
  <2>6. Repeat(0, o * w, k, w) = Repeat(0, o, k, w)
    <3>1. CASE k = 0
      BY <3>1, EmptyPieces
    <3>2. CASE k # 0
      <4>1. o = 0
        BY <1>4, <2>3, <3>2
      <4>2. o * w = o
        BY <4>1
      <4>3. QED
        BY <4>2
    <3>3. QED
      BY <3>1, <3>2
  <2>7. /\ moved' = Repeat(0, o, k, w) /\ left' = n - k /\ bufPos' = k /\ modPos' = o
    BY <2>1, <2>4, <2>6
  <2>8. QED
    BY <1>1, <1>2, <2>1, <2>5, <2>7 DEF RepeatSound
<1>7. CASE MiddleByHand \/ MiddleByDma \/ NoMiddle
  <2>1. /\ stage = "middle" /\ modPos = o /\ left = n - bufPos /\ left \in Nat
        /\ bufPos \in {0, 2, 4, 6} /\ bufPos % w = 0 /\ left % 8 = 0
        /\ moved = Repeat(0, o, bufPos, w)
    BY <1>1, <1>2, <1>3, <1>7 DEF MiddleByHand, MiddleByDma, NoMiddle, RepeatSound
  <2>2. Whole = left /\ Rest = "ok"
    BY <2>1, WholeAndRest DEF Rest
  <2>3. Repeat(0, o, bufPos, w) \cup Repeat(bufPos, o, left, w) = Repeat(0, o, n, w)
    <3>1. bufPos + left = n
      BY <2>1
    <3>2. PICK p \in Nat, k \in Nat : p = bufPos /\ k = left
      BY <1>3, <2>1
    <3>3. p % w = 0 /\ o \in Int
      BY <2>1, <3>2
    <3>4. \A e : e \in Repeat(0, o, p + k, w)
                  <=> e \in Repeat(0, o, p, w) \/ e \in Repeat(p, o, k, w)
      BY <3>3, RepeatJoins
    <3>5. QED
      BY <3>1, <3>2, <3>4
  <2>4. stage' = "failed" \/ (stage' = "ok" /\ moved' = Repeat(0, o, n, w))
    <3>1. CASE MiddleByHand
      <4>1. left < 16
        BY <2>2, <3>1 DEF MiddleByHand
      <4>2. n < 16
        BY <2>1, <4>1
      <4>3. w = UnitMoved /\ UnitStart = o
        <5>1. w = UnitMoved /\ modPos % UnitMoved = 0
          BY <1>4, <2>1, <4>2
        <5>2. UnitStart = modPos - 0 /\ modPos - 0 = modPos
          BY <1>3, <5>1 DEF UnitStart
        <5>3. QED
          BY <2>1, <5>1, <5>2
      <4>4. moved' = moved \cup Repeat(bufPos, UnitStart, Whole, UnitMoved) /\ stage' = Rest
        BY <1>2, <3>1 DEF MiddleByHand
      <4>5. QED
        BY <2>1, <2>2, <2>3, <4>3, <4>4
    <3>2. CASE MiddleByDma
      BY <1>2, <2>1, <2>2, <2>3, <3>2 DEF MiddleByDma
    <3>3. CASE NoMiddle
      <4>1. left = 0 /\ bufPos = n
        BY <2>1, <2>2, <3>3 DEF NoMiddle
      <4>2. QED
        BY <2>1, <2>2, <3>3, <4>1 DEF NoMiddle
    <3>4. QED
      BY <1>7, <3>1, <3>2, <3>3
  <2>5. QED
    BY <1>1, <1>2, <2>4 DEF RepeatSound
<1>8. CASE Leftover
  BY <1>1, <1>8 DEF Leftover, RepeatSound
<1>9. CASE PerformLongDMARead
  BY <1>2, <1>3, <1>9 DEF PerformLongDMARead
<1>10. CASE UNCHANGED TransferVars
  BY <1>1, <1>10 DEF TransferVars, RepeatSound
<1>11. QED
  BY <1>5, <1>6, <1>7, <1>8, <1>9, <1>10 DEF TransferNext

\* A transfer that reports success has moved what was asked for and no more but
\* for the exceptions that TransferExact names: for any address, any length, any
\* size of the pieces of a long read, with and without a repeat code.
THEOREM TransfersAreExact == TransferSpec => []TransferExact
<1>1. TransferInit => TransferInv
  <2> SUFFICES ASSUME TransferInit PROVE TransferInv
    OBVIOUS
  <2>1. PICK o \in Nat, n \in Nat : o = req.off /\ n = req.len
    BY TransferAssumption DEF TransferInit
  <2>2. left = Chunk(n) /\ sent = left /\ left \in Nat /\ left <= n /\ (~req.long => left = n)
    BY <2>1, TransferAssumption DEF TransferInit, Chunk
  <2>3. TransferTypeOK
    BY <2>1, <2>2, TransferAssumption DEF TransferInit, TransferTypeOK
  <2>4. stage \in {"align", "refused"} /\ bufPos = 0 /\ modPos = o /\ moved = {}
    BY <2>1 DEF TransferInit
  <2>5. PlainSound
    BY <2>1, <2>2, <2>4, EmptyPieces DEF PlainSound
  <2>6. req.code # 0 => RepeatSound
    BY <2>1, <2>2, <2>3, <2>4 DEF RepeatSound, TransferTypeOK
  <2>7. QED
    BY <2>3, <2>5, <2>6 DEF TransferInv
<1>2. TransferInv /\ [TransferNext]_TransferVars => TransferInv'
  <2> SUFFICES ASSUME TransferInv, [TransferNext]_TransferVars PROVE TransferInv'
    OBVIOUS
  <2>1. TransferTypeOK' /\ req' = req
    BY TransferTypes
  <2>2. RepeatKnownGood' <=> RepeatKnownGood
    BY <2>1 DEF RepeatKnownGood, UnitMoved
  <2>3. req'.code = 0 => PlainSound'
    BY <2>1, PlainStep
  <2>4. req'.code # 0 /\ RepeatKnownGood' => RepeatSound'
    BY <2>1, <2>2, RepeatStep
  <2>5. QED
    BY <2>1, <2>3, <2>4 DEF TransferInv
<1>3. TransferInv => TransferExact
  BY DEF TransferInv, TransferExact, PlainSound, RepeatSound, Wanted
<1>4. QED
  BY <1>1, <1>2, <1>3, PTL DEF TransferSpec

(***************************************************************************)
(* The mode.                                                               *)
(***************************************************************************)
\* ModeAgrees, during the calls too.
ModeSound == /\ hostMode = agreed
             /\ boardMode = agreed \/ (boardMode = "none" /\ lostMode)

\* Between calls the handle has the mode last given to the module, and so has
\* the module unless a reset was not seen through: for any module, any modes
\* asked for and any number of calls, whichever wait of them runs out.
THEOREM ModeCopiesAgree == ModeSpec => []ModeAgrees
<1>1. ModeInit => ModeSound
  BY DEF ModeInit, ModeSound
<1>2. ModeSound /\ [ModeNext]_ModeVars => ModeSound'
  <2> SUFFICES ASSUME ModeSound, [ModeNext]_ModeVars PROVE ModeSound'
    OBVIOUS
  <2>1. CASE KeepsMode
    BY <2>1 DEF ModeSound, KeepsMode
  <2>2. ASSUME NEW m, WritesMode(m) PROVE ModeSound'
    BY <2>2 DEF ModeSound, WritesMode
  <2>3. ASSUME NEW m, Set_Mode_Px(m) PROVE ModeSound'
    BY <2>1, <2>3 DEF Set_Mode_Px, ModeSound
  <2>4. CASE UNCHANGED ModeVars
    BY <2>4 DEF ModeVars, ModeSound
  <2>5. CASE Announces \/ BecomesReady \/ Halts \/ BoardStarts \/ TestDone
    BY <2>1, <2>5 DEF Announces, BecomesReady, Halts, BoardStarts, TestDone
  <2>6. CASE SetModeFound \/ SetModeTimeout \/ SetModeWrites
    BY <2>1, <2>2, <2>6 DEF SetModeFound, SetModeTimeout, SetModeWrites
  <2>7. CASE Internal_Loopback_Px \/ External_Loopback_Px \/ LoopbackRuns \/ LoopbackEnds
    BY <2>1, <2>2, <2>7 DEF Internal_Loopback_Px, External_Loopback_Px, LoopbackStart,
                            LoopbackRuns, LoopbackEnds
  <2>8. CASE Set_ModuleTime_Px \/ ModuleTimeSets \/ ModuleTimeEnds \/ WaitRunsOut \/ Restart_Px
    BY <2>1, <2>2, <2>8 DEF Set_ModuleTime_Px, ModuleTimeSets, ModuleTimeEnds, WaitRunsOut,
                            Restart_Px
  <2>9. QED
    BY <2>3, <2>4, <2>5, <2>6, <2>7, <2>8 DEF ModeNext
<1>3. ModeSound => ModeAgrees
  BY DEF ModeSound, ModeAgrees
<1>4. QED
  BY <1>1, <1>2, <1>3, PTL DEF ModeSpec

(***************************************************************************)
(* The running bus controller.                                             *)
(***************************************************************************)
JumpSteps == {"jump check", "jump undo", "jump clear", "jump pointer", "jump count"}
HostSteps == {"idle", "counter", "async count", "clear", "jump go"} \cup JumpSteps
Codes == {"MSG", "SKIP", "JUMP"}
ControlWords == [code : Codes, halt : BOOLEAN]
HostCalls == [step : HostSteps, id : MsgIds \cup {0}, frame : Frames \cup {0}, cnt : Nat, was : BOOLEAN,
              orig : Codes, entry : Nat]
RunRegisters == [pointer : Nat, counter : Nat, start : {"none", "once", "loop"},
              asyncPtr : Nat, asyncNum : Nat, asyncStart : BOOLEAN]
BoardStates == [running : BOOLEAN, at : Nat, left : Nat, sending : Nat,
                loop : BOOLEAN, back : {<<>>} \cup (Nat \X Nat)]

RunTypeOK ==
    /\ ctl \in [MsgIds -> ControlWords]
    /\ cmd \in [MsgIds -> {"MSG", "JUMP"}]
    /\ words \in [MsgIds -> [ptr : Nat, cnt : Nat]]
    /\ status \in [Entries -> {"zero", "noalter", "done"}]
    /\ regs \in RunRegisters /\ curstack \in Nat
    /\ board \in BoardStates /\ host \in HostCalls
    /\ wiped \in SUBSET Entries /\ loose \in BOOLEAN /\ negative \in BOOLEAN

\* What the host's call in progress has made sure of.
HostSound ==
    /\ host.step \in JumpSteps \cup {"jump go"} =>
          /\ host.id \in MsgIds /\ host.frame \in Frames
          /\ ~negative => host.cnt <= MsgCnt(host.frame)
    /\ host.step \in JumpSteps => ctl[host.id] = [code |-> "JUMP", halt |-> TRUE]
    /\ host.step \in {"jump check", "jump undo"} /\ host.orig = "JUMP" =>
          negative \/ InOneFrame(words[host.id].ptr, words[host.id].cnt)
    /\ host.step = "jump count" => words[host.id].ptr = First(host.frame)
    /\ host.step \in {"clear", "jump clear"} => host.entry \in Entries
    /\ host.step = "counter" =>
          \E f \in Frames : regs.pointer = First(f) /\ (~negative => host.cnt <= MsgCnt(f))
    /\ host.step = "async count" =>
          \E f \in Frames : regs.asyncPtr = First(f) /\ (~negative => host.cnt <= MsgCnt(f))

\* A jump that no call is working on leads into a frame.
JumpsSound ==
    \A id \in MsgIds : ctl[id].code = "JUMP" =>
       \/ InOneFrame(words[id].ptr, words[id].cnt)
       \/ host.step \in JumpSteps /\ host.id = id
       \/ negative

RegsSound ==
    /\ curstack = 0 <=> regs.pointer = 0
    /\ host.step # "counter" /\ regs.pointer # 0 /\ ~negative => InOneFrame(regs.pointer, regs.counter)
    /\ host.step # "async count" /\ regs.asyncPtr # 0 /\ ~negative => InOneFrame(regs.asyncPtr, regs.asyncNum)
    /\ regs.asyncNum >= 1 \/ regs.asyncStart => regs.asyncPtr # 0

BoardSound ==
    /\ board.running => regs.pointer # 0 /\ regs.start = "none"
    /\ ~board.running => board.sending = 0 /\ board.back = <<>>
    /\ board.sending # 0 => /\ board.sending \in Entries /\ board.left > 0
                            /\ \/ status[board.sending] = "noalter"
                               \/ board.sending \in wiped
    /\ board.back # <<>> /\ ~loose /\ ~negative => InOneFrame(board.back[1], board.back[2])

\* JumpWhole, from the check on.
JumpGuarded ==
    host.step \in {"jump clear", "jump pointer", "jump count"} /\ Guarded(host.id)
        => board.sending = 0 \/ Stack[board.sending] # host.id

RunInv == /\ RunTypeOK /\ HostSound /\ JumpsSound /\ RegsSound /\ BoardSound
          /\ JumpGuarded /\ RunsWholeFrames

\* What the constants say: entries and frames.
LEMMA FrameFacts ==
    ASSUME NEW f \in Frames
    PROVE  First(f) \in Nat /\ First(f) > 0 /\ MsgCnt(f) \in Nat
  BY FrameAssumption

\* What a routine stores of a count it accepts.
LEMMA StoredFacts ==
    ASSUME NEW f \in Frames, NEW n \in Counts, n <= MsgCnt(f)
    PROVE  Stored(f, n) \in Nat /\ (n >= 0 => Stored(f, n) <= MsgCnt(f))
<1>1. n \in Int /\ MsgCnt(f) \in Int /\ MsgCnt(f) \in Nat
  BY FrameFacts, CountsAssumption
<1>2. n % 65536 \in Nat
  BY <1>1, SMT
<1> DEFINE c == MsgCnt(f)
<1>b. c \in UShort
  BY CountsAssumption
<1>d. c \in Int /\ n <= c
  BY <1>1
<1> HIDE DEF c
<1>c. c <= 65535
  BY <1>b, SMT DEF UShort
<1>3. n >= 0 => n % 65536 = n
  BY <1>1, <1>c, <1>d, SMT
<1>4. QED
  BY <1>1, <1>2, <1>3, SMT DEF Stored

LEMMA StackFacts ==
    /\ Len(Stack) \in Nat /\ Entries = 1 .. Len(Stack)
    /\ \A e \in Entries : e \in Nat /\ Stack[e] \in MsgIds /\ Stack[e] \in Nat
    /\ \A id \in MsgIds : id \in Nat /\ Len(Stack) \in Entries
                          /\ \E e \in Entries : Stack[e] = id
  BY FrameAssumption DEF Entries, MsgIds, Range

\* The smallest number of a set of numbers is one of them, and smallest.
LEMMA SmallestOf ==
    ASSUME NEW S \in SUBSET Nat, S # {}
    PROVE  LET m == CHOOSE h \in S : \A i \in S : h <= i
           IN  m \in S /\ \A i \in S : m <= i
<1>1. PICK R : R = OpToRel(<, Nat)
  OBVIOUS
<1>2. \A x, y \in Nat : y < x => <<y, x>> \in R
  BY <1>1 DEF OpToRel
<1>3. PICK x \in S : \A y \in S : ~(<<y, x>> \in R)
  BY <1>1, NatLessThanWellFounded, WFMin
<1>4. ASSUME NEW y \in S PROVE x <= y
  <2>1. x \in Nat /\ y \in Nat /\ ~(y < x)
    BY <1>2, <1>3
  <2>2. QED
    BY <2>1
<1>5. QED
  BY <1>4

\* The status search ends at an entry of the stack; at the message's, when it
\* has one entry and the search starts before it.
LEMMA FoundFacts ==
    ASSUME NEW id \in MsgIds
    PROVE  /\ Found(id) \in Entries
           /\ Guarded(id) => Stack[Found(id)] = id /\ Found(id) \notin wiped
                             /\ \A x \in Entries : Stack[x] = id => x = Found(id)
<1> DEFINE there == {e \in Entries : e >= curstack /\ Stack[e] = id}
<1>1. there \subseteq Entries /\ there \subseteq Nat
  BY StackFacts
<1>2. CASE there = {}
  BY <1>2, StackFacts DEF Found, Guarded
<1>3. CASE there # {}
  <2>1. Found(id) = CHOOSE e \in there : \A x \in there : e <= x
    BY <1>3 DEF Found
  <2>2. Found(id) \in there
    <3> HIDE DEF there
    <3>1. QED
      BY <1>1, <1>3, <2>1, SmallestOf
  <2>3. QED
    BY <2>2 DEF Guarded
<1>4. QED
  BY <1>2, <1>3

LEMMA IdleFacts == Idle \in HostCalls /\ Idle.step = "idle"
  BY DEF Idle, HostCalls, HostSteps, Codes

\* One control word is replaced.
LEMMA ControlWord ==
    ASSUME RunInv, NEW id \in MsgIds, NEW c \in ControlWords,
           ctl' = [ctl EXCEPT ![id] = c]
    PROVE  /\ ctl' \in [MsgIds -> ControlWords] /\ ctl'[id] = c
           /\ \A x \in MsgIds : x # id => ctl'[x] = ctl[x]
  BY DEF RunInv, RunTypeOK


\* The message a Set_Jump_Px is at work on is halted.
LEMMA JumpHalted ==
    ASSUME RunInv, host.step \in JumpSteps
    PROVE  ctl[host.id].halt
<1>1. ctl[host.id] = [code |-> "JUMP", halt |-> TRUE]
  BY DEF RunInv, HostSound
<1>2. QED
  BY <1>1

\* The first instructions of a frame are inside it.
LEMMA WholeFrame ==
    ASSUME NEW f \in Frames, NEW n \in Nat, n <= MsgCnt(f)
    PROVE  InOneFrame(First(f), n)
<1>1. PICK a \in Nat, m \in Nat : a = First(f) /\ m = MsgCnt(f)
  BY FrameFacts
<1>2. a <= a /\ a + n <= a + m
  BY <1>1
<1>3. QED
  BY <1>1, <1>2 DEF InOneFrame
\* What the routines that start a frame write, with the count k they accepted.
LEMMA Start_FrameStep ==
    ASSUME RunInv, Start_Frame
    PROVE  \E f \in Frames, k \in Nat :
             /\ regs' = [regs EXCEPT !.pointer = First(f)] /\ curstack' = First(f)
             /\ host' = [Idle EXCEPT !.step = "counter", !.cnt = k]
             /\ negative' \in BOOLEAN
             /\ ~negative' => ~negative /\ k <= MsgCnt(f)
<1>1. PICK f \in Frames, n \in Counts :
        /\ n <= MsgCnt(f) /\ negative' = (negative \/ n < 0)
        /\ regs' = [regs EXCEPT !.pointer = First(f)] /\ curstack' = First(f)
        /\ host' = [Idle EXCEPT !.step = "counter", !.cnt = Stored(f, n)]
  BY DEF Start_Frame
<1>2. PICK k \in Nat : k = Stored(f, n) /\ (n >= 0 => k <= MsgCnt(f))
  BY <1>1, StoredFacts
<1>3. n >= 0 \/ n < 0
  BY CountsAssumption
<1>4. QED
  BY <1>1, <1>2, <1>3

LEMMA Select_Async_FrameStep ==
    ASSUME RunInv, Select_Async_Frame
    PROVE  \E f \in Frames, k \in Nat :
             /\ regs' = [regs EXCEPT !.asyncPtr = First(f)] /\ curstack' = curstack
             /\ host' = [Idle EXCEPT !.step = "async count", !.cnt = k]
             /\ negative' \in BOOLEAN
             /\ ~negative' => ~negative /\ k <= MsgCnt(f)
<1>1. PICK f \in Frames, n \in Counts :
        /\ n <= MsgCnt(f) /\ negative' = (negative \/ n < 0)
        /\ regs' = [regs EXCEPT !.asyncPtr = First(f)] /\ curstack' = curstack
        /\ host' = [Idle EXCEPT !.step = "async count", !.cnt = Stored(f, n)]
  BY DEF Select_Async_Frame
<1>2. PICK k \in Nat : k = Stored(f, n) /\ (n >= 0 => k <= MsgCnt(f))
  BY <1>1, StoredFacts
<1>3. n >= 0 \/ n < 0
  BY CountsAssumption
<1>4. QED
  BY <1>1, <1>2, <1>3

LEMMA Set_JumpLiveStep ==
    ASSUME RunInv, Set_JumpLive
    PROVE  \E id \in MsgIds, f \in Frames, k \in Nat :
             /\ ctl' = [ctl EXCEPT ![id] = [code |-> "JUMP", halt |-> TRUE]]
             /\ host' = [Idle EXCEPT !.step = "jump check", !.id = id, !.frame = f, !.cnt = k,
                                     !.was = ctl[id].halt, !.orig = ctl[id].code]
             /\ negative' \in BOOLEAN
             /\ ~negative' => ~negative /\ k <= MsgCnt(f)
<1>1. PICK id \in MsgIds, f \in Frames, n \in Counts :
        /\ n <= MsgCnt(f) /\ negative' = (negative \/ n < 0)
        /\ ctl' = [ctl EXCEPT ![id] = [code |-> "JUMP", halt |-> TRUE]]
        /\ host' = [Idle EXCEPT !.step = "jump check", !.id = id, !.frame = f,
                                !.cnt = Stored(f, n),
                                !.was = ctl[id].halt, !.orig = ctl[id].code]
  BY DEF Set_JumpLive
<1>2. PICK k \in Nat : k = Stored(f, n) /\ (n >= 0 => k <= MsgCnt(f))
  BY <1>1, StoredFacts
<1>3. n >= 0 \/ n < 0
  BY CountsAssumption
<1>4. QED
  BY <1>1, <1>2, <1>3

LEMMA Start_FrameKeeps == ASSUME RunInv, Start_Frame PROVE RunInv'
<1>0. PICK f \in Frames, k \in Nat :
        /\ regs' = [regs EXCEPT !.pointer = First(f)] /\ curstack' = First(f)
        /\ host' = [Idle EXCEPT !.step = "counter", !.cnt = k]
        /\ negative' \in BOOLEAN
        /\ ~negative' => ~negative /\ k <= MsgCnt(f)
  BY Start_FrameStep
<1>1. RunTypeOK'
  <2>2. First(f) \in Nat
    BY FrameFacts
  <2>3. regs' \in RunRegisters
    BY <1>0, <2>2 DEF RunInv, RunTypeOK, RunRegisters
  <2>4. host' \in HostCalls
    BY <1>0 DEF Idle, HostCalls, HostSteps, Codes
  <2>5. QED
    BY <1>0, <2>2, <2>3, <2>4 DEF RunInv, RunTypeOK, Start_Frame
<1>2. HostSound'
  <2>1. host'.step = "counter" /\ host'.cnt = k
    BY <1>0 DEF Idle
  <2>2. regs'.pointer = First(f)
    BY <1>0 DEF RunInv, RunTypeOK, RunRegisters
  <2>3. QED
    BY <1>0, <2>1, <2>2 DEF HostSound, JumpSteps
<1>3. JumpsSound'
  BY <1>0 DEF RunInv, JumpsSound, Start_Frame, Begin, Idle, JumpSteps
<1>4. RegsSound'
  <2>1. host'.step = "counter" /\ host.step = "idle"
    BY <1>0, IdleFacts DEF Start_Frame, Begin, Idle
  <2>2. /\ regs'.pointer = First(f) /\ regs'.asyncPtr = regs.asyncPtr
        /\ regs'.asyncNum = regs.asyncNum /\ regs'.asyncStart = regs.asyncStart
    BY <1>0 DEF RunInv, RunTypeOK, RunRegisters
  <2>3. First(f) # 0
    BY FrameFacts
  <2>4. QED
    BY <1>0, <2>1, <2>2, <2>3 DEF RunInv, RegsSound
<1>5. BoardSound'
  BY <1>0, FrameAssumption DEF RunInv, BoardSound, Start_Frame, Begin, Idle, RunTypeOK, HostCalls,
     RunRegisters, BoardStates, ControlWords, JumpSteps, HostSteps, Codes
<1>6. JumpGuarded'
  BY DEF RunInv, JumpGuarded, Guarded, Start_Frame, Begin, Idle
<1>7. RunsWholeFrames'
  BY <1>0 DEF RunInv, RunsWholeFrames, InsideFrame, Start_Frame, Begin
<1>8. QED
  BY <1>1, <1>2, <1>3, <1>4, <1>5, <1>6, <1>7 DEF RunInv

LEMMA Start_FrameCounterKeeps == ASSUME RunInv, Start_FrameCounter PROVE RunInv'
<1>1. RunTypeOK'
  BY DEF RunInv, RunTypeOK, Start_FrameCounter, Idle, HostCalls, RunRegisters, BoardStates,
     ControlWords, JumpSteps, HostSteps, Codes
<1>2. HostSound'
  BY DEF RunInv, HostSound, Start_FrameCounter, Idle, JumpSteps
<1>3. JumpsSound'
  BY DEF RunInv, JumpsSound, Start_FrameCounter, Idle, JumpSteps
<1>4. RegsSound'
  <2>1. PICK f \in Frames : regs.pointer = First(f) /\ (~negative => host.cnt <= MsgCnt(f))
    BY DEF Start_FrameCounter, RunInv, HostSound
  <2>2. /\ regs' = [regs EXCEPT !.counter = host.cnt] /\ host'.step = "idle"
        /\ regs \in RunRegisters /\ host.cnt \in Nat /\ host.step = "counter"
        /\ curstack' = curstack /\ negative' = negative
    BY IdleFacts DEF Start_FrameCounter, RunInv, RunTypeOK, HostCalls
  <2>3. (~negative => InOneFrame(First(f), host.cnt)) /\ First(f) # 0
    <3>1. First(f) # 0
      BY FrameFacts
    <3>2. ~negative => InOneFrame(First(f), host.cnt)
      BY <2>1, <2>2, WholeFrame
    <3>3. QED
      BY <3>1, <3>2
  <2>4. QED
    BY <2>1, <2>2, <2>3 DEF RunInv, RegsSound, RunRegisters
<1>5. BoardSound'
  BY DEF RunInv, BoardSound, Start_FrameCounter
<1>6. JumpGuarded'
  BY DEF RunInv, JumpGuarded, Guarded, Start_FrameCounter, Idle
<1>7. RunsWholeFrames'
  BY DEF RunInv, RunsWholeFrames, InsideFrame, Start_FrameCounter
<1>8. QED
  BY <1>1, <1>2, <1>3, <1>4, <1>5, <1>6, <1>7 DEF RunInv

LEMMA Run_BCKeeps == ASSUME RunInv, Run_BC PROVE RunInv'
<1>1. RunTypeOK'
  <2>1. regs' \in RunRegisters
    BY DEF RunInv, RunTypeOK, RunRegisters, Run_BC
  <2>2. QED
    BY <2>1 DEF RunInv, RunTypeOK, Run_BC
<1>2. HostSound'
  BY DEF RunInv, HostSound, Run_BC, Begin, RunTypeOK, HostCalls, RunRegisters, BoardStates,
     ControlWords, JumpSteps, HostSteps, Codes
<1>3. JumpsSound'
  BY DEF RunInv, JumpsSound, Run_BC, Begin
<1>4. RegsSound'
  BY DEF RunInv, RegsSound, Run_BC, Begin, RunTypeOK, HostCalls, RunRegisters, BoardStates,
     ControlWords, JumpSteps, HostSteps, Codes
<1>5. BoardSound'
  BY DEF RunInv, BoardSound, Run_BC, Begin
<1>6. JumpGuarded'
  BY DEF RunInv, JumpGuarded, Guarded, Run_BC, Begin
<1>7. RunsWholeFrames'
  BY DEF RunInv, RunsWholeFrames, InsideFrame, Run_BC, Begin
<1>8. QED
  BY <1>1, <1>2, <1>3, <1>4, <1>5, <1>6, <1>7 DEF RunInv

LEMMA Select_Async_FrameKeeps == ASSUME RunInv, Select_Async_Frame PROVE RunInv'
<1>0. PICK f \in Frames, k \in Nat :
        /\ regs' = [regs EXCEPT !.asyncPtr = First(f)] /\ curstack' = curstack
        /\ host' = [Idle EXCEPT !.step = "async count", !.cnt = k]
        /\ negative' \in BOOLEAN
        /\ ~negative' => ~negative /\ k <= MsgCnt(f)
  BY Select_Async_FrameStep
<1>1. RunTypeOK'
  <2>2. First(f) \in Nat
    BY FrameFacts
  <2>3. regs' \in RunRegisters
    BY <1>0, <2>2 DEF RunInv, RunTypeOK, RunRegisters
  <2>4. host' \in HostCalls
    BY <1>0 DEF Idle, HostCalls, HostSteps, Codes
  <2>5. QED
    BY <1>0, <2>2, <2>3, <2>4 DEF RunInv, RunTypeOK, Select_Async_Frame
<1>2. HostSound'
  <2>1. host'.step = "async count" /\ host'.cnt = k
    BY <1>0 DEF Idle
  <2>2. regs'.asyncPtr = First(f)
    BY <1>0 DEF RunInv, RunTypeOK, RunRegisters
  <2>3. QED
    BY <1>0, <2>1, <2>2 DEF HostSound, JumpSteps
<1>3. JumpsSound'
  BY <1>0 DEF RunInv, JumpsSound, Select_Async_Frame, Begin, Idle, JumpSteps
<1>4. RegsSound'
  <2>1. host'.step = "async count" /\ host.step = "idle"
    BY <1>0, IdleFacts DEF Select_Async_Frame, Begin, Idle
  <2>2. /\ regs'.asyncPtr = First(f) /\ regs'.pointer = regs.pointer
        /\ regs'.counter = regs.counter
    BY <1>0 DEF RunInv, RunTypeOK, RunRegisters
  <2>3. First(f) # 0
    BY FrameFacts
  <2>4. QED
    BY <1>0, <2>1, <2>2, <2>3 DEF RunInv, RegsSound
<1>5. BoardSound'
  <2>1. regs'.pointer = regs.pointer /\ regs'.start = regs.start
    BY <1>0 DEF RunInv, RunTypeOK, RunRegisters
  <2>2. QED
    BY <1>0, <2>1 DEF RunInv, BoardSound, Select_Async_Frame
<1>6. JumpGuarded'
  BY DEF RunInv, JumpGuarded, Guarded, Select_Async_Frame, Begin, Idle
<1>7. RunsWholeFrames'
  BY <1>0 DEF RunInv, RunsWholeFrames, InsideFrame, Select_Async_Frame, Begin
<1>8. QED
  BY <1>1, <1>2, <1>3, <1>4, <1>5, <1>6, <1>7 DEF RunInv

LEMMA Select_Async_FrameCountKeeps == ASSUME RunInv, Select_Async_FrameCount PROVE RunInv'
<1>1. RunTypeOK'
  BY DEF RunInv, RunTypeOK, Select_Async_FrameCount, Idle, HostCalls, RunRegisters, BoardStates,
     ControlWords, JumpSteps, HostSteps, Codes
<1>2. HostSound'
  BY DEF RunInv, HostSound, Select_Async_FrameCount, Idle, JumpSteps
<1>3. JumpsSound'
  BY DEF RunInv, JumpsSound, Select_Async_FrameCount, Idle, JumpSteps
<1>4. RegsSound'
  <2>1. PICK f \in Frames : regs.asyncPtr = First(f) /\ (~negative => host.cnt <= MsgCnt(f))
    BY DEF Select_Async_FrameCount, RunInv, HostSound
  <2>2. /\ regs' = [regs EXCEPT !.asyncNum = host.cnt] /\ host'.step = "idle"
        /\ regs \in RunRegisters /\ host.cnt \in Nat /\ host.step = "async count"
        /\ curstack' = curstack /\ negative' = negative
    BY IdleFacts DEF Select_Async_FrameCount, RunInv, RunTypeOK, HostCalls
  <2>3. (~negative => InOneFrame(First(f), host.cnt)) /\ First(f) # 0
    <3>1. First(f) # 0
      BY FrameFacts
    <3>2. ~negative => InOneFrame(First(f), host.cnt)
      BY <2>1, <2>2, WholeFrame
    <3>3. QED
      BY <3>1, <3>2
  <2>4. QED
    BY <2>1, <2>2, <2>3 DEF RunInv, RegsSound, RunRegisters
<1>5. BoardSound'
  BY DEF RunInv, BoardSound, Select_Async_FrameCount, Idle, RunTypeOK, HostCalls, RunRegisters,
     BoardStates, ControlWords, JumpSteps, HostSteps, Codes
<1>6. JumpGuarded'
  BY DEF RunInv, JumpGuarded, Guarded, Select_Async_FrameCount, Idle
<1>7. RunsWholeFrames'
  BY DEF RunInv, RunsWholeFrames, InsideFrame, Select_Async_FrameCount
<1>8. QED
  BY <1>1, <1>2, <1>3, <1>4, <1>5, <1>6, <1>7 DEF RunInv

LEMMA Send_Async_FrameKeeps == ASSUME RunInv, Send_Async_Frame PROVE RunInv'
<1>1. RunTypeOK'
  <2>1. regs' \in RunRegisters
    BY DEF RunInv, RunTypeOK, RunRegisters, Send_Async_Frame
  <2>2. QED
    BY <2>1 DEF RunInv, RunTypeOK, Send_Async_Frame
<1>2. HostSound'
  BY DEF RunInv, HostSound, Send_Async_Frame, Begin, RunTypeOK, HostCalls, RunRegisters,
     BoardStates, ControlWords, JumpSteps, HostSteps, Codes
<1>3. JumpsSound'
  BY DEF RunInv, JumpsSound, Send_Async_Frame, Begin
<1>4. RegsSound'
  BY DEF RunInv, RegsSound, Send_Async_Frame, Begin, RunTypeOK, HostCalls, RunRegisters,
     BoardStates, ControlWords, JumpSteps, HostSteps, Codes
<1>5. BoardSound'
  BY DEF RunInv, BoardSound, Send_Async_Frame, Begin
<1>6. JumpGuarded'
  BY DEF RunInv, JumpGuarded, Guarded, Send_Async_Frame, Begin
<1>7. RunsWholeFrames'
  BY DEF RunInv, RunsWholeFrames, InsideFrame, Send_Async_Frame, Begin
<1>8. QED
  BY <1>1, <1>2, <1>3, <1>4, <1>5, <1>6, <1>7 DEF RunInv

LEMMA Get_Msg_StatusKeeps == ASSUME RunInv, Get_Msg_Status PROVE RunInv'
<1>1. RunTypeOK'
  <2>1. PICK id \in MsgIds, e \in Entries :
          host' = IF status[e] = "done" THEN [Idle EXCEPT !.step = "clear", !.entry = e] ELSE Idle
    BY FoundFacts DEF Get_Msg_Status
  <2>2. host' \in HostCalls
    <3>1. e \in Nat
      BY StackFacts
    <3>2. [Idle EXCEPT !.step = "clear", !.entry = e] \in HostCalls
      BY <3>1 DEF Idle, HostCalls, HostSteps, Codes
    <3>3. QED
      BY <2>1, <3>2, IdleFacts
  <2>3. QED
    BY <2>2 DEF RunInv, RunTypeOK, Get_Msg_Status
<1>2. HostSound'
  <2>1. PICK id \in MsgIds, e \in Entries :
          host' = IF status[e] = "done" THEN [Idle EXCEPT !.step = "clear", !.entry = e] ELSE Idle
    BY FoundFacts DEF Get_Msg_Status
  <2>2. host'.step = "idle" \/ (host'.step = "clear" /\ host'.entry = e)
    BY <2>1 DEF Idle
  <2>3. QED
    BY <2>2 DEF HostSound, JumpSteps
<1>3. JumpsSound'
  BY DEF RunInv, JumpsSound, Get_Msg_Status, Begin, Idle, JumpSteps
<1>4. RegsSound'
  BY DEF RunInv, RegsSound, Get_Msg_Status, Begin, Idle
<1>5. BoardSound'
  BY DEF RunInv, BoardSound, Get_Msg_Status, Begin
<1>6. JumpGuarded'
  BY DEF RunInv, JumpGuarded, Guarded, Get_Msg_Status, Begin, Idle
<1>7. RunsWholeFrames'
  BY DEF RunInv, RunsWholeFrames, InsideFrame, Get_Msg_Status, Begin
<1>8. QED
  BY <1>1, <1>2, <1>3, <1>4, <1>5, <1>6, <1>7 DEF RunInv

LEMMA Get_Msgentry_StatusKeeps == ASSUME RunInv, Get_Msgentry_Status PROVE RunInv'
<1>1. RunTypeOK'
  <2>1. PICK e \in Entries :
          host' = IF status[e] = "done" THEN [Idle EXCEPT !.step = "clear", !.entry = e] ELSE Idle
    <3>0. PICK f \in Frames : \E k \in 0 .. MsgCnt(f) - 1 :
            host' = IF status[First(f) + k] = "done"
                    THEN [Idle EXCEPT !.step = "clear", !.entry = First(f) + k] ELSE Idle
      BY DEF Get_Msgentry_Status
    <3>1. PICK k \in 0 .. MsgCnt(f) - 1 :
            host' = IF status[First(f) + k] = "done"
                    THEN [Idle EXCEPT !.step = "clear", !.entry = First(f) + k] ELSE Idle
      BY <3>0
    <3>2. First(f) + k \in Entries
      <4>1. /\ First(f) \in Nat /\ First(f) > 0 /\ MsgCnt(f) \in Nat
            /\ First(f) + MsgCnt(f) - 1 <= Len(Stack)
        BY FrameAssumption
      <4>2. QED
        BY <3>1, <4>1, StackFacts
    <3>3. QED
      BY <3>1, <3>2
  <2>2. host' \in HostCalls
    <3>1. e \in Nat
      BY StackFacts
    <3>2. [Idle EXCEPT !.step = "clear", !.entry = e] \in HostCalls
      BY <3>1 DEF Idle, HostCalls, HostSteps, Codes
    <3>3. QED
      BY <2>1, <3>2, IdleFacts
  <2>3. QED
    BY <2>2 DEF RunInv, RunTypeOK, Get_Msgentry_Status
<1>2. HostSound'
  <2>1. PICK e \in Entries :
          host' = IF status[e] = "done" THEN [Idle EXCEPT !.step = "clear", !.entry = e] ELSE Idle
    <3>0. PICK f \in Frames : \E k \in 0 .. MsgCnt(f) - 1 :
            host' = IF status[First(f) + k] = "done"
                    THEN [Idle EXCEPT !.step = "clear", !.entry = First(f) + k] ELSE Idle
      BY DEF Get_Msgentry_Status
    <3>1. PICK k \in 0 .. MsgCnt(f) - 1 :
            host' = IF status[First(f) + k] = "done"
                    THEN [Idle EXCEPT !.step = "clear", !.entry = First(f) + k] ELSE Idle
      BY <3>0
    <3>2. First(f) + k \in Entries
      <4>1. /\ First(f) \in Nat /\ First(f) > 0 /\ MsgCnt(f) \in Nat
            /\ First(f) + MsgCnt(f) - 1 <= Len(Stack)
        BY FrameAssumption
      <4>2. QED
        BY <3>1, <4>1, StackFacts
    <3>3. QED
      BY <3>1, <3>2
  <2>2. host'.step = "idle" \/ (host'.step = "clear" /\ host'.entry = e)
    BY <2>1 DEF Idle
  <2>3. QED
    BY <2>2 DEF HostSound, JumpSteps
<1>3. JumpsSound'
  BY DEF RunInv, JumpsSound, Get_Msgentry_Status, Begin, Idle, JumpSteps
<1>4. RegsSound'
  BY DEF RunInv, RegsSound, Get_Msgentry_Status, Begin, Idle
<1>5. BoardSound'
  BY DEF RunInv, BoardSound, Get_Msgentry_Status, Begin
<1>6. JumpGuarded'
  BY DEF RunInv, JumpGuarded, Guarded, Get_Msgentry_Status, Begin, Idle
<1>7. RunsWholeFrames'
  BY DEF RunInv, RunsWholeFrames, InsideFrame, Get_Msgentry_Status, Begin
<1>8. QED
  BY <1>1, <1>2, <1>3, <1>4, <1>5, <1>6, <1>7 DEF RunInv

LEMMA ClearStatusKeeps == ASSUME RunInv, ClearStatus PROVE RunInv'
<1>1. RunTypeOK'
  <2>1. host.entry \in Entries
    BY DEF RunInv, HostSound, ClearStatus
  <2>2. status' \in [Entries -> {"zero", "noalter", "done"}]
    BY DEF RunInv, RunTypeOK, ClearStatus
  <2>3. wiped' \in SUBSET Entries
    BY <2>1 DEF RunInv, RunTypeOK, ClearStatus
  <2>4. host' \in HostCalls
    BY IdleFacts DEF RunInv, RunTypeOK, ClearStatus, HostCalls, HostSteps, JumpSteps
  <2>5. QED
    BY <2>2, <2>3, <2>4 DEF RunInv, RunTypeOK, ClearStatus
<1>2. HostSound'
  BY DEF RunInv, HostSound, ClearStatus, Idle, RunTypeOK, HostCalls, RunRegisters, BoardStates,
     ControlWords, JumpSteps, HostSteps, Codes
<1>3. JumpsSound'
  BY DEF RunInv, JumpsSound, ClearStatus, Idle, RunTypeOK, HostCalls, RunRegisters, BoardStates,
     ControlWords, JumpSteps, HostSteps, Codes
<1>4. RegsSound'
  BY DEF RunInv, RegsSound, ClearStatus
<1>5. BoardSound'
  <2>1. host.entry \in Entries /\ status \in [Entries -> {"zero", "noalter", "done"}]
    BY DEF RunInv, RunTypeOK, HostSound, ClearStatus
  <2>2. ASSUME NEW e \in Entries, status[e] = "noalter" \/ e \in wiped
        PROVE  status'[e] = "noalter" \/ e \in wiped'
    BY <2>1, <2>2 DEF ClearStatus
  <2>3. regs' = regs /\ board' = board /\ loose' = loose
        /\ negative' = negative
    BY DEF ClearStatus
  <2>4. QED
    BY <2>2, <2>3 DEF RunInv, BoardSound, InOneFrame
<1>6. JumpGuarded'
  <2>1. wiped \subseteq wiped' /\ UNCHANGED <<curstack, board>>
    BY DEF ClearStatus
  <2>2. CASE host.step = "clear"
    <3>1. host'.step = "idle"
      BY <2>2, IdleFacts DEF ClearStatus
    <3>2. QED
      BY <3>1 DEF JumpGuarded
  <2>3. CASE host.step = "jump clear"
    <3>1. host' = [host EXCEPT !.step = "jump pointer"]
      BY <2>3 DEF ClearStatus
    <3>2. host'.id = host.id
      BY <3>1 DEF RunInv, RunTypeOK, HostCalls
    <3>3. Guarded(host.id)' => Guarded(host.id)
      BY <2>1, <3>2 DEF Guarded
    <3>4. QED
      BY <2>1, <2>3, <3>2, <3>3 DEF RunInv, JumpGuarded
  <2>4. QED
    BY <2>2, <2>3 DEF ClearStatus
<1>7. RunsWholeFrames'
  BY DEF RunInv, RunsWholeFrames, InsideFrame, ClearStatus
<1>8. QED
  BY <1>1, <1>2, <1>3, <1>4, <1>5, <1>6, <1>7 DEF RunInv

LEMMA Set_HaltLiveKeeps == ASSUME RunInv, Set_HaltLive PROVE RunInv'
<1>1. RunTypeOK'
  <2>1. PICK id \in MsgIds : ctl' = [ctl EXCEPT ![id] = [ctl[id] EXCEPT !.halt = TRUE]]
    BY DEF Set_HaltLive
  <2>2. [ctl[id] EXCEPT !.halt = TRUE] \in ControlWords
    <3>1. ctl[id] \in ControlWords
      BY DEF RunInv, RunTypeOK
    <3>2. QED
      BY <3>1 DEF ControlWords
  <2>3. ctl' \in [MsgIds -> ControlWords]
    BY <2>1, <2>2, ControlWord
  <2>4. QED
    BY <2>3 DEF RunInv, RunTypeOK, Set_HaltLive
<1>2. HostSound'
  <2>1. host'.step = "idle"
    BY IdleFacts DEF Set_HaltLive, Begin
  <2>2. QED
    BY <2>1 DEF HostSound, JumpSteps
<1>3. JumpsSound'
  BY DEF RunInv, JumpsSound, Set_HaltLive, Begin
<1>4. RegsSound'
  BY DEF RunInv, RegsSound, Set_HaltLive, Begin
<1>5. BoardSound'
  BY DEF RunInv, BoardSound, Set_HaltLive, Begin
<1>6. JumpGuarded'
  BY DEF RunInv, JumpGuarded, Guarded, Set_HaltLive, Begin
<1>7. RunsWholeFrames'
  BY DEF RunInv, RunsWholeFrames, InsideFrame, Set_HaltLive, Begin
<1>8. QED
  BY <1>1, <1>2, <1>3, <1>4, <1>5, <1>6, <1>7 DEF RunInv

LEMMA Set_ContinueLiveKeeps == ASSUME RunInv, Set_ContinueLive PROVE RunInv'
<1>1. RunTypeOK'
  <2>1. PICK id \in MsgIds : ctl' = [ctl EXCEPT ![id] = [ctl[id] EXCEPT !.halt = FALSE]]
    BY DEF Set_ContinueLive
  <2>2. [ctl[id] EXCEPT !.halt = FALSE] \in ControlWords
    <3>1. ctl[id] \in ControlWords
      BY DEF RunInv, RunTypeOK
    <3>2. QED
      BY <3>1 DEF ControlWords
  <2>3. ctl' \in [MsgIds -> ControlWords]
    BY <2>1, <2>2, ControlWord
  <2>4. QED
    BY <2>3 DEF RunInv, RunTypeOK, Set_ContinueLive
<1>2. HostSound'
  <2>1. host'.step = "idle"
    BY IdleFacts DEF Set_ContinueLive, Begin
  <2>2. QED
    BY <2>1 DEF HostSound, JumpSteps
<1>3. JumpsSound'
  BY DEF RunInv, JumpsSound, Set_ContinueLive, Begin
<1>4. RegsSound'
  BY DEF RunInv, RegsSound, Set_ContinueLive, Begin
<1>5. BoardSound'
  BY DEF RunInv, BoardSound, Set_ContinueLive, Begin
<1>6. JumpGuarded'
  BY DEF RunInv, JumpGuarded, Guarded, Set_ContinueLive, Begin
<1>7. RunsWholeFrames'
  BY DEF RunInv, RunsWholeFrames, InsideFrame, Set_ContinueLive, Begin
<1>8. QED
  BY <1>1, <1>2, <1>3, <1>4, <1>5, <1>6, <1>7 DEF RunInv

LEMMA Set_SkipLiveKeeps == ASSUME RunInv, Set_SkipLive PROVE RunInv'
<1>1. RunTypeOK'
  <2>1. PICK id \in MsgIds : ctl' = [ctl EXCEPT ![id] = [ctl[id] EXCEPT !.code = "SKIP"]]
    BY DEF Set_SkipLive
  <2>2. [ctl[id] EXCEPT !.code = "SKIP"] \in ControlWords
    BY DEF RunInv, RunTypeOK, ControlWords, Codes
  <2>3. ctl' \in [MsgIds -> ControlWords]
    BY <2>1, <2>2, ControlWord
  <2>4. QED
    BY <2>3 DEF RunInv, RunTypeOK, Set_SkipLive
<1>2. HostSound'
  <2>1. host'.step = "idle"
    BY IdleFacts DEF Set_SkipLive, Begin
  <2>2. QED
    BY <2>1 DEF HostSound, JumpSteps
<1>3. JumpsSound'
  BY DEF RunInv, JumpsSound, Set_SkipLive, Begin
<1>4. RegsSound'
  BY DEF RunInv, RegsSound, Set_SkipLive, Begin
<1>5. BoardSound'
  BY DEF RunInv, BoardSound, Set_SkipLive, Begin
<1>6. JumpGuarded'
  BY DEF RunInv, JumpGuarded, Guarded, Set_SkipLive, Begin
<1>7. RunsWholeFrames'
  BY DEF RunInv, RunsWholeFrames, InsideFrame, Set_SkipLive, Begin
<1>8. QED
  BY <1>1, <1>2, <1>3, <1>4, <1>5, <1>6, <1>7 DEF RunInv

LEMMA Set_RestoreLiveKeeps == ASSUME RunInv, Set_RestoreLive PROVE RunInv'
<1>1. RunTypeOK'
  <2>1. PICK id \in MsgIds : ctl' = [ctl EXCEPT ![id] = [ctl[id] EXCEPT !.code = cmd[id]]]
    BY DEF Set_RestoreLive
  <2>2. [ctl[id] EXCEPT !.code = cmd[id]] \in ControlWords
    BY DEF RunInv, RunTypeOK, ControlWords, Codes
  <2>3. ctl' \in [MsgIds -> ControlWords]
    BY <2>1, <2>2, ControlWord
  <2>4. QED
    BY <2>3 DEF RunInv, RunTypeOK, Set_RestoreLive
<1>2. HostSound'
  <2>1. host'.step = "idle"
    BY IdleFacts DEF Set_RestoreLive, Begin
  <2>2. QED
    BY <2>1 DEF HostSound, JumpSteps
<1>3. JumpsSound'
  BY DEF RunInv, JumpsSound, Set_RestoreLive, Begin
<1>4. RegsSound'
  BY DEF RunInv, RegsSound, Set_RestoreLive, Begin
<1>5. BoardSound'
  BY DEF RunInv, BoardSound, Set_RestoreLive, Begin
<1>6. JumpGuarded'
  BY DEF RunInv, JumpGuarded, Guarded, Set_RestoreLive, Begin
<1>7. RunsWholeFrames'
  BY DEF RunInv, RunsWholeFrames, InsideFrame, Set_RestoreLive, Begin
<1>8. QED
  BY <1>1, <1>2, <1>3, <1>4, <1>5, <1>6, <1>7 DEF RunInv

LEMMA Set_JumpLiveKeeps == ASSUME RunInv, Set_JumpLive PROVE RunInv'
<1>0. PICK id \in MsgIds, f \in Frames, k \in Nat :
        /\ ctl' = [ctl EXCEPT ![id] = [code |-> "JUMP", halt |-> TRUE]]
        /\ host' = [Idle EXCEPT !.step = "jump check", !.id = id, !.frame = f, !.cnt = k,
                                !.was = ctl[id].halt, !.orig = ctl[id].code]
        /\ negative' \in BOOLEAN
        /\ ~negative' => ~negative /\ k <= MsgCnt(f)
  BY Set_JumpLiveStep
<1>a. /\ ctl' \in [MsgIds -> ControlWords]
      /\ ctl'[id] = [code |-> "JUMP", halt |-> TRUE]
      /\ \A x \in MsgIds : x # id => ctl'[x] = ctl[x]
  <2>1. [code |-> "JUMP", halt |-> TRUE] \in ControlWords
    BY DEF ControlWords, Codes
  <2>2. QED
    BY <1>0, <2>1, ControlWord
<1>b. /\ host'.step = "jump check" /\ host'.id = id /\ host'.frame = f /\ host'.cnt = k
      /\ host'.orig = ctl[id].code
  BY <1>0 DEF Idle
<1>c. host.step = "idle" /\ words' = words
  BY IdleFacts DEF Set_JumpLive, Begin
<1>1. RunTypeOK'
  <2>3. ctl[id].halt \in BOOLEAN /\ ctl[id].code \in Codes
    BY DEF RunInv, RunTypeOK, ControlWords
  <2>4. host' \in HostCalls
    BY <1>0, <2>3 DEF Idle, HostCalls, HostSteps, JumpSteps
  <2>5. QED
    BY <1>0, <1>a, <2>4 DEF RunInv, RunTypeOK, Set_JumpLive
<1>2. HostSound'
  <2>5. ctl[id].code = "JUMP" => negative \/ InOneFrame(words[id].ptr, words[id].cnt)
    BY <1>c DEF RunInv, JumpsSound, JumpSteps
  <2>6. QED
    BY <1>0, <1>a, <1>b, <1>c, <2>5 DEF HostSound, JumpSteps
<1>3. JumpsSound'
  BY <1>0, <1>a, <1>b, <1>c DEF RunInv, JumpsSound, JumpSteps
<1>4. RegsSound'
  BY <1>0, <1>b, <1>c DEF RunInv, RegsSound, Set_JumpLive
<1>5. BoardSound'
  BY <1>0 DEF RunInv, BoardSound, Set_JumpLive
<1>6. JumpGuarded'
  BY <1>b DEF JumpGuarded
<1>7. RunsWholeFrames'
  BY <1>0 DEF RunInv, RunsWholeFrames, InsideFrame, Set_JumpLive
<1>8. QED
  BY <1>1, <1>2, <1>3, <1>4, <1>5, <1>6, <1>7 DEF RunInv

LEMMA Set_JumpLiveCheckKeeps == ASSUME RunInv, Set_JumpLiveCheck PROVE RunInv'
<1>1. RunTypeOK'
  <2>1. host.id \in MsgIds /\ host.step = "jump check"
    BY DEF Set_JumpLiveCheck, RunInv, HostSound, JumpSteps
  <2>2. PICK s \in {"jump undo", "jump clear", "jump pointer"} :
          /\ host' = [host EXCEPT !.entry = Found(host.id), !.step = s]
          /\ s # "jump undo" => curstack = 0 \/ status[Found(host.id)] # "noalter"
    BY DEF Set_JumpLiveCheck
  <2>3. Found(host.id) \in Nat
    <3>1. Found(host.id) \in Entries
      BY <2>1, FoundFacts
    <3>2. QED
      BY <3>1, StackFacts
  <2>4. host' \in HostCalls
    <3>1. s \in HostSteps /\ host \in HostCalls
      BY DEF HostSteps, JumpSteps, RunInv, RunTypeOK
    <3>2. QED
      BY <2>2, <2>3, <3>1 DEF HostCalls
  <2>5. QED
    BY <2>4 DEF RunInv, RunTypeOK, Set_JumpLiveCheck
<1>2. HostSound'
  <2>1. host.id \in MsgIds /\ host.step = "jump check"
    BY DEF Set_JumpLiveCheck, RunInv, HostSound, JumpSteps
  <2>2. PICK s \in {"jump undo", "jump clear", "jump pointer"} :
          /\ host' = [host EXCEPT !.entry = Found(host.id), !.step = s]
          /\ s # "jump undo" => curstack = 0 \/ status[Found(host.id)] # "noalter"
    BY DEF Set_JumpLiveCheck
  <2>3. /\ host'.step = s /\ host'.id = host.id /\ host'.frame = host.frame
        /\ host'.cnt = host.cnt /\ host'.orig = host.orig /\ host'.entry = Found(host.id)
    BY <2>2 DEF RunInv, RunTypeOK, HostCalls
  <2>4. Found(host.id) \in Entries
    BY <2>1, FoundFacts
  <2>5. UNCHANGED <<ctl, words, regs, negative>>
    BY DEF Set_JumpLiveCheck
  <2>6. QED
    BY <2>1, <2>3, <2>4, <2>5 DEF RunInv, HostSound, JumpSteps
<1>3. JumpsSound'
  BY DEF RunInv, JumpsSound, Set_JumpLiveCheck, RunTypeOK, HostCalls, RunRegisters, BoardStates,
     ControlWords, JumpSteps, HostSteps, Codes
<1>4. RegsSound'
  BY DEF RunInv, RegsSound, Set_JumpLiveCheck
<1>5. BoardSound'
  BY DEF RunInv, BoardSound, Set_JumpLiveCheck
<1>6. JumpGuarded'
  <2>1. host.id \in MsgIds /\ host.step = "jump check"
    BY DEF Set_JumpLiveCheck, RunInv, HostSound, JumpSteps
  <2>2. PICK s \in {"jump undo", "jump clear", "jump pointer"} :
          /\ host' = [host EXCEPT !.entry = Found(host.id), !.step = s]
          /\ s # "jump undo" => curstack = 0 \/ status[Found(host.id)] # "noalter"
    BY DEF Set_JumpLiveCheck
  <2>3. host'.step = s /\ host'.id = host.id
    BY <2>2 DEF RunInv, RunTypeOK, HostCalls
  <2>4. UNCHANGED <<board, curstack, wiped, status>> /\ (Guarded(host.id)' <=> Guarded(host.id))
    BY <2>3 DEF Set_JumpLiveCheck, Guarded
  <2>5. ASSUME s # "jump undo", Guarded(host.id), board.sending # 0,
               Stack[board.sending] = host.id
        PROVE  FALSE
    <3>1. board.sending = Found(host.id) /\ Found(host.id) \notin wiped
      BY <2>1, <2>5, FoundFacts DEF RunInv, BoardSound
    <3>2. status[Found(host.id)] = "noalter"
      BY <2>5, <3>1 DEF RunInv, BoardSound
    <3>3. curstack # 0
      BY <2>5 DEF RunInv, BoardSound, RegsSound
    <3>4. QED
      BY <2>2, <2>5, <3>2, <3>3
  <2>6. QED
    BY <2>3, <2>4, <2>5 DEF JumpGuarded
<1>7. RunsWholeFrames'
  BY DEF RunInv, RunsWholeFrames, InsideFrame, Set_JumpLiveCheck
<1>8. QED
  BY <1>1, <1>2, <1>3, <1>4, <1>5, <1>6, <1>7 DEF RunInv

LEMMA Set_JumpLiveUndoKeeps == ASSUME RunInv, Set_JumpLiveUndo PROVE RunInv'
<1>1. RunTypeOK'
  BY DEF RunInv, RunTypeOK, Set_JumpLiveUndo, Idle, HostCalls, RunRegisters, BoardStates,
     ControlWords, JumpSteps, HostSteps, Codes
<1>2. HostSound'
  BY DEF RunInv, HostSound, Set_JumpLiveUndo, Idle, JumpSteps
<1>3. JumpsSound'
  <2>1. /\ host.step = "jump undo" /\ host.id \in MsgIds
        /\ host.orig = "JUMP" => negative \/ InOneFrame(words[host.id].ptr, words[host.id].cnt)
    BY DEF RunInv, HostSound, Set_JumpLiveUndo, JumpSteps
  <2>2. [code |-> host.orig, halt |-> host.was] \in ControlWords
    BY DEF RunInv, RunTypeOK, HostCalls, ControlWords
  <2>3. /\ ctl'[host.id] = [code |-> host.orig, halt |-> host.was]
        /\ \A x \in MsgIds : x # host.id => ctl'[x] = ctl[x]
    BY <2>1, <2>2, ControlWord DEF Set_JumpLiveUndo
  <2>4. ctl'[host.id].code = host.orig /\ words' = words /\ negative' = negative
    <3>1. words' = words /\ negative' = negative
      BY DEF Set_JumpLiveUndo
    <3>2. ctl'[host.id].code = host.orig
      BY <2>3
    <3>3. QED
      BY <3>1, <3>2
  <2>5. ASSUME NEW x \in MsgIds, ctl'[x].code = "JUMP"
        PROVE  negative' \/ InOneFrame(words'[x].ptr, words'[x].cnt)
    <3>1. CASE x = host.id
      BY <2>1, <2>4, <2>5, <3>1
    <3>2. CASE x # host.id
      BY <2>3, <2>4, <2>5, <3>2 DEF RunInv, JumpsSound
    <3>3. QED
      BY <3>1, <3>2
  <2>6. QED
    BY <2>5 DEF JumpsSound, InOneFrame
<1>4. RegsSound'
  BY DEF RunInv, RegsSound, Set_JumpLiveUndo
<1>5. BoardSound'
  BY DEF RunInv, BoardSound, Set_JumpLiveUndo
<1>6. JumpGuarded'
  BY DEF RunInv, JumpGuarded, Guarded, Set_JumpLiveUndo, Idle
<1>7. RunsWholeFrames'
  BY DEF RunInv, RunsWholeFrames, InsideFrame, Set_JumpLiveUndo
<1>8. QED
  BY <1>1, <1>2, <1>3, <1>4, <1>5, <1>6, <1>7 DEF RunInv

LEMMA Set_JumpLivePointerKeeps == ASSUME RunInv, Set_JumpLivePointer PROVE RunInv'
<1>1. RunTypeOK'
  <2>1. /\ host.id \in MsgIds /\ host.frame \in Frames /\ host.step = "jump pointer"
        /\ First(host.frame) \in Nat
    BY FrameFacts DEF Set_JumpLivePointer, RunInv, HostSound, JumpSteps
  <2>2. host' = [host EXCEPT !.step = "jump count"]
    BY DEF Set_JumpLivePointer
  <2>3. words' = [words EXCEPT ![host.id] = [words[host.id] EXCEPT !.ptr = First(host.frame)]]
    BY DEF Set_JumpLivePointer
  <2>4. words' \in [MsgIds -> [ptr : Nat, cnt : Nat]]
    BY <2>1, <2>3 DEF RunInv, RunTypeOK
  <2>5. host' \in HostCalls
    BY <2>2 DEF RunInv, RunTypeOK, HostCalls, HostSteps, JumpSteps
  <2>6. cmd' \in [MsgIds -> {"MSG", "JUMP"}]
    BY <2>1 DEF Set_JumpLivePointer, RunInv, RunTypeOK
  <2>7. QED
    BY <2>4, <2>5, <2>6 DEF RunInv, RunTypeOK, Set_JumpLivePointer
<1>2. HostSound'
  <2>1. /\ host.id \in MsgIds /\ host.frame \in Frames /\ host.step = "jump pointer"
        /\ First(host.frame) \in Nat
    BY FrameFacts DEF Set_JumpLivePointer, RunInv, HostSound, JumpSteps
  <2>2. host' = [host EXCEPT !.step = "jump count"]
    BY DEF Set_JumpLivePointer
  <2>3. words' = [words EXCEPT ![host.id] = [words[host.id] EXCEPT !.ptr = First(host.frame)]]
    BY DEF Set_JumpLivePointer
  <2>4. words'[host.id].ptr = First(host.frame)
    BY <2>1, <2>3 DEF RunInv, RunTypeOK
  <2>5. /\ host'.step = "jump count" /\ host'.id = host.id /\ host'.frame = host.frame
        /\ host'.cnt = host.cnt
    BY <2>2 DEF RunInv, RunTypeOK, HostCalls
  <2>6. UNCHANGED <<ctl, negative>>
    BY DEF Set_JumpLivePointer
  <2>7. QED
    BY <2>1, <2>4, <2>5, <2>6 DEF RunInv, HostSound, JumpSteps
<1>3. JumpsSound'
  BY DEF RunInv, JumpsSound, Set_JumpLivePointer, RunTypeOK, HostCalls, RunRegisters, BoardStates,
     ControlWords, JumpSteps, HostSteps, Codes
<1>4. RegsSound'
  BY DEF RunInv, RegsSound, Set_JumpLivePointer
<1>5. BoardSound'
  BY DEF RunInv, BoardSound, Set_JumpLivePointer
<1>6. JumpGuarded'
  <2>1. host' = [host EXCEPT !.step = "jump count"] /\ host.step = "jump pointer"
    BY DEF Set_JumpLivePointer
  <2>2. host'.id = host.id /\ UNCHANGED <<curstack, board, wiped>>
    BY <2>1 DEF RunInv, RunTypeOK, HostCalls, Set_JumpLivePointer
  <2>3. QED
    BY <2>1, <2>2 DEF RunInv, JumpGuarded, Guarded
<1>7. RunsWholeFrames'
  BY DEF RunInv, RunsWholeFrames, InsideFrame, Set_JumpLivePointer
<1>8. QED
  BY <1>1, <1>2, <1>3, <1>4, <1>5, <1>6, <1>7 DEF RunInv

LEMMA Set_JumpLiveCountKeeps == ASSUME RunInv, Set_JumpLiveCount PROVE RunInv'
<1>1. RunTypeOK'
  <2>1. words' = [words EXCEPT ![host.id] = [words[host.id] EXCEPT !.cnt = host.cnt]]
    BY DEF Set_JumpLiveCount
  <2>2. host.cnt \in Nat
    BY DEF RunInv, RunTypeOK, HostCalls
  <2>3. words' \in [MsgIds -> [ptr : Nat, cnt : Nat]]
    BY <2>1, <2>2 DEF RunInv, RunTypeOK
  <2>4. host' \in HostCalls
    BY IdleFacts DEF RunInv, RunTypeOK, Set_JumpLiveCount, HostCalls, HostSteps
  <2>5. QED
    BY <2>3, <2>4 DEF RunInv, RunTypeOK, Set_JumpLiveCount
<1>2. HostSound'
  BY DEF RunInv, HostSound, Set_JumpLiveCount, Idle, RunTypeOK, HostCalls, RunRegisters,
     BoardStates, ControlWords, JumpSteps, HostSteps, Codes
<1>3. JumpsSound'
  <2>1. /\ host.id \in MsgIds /\ host.frame \in Frames /\ (~negative => host.cnt <= MsgCnt(host.frame))
        /\ words[host.id].ptr = First(host.frame) /\ host.step = "jump count"
    BY DEF Set_JumpLiveCount, RunInv, HostSound, JumpSteps
  <2>2. /\ words' = [words EXCEPT ![host.id] = [words[host.id] EXCEPT !.cnt = host.cnt]]
        /\ ctl' = ctl /\ negative' = negative
    BY DEF Set_JumpLiveCount
  <2>3. /\ words'[host.id].ptr = First(host.frame) /\ words'[host.id].cnt = host.cnt
        /\ \A id \in MsgIds : id # host.id => words'[id] = words[id]
    BY <2>1, <2>2 DEF RunInv, RunTypeOK
  <2>4. ~negative => InOneFrame(words'[host.id].ptr, words'[host.id].cnt)
    <3>1. host.cnt \in Nat
      BY DEF RunInv, RunTypeOK, HostCalls
    <3>2. ~negative => InOneFrame(First(host.frame), host.cnt)
      BY <2>1, <3>1, WholeFrame
    <3>3. QED
      BY <2>3, <3>2
  <2>5. QED
    BY <2>2, <2>3, <2>4 DEF RunInv, JumpsSound
<1>4. RegsSound'
  BY DEF RunInv, RegsSound, Set_JumpLiveCount
<1>5. BoardSound'
  BY DEF RunInv, BoardSound, Set_JumpLiveCount
<1>6. JumpGuarded'
  BY DEF RunInv, JumpGuarded, Guarded, Set_JumpLiveCount, Idle, RunTypeOK, HostCalls, RunRegisters,
     BoardStates, ControlWords, JumpSteps, HostSteps, Codes
<1>7. RunsWholeFrames'
  BY DEF RunInv, RunsWholeFrames, InsideFrame, Set_JumpLiveCount
<1>8. QED
  BY <1>1, <1>2, <1>3, <1>4, <1>5, <1>6, <1>7 DEF RunInv

LEMMA Set_JumpLiveGoKeeps == ASSUME RunInv, Set_JumpLiveGo PROVE RunInv'
<1>1. RunTypeOK'
  <2>1. ctl' = [ctl EXCEPT ![host.id] = [ctl[host.id] EXCEPT !.halt = FALSE]]
    BY DEF Set_JumpLiveGo
  <2>2. host.id \in MsgIds
    BY DEF RunInv, HostSound, Set_JumpLiveGo
  <2>3. ctl[host.id] \in ControlWords
    BY <2>2 DEF RunInv, RunTypeOK
  <2>4. [ctl[host.id] EXCEPT !.halt = FALSE] \in ControlWords
    BY <2>3 DEF ControlWords
  <2>5. ctl' \in [MsgIds -> ControlWords]
    BY <2>1, <2>2, <2>4, ControlWord
  <2>6. QED
    BY <2>5, IdleFacts DEF RunInv, RunTypeOK, Set_JumpLiveGo
<1>2. HostSound'
  BY DEF RunInv, HostSound, Set_JumpLiveGo, Idle, JumpSteps
<1>3. JumpsSound'
  <2>1. host.step = "jump go" /\ host.id \in MsgIds /\ words' = words
        /\ negative' = negative
    BY DEF Set_JumpLiveGo, RunInv, HostSound
  <2>2. ctl' = [ctl EXCEPT ![host.id] = [ctl[host.id] EXCEPT !.halt = FALSE]]
    BY DEF Set_JumpLiveGo
  <2>3. \A id \in MsgIds : ctl'[id].code = ctl[id].code
    BY <2>1, <2>2 DEF RunInv, RunTypeOK, ControlWords
  <2>4. QED
    BY <2>1, <2>3 DEF RunInv, JumpsSound, JumpSteps
<1>4. RegsSound'
  BY DEF RunInv, RegsSound, Set_JumpLiveGo
<1>5. BoardSound'
  BY DEF RunInv, BoardSound, Set_JumpLiveGo
<1>6. JumpGuarded'
  BY DEF RunInv, JumpGuarded, Guarded, Set_JumpLiveGo, Idle
<1>7. RunsWholeFrames'
  BY DEF RunInv, RunsWholeFrames, InsideFrame, Set_JumpLiveGo
<1>8. QED
  BY <1>1, <1>2, <1>3, <1>4, <1>5, <1>6, <1>7 DEF RunInv

LEMMA BoardStartKeeps == ASSUME RunInv, BoardStart PROVE RunInv'
<1>1. RunTypeOK'
  <2>1. regs' \in RunRegisters
    BY DEF RunInv, RunTypeOK, RunRegisters, BoardStart
  <2>2. regs.pointer \in Nat /\ regs.counter \in Nat
    BY DEF RunInv, RunTypeOK, RunRegisters
  <2>3. Load \in BoardStates
    BY <2>2 DEF RunInv, RunTypeOK, BoardStates, Load
  <2>4. board' \in BoardStates
    BY <2>3 DEF BoardStart, BoardStates
  <2>5. QED
    BY <2>1, <2>4 DEF RunInv, RunTypeOK, BoardStart, Halfway
<1>2. HostSound'
  BY DEF RunInv, HostSound, BoardStart, Load, Halfway, RunTypeOK, HostCalls, RunRegisters,
     BoardStates, ControlWords, JumpSteps, HostSteps, Codes
<1>3. JumpsSound'
  BY DEF RunInv, JumpsSound, BoardStart
<1>4. RegsSound'
  BY DEF RunInv, RegsSound, BoardStart, Load, Halfway, RunTypeOK, HostCalls, RunRegisters,
     BoardStates, ControlWords, JumpSteps, HostSteps, Codes
<1>5. BoardSound'
  BY DEF RunInv, BoardSound, BoardStart, Load, Halfway
<1>6. JumpGuarded'
  <2>1. board'.sending = board.sending /\ UNCHANGED <<host, curstack, wiped>>
    BY DEF RunInv, RunTypeOK, BoardStates, BoardStart, Load
  <2>2. QED
    BY <2>1 DEF RunInv, JumpGuarded, Guarded
<1>7. RunsWholeFrames'
  <2>1. /\ board'.at = regs.pointer /\ board'.left = regs.counter
        /\ negative' = negative /\ loose' = (host.step = "counter") /\ regs.pointer # 0
    BY DEF BoardStart, Load, Halfway, RunInv, RunTypeOK, BoardStates
  <2>2. ~loose' /\ ~negative => InOneFrame(board'.at, board'.left)
    BY <2>1 DEF RunInv, RegsSound
  <2>3. QED
    BY <2>1, <2>2 DEF RunsWholeFrames, InsideFrame
<1>8. QED
  BY <1>1, <1>2, <1>3, <1>4, <1>5, <1>6, <1>7 DEF RunInv

LEMMA BoardAsyncKeeps == ASSUME RunInv, BoardAsync PROVE RunInv'
<1>1. RunTypeOK'
  BY DEF RunInv, RunTypeOK, BoardAsync, HostCalls, RunRegisters, BoardStates, ControlWords,
     JumpSteps, HostSteps, Codes
<1>2. HostSound'
  BY DEF RunInv, HostSound, BoardAsync, RunTypeOK, HostCalls, RunRegisters, BoardStates,
     ControlWords, JumpSteps, HostSteps, Codes
<1>3. JumpsSound'
  BY DEF RunInv, JumpsSound, BoardAsync
<1>4. RegsSound'
  BY DEF RunInv, RegsSound, BoardAsync, RunTypeOK, HostCalls, RunRegisters, BoardStates,
     ControlWords, JumpSteps, HostSteps, Codes
<1>5. BoardSound'
  <2>1. /\ board'.at = regs.asyncPtr /\ board'.left = regs.asyncNum
        /\ board'.back = <<board.at, board.left>> /\ board'.sending = board.sending
        /\ board'.running = board.running
    BY DEF BoardAsync, RunInv, RunTypeOK, BoardStates
  <2>2. /\ negative' = negative /\ loose' = (loose \/ host.step = "async count") /\ regs.asyncPtr # 0
        /\ board.running /\ board.sending = 0 /\ board.back = <<>>
    BY DEF BoardAsync, RunInv, RegsSound
  <2>3. ~loose' /\ ~negative => InOneFrame(board'.back[1], board'.back[2])
    <3>1. ~loose' => ~loose
      BY <2>2
    <3>2. ~loose /\ ~negative => InOneFrame(board.at, board.left)
      BY <2>2 DEF RunInv, RunsWholeFrames, InsideFrame
    <3>3. board'.back[1] = board.at /\ board'.back[2] = board.left
      BY <2>1
    <3>4. QED
      BY <3>1, <3>2, <3>3
  <2>4. regs'.pointer = regs.pointer /\ regs'.start = regs.start
    BY DEF BoardAsync, RunInv, RunTypeOK, RunRegisters
  <2>5. QED
    BY <2>1, <2>2, <2>3, <2>4 DEF RunInv, BoardSound
<1>6. JumpGuarded'
  BY DEF RunInv, JumpGuarded, Guarded, BoardAsync, RunTypeOK, HostCalls, RunRegisters, BoardStates,
     ControlWords, JumpSteps, HostSteps, Codes
<1>7. RunsWholeFrames'
  <2>1. /\ board'.at = regs.asyncPtr /\ board'.left = regs.asyncNum
        /\ board'.back = <<board.at, board.left>> /\ board'.sending = board.sending
        /\ board'.running = board.running
    BY DEF BoardAsync, RunInv, RunTypeOK, BoardStates
  <2>2. /\ negative' = negative /\ loose' = (loose \/ host.step = "async count") /\ regs.asyncPtr # 0
        /\ board.running /\ board.sending = 0 /\ board.back = <<>>
    BY DEF BoardAsync, RunInv, RegsSound
  <2>3. ~loose' /\ ~negative => InOneFrame(board'.at, board'.left)
    BY <2>1, <2>2 DEF RunInv, RegsSound
  <2>4. QED
    BY <2>2, <2>3 DEF RunsWholeFrames, InsideFrame
<1>8. QED
  BY <1>1, <1>2, <1>3, <1>4, <1>5, <1>6, <1>7 DEF RunInv

LEMMA BoardFetchKeeps == ASSUME RunInv, BoardFetch PROVE RunInv'
<1>1. RunTypeOK'
  <2>1. PICK id \in MsgIds : id = Stack[board.at] /\ ~ctl[id].halt
    BY StackFacts DEF BoardFetch
  <2>2. /\ board.running /\ board.sending = 0 /\ board.left > 0 /\ board.at \in Entries
        /\ UNCHANGED <<ctl, cmd, words, regs, curstack, host, wiped, loose, negative>>
        /\ board \in BoardStates /\ board.at \in Nat /\ board.left \in Nat
    BY DEF BoardFetch, RunInv, RunTypeOK, BoardStates
  <2>3. \/ /\ board' = [board EXCEPT !.at = @ + 1, !.left = @ - 1]
           /\ UNCHANGED status
        \/ /\ ctl[id].code = "JUMP"
           /\ board' = [board EXCEPT !.at = words[id].ptr, !.left = words[id].cnt]
           /\ UNCHANGED status
        \/ /\ board' = [board EXCEPT !.sending = board.at]
           /\ status' = [status EXCEPT ![board.at] = "noalter"]
    BY <2>1 DEF BoardFetch
  <2>4. words[id].ptr \in Nat /\ words[id].cnt \in Nat
    BY DEF RunInv, RunTypeOK
  <2>5. board' \in BoardStates
    <3>1. board.left - 1 \in Nat
      BY <2>2
    <3>2. [board EXCEPT !.at = @ + 1, !.left = @ - 1] \in BoardStates
      <4>1. PICK a \in Nat, l \in Nat : a = board.at + 1 /\ l = board.left - 1
        BY <2>2, <3>1
      <4>2. [board EXCEPT !.at = a, !.left = l] \in BoardStates
        BY <2>2 DEF BoardStates
      <4>3. QED
        BY <4>1, <4>2
    <3>3. [board EXCEPT !.at = words[id].ptr, !.left = words[id].cnt] \in BoardStates
      BY <2>2, <2>4 DEF BoardStates
    <3>4. [board EXCEPT !.sending = board.at] \in BoardStates
      BY <2>2 DEF BoardStates
    <3>5. QED
      BY <2>3, <3>2, <3>3, <3>4
  <2>6. status' \in [Entries -> {"zero", "noalter", "done"}]
    BY <2>2, <2>3 DEF RunInv, RunTypeOK
  <2>7. QED
    BY <2>2, <2>5, <2>6 DEF RunInv, RunTypeOK
<1>2. HostSound'
  BY DEF RunInv, HostSound, BoardFetch
<1>3. JumpsSound'
  BY DEF RunInv, JumpsSound, BoardFetch
<1>4. RegsSound'
  BY DEF RunInv, RegsSound, BoardFetch
<1>5. BoardSound'
  <2>1. PICK id \in MsgIds : id = Stack[board.at] /\ ~ctl[id].halt
    BY StackFacts DEF BoardFetch
  <2>2. /\ board.running /\ board.sending = 0 /\ board.left > 0 /\ board.at \in Entries
        /\ UNCHANGED <<ctl, cmd, words, regs, curstack, host, wiped, loose, negative>>
        /\ board \in BoardStates /\ board.at \in Nat /\ board.left \in Nat
    BY DEF BoardFetch, RunInv, RunTypeOK, BoardStates
  <2>3. \/ /\ board' = [board EXCEPT !.at = @ + 1, !.left = @ - 1]
           /\ UNCHANGED status
        \/ /\ ctl[id].code = "JUMP"
           /\ board' = [board EXCEPT !.at = words[id].ptr, !.left = words[id].cnt]
           /\ UNCHANGED status
        \/ /\ board' = [board EXCEPT !.sending = board.at]
           /\ status' = [status EXCEPT ![board.at] = "noalter"]
    BY <2>1 DEF BoardFetch
  <2>4. /\ board'.running = board.running /\ board'.back = board.back
        /\ \/ /\ board'.sending = 0
              /\ board'.at = board.at + 1 /\ board'.left = board.left - 1
           \/ /\ board'.sending = 0 /\ ctl[id].code = "JUMP"
              /\ board'.at = words[id].ptr /\ board'.left = words[id].cnt
           \/ /\ board'.sending = board.at /\ status'[board.at] = "noalter"
              /\ board'.at = board.at /\ board'.left = board.left
    BY <2>2, <2>3 DEF BoardStates, RunInv, RunTypeOK
  <2>5. board.at \in Nat /\ board.at # 0
    BY <2>2, StackFacts
  <2>6. QED
    BY <2>2, <2>4, <2>5 DEF RunInv, BoardSound
<1>6. JumpGuarded'
  <2>1. PICK id \in MsgIds : id = Stack[board.at] /\ ~ctl[id].halt
    BY StackFacts DEF BoardFetch
  <2>2. /\ board.running /\ board.sending = 0 /\ board.left > 0 /\ board.at \in Entries
        /\ UNCHANGED <<ctl, cmd, words, regs, curstack, host, wiped, loose, negative>>
        /\ board \in BoardStates /\ board.at \in Nat /\ board.left \in Nat
    BY DEF BoardFetch, RunInv, RunTypeOK, BoardStates
  <2>3. \/ /\ board' = [board EXCEPT !.at = @ + 1, !.left = @ - 1]
           /\ UNCHANGED status
        \/ /\ ctl[id].code = "JUMP"
           /\ board' = [board EXCEPT !.at = words[id].ptr, !.left = words[id].cnt]
           /\ UNCHANGED status
        \/ /\ board' = [board EXCEPT !.sending = board.at]
           /\ status' = [status EXCEPT ![board.at] = "noalter"]
    BY <2>1 DEF BoardFetch
  <2>4. /\ board'.running = board.running /\ board'.back = board.back
        /\ \/ /\ board'.sending = 0
              /\ board'.at = board.at + 1 /\ board'.left = board.left - 1
           \/ /\ board'.sending = 0 /\ ctl[id].code = "JUMP"
              /\ board'.at = words[id].ptr /\ board'.left = words[id].cnt
           \/ /\ board'.sending = board.at /\ status'[board.at] = "noalter"
              /\ board'.at = board.at /\ board'.left = board.left
    BY <2>2, <2>3 DEF BoardStates, RunInv, RunTypeOK
  <2>5. host.step \in JumpSteps => id # host.id
    BY <2>1, JumpHalted
  <2>6. board'.sending = 0 \/ Stack[board'.sending] = id
    BY <2>1, <2>4
  <2>7. host'.step = host.step /\ host'.id = host.id
    BY <2>2
  <2>8. QED
    BY <2>5, <2>6, <2>7 DEF JumpGuarded, JumpSteps
<1>7. RunsWholeFrames'
  <2>1. PICK id \in MsgIds : id = Stack[board.at] /\ ~ctl[id].halt
    BY StackFacts DEF BoardFetch
  <2>2. /\ board.running /\ board.sending = 0 /\ board.left > 0 /\ board.at \in Entries
        /\ UNCHANGED <<ctl, cmd, words, regs, curstack, host, wiped, loose, negative>>
        /\ board \in BoardStates /\ board.at \in Nat /\ board.left \in Nat
    BY DEF BoardFetch, RunInv, RunTypeOK, BoardStates
  <2>3. \/ /\ board' = [board EXCEPT !.at = @ + 1, !.left = @ - 1]
           /\ UNCHANGED status
        \/ /\ ctl[id].code = "JUMP"
           /\ board' = [board EXCEPT !.at = words[id].ptr, !.left = words[id].cnt]
           /\ UNCHANGED status
        \/ /\ board' = [board EXCEPT !.sending = board.at]
           /\ status' = [status EXCEPT ![board.at] = "noalter"]
    BY <2>1 DEF BoardFetch
  <2>4. /\ board'.running = board.running /\ board'.back = board.back
        /\ \/ /\ board'.sending = 0
              /\ board'.at = board.at + 1 /\ board'.left = board.left - 1
           \/ /\ board'.sending = 0 /\ ctl[id].code = "JUMP"
              /\ board'.at = words[id].ptr /\ board'.left = words[id].cnt
           \/ /\ board'.sending = board.at /\ status'[board.at] = "noalter"
              /\ board'.at = board.at /\ board'.left = board.left
    BY <2>2, <2>3 DEF BoardStates, RunInv, RunTypeOK
  <2>5. ~loose /\ ~negative => InOneFrame(board.at, board.left)
    BY <2>2 DEF RunInv, RunsWholeFrames, InsideFrame
  <2>6. ctl[id].code = "JUMP" => negative \/ InOneFrame(words[id].ptr, words[id].cnt)
    <3>1. ~(host.step \in JumpSteps /\ host.id = id)
      BY <2>1, JumpHalted
    <3>2. QED
      BY <3>1 DEF RunInv, JumpsSound
  <2>7. InOneFrame(board.at, board.left) => InOneFrame(board.at + 1, board.left - 1)
    BY <2>2, FrameFacts DEF InOneFrame
  <2>8. ~loose /\ ~negative => InOneFrame(board'.at, board'.left)
    BY <2>4, <2>5, <2>6, <2>7
  <2>9. QED
    BY <2>2, <2>8 DEF RunsWholeFrames, InsideFrame
<1>8. QED
  BY <1>1, <1>2, <1>3, <1>4, <1>5, <1>6, <1>7 DEF RunInv

LEMMA BoardSentKeeps == ASSUME RunInv, BoardSent PROVE RunInv'
<1>1. RunTypeOK'
  <2>1. /\ board.sending \in Entries /\ board.left > 0 /\ board.running
        /\ board \in BoardStates /\ board.at \in Nat /\ board.left \in Nat
    BY DEF BoardSent, RunInv, RunTypeOK, BoardSound, BoardStates
  <2>2. board' = [board EXCEPT !.sending = 0, !.at = @ + 1, !.left = @ - 1]
    BY DEF BoardSent
  <2>3. board' \in BoardStates
    <3>1. board.left - 1 \in Nat /\ board.at + 1 \in Nat
      BY <2>1
    <3>2. QED
      BY <2>1, <2>2, <3>1 DEF BoardStates
  <2>4. status' \in [Entries -> {"zero", "noalter", "done"}]
    BY <2>1 DEF BoardSent, RunInv, RunTypeOK
  <2>5. QED
    BY <2>3, <2>4 DEF BoardSent, RunInv, RunTypeOK
<1>2. HostSound'
  BY DEF RunInv, HostSound, BoardSent
<1>3. JumpsSound'
  BY DEF RunInv, JumpsSound, BoardSent
<1>4. RegsSound'
  BY DEF RunInv, RegsSound, BoardSent
<1>5. BoardSound'
  BY DEF RunInv, BoardSound, BoardSent
<1>6. JumpGuarded'
  BY DEF RunInv, JumpGuarded, Guarded, BoardSent, RunTypeOK, HostCalls, RunRegisters, BoardStates,
     ControlWords, JumpSteps, HostSteps, Codes
<1>7. RunsWholeFrames'
  <2>1. /\ board.sending \in Entries /\ board.left > 0 /\ board.running
        /\ board \in BoardStates /\ board.at \in Nat /\ board.left \in Nat
    BY DEF BoardSent, RunInv, RunTypeOK, BoardSound, BoardStates
  <2>2. board' = [board EXCEPT !.sending = 0, !.at = @ + 1, !.left = @ - 1]
    BY DEF BoardSent
  <2>3. board'.at = board.at + 1 /\ board'.left = board.left - 1 /\ loose' = loose
        /\ negative' = negative
    BY <2>1, <2>2 DEF BoardStates, BoardSent
  <2>4. ~loose /\ ~negative => InOneFrame(board.at, board.left)
    BY <2>1 DEF RunInv, RunsWholeFrames, InsideFrame
  <2>5. InOneFrame(board.at, board.left) => InOneFrame(board.at + 1, board.left - 1)
    BY <2>1, FrameFacts DEF InOneFrame
  <2>6. QED
    BY <2>3, <2>4, <2>5 DEF RunsWholeFrames, InsideFrame
<1>8. QED
  BY <1>1, <1>2, <1>3, <1>4, <1>5, <1>6, <1>7 DEF RunInv

LEMMA BoardEndKeeps == ASSUME RunInv, BoardEnd PROVE RunInv'
<1>1. RunTypeOK'
  <2>1. regs.pointer \in Nat /\ regs.counter \in Nat
    BY DEF RunInv, RunTypeOK, RunRegisters
  <2>2. board.back # <<>> => board.back[1] \in Nat /\ board.back[2] \in Nat
    BY DEF RunInv, RunTypeOK, BoardStates
  <2>3. board' \in BoardStates
    BY <2>1, <2>2 DEF RunInv, RunTypeOK, BoardStates, BoardEnd, Load
  <2>4. loose' \in BOOLEAN
    BY DEF RunInv, RunTypeOK, BoardEnd, Halfway
  <2>5. QED
    BY <2>3, <2>4 DEF RunInv, RunTypeOK, BoardEnd
<1>2. HostSound'
  BY DEF RunInv, HostSound, BoardEnd
<1>3. JumpsSound'
  BY DEF RunInv, JumpsSound, BoardEnd
<1>4. RegsSound'
  BY DEF RunInv, RegsSound, BoardEnd
<1>5. BoardSound'
  BY DEF RunInv, BoardSound, BoardEnd, Load, Halfway
<1>6. JumpGuarded'
  BY DEF RunInv, JumpGuarded, Guarded, BoardEnd, Load, Halfway, RunTypeOK, HostCalls, RunRegisters,
     BoardStates, ControlWords, JumpSteps, HostSteps, Codes
<1>7. RunsWholeFrames'
  <2>1. CASE board.back # <<>>
    <3>1. board'.at = board.back[1] /\ board'.left = board.back[2] /\ loose' = loose
          /\ negative' = negative
      BY <2>1 DEF BoardEnd, RunInv, RunTypeOK, BoardStates
    <3>2. ~loose /\ ~negative => InOneFrame(board.back[1], board.back[2])
      BY <2>1 DEF RunInv, BoardSound
    <3>3. QED
      BY <3>1, <3>2 DEF RunsWholeFrames, InsideFrame
  <2>2. CASE board.back = <<>> /\ board.loop
    <3>1. /\ board'.at = regs.pointer /\ board'.left = regs.counter
          /\ negative' = negative /\ loose' = (host.step = "counter")
      BY <2>2 DEF BoardEnd, Load, Halfway, RunInv, RunTypeOK, BoardStates
    <3>2. regs.pointer # 0
      BY DEF BoardEnd, RunInv, BoardSound
    <3>3. ~loose' /\ ~negative => InOneFrame(board'.at, board'.left)
      BY <3>1, <3>2 DEF RunInv, RegsSound
    <3>4. QED
      BY <3>1, <3>3 DEF RunsWholeFrames, InsideFrame
  <2>3. CASE board.back = <<>> /\ ~board.loop
    <3>1. ~board'.running
      BY <2>3 DEF BoardEnd, RunInv, RunTypeOK, BoardStates
    <3>2. QED
      BY <3>1 DEF RunsWholeFrames
  <2>4. QED
    BY <2>1, <2>2, <2>3
<1>8. QED
  BY <1>1, <1>2, <1>3, <1>4, <1>5, <1>6, <1>7 DEF RunInv

LEMMA RunInvInit == RunInit => RunInv
<1> SUFFICES ASSUME RunInit PROVE RunInv
  OBVIOUS
<1>1. RunTypeOK
  BY IdleFacts DEF RunInit, RunTypeOK, ControlWords, Codes, RunRegisters, BoardStates
<1>2. HostSound /\ JumpsSound /\ RegsSound
  BY IdleFacts DEF RunInit, HostSound, JumpSteps, JumpsSound, RegsSound
<1>3. BoardSound /\ JumpGuarded /\ RunsWholeFrames
  BY DEF RunInit, BoardSound, JumpGuarded, RunsWholeFrames, InsideFrame
<1>4. QED
  BY <1>1, <1>2, <1>3 DEF RunInv

LEMMA RunInvNext == RunInv /\ [RunNext]_RunVars => RunInv'
<1> SUFFICES ASSUME RunInv, [RunNext]_RunVars PROVE RunInv'
  OBVIOUS
<1>1. CASE RunNext
  BY <1>1, Start_FrameKeeps, Start_FrameCounterKeeps, Run_BCKeeps, Select_Async_FrameKeeps,
     Select_Async_FrameCountKeeps, Send_Async_FrameKeeps, Get_Msg_StatusKeeps,
     Get_Msgentry_StatusKeeps, ClearStatusKeeps, Set_HaltLiveKeeps, Set_ContinueLiveKeeps,
     Set_SkipLiveKeeps, Set_RestoreLiveKeeps, Set_JumpLiveKeeps, Set_JumpLiveCheckKeeps,
     Set_JumpLiveUndoKeeps, Set_JumpLivePointerKeeps, Set_JumpLiveCountKeeps,
     Set_JumpLiveGoKeeps, BoardStartKeeps, BoardAsyncKeeps, BoardFetchKeeps, BoardSentKeeps,
     BoardEndKeeps DEF RunNext
<1>2. CASE UNCHANGED RunVars
  <2>1. /\ ctl' = ctl /\ cmd' = cmd /\ words' = words /\ status' = status /\ regs' = regs
        /\ curstack' = curstack /\ board' = board /\ host' = host /\ wiped' = wiped
        /\ loose' = loose /\ negative' = negative
    BY <1>2 DEF RunVars
  <2>2. RunTypeOK' /\ JumpsSound' /\ RegsSound' /\ BoardSound' /\ RunsWholeFrames'
    BY <2>1 DEF RunInv, RunTypeOK, JumpsSound, RegsSound, BoardSound, RunsWholeFrames,
       InsideFrame
  <2>3. HostSound' /\ JumpGuarded'
    BY <2>1 DEF RunInv, HostSound, JumpGuarded, Guarded
  <2>4. QED
    BY <2>2, <2>3 DEF RunInv
<1>3. QED
  BY <1>1, <1>2

LEMMA RunInvHolds == RunSpec => []RunInv
  BY RunInvInit, RunInvNext, PTL DEF RunSpec

\* Set_Jump_Px never writes into a message that the board is sending, if the
\* message has one entry, which the status search reaches, and no late clearing
\* took its NO_ALTER away: for any stack, frames and number of calls, and
\* however the steps of the host and of the board fall.
THEOREM JumpNeverTears == RunSpec => []JumpWhole
<1>1. RunInv => JumpWhole
  BY DEF RunInv, JumpGuarded, JumpWhole
<1>2. QED
  BY <1>1, RunInvHolds, PTL

\* The board executes whole frames: with jumps, asynchronous frames and loops,
\* on any stack, it stays in the frame it was sent to unless it loaded a pointer
\* and a count of which only one was new.
THEOREM BoardStaysInFrames == RunSpec => []RunsWholeFrames
<1>1. RunInv => RunsWholeFrames
  BY DEF RunInv
<1>2. QED
  BY <1>1, RunInvHolds, PTL

(***************************************************************************)
(* Message blocks and frames.                                              *)
(***************************************************************************)
MsgWords == Blocks[1].base .. BlockEnd(4) + 1
MsgEntries == [addr : Nat, type : Nat]
StackEntries == [ptr : Nat, gap : Gaps \cup {0},
                 func : SUBSET {"interrupt", "checksum", "checksum error"}]

MsgTypeOK ==
    /\ mem \in [MsgWords -> Nat] /\ msgs \in Seq(MsgEntries)
    /\ msgblock \in 1..4 /\ nextmsg \in Nat
    /\ sound \in BOOLEAN

\* The messages lie one after the other in the blocks, up to nextmsg.
Laid ==
    /\ Blocks[msgblock].base <= nextmsg /\ nextmsg <= BlockEnd(msgblock)
    /\ \A i \in Ids : /\ msgs[i].addr \in BlockWords
                      /\ msgs[i].addr < NextPtr(i) /\ NextPtr(i) <= nextmsg
                      /\ \A j \in Ids : i < j => NextPtr(i) <= msgs[j].addr

\* Message i has n words of its own after its control word.
Room(i, n) == /\ msgs[i].addr + n < NextPtr(i)
              /\ \A a \in msgs[i].addr .. msgs[i].addr + n : a \in BlockWords

\* n words are enough for a message with commandtype t, command code c and
\* command word d, whatever is done with it.
Enough(t, c, d, n) ==
    \/ t = MINOR_FRAME /\ c \in {MINOR_FRAME, SKIP}
    \/ t = JUMP /\ c \in {JUMP, SKIP} /\ 2 <= n
    \/ t \in 0..6 /\ c \in {t, SKIP, t + CTL_SEND_ONCE} /\ MessageSize(t, d) <= n
    \/ /\ \E u \in (0..6) \cup {MINOR_FRAME} :
             t = u + XMT_BUS_A /\ c \in {u, SKIP} /\ MessageSize(u, d) <= n
       /\ WordCount(d) + 2 <= n

Shaped(i) == \E n \in Nat : /\ Room(i, n)
                            /\ Enough(msgs[i].type, Code(mem[msgs[i].addr]),
                                      mem[msgs[i].addr + 1], n)
Shapes == sound => \A i \in Ids : Shaped(i)

MsgsInv == MsgTypeOK /\ Laid /\ Shapes /\ StaysInside

\* The frames lie in the stack, below nextstack.
FramesLaid ==
    /\ stack \in [0 .. StackLen - 1 -> StackEntries]
    /\ nextstack \in 0 .. StackLen
    /\ frames \in Seq([first : Nat, msgcnt : Nat])
    /\ \A f \in DOMAIN frames : frames[f].first + frames[f].msgcnt <= nextstack

FramesInv == FramesLaid /\ FramesNameMessages

\* The four blocks as numbers.
LEMMA BlockFacts ==
    /\ \A b \in 1..4 : /\ Blocks[b].base \in Nat /\ BlockEnd(b) \in Nat
                       /\ Blocks[b].base <= BlockEnd(b)
    /\ \A b \in 1..3 : BlockEnd(b) <= Blocks[b + 1].base
    /\ \A b \in 1..4 : BlockEnd(b) <= BlockEnd(4)
<1>1. \A b \in 1..4 : /\ Blocks[b].base \in Nat /\ Blocks[b].size \in Nat
                      /\ BlockEnd(b) = Blocks[b].base + Blocks[b].size
  BY MsgAssumption DEF BlockEnd
<1>2. /\ BlockEnd(1) <= Blocks[2].base /\ BlockEnd(2) <= Blocks[3].base
      /\ BlockEnd(3) <= Blocks[4].base
  BY MsgAssumption
<1>3. /\ Blocks[2].base <= BlockEnd(2) /\ Blocks[3].base <= BlockEnd(3)
      /\ Blocks[4].base <= BlockEnd(4)
  BY <1>1
<1>4. BlockEnd(1) \in Nat /\ BlockEnd(2) \in Nat /\ BlockEnd(3) \in Nat /\ BlockEnd(4) \in Nat
  BY <1>1
<1>5. \A b \in 1..4 : b = 1 \/ b = 2 \/ b = 3 \/ b = 4
  OBVIOUS
<1>6. /\ BlockEnd(1) <= BlockEnd(4) /\ BlockEnd(2) <= BlockEnd(4) /\ BlockEnd(3) <= BlockEnd(4)
  BY <1>1, <1>2, <1>3, <1>4
<1>7. \A b \in 1..4 : BlockEnd(b) <= BlockEnd(4)
  BY <1>4, <1>5, <1>6
<1>8. QED
  BY <1>1, <1>7, MsgAssumption

LEMMA BlockWordFacts ==
    /\ \A a : a \in BlockWords <=>
          \E b \in 1..4 : a \in Nat /\ Blocks[b].base <= a /\ a < BlockEnd(b)
    /\ \A a \in BlockWords : a \in MsgWords /\ a + 1 \in MsgWords
<1>1. \A a : a \in BlockWords <=> \E b \in 1..4 : a \in Blocks[b].base .. BlockEnd(b) - 1
  BY DEF BlockWords
<1>2. \A a : a \in BlockWords <=>
          \E b \in 1..4 : a \in Nat /\ Blocks[b].base <= a /\ a < BlockEnd(b)
  <2>1. ASSUME NEW a, NEW b \in 1..4
        PROVE  a \in Blocks[b].base .. BlockEnd(b) - 1 <=>
                 a \in Nat /\ Blocks[b].base <= a /\ a < BlockEnd(b)
    <3>1. PICK x \in Nat, y \in Nat : x = Blocks[b].base /\ y = BlockEnd(b)
      BY BlockFacts
    <3>2. a \in x .. y - 1 <=> a \in Nat /\ x <= a /\ a < y
      OBVIOUS
    <3>3. QED
      BY <3>1, <3>2
  <2>2. QED
    BY <1>1, <2>1
<1>3. ASSUME NEW a \in BlockWords PROVE a \in MsgWords /\ a + 1 \in MsgWords
  <2>1. PICK b \in 1..4 : a \in Nat /\ Blocks[b].base <= a /\ a < BlockEnd(b)
    BY <1>2
  <2>2. Blocks[1].base <= Blocks[b].base /\ BlockEnd(b) <= BlockEnd(4)
    <3>1. b = 1 \/ b = 2 \/ b = 3 \/ b = 4
      OBVIOUS
    <3>2. /\ Blocks[1].base <= Blocks[2].base /\ Blocks[2].base <= Blocks[3].base
          /\ Blocks[3].base <= Blocks[4].base
      BY BlockFacts
    <3>3. QED
      BY <3>1, <3>2, BlockFacts
  <2>3. QED
    BY <2>1, <2>2, BlockFacts DEF MsgWords
<1>4. QED
  BY <1>2, <1>3

\* What a control word becomes with another command code.
LEMMA CodeFacts ==
    ASSUME NEW w \in Nat
    PROVE  /\ Code(w) \in 0..15 /\ Low3(w) \in 0..7
           /\ Low3(w) = IF Code(w) < 8 THEN Code(w) ELSE Code(w) - 8
           /\ \A c \in 0..15 : WithCode(w, c) \in Nat /\ Code(WithCode(w, c)) = c
  BY DEF Code, Low3, WithCode

LEMMA CountFacts ==
    ASSUME NEW d \in Nat
    PROVE  WordCount(d) \in 1..32
  BY DEF WordCount

LEMMA SizeFacts ==
    ASSUME NEW t \in Nat, NEW d \in Nat
    PROVE  MessageSize(t, d) \in Nat /\ (t # MINOR_FRAME => 2 <= MessageSize(t, d))
  BY CountFacts DEF MessageSize, MINOR_FRAME, MODE, BRD_MODE, RT2RT, BRD_RT2RT, BRD_RCV

\* The tables of messages.
LEMMA MsgFacts ==
    ASSUME MsgTypeOK, NEW i \in Ids
    PROVE  /\ Len(msgs) \in Nat /\ i \in Nat /\ 1 <= i /\ i <= Len(msgs)
           /\ msgs[i].addr \in Nat /\ msgs[i].type \in Nat /\ msgs[i] \in MsgEntries
           /\ NextPtr(i) \in Nat
<1>1. Len(msgs) \in Nat /\ \A j \in 1..Len(msgs) : msgs[j] \in MsgEntries
  BY DEF MsgTypeOK
<1>2. i \in Nat /\ 1 <= i /\ i <= Len(msgs) /\ msgs[i] \in MsgEntries
  BY <1>1 DEF Ids
<1>3. i # Len(msgs) => i + 1 \in 1..Len(msgs)
  BY <1>1, <1>2
<1>4. NextPtr(i) \in Nat
  BY <1>1, <1>3 DEF NextPtr, MsgTypeOK, MsgEntries
<1>5. QED
  BY <1>1, <1>2, <1>4 DEF MsgEntries

\* The words of a message, and those it has room for.
LEMMA OwnFacts ==
    ASSUME MsgTypeOK, Laid, NEW i \in Ids
    PROVE  /\ \A a : a \in OwnWords(i) <=>
                 a \in BlockWords /\ msgs[i].addr <= a /\ a < NextPtr(i)
           /\ msgs[i].addr \in OwnWords(i)
           /\ msgs[i].addr \in MsgWords /\ msgs[i].addr + 1 \in MsgWords
           /\ mem[msgs[i].addr] \in Nat /\ mem[msgs[i].addr + 1] \in Nat
<1>1. PICK p \in Nat, q \in Nat : p = msgs[i].addr /\ q = NextPtr(i)
  BY MsgFacts
<1>2. \A a \in BlockWords : a \in Nat
  BY BlockWordFacts
<1>3. \A a \in Nat : a \in p .. q - 1 <=> p <= a /\ a < q
  OBVIOUS
<1>4. \A a : a \in OwnWords(i) <=> a \in BlockWords /\ p <= a /\ a < q
  BY <1>1, <1>2, <1>3 DEF OwnWords
<1>5. p \in BlockWords /\ p < q
  BY <1>1 DEF Laid
<1>6. p \in MsgWords /\ p + 1 \in MsgWords
  BY <1>5, BlockWordFacts
<1>7. mem[p] \in Nat /\ mem[p + 1] \in Nat
  BY <1>6 DEF MsgTypeOK
<1>8. QED
  BY <1>1, <1>4, <1>5, <1>6, <1>7

LEMMA RoomFacts ==
    ASSUME MsgTypeOK, Laid, NEW i \in Ids, NEW n \in Nat, Room(i, n)
    PROVE  \A k \in 0..n : msgs[i].addr + k \in OwnWords(i)
<1>1. PICK p \in Nat, q \in Nat : p = msgs[i].addr /\ q = NextPtr(i)
  BY MsgFacts
<1>2. p + n < q /\ \A a \in p .. p + n : a \in BlockWords
  BY <1>1 DEF Room
<1>3. ASSUME NEW k \in 0..n PROVE p + k \in BlockWords /\ p <= p + k /\ p + k < q
  <2>1. p + k \in p .. p + n
    OBVIOUS
  <2>2. QED
    BY <1>2, <2>1
<1>4. QED
  BY <1>1, <1>3, OwnFacts

\* No two messages have a word in common.
LEMMA OwnDisjoint ==
    ASSUME MsgTypeOK, Laid, NEW i \in Ids, NEW j \in Ids, i # j, NEW a \in OwnWords(i)
    PROVE  a \notin OwnWords(j)
<1>1. i \in Nat /\ j \in Nat /\ (i < j \/ j < i)
  BY MsgFacts
<1>2. /\ i < j => NextPtr(i) <= msgs[j].addr
      /\ j < i => NextPtr(j) <= msgs[i].addr
  BY DEF Laid
<1>3. a \in BlockWords /\ msgs[i].addr <= a /\ a < NextPtr(i)
  BY OwnFacts
<1>4. a \in Nat
  BY <1>3, BlockWordFacts
<1>5. PICK pi \in Nat, pj \in Nat, qi \in Nat, qj \in Nat :
        pi = msgs[i].addr /\ pj = msgs[j].addr /\ qi = NextPtr(i) /\ qj = NextPtr(j)
  BY MsgFacts
<1>6. ~(pj <= a /\ a < qj)
  BY <1>1, <1>2, <1>3, <1>4, <1>5
<1>7. QED
  BY <1>5, <1>6, OwnFacts

\* A message that is not a live jump has the words that its type, as the
\* routines take it from the control word, calls for.
LEMMA EnoughUse ==
    ASSUME NEW t \in Nat, NEW w \in Nat, NEW d \in Nat, NEW n \in Nat,
           Enough(t, Code(w), d, n), ~(t = JUMP /\ Code(w) = JUMP),
           NEW a, a = IF Low3(w) = SKIP THEN t ELSE Low3(w)
    PROVE  /\ a \in Nat
           /\ a \notin {JUMP, MINOR_FRAME} => MessageSize(a, d) <= n
           /\ a = JUMP => 2 <= n
<1> USE DEF JUMP, SKIP, MINOR_FRAME, CTL_SEND_ONCE, XMT_BUS_A
<1>1. /\ Code(w) \in 0..15 /\ Low3(w) \in 0..7
      /\ Low3(w) = IF Code(w) < 8 THEN Code(w) ELSE Code(w) - 8
  BY CodeFacts
<1>2. CASE t = MINOR_FRAME /\ Code(w) \in {MINOR_FRAME, SKIP}
  BY <1>1, <1>2
<1>3. CASE t = JUMP /\ Code(w) \in {JUMP, SKIP} /\ 2 <= n
  BY <1>1, <1>3
<1>4. CASE t \in 0..6 /\ Code(w) \in {t, SKIP, t + CTL_SEND_ONCE} /\ MessageSize(t, d) <= n
  <2>1. a = t
    BY <1>1, <1>4
  <2>2. QED
    BY <1>4, <2>1
<1>5. ASSUME NEW u \in (0..6) \cup {MINOR_FRAME}, t = u + XMT_BUS_A, Code(w) \in {u, SKIP},
             MessageSize(u, d) <= n, WordCount(d) + 2 <= n
      PROVE  /\ a \in Nat
             /\ a \notin {JUMP, MINOR_FRAME} => MessageSize(a, d) <= n
             /\ a = JUMP => 2 <= n
  <2>1. u \in Nat /\ (a = u \/ a = t)
    BY <1>1, <1>5
  <2>2. t >= 128 /\ MessageSize(t, d) = WordCount(d) + 2
    BY <1>5 DEF MessageSize, MODE, BRD_MODE, RT2RT, BRD_RT2RT, BRD_RCV
  <2>3. u # JUMP
    BY <1>5
  <2>4. QED
    BY <1>5, <2>1, <2>2, <2>3
<1>6. QED
  BY <1>2, <1>3, <1>4, <1>5 DEF Enough

LEMMA Usable ==
    ASSUME MsgTypeOK, Laid, NEW i \in Ids, Shaped(i), ~LiveJump(i)
    PROVE  \E n \in Nat :
              /\ Room(i, n) /\ ActingType(i) \in Nat
              /\ ActingType(i) \notin {JUMP, MINOR_FRAME} =>
                    MessageSize(ActingType(i), mem[msgs[i].addr + 1]) <= n
              /\ ActingType(i) = JUMP => 2 <= n
<1>1. PICK t \in Nat, w \in Nat, d \in Nat :
        t = msgs[i].type /\ w = mem[msgs[i].addr] /\ d = mem[msgs[i].addr + 1]
  BY MsgFacts, OwnFacts
<1>2. PICK n \in Nat : Room(i, n) /\ Enough(t, Code(w), d, n)
  BY <1>1 DEF Shaped
<1>3. ActingType(i) = IF Low3(w) = SKIP THEN t ELSE Low3(w)
  BY <1>1 DEF ActingType
<1>4. ~(t = JUMP /\ Code(w) = JUMP)
  BY <1>1 DEF LiveJump
<1>5. PICK a : a = ActingType(i)
  OBVIOUS
<1>6. /\ a \in Nat /\ (a \notin {JUMP, MINOR_FRAME} => MessageSize(a, d) <= n)
      /\ a = JUMP => 2 <= n
  BY <1>2, <1>3, <1>4, <1>5, EnoughUse
<1>7. QED
  BY <1>1, <1>2, <1>5, <1>6

\* Alter_Message_Px writes data words of the message.
LEMMA AlterInside ==
    ASSUME MsgTypeOK, Laid, NEW i \in Ids, Shaped(i), ~LiveJump(i),
           ActingType(i) \notin {JUMP, MINOR_FRAME}
    PROVE  /\ AlteredWords(i) \subseteq OwnWords(i)
           /\ msgs[i].addr \notin AlteredWords(i) /\ msgs[i].addr + 1 \notin AlteredWords(i)
<1>1. PICK n \in Nat : /\ Room(i, n) /\ ActingType(i) \in Nat
                       /\ MessageSize(ActingType(i), mem[msgs[i].addr + 1]) <= n
  BY Usable
<1>2. PICK p \in Nat, d \in Nat, a \in Nat, c \in 1..32 :
        p = msgs[i].addr /\ d = mem[p + 1] /\ a = ActingType(i) /\ c = WordCount(d)
  BY <1>1, MsgFacts, OwnFacts, CountFacts
<1>3. AlteredWords(i) = (IF a \in {RT2RT, BRD_RT2RT} THEN p + 3 ELSE p + 2) ..
                          ((IF a \in {RT2RT, BRD_RT2RT} THEN p + 3 ELSE p + 2)
                            + (CASE a \in {MODE, BRD_MODE} -> 2
                                 [] a = BRD_RCV -> c
                                 [] a = RT2RT -> c + 2
                                 [] OTHER -> c + 1) - 1)
  BY <1>2 DEF AlteredWords
<1>4. MessageSize(a, d) = CASE a \in {MODE, BRD_MODE} -> 3
                            [] a = RT2RT -> c + 4
                            [] a = BRD_RT2RT -> c + 3
                            [] a = BRD_RCV -> c + 1
                            [] OTHER -> c + 2
  BY <1>2 DEF MessageSize
<1>m. PICK m \in Nat : m = MessageSize(a, d) /\ m <= n
  BY <1>1, <1>2, SizeFacts
<1>w. AlteredWords(i) \subseteq p + 2 .. p + m
  <2> USE DEF MODE, BRD_MODE, RT2RT, BRD_RT2RT, BRD_RCV
  <2>1. CASE a \in {MODE, BRD_MODE}
    <3>1. AlteredWords(i) = p + 2 .. p + 2 + 2 - 1 /\ m = 3
      BY <1>3, <1>4, <1>m, <2>1
    <3>2. QED
      BY <3>1
  <2>2. CASE a = RT2RT
    <3>1. AlteredWords(i) = p + 3 .. p + 3 + (c + 2) - 1 /\ m = c + 4
      BY <1>3, <1>4, <1>m, <2>2
    <3>2. QED
      BY <3>1
  <2>3. CASE a = BRD_RT2RT
    <3>1. AlteredWords(i) = p + 3 .. p + 3 + (c + 1) - 1 /\ m = c + 3
      BY <1>3, <1>4, <1>m, <2>3
    <3>2. QED
      BY <3>1
  <2>4. CASE a = BRD_RCV
    <3>1. AlteredWords(i) = p + 2 .. p + 2 + c - 1 /\ m = c + 1
      BY <1>3, <1>4, <1>m, <2>4
    <3>2. QED
      BY <3>1
  <2>5. CASE a \notin {MODE, BRD_MODE, RT2RT, BRD_RT2RT, BRD_RCV}
    <3>1. AlteredWords(i) = p + 2 .. p + 2 + (c + 1) - 1 /\ m = c + 2
      BY <1>3, <1>4, <1>m, <2>5
    <3>2. QED
      BY <3>1
  <2>6. QED
    BY <2>1, <2>2, <2>3, <2>4, <2>5
<1>5. ASSUME NEW x \in AlteredWords(i) PROVE x - p \in 2..n /\ x \in Nat
  <2>1. x \in p + 2 .. p + m
    BY <1>w
  <2>2. QED
    BY <1>m, <2>1
<1>6. ASSUME NEW x \in AlteredWords(i) PROVE x \in OwnWords(i) /\ x # p /\ x # p + 1
  <2>1. PICK k \in 2..n : k = x - p
    BY <1>5
  <2>2. x = p + k /\ k \in 0..n
    BY <1>5, <2>1
  <2>3. p + k \in OwnWords(i)
    BY <1>1, <1>2, <2>2, RoomFacts
  <2>4. QED
    BY <2>1, <2>2, <2>3
<1>7. QED
  BY <1>2, <1>6

\* Read_Message_Px and Get_BC_Msgentry_Px read words of the message.
LEMMA ReadInside ==
    ASSUME MsgTypeOK, Laid, NEW i \in Ids, Shaped(i), ~LiveJump(i),
           ActingType(i) # MINOR_FRAME
    PROVE  ReadWords(msgs[i].addr, ActingType(i)) \subseteq OwnWords(i)
<1>1. PICK n \in Nat : /\ Room(i, n) /\ ActingType(i) \in Nat
                       /\ ActingType(i) # JUMP =>
                            MessageSize(ActingType(i), mem[msgs[i].addr + 1]) <= n
                       /\ ActingType(i) = JUMP => 2 <= n
  BY Usable
<1>2. PICK p \in Nat, d \in Nat, a \in Nat, c \in 1..32 :
        p = msgs[i].addr /\ d = mem[p + 1] /\ a = ActingType(i) /\ c = WordCount(d)
  BY <1>1, MsgFacts, OwnFacts, CountFacts
<1>3. ReadWords(p, a) = IF a = JUMP THEN p .. p + 1
                        ELSE p + 1 .. p + (CASE a = MODE -> 3
                                             [] a = BRD_MODE -> 2
                                             [] a = BRD_RCV -> c + 1
                                             [] a = RT2RT -> c + 4
                                             [] a = BRD_RT2RT -> c + 3
                                             [] OTHER -> c + 2)
  BY <1>2 DEF ReadWords
<1>4. a # MINOR_FRAME /\
      MessageSize(a, d) = CASE a \in {MODE, BRD_MODE} -> 3
                            [] a = RT2RT -> c + 4
                            [] a = BRD_RT2RT -> c + 3
                            [] a = BRD_RCV -> c + 1
                            [] OTHER -> c + 2
  BY <1>2 DEF MessageSize
<1>m. PICK m \in Nat : m = MessageSize(a, d)
  BY SizeFacts
<1>w. ReadWords(p, a) \subseteq p .. p + n
  <2> USE DEF MODE, BRD_MODE, RT2RT, BRD_RT2RT, BRD_RCV, JUMP
  <2>1. CASE a = JUMP
    <3>1. ReadWords(p, a) = p .. p + 1 /\ 2 <= n
      BY <1>1, <1>2, <1>3, <2>1
    <3>2. QED
      BY <3>1
  <2>2. CASE a # JUMP
    <3>1. m <= n
      BY <1>1, <1>2, <1>m, <2>2
    <3>2. PICK k \in Nat : ReadWords(p, a) = p + 1 .. p + k /\ k <= m
      <4>1. CASE a = MODE
        BY <1>3, <1>4, <1>m, <2>2, <4>1
      <4>2. CASE a = BRD_MODE
        BY <1>3, <1>4, <1>m, <2>2, <4>2
      <4>3. CASE a = BRD_RCV
        BY <1>3, <1>4, <1>m, <2>2, <4>3
      <4>4. CASE a = RT2RT
        BY <1>3, <1>4, <1>m, <2>2, <4>4
      <4>5. CASE a = BRD_RT2RT
        BY <1>3, <1>4, <1>m, <2>2, <4>5
      <4>6. CASE a \notin {MODE, BRD_MODE, RT2RT, BRD_RT2RT, BRD_RCV}
        BY <1>3, <1>4, <1>m, <2>2, <4>6
      <4>7. QED
        BY <4>1, <4>2, <4>3, <4>4, <4>5, <4>6
    <3>3. QED
      BY <3>1, <3>2
  <2>3. QED
    BY <2>1, <2>2
<1>5. ASSUME NEW x \in ReadWords(p, a) PROVE x - p \in 0..n /\ x \in Nat
  <2>1. x \in p .. p + n
    BY <1>w
  <2>2. QED
    BY <2>1
<1>6. ASSUME NEW x \in ReadWords(p, a) PROVE x \in OwnWords(i)
  <2>1. PICK k \in 0..n : k = x - p
    BY <1>5
  <2>2. x = p + k
    BY <1>5, <2>1
  <2>3. p + k \in OwnWords(i)
    BY <1>1, <1>2, RoomFacts
  <2>4. QED
    BY <2>2, <2>3
<1>7. QED
  BY <1>2, <1>6

\* Every message but a minor frame has two words after its control word.
LEMMA EnoughTwo ==
    ASSUME NEW t \in Nat, NEW c, NEW d \in Nat, NEW n \in Nat, Enough(t, c, d, n),
           t # MINOR_FRAME
    PROVE  2 <= n
<1>1. MessageSize(t, d) \in Nat /\ 2 <= MessageSize(t, d) /\ WordCount(d) \in 1..32
  BY SizeFacts, CountFacts
<1>2. QED
  BY <1>1 DEF Enough

\* A message keeps its shape when its entry and its words are left alone and
\* its neighbour does not come closer.
LEMMA KeepsShape ==
    ASSUME MsgTypeOK, Laid, NEW i \in Ids, Shaped(i),
           msgs'[i] = msgs[i], NextPtr(i)' \in Nat, NextPtr(i) <= NextPtr(i)',
           \A a \in OwnWords(i) : mem'[a] = mem[a]
    PROVE  Shaped(i)'
<1>1. PICK n \in Nat : Room(i, n) /\ Enough(msgs[i].type, Code(mem[msgs[i].addr]),
                                           mem[msgs[i].addr + 1], n)
  BY DEF Shaped
<1>2. Room(i, n)'
  <2>1. msgs[i].addr + n \in Nat /\ NextPtr(i) \in Nat
    BY MsgFacts
  <2>2. msgs'[i].addr + n < NextPtr(i)'
    BY <1>1, <2>1 DEF Room
  <2>3. QED
    BY <1>1, <2>2 DEF Room
<1>3. mem'[msgs[i].addr] = mem[msgs[i].addr]
  BY OwnFacts
<1>4. CASE n = 0
  <2>1. msgs[i].type \in Nat /\ mem[msgs[i].addr + 1] \in Nat
    BY MsgFacts, OwnFacts
  <2>2. \A t \in Nat : t # MINOR_FRAME => ~(MessageSize(t, mem[msgs[i].addr + 1]) <= n)
    BY <1>4, <2>1, SizeFacts
  <2>3. ~(WordCount(mem[msgs[i].addr + 1]) + 2 <= n)
    BY <1>4, <2>1, CountFacts
  <2>4. msgs[i].type = MINOR_FRAME /\ Code(mem[msgs[i].addr]) \in {MINOR_FRAME, SKIP}
    BY <1>1, <1>4, <2>2, <2>3 DEF Enough, MINOR_FRAME
  <2>5. QED
    BY <1>2, <1>3, <2>4 DEF Shaped, Enough
<1>5. CASE n # 0
  <2>1. msgs[i].addr + 1 \in OwnWords(i)
    BY <1>1, <1>5, RoomFacts
  <2>2. mem'[msgs[i].addr + 1] = mem[msgs[i].addr + 1]
    BY <2>1
  <2>3. QED
    BY <1>1, <1>2, <1>3, <2>2 DEF Shaped
<1>6. QED
  BY <1>4, <1>5

\* A call about message i, which stays where it is, keeps the invariant if,
\* unless it strays, it writes and uses only words of i and leaves it in shape.
LEMMA OneMessage ==
    ASSUME MsgsInv, NEW i \in Ids, UNCHANGED <<msgblock, nextmsg>>,
           msgs' \in Seq(MsgEntries), Len(msgs') = Len(msgs),
           \A j \in Ids : msgs'[j].addr = msgs[j].addr /\ (j # i => msgs'[j] = msgs[j]),
           mem' \in [MsgWords -> Nat], sound' \in BOOLEAN, sound' => sound,
           touched'.id = i,
           sound' => /\ Shaped(i)' /\ touched'.words \subseteq OwnWords(i)
                     /\ \A a \in MsgWords : a \notin OwnWords(i) => mem'[a] = mem[a]
    PROVE  MsgsInv'
<1>1. MsgTypeOK /\ Laid
  BY DEF MsgsInv
<1>2. Ids' = Ids
  BY DEF Ids
<1>3. ASSUME NEW j \in Ids PROVE NextPtr(j)' = NextPtr(j)
  <2>1. j # Len(msgs) => j + 1 \in Ids
    BY <1>1, MsgFacts DEF Ids
  <2>2. QED
    BY <2>1 DEF NextPtr
<1>4. ASSUME NEW j \in Ids PROVE OwnWords(j)' = OwnWords(j)
  BY <1>3 DEF OwnWords
<1>5. MsgTypeOK'
  BY <1>1 DEF MsgTypeOK
<1>6. Laid'
  BY <1>1, <1>2, <1>3 DEF Laid
<1>7. Shapes'
  <2>1. ASSUME sound', NEW j \in Ids, j # i PROVE Shaped(j)'
    <3>1. Shaped(j)
      BY <2>1 DEF MsgsInv, Shapes
    <3>2. \A a \in OwnWords(j) : mem'[a] = mem[a]
      <4>1. \A a \in OwnWords(j) : a \in MsgWords
        BY <1>1, OwnFacts, BlockWordFacts
      <4>2. \A a \in OwnWords(j) : a \notin OwnWords(i)
        BY <1>1, <2>1, OwnDisjoint
      <4>3. QED
        BY <2>1, <4>1, <4>2
    <3>3. NextPtr(j)' \in Nat /\ NextPtr(j) <= NextPtr(j)'
      BY <1>1, <1>3, MsgFacts
    <3>4. QED
      BY <1>1, <2>1, <3>1, <3>2, <3>3, KeepsShape
  <2>2. QED
    BY <1>2, <2>1 DEF Shapes
<1>8. StaysInside'
  BY <1>4 DEF StaysInside
<1>9. QED
  BY <1>5, <1>6, <1>7, <1>8 DEF MsgsInv

\* A call that is about no message.
LEMMA NoMessage ==
    ASSUME MsgsInv, UNCHANGED <<mem, msgs, msgblock, nextmsg, sound>>, touched' = NoTouch
    PROVE  MsgsInv'
<1>1. MsgTypeOK' /\ Laid'
  BY DEF MsgsInv, MsgTypeOK, Laid, Ids, NextPtr
<1>2. Shapes'
  BY DEF MsgsInv, Shapes, Shaped, Room, Ids, NextPtr
<1>3. StaysInside'
  <2>1. touched'.id = 0
    BY DEF NoTouch
  <2>2. QED
    BY <2>1 DEF StaysInside, Ids
<1>4. QED
  BY <1>1, <1>2, <1>3 DEF MsgsInv

\* A message that does not reach a gap between two blocks is inside them.
LEMMA NoGap ==
    ASSUME NEW p \in BlockWords, NEW s \in Nat, p + s < BlockEnd(4), ~OverRegisters(p, s),
           NEW a \in p .. p + s
    PROVE  a \in BlockWords
<1>1. PICK b \in 1..4 : p \in Nat /\ Blocks[b].base <= p /\ p < BlockEnd(b)
  BY BlockWordFacts
<1>2. \A x \in 1..3 : p < BlockEnd(x) /\ p + s >= BlockEnd(x) => Blocks[x + 1].base <= BlockEnd(x)
  BY BlockFacts DEF OverRegisters
<1>3. PICK b1 \in Nat, b2 \in Nat, b3 \in Nat, b4 \in Nat, e1 \in Nat, e2 \in Nat,
           e3 \in Nat, e4 \in Nat :
        /\ b1 = Blocks[1].base /\ b2 = Blocks[2].base /\ b3 = Blocks[3].base
        /\ b4 = Blocks[4].base /\ e1 = BlockEnd(1) /\ e2 = BlockEnd(2)
        /\ e3 = BlockEnd(3) /\ e4 = BlockEnd(4)
  <2>1. /\ Blocks[1].base \in Nat /\ Blocks[2].base \in Nat /\ Blocks[3].base \in Nat
        /\ Blocks[4].base \in Nat /\ BlockEnd(1) \in Nat /\ BlockEnd(2) \in Nat
        /\ BlockEnd(3) \in Nat /\ BlockEnd(4) \in Nat
    BY BlockFacts
  <2>2. QED
    BY <2>1, Zenon
<1>4. /\ b1 <= e1 /\ e1 <= b2 /\ b2 <= e2 /\ e2 <= b3 /\ b3 <= e3 /\ e3 <= b4 /\ b4 <= e4
  BY <1>3, BlockFacts
<1>5. /\ p < e1 /\ p + s >= e1 => b2 <= e1
      /\ p < e2 /\ p + s >= e2 => b3 <= e2
      /\ p < e3 /\ p + s >= e3 => b4 <= e3
  BY <1>2, <1>3
<1>6. \/ b1 <= p /\ p < e1
      \/ b2 <= p /\ p < e2
      \/ b3 <= p /\ p < e3
      \/ b4 <= p /\ p < e4
  <2>1. b = 1 \/ b = 2 \/ b = 3 \/ b = 4
    OBVIOUS
  <2>2. QED
    BY <1>1, <1>3, <2>1
<1>7. a \in Nat /\ p <= a /\ a <= p + s /\ p \in Nat /\ p + s < e4
  BY <1>1, <1>3
<1>8. \/ b1 <= a /\ a < e1
      \/ b2 <= a /\ a < e2
      \/ b3 <= a /\ a < e3
      \/ b4 <= a /\ a < e4
  BY <1>4, <1>5, <1>6, <1>7
<1>9. QED
  BY <1>3, <1>7, <1>8, BlockWordFacts

LEMMA ValidTypes ==
    ASSUME NEW t \in Nat, NEW d0, NEW d1, ValidCommand(t, d0, d1)
    PROVE  t \in (0..6) \cup {MINOR_FRAME}
  BY DEF ValidCommand, MINOR_FRAME, MODE, BRD_MODE, BRD_RCV, BC2RT, RT2BC, BRD_RT2RT, RT2RT

\* The words Create_1553_Message_Px and Re_Create_Message_Px write.
LEMMA WrittenFacts ==
    ASSUME MsgTypeOK, NEW p \in MsgWords, p + 1 \in MsgWords,
           NEW c \in Nat, NEW s \in Nat, NEW d0 \in Nat, NEW d1 \in Nat,
           mem' = Written(mem, p, c, s, d0, d1)
    PROVE  /\ mem' \in [MsgWords -> Nat] /\ mem'[p] = c
           /\ s > 0 => mem'[p + 1] = d0
           /\ \A a \in MsgWords : a \notin p .. p + s => mem'[a] = mem[a]
<1>m. PICK m \in [MsgWords -> Nat] : m = mem
  BY DEF MsgTypeOK
<1>n. PICK new : new = mem'
  OBVIOUS
<1>e. new = Written(m, p, c, s, d0, d1)
  BY <1>m, <1>n
<1>1. p \in Nat /\ \A a \in MsgWords : a \in Nat
  <2>1. PICK x \in Nat, y \in Nat : x = Blocks[1].base /\ y = BlockEnd(4)
    BY BlockFacts
  <2>2. \A a \in x .. y + 1 : a \in Nat
    OBVIOUS
  <2>3. QED
    BY <2>1, <2>2 DEF MsgWords
<1>2. new = [a \in MsgWords |-> CASE a = p -> c
                                  [] a = p + 1 /\ s > 0 -> d0
                                  [] a = p + 2 /\ s > 1 -> d1
                                  [] a > p + 2 /\ a <= p + s -> 0
                                  [] OTHER -> m[a]]
  BY <1>e DEF Written
<1>3. new \in [MsgWords -> Nat]
  BY <1>1, <1>2
<1>v. \A a \in MsgWords : new[a] = CASE a = p -> c
                                    [] a = p + 1 /\ s > 0 -> d0
                                    [] a = p + 2 /\ s > 1 -> d1
                                    [] a > p + 2 /\ a <= p + s -> 0
                                    [] OTHER -> m[a]
  BY <1>2, Zenon
<1>4. new[p] = c
  <2>1. p # p + 1 /\ p # p + 2 /\ ~(p > p + 2)
    BY <1>1
  <2>2. QED
    BY <1>v, <2>1
<1>5. ASSUME s > 0 PROVE new[p + 1] = d0
  <2>1. PICK q \in MsgWords : q = p + 1
    OBVIOUS
  <2>2. q \in Nat /\ q # p /\ q # p + 2 /\ ~(q > p + 2)
    BY <1>1, <2>1
  <2>3. new[q] = d0
    BY <1>v, <1>5, <2>1, <2>2
  <2>4. QED
    BY <2>1, <2>3
<1>6. ASSUME NEW a \in MsgWords, a \notin p .. p + s PROVE new[a] = m[a]
  <2>1. a \in Nat /\ a # p /\ ~(a = p + 1 /\ s > 0) /\ ~(a = p + 2 /\ s > 1)
        /\ ~(a > p + 2 /\ a <= p + s)
    BY <1>1, <1>6
  <2>2. QED
    BY <1>v, <2>1
<1>7. QED
  BY <1>m, <1>n, <1>3, <1>4, <1>5, <1>6

\* The control word, the command word and the size that a message is given
\* go together: with its type alone, and with the bus bit added.
LEMMA NewEnough ==
    ASSUME NEW t \in (0..6) \cup {MINOR_FRAME}, NEW d \in Nat, NEW e \in Nat, NEW s \in Nat,
           s > 0 => e = d
    PROVE  /\ MessageSize(t, d) = s => Enough(t, Code(t), e, s) /\ Enough(t, Code(XMT_BUS_A + t), e, s)
           /\ WordCount(d) + 2 = s /\ MessageSize(t, d) <= s =>
                 Enough(t + XMT_BUS_A, Code(t + XMT_BUS_A), e, s)
<1>1. t \in Nat /\ Code(t) = t /\ Code(XMT_BUS_A + t) = t /\ Code(t + XMT_BUS_A) = t
  BY DEF Code, XMT_BUS_A, MINOR_FRAME
<1>2. ASSUME MessageSize(t, d) = s PROVE Enough(t, t, e, s)
  <2>1. CASE t = MINOR_FRAME
    BY <2>1 DEF Enough
  <2>2. CASE t # MINOR_FRAME
    <3>1. t \in 0..6 /\ e = d
      BY <1>1, <1>2, <2>2, SizeFacts
    <3>2. QED
      BY <1>2, <3>1 DEF Enough
  <2>3. QED
    BY <2>1, <2>2
<1>3. ASSUME WordCount(d) + 2 = s, MessageSize(t, d) <= s PROVE Enough(t + XMT_BUS_A, t, e, s)
  <2>1. e = d
    BY <1>3, CountFacts
  <2>2. WordCount(e) + 2 <= s
    BY <1>3, <2>1
  <2>3. QED
    BY <1>3, <2>1, <2>2 DEF Enough
<1>4. QED
  BY <1>1, <1>2, <1>3

\* Only the frame tables change their place in the invariant of the frames.
LEMMA FramesKept ==
    ASSUME FramesInv, UNCHANGED <<stack, nextstack, frames>>,
           \A j \in Ids : j \in Ids' /\ msgs'[j].addr = msgs[j].addr
    PROVE  FramesInv'
  BY DEF FramesInv, FramesLaid, FramesNameMessages

MsgInv == MsgsInv /\ FramesInv

\* The message is left as it was: a call that reads it or changes bits that
\* the model does not keep.
LEMMA JustUses ==
    ASSUME MsgInv, NEW i \in Ids, UNCHANGED <<mem, msgs, msgblock, nextmsg>>,
           sound' \in BOOLEAN, sound' => sound, touched'.id = i,
           sound' => touched'.words \subseteq OwnWords(i)
    PROVE  MsgsInv'
<1>1. sound => Shaped(i)
  BY DEF MsgInv, MsgsInv, Shapes
<1>2. Shaped(i) => Shaped(i)'
  BY DEF Shaped, Room, NextPtr
<1>3. mem' \in [MsgWords -> Nat] /\ msgs' \in Seq(MsgEntries)
  BY DEF MsgInv, MsgsInv, MsgTypeOK
<1>4. QED
  BY <1>1, <1>2, <1>3, OneMessage DEF MsgInv

\* One control word has its command code replaced.
LEMMA CodeChange ==
    ASSUME MsgInv, NEW i \in Ids, NEW c \in 0..15, PutCode(i, c),
           UNCHANGED <<msgs, msgblock, nextmsg, sound>>,
           touched' = [id |-> i, words |-> {msgs[i].addr}],
           \A d \in Nat, n \in Nat :
              Enough(msgs[i].type, Code(mem[msgs[i].addr]), d, n) => Enough(msgs[i].type, c, d, n)
    PROVE  MsgsInv'
<1>1. MsgsInv /\ MsgTypeOK /\ Laid
  BY DEF MsgInv, MsgsInv
<1>2. PICK p \in MsgWords : p = msgs[i].addr
  BY <1>1, OwnFacts
<1>3. /\ mem[p] \in Nat /\ p \in OwnWords(i) /\ p + 1 \in MsgWords /\ p \in Nat
      /\ mem[p + 1] \in Nat
  BY <1>1, <1>2, OwnFacts, MsgFacts
<1>4. WithCode(mem[p], c) \in Nat /\ Code(WithCode(mem[p], c)) = c
  BY <1>3, CodeFacts
<1>5. mem' = [mem EXCEPT ![p] = WithCode(mem[p], c)]
  BY <1>2 DEF PutCode
<1>6. /\ mem' \in [MsgWords -> Nat] /\ mem'[p] = WithCode(mem[p], c)
      /\ \A a \in MsgWords : a # p => mem'[a] = mem[a]
  BY <1>1, <1>4, <1>5 DEF MsgTypeOK
<1>7. sound' => Shaped(i)'
  <2>1. SUFFICES ASSUME sound PROVE Shaped(i)'
    OBVIOUS
  <2>2. PICK n \in Nat : Room(i, n) /\ Enough(msgs[i].type, Code(mem[p]), mem[p + 1], n)
    BY <1>1, <1>2, <2>1 DEF MsgsInv, Shapes, Shaped
  <2>3. Room(i, n)'
    BY <2>2 DEF Room, NextPtr
  <2>4. mem'[p + 1] = mem[p + 1]
    BY <1>3, <1>6
  <2>5. Enough(msgs[i].type, c, mem[p + 1], n)
    BY <1>2, <1>3, <2>2
  <2>6. QED
    BY <1>2, <1>4, <1>6, <2>3, <2>4, <2>5 DEF Shaped
<1>8. touched'.id = i /\ touched'.words = {p}
  BY <1>2
<1>9. msgs' \in Seq(MsgEntries) /\ sound' \in BOOLEAN
  BY <1>1 DEF MsgTypeOK
<1>10. QED
  BY <1>1, <1>3, <1>6, <1>7, <1>8, <1>9, OneMessage

LEMMA Set_SkipGood == ASSUME MsgInv, Set_Skip PROVE MsgInv'
<1>1. PICK i \in Ids : PutCode(i, SKIP) /\ touched' = [id |-> i, words |-> {msgs[i].addr}]
  BY DEF Set_Skip
<1>2. \A d \in Nat, n \in Nat :
         Enough(msgs[i].type, Code(mem[msgs[i].addr]), d, n) => Enough(msgs[i].type, SKIP, d, n)
  BY DEF Enough
<1>3. MsgsInv'
  BY <1>1, <1>2, CodeChange DEF Set_Skip, SKIP
<1>4. QED
  BY <1>3, FramesKept DEF MsgInv, Set_Skip, Ids

LEMMA Set_RestoreGood == ASSUME MsgInv, Set_Restore PROVE MsgInv'
<1>1. PICK i \in Ids : /\ Restorable(i) /\ PutCode(i, msgs[i].type)
                       /\ touched' = [id |-> i, words |-> {msgs[i].addr}]
  BY DEF Set_Restore
<1>2. PICK t \in 0..6 : t = msgs[i].type
  BY <1>1, MsgFacts DEF Restorable, SKIP, MsgInv, MsgsInv
<1>3. ASSUME NEW d \in Nat, NEW n \in Nat, Enough(t, Code(mem[msgs[i].addr]), d, n)
      PROVE  Enough(t, t, d, n)
  BY <1>3 DEF Enough, MINOR_FRAME, JUMP, XMT_BUS_A
<1>4. MsgsInv'
  BY <1>1, <1>2, <1>3, CodeChange DEF Set_Restore
<1>5. QED
  BY <1>4, FramesKept DEF MsgInv, Set_Restore, Ids

LEMMA Send_Msg_OnceGood == ASSUME MsgInv, Send_Msg_Once PROVE MsgInv'
<1>1. PICK i \in Ids : /\ Restorable(i) /\ PutCode(i, msgs[i].type + CTL_SEND_ONCE)
                       /\ touched' = [id |-> i, words |-> {msgs[i].addr}]
  BY DEF Send_Msg_Once
<1>2. PICK t \in 0..6 : t = msgs[i].type
  BY <1>1, MsgFacts DEF Restorable, SKIP, MsgInv, MsgsInv
<1>3. ASSUME NEW d \in Nat, NEW n \in Nat, Enough(t, Code(mem[msgs[i].addr]), d, n)
      PROVE  Enough(t, t + CTL_SEND_ONCE, d, n)
  BY <1>3 DEF Enough, MINOR_FRAME, JUMP, XMT_BUS_A
<1>4. PICK c \in 0..15 : c = t + CTL_SEND_ONCE
  BY DEF CTL_SEND_ONCE
<1>5. MsgsInv'
  BY <1>1, <1>2, <1>3, <1>4, CodeChange DEF Send_Msg_Once
<1>6. QED
  BY <1>5, FramesKept DEF MsgInv, Send_Msg_Once, Ids

LEMMA Alter_CmdGood == ASSUME MsgInv, Alter_Cmd PROVE MsgInv'
<1>1. PICK i \in Ids : /\ touched' = [id |-> i, words |-> {msgs[i].addr + 1}]
                       /\ sound' = (sound /\ ~OneWord(i))
  BY DEF Alter_Cmd
<1>2. ASSUME sound, ~OneWord(i) PROVE msgs[i].addr + 1 \in OwnWords(i)
  <2>1. MsgTypeOK /\ Laid /\ Shaped(i)
    BY <1>2 DEF MsgInv, MsgsInv, Shapes
  <2>2. PICK n \in Nat : Room(i, n) /\ Enough(msgs[i].type, Code(mem[msgs[i].addr]),
                                             mem[msgs[i].addr + 1], n)
    BY <2>1 DEF Shaped
  <2>3. msgs[i].type # MINOR_FRAME /\ msgs[i].type \in Nat /\ mem[msgs[i].addr + 1] \in Nat
    BY <1>2, <2>1, MsgFacts, OwnFacts DEF OneWord
  <2>4. 2 <= n
    BY <2>2, <2>3, EnoughTwo
  <2>5. QED
    BY <2>1, <2>2, <2>4, RoomFacts
<1>3. MsgsInv'
  BY <1>1, <1>2, JustUses DEF Alter_Cmd
<1>4. QED
  BY <1>3, FramesKept DEF MsgInv, Alter_Cmd, Ids

LEMMA Read_MessageGood == ASSUME MsgInv, Read_Message PROVE MsgInv'
<1>1. PICK i \in Ids :
        /\ ActingType(i) # MINOR_FRAME
        /\ touched' = [id |-> i, words |-> ReadWords(msgs[i].addr, ActingType(i))]
        /\ sound' = (sound /\ ~LiveJump(i))
  BY DEF Read_Message
<1>2. ASSUME sound, ~LiveJump(i) PROVE ReadWords(msgs[i].addr, ActingType(i)) \subseteq OwnWords(i)
  BY <1>1, <1>2, ReadInside DEF MsgInv, MsgsInv, Shapes
<1>3. MsgsInv'
  BY <1>1, <1>2, JustUses DEF Read_Message
<1>4. QED
  BY <1>3, FramesKept DEF MsgInv, Read_Message, Ids

LEMMA Get_BC_MsgentryGood == ASSUME MsgInv, Get_BC_Msgentry PROVE MsgInv'
<1>1. PICK i \in Ids :
        /\ ActingType(i) # MINOR_FRAME
        /\ touched' = [id |-> i, words |-> ReadWords(msgs[i].addr, ActingType(i))]
        /\ sound' = (sound /\ ~LiveJump(i))
  <2>1. PICK p : LET i == CHOOSE j \in Ids : msgs[j].addr = p
                     t == IF Low3(mem[p]) = SKIP THEN msgs[i].type ELSE Low3(mem[p])
                 IN  /\ \E j \in Ids : msgs[j].addr = p
                     /\ t # MINOR_FRAME
                     /\ touched' = [id |-> i, words |-> ReadWords(p, t)]
                     /\ sound' = (sound /\ ~LiveJump(i))
    BY DEF Get_BC_Msgentry
  <2>2. PICK i : i = CHOOSE j \in Ids : msgs[j].addr = p
    OBVIOUS
  <2>3. i \in Ids /\ msgs[i].addr = p
    BY <2>1, <2>2
  <2>4. ActingType(i) = IF Low3(mem[p]) = SKIP THEN msgs[i].type ELSE Low3(mem[p])
    BY <2>3 DEF ActingType
  <2>5. QED
    BY <2>1, <2>2, <2>3, <2>4
<1>2. ASSUME sound, ~LiveJump(i) PROVE ReadWords(msgs[i].addr, ActingType(i)) \subseteq OwnWords(i)
  BY <1>1, <1>2, ReadInside DEF MsgInv, MsgsInv, Shapes
<1>3. MsgsInv'
  BY <1>1, <1>2, JustUses DEF Get_BC_Msgentry
<1>4. QED
  BY <1>3, FramesKept DEF MsgInv, Get_BC_Msgentry, Ids

\* A frame of the frame table.
LEMMA FrameEntry ==
    ASSUME FramesInv, NEW f \in DOMAIN frames
    PROVE  /\ f \in 1..Len(frames) /\ Len(frames) \in Nat
           /\ frames[f].first \in Nat /\ frames[f].msgcnt \in Nat
           /\ frames[f].first + frames[f].msgcnt <= nextstack
<1>1. frames \in Seq([first : Nat, msgcnt : Nat])
  BY DEF FramesInv, FramesLaid
<1>2. f \in 1..Len(frames) /\ Len(frames) \in Nat /\ frames[f] \in [first : Nat, msgcnt : Nat]
  <2>1. PICK R : R = [first : Nat, msgcnt : Nat]
    OBVIOUS
  <2>2. frames \in Seq(R)
    BY <1>1, <2>1
  <2>3. DOMAIN frames = 1..Len(frames) /\ Len(frames) \in Nat
    BY <2>2
  <2>4. frames[f] \in R
    BY <2>2, <2>3
  <2>5. QED
    BY <2>1, <2>3, <2>4
<1>3. QED
  BY <1>2 DEF FramesInv, FramesLaid

\* The entries of a frame are entries of the stack in use.
LEMMA InStack ==
    ASSUME FramesInv, NEW f \in DOMAIN frames, NEW k \in 0 .. frames[f].msgcnt - 1
    PROVE  /\ frames[f].first + k \in 0 .. StackLen - 1
           /\ frames[f].first + k < nextstack
<1>1. PICK x \in Nat, y \in Nat : x = frames[f].first /\ y = frames[f].msgcnt /\ x + y <= nextstack
  BY FrameEntry
<1>2. nextstack \in Nat /\ nextstack <= StackLen /\ StackLen \in Nat
  BY MsgAssumption DEF FramesInv, FramesLaid
<1>3. k \in 0 .. y - 1
  BY <1>1
<1>4. x + k \in 0 .. StackLen - 1 /\ x + k < nextstack
  BY <1>1, <1>2, <1>3
<1>5. QED
  BY <1>1, <1>4

\* The commandtype of one message is replaced.
LEMMA TypeChange ==
    ASSUME MsgTypeOK, NEW i \in Ids, NEW t \in Nat, msgs' = [msgs EXCEPT ![i].type = t]
    PROVE  /\ msgs' \in Seq(MsgEntries) /\ Len(msgs') = Len(msgs) /\ msgs'[i].type = t
           /\ \A j \in Ids : msgs'[j].addr = msgs[j].addr /\ (j # i => msgs'[j] = msgs[j])
<1>1. msgs' = [msgs EXCEPT ![i] = [msgs[i] EXCEPT !.type = t]]
  OBVIOUS
<1>2. msgs \in Seq(MsgEntries) /\ i \in 1..Len(msgs) /\ \A j \in Ids : msgs[j] \in MsgEntries
  BY MsgFacts DEF MsgTypeOK, Ids
<1>3. PICK r : r = [msgs[i] EXCEPT !.type = t]
  OBVIOUS
<1>4. r \in MsgEntries /\ r.addr = msgs[i].addr /\ r.type = t
  BY <1>2, <1>3 DEF MsgEntries
<1>5. msgs' = [msgs EXCEPT ![i] = r]
  BY <1>1, <1>3
<1>6. msgs' \in Seq(MsgEntries) /\ Len(msgs') = Len(msgs)
  BY <1>2, <1>4, <1>5
<1>7. msgs'[i] = r /\ \A j \in Ids : j # i => msgs'[j] = msgs[j]
  BY <1>2, <1>5 DEF Ids
<1>8. QED
  BY <1>4, <1>6, <1>7

LEMMA Alter_MessageGood == ASSUME MsgInv, Alter_Message PROVE MsgInv'
<1>1. PICK i \in Ids :
        /\ ActingType(i) \notin {JUMP, MINOR_FRAME}
        /\ mem' = [a \in DOMAIN mem |-> IF a \in AlteredWords(i) THEN 0 ELSE mem[a]]
        /\ touched' = [id |-> i, words |-> AlteredWords(i)]
        /\ sound' = (sound /\ ~LiveJump(i))
  BY DEF Alter_Message
<1>2. MsgsInv /\ MsgTypeOK /\ Laid
  BY DEF MsgInv, MsgsInv
<1>3. /\ mem' \in [MsgWords -> Nat]
      /\ \A a \in MsgWords : a \notin AlteredWords(i) => mem'[a] = mem[a]
  BY <1>1, <1>2 DEF MsgTypeOK
<1>4. ASSUME sound, ~LiveJump(i)
      PROVE  /\ Shaped(i)' /\ AlteredWords(i) \subseteq OwnWords(i)
             /\ \A a \in MsgWords : a \notin OwnWords(i) => mem'[a] = mem[a]
  <2>1. Shaped(i)
    BY <1>2, <1>4 DEF MsgsInv, Shapes
  <2>2. /\ AlteredWords(i) \subseteq OwnWords(i)
        /\ msgs[i].addr \notin AlteredWords(i) /\ msgs[i].addr + 1 \notin AlteredWords(i)
    BY <1>1, <1>2, <1>4, <2>1, AlterInside
  <2>3. mem'[msgs[i].addr] = mem[msgs[i].addr] /\ mem'[msgs[i].addr + 1] = mem[msgs[i].addr + 1]
    BY <1>2, <1>3, <2>2, OwnFacts
  <2>4. UNCHANGED <<msgs, nextmsg>>
    BY DEF Alter_Message
  <2>5. Shaped(i)'
    BY <2>1, <2>3, <2>4 DEF Shaped, Room, NextPtr
  <2>6. QED
    BY <1>3, <2>2, <2>5
<1>5. UNCHANGED <<msgs, msgblock, nextmsg, stack, nextstack, frames>>
  BY DEF Alter_Message
<1>6. msgs' \in Seq(MsgEntries) /\ sound' \in BOOLEAN
  BY <1>1, <1>2, <1>5 DEF MsgTypeOK
<1>7. touched'.id = i /\ touched'.words = AlteredWords(i)
  BY <1>1
<1>8. MsgsInv'
  BY <1>1, <1>2, <1>3, <1>4, <1>5, <1>6, <1>7, OneMessage
<1>9. QED
  BY <1>5, <1>8, FramesKept DEF MsgInv, Ids

LEMMA Re_Create_MessageGood == ASSUME MsgInv, Re_Create_Message PROVE MsgInv'
<1>1. PICK i \in Ids, c \in Commands, flags \in {0, XMT_BUS_A} :
        LET cmdtype == c.type + flags
            size == ReSize(cmdtype, c.d0)
            p == msgs[i].addr
        IN  /\ ValidCommand(c.type, c.d0, c.d1)
            /\ p + size + 1 <= NextPtr(i)
            /\ msgs' = [msgs EXCEPT ![i].type = cmdtype]
            /\ mem' = Written(mem, p, cmdtype, size, c.d0, c.d1)
            /\ touched' = [id |-> i, words |-> p .. p + size]
            /\ sound' = (sound /\ ~FlaggedTooSmall(c, size) /\ ~OverRegisters(p, size))
  BY DEF Re_Create_Message
<1>2. MsgsInv /\ MsgTypeOK /\ Laid /\ UNCHANGED <<msgblock, nextmsg, stack, nextstack, frames>>
  BY DEF MsgInv, MsgsInv, Re_Create_Message
<1>3. PICK t \in (0..6) \cup {MINOR_FRAME}, d0 \in Nat, d1 \in Nat :
        t = c.type /\ d0 = c.d0 /\ d1 = c.d1
  BY <1>1, MsgAssumption, ValidTypes
<1>4. t \in Nat /\ flags \in Nat /\ t + flags \in Nat
  BY <1>3 DEF XMT_BUS_A, MINOR_FRAME
<1>5. PICK s \in Nat : /\ s = ReSize(t + flags, d0)
                       /\ flags = 0 => s = MessageSize(t, d0)
                       /\ flags = XMT_BUS_A => s = WordCount(d0) + 2
  <2>1. t + flags < 16 <=> flags = 0
    BY <1>4 DEF XMT_BUS_A, MINOR_FRAME
  <2>2. MessageSize(t, d0) \in Nat /\ WordCount(d0) + 2 \in Nat
    <3>1. MessageSize(t, d0) \in Nat
      BY <1>4, SizeFacts
    <3>2. WordCount(d0) \in 1..32
      BY CountFacts
    <3>3. QED
      BY <3>1, <3>2
  <2>3. CASE flags = 0
    BY <1>4, <2>1, <2>2, <2>3 DEF ReSize, XMT_BUS_A
  <2>4. CASE flags = XMT_BUS_A
    BY <2>1, <2>2, <2>4 DEF ReSize, XMT_BUS_A
  <2>5. QED
    BY <2>3, <2>4
<1>6. PICK p \in MsgWords : p = msgs[i].addr
  BY <1>2, OwnFacts
<1>7. /\ p \in Nat /\ p + 1 \in MsgWords /\ p \in BlockWords /\ NextPtr(i) \in Nat
      /\ p + s + 1 <= NextPtr(i) /\ NextPtr(i) <= nextmsg
  BY <1>1, <1>2, <1>3, <1>5, <1>6, OwnFacts, MsgFacts DEF Laid
<1>8. mem' = Written(mem, p, t + flags, s, d0, d1)
  BY <1>1, <1>3, <1>5, <1>6
<1>9. /\ mem' \in [MsgWords -> Nat] /\ mem'[p] = t + flags
      /\ s > 0 => mem'[p + 1] = d0
      /\ \A a \in MsgWords : a \notin p .. p + s => mem'[a] = mem[a]
  <2>1. PICK w \in Nat : w = t + flags
    BY <1>4
  <2>2. mem' = Written(mem, p, w, s, d0, d1)
    BY <1>8, <2>1
  <2>3. QED
    BY <1>2, <1>7, <2>1, <2>2, WrittenFacts
<1>10. /\ msgs' \in Seq(MsgEntries) /\ Len(msgs') = Len(msgs) /\ msgs'[i].type = t + flags
       /\ \A j \in Ids : msgs'[j].addr = msgs[j].addr /\ (j # i => msgs'[j] = msgs[j])
  BY <1>1, <1>2, <1>3, <1>4, TypeChange
<1>11. touched'.id = i /\ touched'.words = p .. p + s
  BY <1>1, <1>3, <1>5, <1>6
<1>12. sound' = (sound /\ ~FlaggedTooSmall(c, s) /\ ~OverRegisters(p, s))
  BY <1>1, <1>3, <1>5, <1>6
<1>13. ASSUME sound, ~FlaggedTooSmall(c, s), ~OverRegisters(p, s)
       PROVE  /\ Shaped(i)' /\ p .. p + s \subseteq OwnWords(i)
              /\ \A a \in MsgWords : a \notin OwnWords(i) => mem'[a] = mem[a]
  <2>1. p + s < BlockEnd(4)
    <3>1. nextmsg <= BlockEnd(msgblock) /\ BlockEnd(msgblock) <= BlockEnd(4)
          /\ BlockEnd(msgblock) \in Nat /\ BlockEnd(4) \in Nat /\ nextmsg \in Nat
      BY <1>2, BlockFacts DEF Laid, MsgTypeOK
    <3>2. QED
      BY <1>7, <3>1
  <2>2. \A a \in p .. p + s : a \in BlockWords
    BY <1>7, <1>13, <2>1, NoGap
  <2>3. Room(i, s)
    <3>1. p + s < NextPtr(i)
      BY <1>7
    <3>2. QED
      BY <1>6, <2>2, <3>1 DEF Room
  <2>4. ASSUME NEW a \in p .. p + s PROVE a \in OwnWords(i)
    <3>1. a \in BlockWords /\ p <= a /\ a < NextPtr(i)
      BY <1>7, <2>2
    <3>2. QED
      BY <1>2, <1>6, <3>1, OwnFacts
  <2>5. Room(i, s)'
    <3>1. NextPtr(i)' = NextPtr(i)
      <4>1. i # Len(msgs) => i + 1 \in Ids
        BY <1>2, MsgFacts DEF Ids
      <4>2. QED
        BY <1>2, <1>10, <4>1 DEF NextPtr
    <3>2. QED
      BY <1>10, <2>3, <3>1 DEF Room
  <2>6. Enough(t + flags, Code(t + flags), mem'[p + 1], s)
    <3>1. mem'[p + 1] \in Nat
      BY <1>7, <1>9
    <3>2. flags = XMT_BUS_A => MessageSize(t, d0) <= s
      <4>1. PICK z \in Nat : z = MessageSize(t, d0)
        BY <1>4, SizeFacts
      <4>2. ~(s < z)
        BY <1>3, <1>13, <4>1 DEF FlaggedTooSmall
      <4>3. QED
        BY <4>1, <4>2
    <3>3. CASE flags = 0
      <4>1. Enough(t, Code(t), mem'[p + 1], s)
        BY <1>5, <1>9, <3>1, <3>3, NewEnough
      <4>2. QED
        BY <1>4, <3>3, <4>1
    <3>4. CASE flags = XMT_BUS_A
      BY <1>5, <1>9, <3>1, <3>2, <3>4, NewEnough
    <3>5. QED
      BY <3>3, <3>4
  <2>7. msgs'[i].addr = p /\ msgs'[i].type = t + flags /\ mem'[p] = t + flags
    BY <1>6, <1>9, <1>10
  <2>8. Shaped(i)'
    BY <2>5, <2>6, <2>7 DEF Shaped
  <2>9. QED
    BY <1>9, <2>4, <2>8
<1>14. MsgsInv'
  BY <1>2, <1>9, <1>10, <1>11, <1>12, <1>13, OneMessage
<1>15. QED
  <2>1. Ids' = Ids
    BY <1>10 DEF Ids
  <2>2. QED
    BY <1>2, <1>10, <1>14, <2>1, FramesKept DEF MsgInv

LEMMA Set_JumpGood == ASSUME MsgInv, Set_Jump PROVE MsgInv'
<1>1. MsgsInv /\ MsgTypeOK /\ Laid /\ UNCHANGED <<msgblock, nextmsg, stack, nextstack, frames>>
  BY DEF MsgInv, MsgsInv, Set_Jump
<1>2. PICK i \in Ids, f \in DOMAIN frames :
        /\ \E cnt \in 0 .. frames[f].msgcnt :
             mem' = [mem EXCEPT ![msgs[i].addr] = WithCode(mem[msgs[i].addr], JUMP),
                                ![msgs[i].addr + 1] = (8 * frames[f].first) % 2048,
                                ![msgs[i].addr + 2] = IF cnt = 0 THEN frames[f].msgcnt ELSE cnt]
        /\ msgs' = [msgs EXCEPT ![i].type = JUMP]
        /\ touched' = [id |-> i, words |-> msgs[i].addr .. msgs[i].addr + 2]
        /\ sound' = (sound /\ ~OneWord(i))
  BY DEF Set_Jump
<1>3. PICK p \in MsgWords : p = msgs[i].addr
  BY <1>1, OwnFacts
<1>4. p \in Nat /\ p + 1 \in MsgWords /\ mem[p] \in Nat /\ p \in OwnWords(i)
  BY <1>1, <1>3, OwnFacts, MsgFacts
<1>5. PICK w1 \in Nat, w2 \in Nat :
        mem' = [mem EXCEPT ![p] = WithCode(mem[p], JUMP), ![p + 1] = w1, ![p + 2] = w2]
  <2>1. PICK x \in Nat, y \in Nat : x = frames[f].first /\ y = frames[f].msgcnt
    BY FrameEntry DEF MsgInv
  <2>2. PICK cnt \in 0 .. frames[f].msgcnt :
          mem' = [mem EXCEPT ![msgs[i].addr] = WithCode(mem[msgs[i].addr], JUMP),
                             ![msgs[i].addr + 1] = (8 * frames[f].first) % 2048,
                             ![msgs[i].addr + 2] = IF cnt = 0 THEN frames[f].msgcnt ELSE cnt]
    BY <1>2
  <2>c. cnt \in 0 .. y
    BY <2>1
  <2>3. mem' = [mem EXCEPT ![p] = WithCode(mem[p], JUMP), ![p + 1] = (8 * x) % 2048,
                           ![p + 2] = IF cnt = 0 THEN y ELSE cnt]
    BY <1>3, <2>1, <2>2
  <2>4. PICK v \in Nat : v = (8 * x) % 2048
    OBVIOUS
  <2>5. PICK z \in Nat : z = IF cnt = 0 THEN y ELSE cnt
    BY <2>c
  <2>6. mem' = [mem EXCEPT ![p] = WithCode(mem[p], JUMP), ![p + 1] = v, ![p + 2] = z]
    BY <2>3, <2>4, <2>5
  <2>7. QED
    BY <2>6, Zenon
<1>6. JUMP \in Nat /\ JUMP \in 0..15
  BY DEF JUMP
<1>w. PICK w \in Nat : w = WithCode(mem[p], JUMP) /\ Code(w) = JUMP
  BY <1>4, <1>6, CodeFacts
<1>7. /\ mem' \in [MsgWords -> Nat] /\ mem'[p] = w
      /\ \A a \in MsgWords : a \notin p .. p + 2 => mem'[a] = mem[a]
  <2>1. p # p + 1 /\ p # p + 2 /\ p + 1 # p + 2 /\ {p, p + 1, p + 2} \subseteq p .. p + 2
    BY <1>4
  <2>2. mem \in [MsgWords -> Nat]
    BY <1>1 DEF MsgTypeOK
  <2>3. mem' = [[[mem EXCEPT ![p] = w] EXCEPT ![p + 1] = w1] EXCEPT ![p + 2] = w2]
    BY <1>5, <1>w
  <2>4. QED
    BY <2>1, <2>2, <2>3
<1>8. /\ msgs' \in Seq(MsgEntries) /\ Len(msgs') = Len(msgs) /\ msgs'[i].type = JUMP
      /\ \A j \in Ids : msgs'[j].addr = msgs[j].addr /\ (j # i => msgs'[j] = msgs[j])
  <2>1. msgs' = [msgs EXCEPT ![i].type = JUMP]
    BY <1>2
  <2>2. QED
    BY <1>1, <1>6, <2>1, TypeChange
<1>9. touched'.id = i /\ touched'.words = p .. p + 2
  BY <1>2, <1>3
<1>10. ASSUME sound, ~OneWord(i)
       PROVE  /\ Shaped(i)' /\ p .. p + 2 \subseteq OwnWords(i)
              /\ \A a \in MsgWords : a \notin OwnWords(i) => mem'[a] = mem[a]
  <2>1. PICK n \in Nat : Room(i, n) /\ Enough(msgs[i].type, Code(mem[p]), mem[p + 1], n)
    BY <1>1, <1>3, <1>10 DEF MsgsInv, Shapes, Shaped
  <2>2. msgs[i].type # MINOR_FRAME /\ msgs[i].type \in Nat /\ mem[p + 1] \in Nat
    BY <1>1, <1>3, <1>10, MsgFacts, OwnFacts DEF OneWord
  <2>3. 2 <= n
    BY <2>1, <2>2, EnoughTwo
  <2>4. ASSUME NEW a \in p .. p + 2 PROVE a \in OwnWords(i)
    <3>1. PICK k \in 0..2 : a = p + k
      BY <1>4
    <3>2. k \in 0..n
      BY <2>3
    <3>3. QED
      BY <1>1, <1>3, <2>1, <3>1, <3>2, RoomFacts
  <2>5. NextPtr(i)' = NextPtr(i)
    <3>1. i # Len(msgs) => i + 1 \in Ids
      BY <1>1, MsgFacts DEF Ids
    <3>2. QED
      BY <1>1, <1>8, <3>1 DEF NextPtr
  <2>6. Room(i, n)'
    BY <1>8, <2>1, <2>5 DEF Room
  <2>7. Enough(JUMP, JUMP, mem'[p + 1], n)
    BY <2>3 DEF Enough
  <2>8. Shaped(i)'
    <3>1. msgs'[i].addr = p /\ msgs'[i].type = JUMP /\ Code(mem'[p]) = JUMP
      BY <1>3, <1>w, <1>7, <1>8
    <3>2. QED
      BY <2>6, <2>7, <3>1 DEF Shaped
  <2>9. QED
    BY <1>7, <2>4, <2>8
<1>11. MsgsInv'
  <2>1. sound' = (sound /\ ~OneWord(i)) /\ sound \in BOOLEAN
    BY <1>1, <1>2 DEF MsgTypeOK
  <2>2. QED
    BY <1>1, <1>7, <1>8, <1>9, <1>10, <2>1, OneMessage
<1>12. QED
  <2>1. Ids' = Ids
    BY <1>8 DEF Ids
  <2>2. QED
    BY <1>1, <1>8, <1>11, <2>1, FramesKept DEF MsgInv

\* The place of the next message: in a block, not below nextmsg.
InBlock(pos) == /\ pos.block \in 1..4 /\ pos.ptr \in Nat
                /\ Blocks[pos.block].base <= pos.ptr /\ pos.ptr <= BlockEnd(pos.block)

LEMMA AdvanceFacts ==
    ASSUME NEW pos, InBlock(pos), NEW b \in 1..3, NEW size, NEW has
    PROVE  InBlock(Advance(pos, b, size, has)) /\ pos.ptr <= Advance(pos, b, size, has).ptr
<1>1. CASE pos.block = b /\ ~Fits(pos, size) /\ has
  <2>1. Advance(pos, b, size, has) = [block |-> b + 1, ptr |-> Blocks[b + 1].base]
    BY <1>1 DEF Advance
  <2>2. /\ b + 1 \in 1..4 /\ Blocks[b + 1].base \in Nat
        /\ Blocks[b + 1].base <= BlockEnd(b + 1)
        /\ BlockEnd(b) <= Blocks[b + 1].base /\ BlockEnd(b) \in Nat
    BY BlockFacts
  <2>3. pos.ptr <= Blocks[b + 1].base
    BY <1>1, <2>2 DEF InBlock
  <2>4. QED
    BY <2>1, <2>2, <2>3 DEF InBlock
<1>2. CASE ~(pos.block = b /\ ~Fits(pos, size) /\ has)
  <2>1. Advance(pos, b, size, has) = pos
    BY <1>2 DEF Advance
  <2>2. pos.ptr <= pos.ptr
    BY DEF InBlock
  <2>3. QED
    BY <2>1, <2>2
<1>3. QED
  BY <1>1, <1>2

LEMMA PlaceFacts ==
    ASSUME MsgTypeOK, Laid, NEW size
    PROVE  InBlock(Place(size)) /\ nextmsg <= Place(size).ptr
<1>1. PICK p0 : p0 = [block |-> msgblock, ptr |-> nextmsg]
  OBVIOUS
<1>2. PICK p1 : p1 = Advance(p0, 1, size, TRUE)
  OBVIOUS
<1>3. PICK p2 : p2 = Advance(p1, 2, size, ~card.small)
  OBVIOUS
<1>4. PICK p3 : p3 = Advance(p2, 3, size, card.expanded)
  OBVIOUS
<1>5. p3 = Place(size)
  BY <1>1, <1>2, <1>3, <1>4 DEF Place
<1>6. InBlock(p0) /\ p0.ptr = nextmsg
  BY <1>1 DEF InBlock, MsgTypeOK, Laid
<1>7. InBlock(p1) /\ p0.ptr <= p1.ptr
  <2>1. PICK h, c : h = TRUE /\ c = 1
    OBVIOUS
  <2>2. c \in 1..3 /\ p1 = Advance(p0, c, size, h)
    BY <1>2, <2>1
  <2>3. QED
    BY <1>6, <2>2, AdvanceFacts
<1>8. InBlock(p2) /\ p1.ptr <= p2.ptr
  <2>1. PICK h : h = ~card.small
    OBVIOUS
  <2>2. QED
    BY <1>3, <1>7, <2>1, AdvanceFacts
<1>9. InBlock(p3) /\ p2.ptr <= p3.ptr
  <2>1. PICK h : h = card.expanded
    OBVIOUS
  <2>2. QED
    BY <1>4, <1>8, <2>1, AdvanceFacts
<1>10. p0.ptr \in Nat /\ p1.ptr \in Nat /\ p2.ptr \in Nat /\ p3.ptr \in Nat
  BY <1>6, <1>7, <1>8, <1>9 DEF InBlock
<1>11. QED
  BY <1>5, <1>6, <1>7, <1>8, <1>9, <1>10

\* nextmsg moves up, and perhaps to another block: the messages stay sound.
LEMMA RoomAbove ==
    ASSUME MsgsInv, NEW b \in 1..4, NEW q \in Nat,
           Blocks[b].base <= q, q <= BlockEnd(b), nextmsg <= q,
           msgblock' = b, nextmsg' = q, UNCHANGED <<mem, msgs, sound>>, touched' = NoTouch
    PROVE  MsgsInv'
<1>1. MsgTypeOK /\ Laid /\ nextmsg \in Nat
  BY DEF MsgsInv, MsgTypeOK
<1>2. Ids' = Ids
  BY DEF Ids
<1>3. ASSUME NEW j \in Ids
      PROVE  NextPtr(j)' \in Nat /\ NextPtr(j) <= NextPtr(j)' /\ NextPtr(j)' <= q
             /\ (j # Len(msgs) => NextPtr(j)' = NextPtr(j))
  <2>1. NextPtr(j) \in Nat /\ NextPtr(j) <= nextmsg
    BY <1>1, MsgFacts DEF Laid
  <2>2. NextPtr(j)' = IF j = Len(msgs) THEN q ELSE NextPtr(j)
    BY DEF NextPtr
  <2>3. QED
    BY <1>1, <2>1, <2>2
<1>4. MsgTypeOK'
  BY <1>1 DEF MsgTypeOK
<1>5. Laid'
  <2>1. ASSUME NEW i \in Ids
        PROVE  /\ msgs[i].addr \in BlockWords
               /\ msgs[i].addr < NextPtr(i)' /\ NextPtr(i)' <= q
               /\ \A j \in Ids : i < j => NextPtr(i)' <= msgs[j].addr
    <3>1. /\ msgs[i].addr \in BlockWords /\ msgs[i].addr < NextPtr(i)
          /\ \A j \in Ids : i < j => NextPtr(i) <= msgs[j].addr
      BY <1>1 DEF Laid
    <3>2. msgs[i].addr \in Nat /\ NextPtr(i) \in Nat
      BY <1>1, MsgFacts
    <3>3. \A j \in Ids : i < j => i # Len(msgs)
      BY <1>1, MsgFacts
    <3>4. QED
      BY <1>3, <3>1, <3>2, <3>3
  <2>2. QED
    BY <1>2, <2>1 DEF Laid
<1>6. Shapes'
  <2>1. ASSUME sound, NEW j \in Ids PROVE Shaped(j)'
    <3>1. Shaped(j)
      BY <2>1 DEF MsgsInv, Shapes
    <3>2. QED
      BY <1>1, <1>3, <3>1, KeepsShape
  <2>2. QED
    BY <1>2, <2>1 DEF Shapes
<1>7. StaysInside'
  <2>1. touched'.id = 0
    BY DEF NoTouch
  <2>2. QED
    BY <2>1 DEF StaysInside, Ids
<1>8. QED
  BY <1>4, <1>5, <1>6, <1>7 DEF MsgsInv

\* A new message after the others.
LEMMA NewMessage ==
    ASSUME MsgsInv, NEW b \in 1..4, NEW p \in Nat, NEW s \in Nat, NEW t \in Nat,
           Blocks[b].base <= p, p + s + 1 <= BlockEnd(b), nextmsg <= p,
           msgblock' = b, nextmsg' = p + s + 1, UNCHANGED sound,
           msgs' = Append(msgs, [addr |-> p, type |-> t]),
           mem' \in [MsgWords -> Nat],
           \A a \in MsgWords : a \notin p .. p + s => mem'[a] = mem[a],
           Enough(t, Code(mem'[p]), mem'[p + 1], s),
           touched' = [id |-> Len(msgs) + 1, words |-> p .. p + s]
    PROVE  MsgsInv'
<1>1. MsgTypeOK /\ Laid /\ nextmsg \in Nat /\ Len(msgs) \in Nat
  BY DEF MsgsInv, MsgTypeOK
<1>2. PICK new \in Nat : new = Len(msgs) + 1
  BY <1>1
<1>3. /\ msgs' \in Seq(MsgEntries) /\ Len(msgs') = new
      /\ msgs'[new] = [addr |-> p, type |-> t]
      /\ \A j \in Ids : msgs'[j] = msgs[j]
  <2>1. PICK r : r = [addr |-> p, type |-> t]
    OBVIOUS
  <2>2. r \in MsgEntries
    BY <2>1 DEF MsgEntries
  <2>3. msgs \in Seq(MsgEntries) /\ msgs' = Append(msgs, r)
    BY <1>1, <2>1 DEF MsgTypeOK
  <2>4. msgs' \in Seq(MsgEntries) /\ Len(msgs') = new /\ msgs'[new] = r
    BY <1>2, <2>2, <2>3
  <2>5. \A j \in Ids : msgs'[j] = msgs[j]
    BY <2>3 DEF Ids
  <2>6. QED
    BY <2>1, <2>4, <2>5
<1>4. Ids' = Ids \cup {new} /\ new \notin Ids /\ \A j \in Ids : j \in Nat /\ j < new /\ j # new
  BY <1>1, <1>2, <1>3 DEF Ids
<1>5. NextPtr(new)' = p + s + 1
  BY <1>3 DEF NextPtr
<1>6. ASSUME NEW j \in Ids
      PROVE  /\ NextPtr(j)' \in Nat /\ NextPtr(j) \in Nat /\ NextPtr(j) <= NextPtr(j)'
             /\ NextPtr(j)' <= p /\ (j # Len(msgs) => NextPtr(j)' = NextPtr(j))
  <2>1. NextPtr(j) \in Nat /\ NextPtr(j) <= nextmsg /\ j \in Nat /\ j <= Len(msgs) /\ 1 <= j
    BY <1>1, MsgFacts DEF Laid
  <2>2. CASE j = Len(msgs)
    <3>1. NextPtr(j)' = msgs'[new].addr
      BY <1>2, <1>3, <1>4, <2>2 DEF NextPtr
    <3>2. NextPtr(j)' = p
      BY <1>3, <3>1
    <3>3. QED
      BY <1>1, <2>1, <2>2, <3>2
  <2>3. CASE j # Len(msgs)
    <3>1. j + 1 \in Ids /\ j # new
      BY <1>2, <2>1, <2>3 DEF Ids
    <3>2. NextPtr(j)' = NextPtr(j)
      BY <1>3, <2>3, <3>1 DEF NextPtr
    <3>3. QED
      BY <1>1, <2>1, <3>2
  <2>4. QED
    BY <2>2, <2>3
<1>7. \A a \in p .. p + s : a \in BlockWords
  <2>1. PICK x \in Nat, y \in Nat : x = Blocks[b].base /\ y = BlockEnd(b)
    BY BlockFacts
  <2>2. \A a \in p .. p + s : a \in Nat /\ x <= a /\ a < y
    BY <2>1
  <2>3. QED
    BY <2>1, <2>2, BlockWordFacts
<1>8. MsgTypeOK'
  BY <1>1, <1>3 DEF MsgTypeOK
<1>9. Laid'
  <2>1. ASSUME NEW i \in Ids
        PROVE  /\ msgs'[i].addr \in BlockWords
               /\ msgs'[i].addr < NextPtr(i)' /\ NextPtr(i)' <= p + s + 1
               /\ \A j \in Ids' : i < j => NextPtr(i)' <= msgs'[j].addr
    <3>1. /\ msgs[i].addr \in BlockWords /\ msgs[i].addr < NextPtr(i)
          /\ \A j \in Ids : i < j => NextPtr(i) <= msgs[j].addr
      BY <1>1 DEF Laid
    <3>2. msgs[i].addr \in Nat /\ NextPtr(i) \in Nat
      BY <1>1, MsgFacts
    <3>3. \A j \in Ids : i < j => i # Len(msgs)
      BY <1>1, MsgFacts
    <3>4. msgs'[new].addr = p
      BY <1>3
    <3>5. msgs'[i].addr < NextPtr(i)' /\ NextPtr(i)' <= p + s + 1
      <4>1. PICK x \in Nat, y \in Nat, z \in Nat :
              x = msgs[i].addr /\ y = NextPtr(i) /\ z = NextPtr(i)'
        BY <1>6, <3>2
      <4>2. x < y /\ y <= z /\ z <= p
        BY <1>6, <3>1, <4>1
      <4>3. x < z /\ z <= p + s + 1
        BY <4>2
      <4>4. QED
        BY <1>3, <4>1, <4>3
    <3>6. ASSUME NEW j \in Ids', i < j PROVE NextPtr(i)' <= msgs'[j].addr
      <4>1. CASE j = new
        BY <1>6, <3>4, <4>1
      <4>2. CASE j \in Ids
        BY <1>3, <1>6, <3>1, <3>3, <3>6, <4>2
      <4>3. QED
        BY <1>4, <4>1, <4>2
    <3>7. QED
      BY <1>3, <3>1, <3>5, <3>6
  <2>2. /\ msgs'[new].addr \in BlockWords /\ msgs'[new].addr < NextPtr(new)'
        /\ NextPtr(new)' <= p + s + 1
        /\ \A j \in Ids' : ~(new < j)
    <3>1. msgs'[new].addr = p /\ p \in p .. p + s
      BY <1>3
    <3>2. \A j \in Ids' : ~(new < j)
      BY <1>4
    <3>3. p \in BlockWords
      BY <1>7, <3>1
    <3>4. p < p + s + 1 /\ p + s + 1 <= p + s + 1
      OBVIOUS
    <3>5. QED
      BY <1>5, <3>1, <3>2, <3>3, <3>4
  <2>3. Blocks[b].base <= p + s + 1
    <3>1. PICK x \in Nat : x = Blocks[b].base
      BY BlockFacts
    <3>2. QED
      BY <3>1
  <2>4. QED
    BY <1>4, <2>1, <2>2, <2>3 DEF Laid
<1>10. Shaped(new)'
  <2>1. msgs'[new].addr = p /\ msgs'[new].type = t
    BY <1>3
  <2>2. p + s < NextPtr(new)'
    BY <1>5
  <2>3. Room(new, s)'
    BY <1>7, <2>1, <2>2 DEF Room
  <2>4. QED
    BY <2>1, <2>3 DEF Shaped
<1>11. Shapes'
  <2>1. ASSUME sound, NEW j \in Ids PROVE Shaped(j)'
    <3>1. Shaped(j)
      BY <2>1 DEF MsgsInv, Shapes
    <3>2. ASSUME NEW a \in OwnWords(j) PROVE mem'[a] = mem[a]
      <4>1. a \in BlockWords /\ a < NextPtr(j)
        BY <1>1, OwnFacts
      <4>2. a \in MsgWords /\ a \in Nat
        BY <4>1, BlockWordFacts
      <4>3. a < p
        BY <1>6, <4>1, <4>2
      <4>4. QED
        BY <4>2, <4>3
    <3>3. QED
      BY <1>1, <1>3, <1>6, <3>1, <3>2, KeepsShape
  <2>2. QED
    BY <1>4, <1>10, <2>1 DEF Shapes
<1>12. StaysInside'
  <2>1. touched'.id = new /\ touched'.words = p .. p + s
    BY <1>2
  <2>2. OwnWords(new)' = (p .. p + s + 1 - 1) \cap BlockWords
    BY <1>3, <1>5 DEF OwnWords
  <2>3. \A a \in p .. p + s : a \in p .. p + s + 1 - 1
    OBVIOUS
  <2>4. QED
    BY <1>7, <2>1, <2>2, <2>3 DEF StaysInside
<1>13. QED
  BY <1>8, <1>9, <1>11, <1>12 DEF MsgsInv

LEMMA Create_1553_MessageGood == ASSUME MsgInv, Create_1553_Message PROVE MsgInv'
<1>1. MsgsInv /\ MsgTypeOK /\ Laid /\ FramesInv /\ UNCHANGED <<stack, nextstack, frames, sound>>
  BY DEF MsgInv, MsgsInv, Create_1553_Message
<1>2. PICK c \in Commands :
        LET size == MessageSize(c.type, c.d0)
            pos == Place(size)
        IN  /\ ValidCommand(c.type, c.d0, c.d1)
            /\ msgblock' = pos.block
            /\ IF Fits(pos, size)
               THEN /\ msgs' = Append(msgs, [addr |-> pos.ptr, type |-> c.type])
                    /\ mem' = Written(mem, pos.ptr, XMT_BUS_A + c.type, size, c.d0, c.d1)
                    /\ nextmsg' = pos.ptr + size + 1
                    /\ touched' = [id |-> Len(msgs) + 1, words |-> pos.ptr .. pos.ptr + size]
               ELSE /\ nextmsg' = pos.ptr
                    /\ touched' = NoTouch
                    /\ UNCHANGED <<msgs, mem>>
  BY DEF Create_1553_Message
<1>3. PICK t \in (0..6) \cup {MINOR_FRAME}, d0 \in Nat, d1 \in Nat :
        t = c.type /\ d0 = c.d0 /\ d1 = c.d1
  BY <1>2, MsgAssumption, ValidTypes
<1>4. t \in Nat /\ XMT_BUS_A + t \in Nat
  BY DEF XMT_BUS_A, MINOR_FRAME
<1>5. PICK s \in Nat : s = MessageSize(t, d0)
  BY <1>4, SizeFacts
<1>6. PICK pos : pos = Place(s)
  OBVIOUS
<1>7. InBlock(pos) /\ nextmsg <= pos.ptr
  BY <1>1, <1>6, PlaceFacts
<1>8. PICK b \in 1..4, p \in Nat : b = pos.block /\ p = pos.ptr
  BY <1>7 DEF InBlock
<1>9. Blocks[b].base <= p /\ p <= BlockEnd(b) /\ nextmsg <= p /\ msgblock' = b
  BY <1>2, <1>3, <1>5, <1>6, <1>7, <1>8 DEF InBlock
<1>10. CASE Fits(pos, s)
  <2>1. /\ msgs' = Append(msgs, [addr |-> p, type |-> t])
        /\ mem' = Written(mem, p, XMT_BUS_A + t, s, d0, d1)
        /\ nextmsg' = p + s + 1
        /\ touched' = [id |-> Len(msgs) + 1, words |-> p .. p + s]
    BY <1>2, <1>3, <1>5, <1>6, <1>8, <1>10
  <2>2. p + s + 1 <= BlockEnd(b)
    BY <1>8, <1>10 DEF Fits
  <2>3. p \in MsgWords /\ p + 1 \in MsgWords
    <3>1. BlockEnd(b) \in Nat /\ p < BlockEnd(b)
      <4>1. PICK e \in Nat : e = BlockEnd(b)
        BY BlockFacts
      <4>2. QED
        BY <2>2, <4>1
    <3>2. p \in BlockWords
      BY <1>9, <3>1, BlockWordFacts
    <3>3. QED
      BY <3>2, BlockWordFacts
  <2>4. PICK w \in Nat : w = XMT_BUS_A + t
    BY <1>4
  <2>5. mem' = Written(mem, p, w, s, d0, d1)
    BY <2>1, <2>4
  <2>6. /\ mem' \in [MsgWords -> Nat] /\ mem'[p] = w
        /\ s > 0 => mem'[p + 1] = d0
        /\ \A a \in MsgWords : a \notin p .. p + s => mem'[a] = mem[a]
    BY <1>1, <2>3, <2>5, WrittenFacts
  <2>7. Enough(t, Code(mem'[p]), mem'[p + 1], s)
    <3>1. PICK e \in Nat : e = mem'[p + 1]
      BY <2>3, <2>6
    <3>2. Enough(t, Code(XMT_BUS_A + t), e, s)
      BY <1>5, <2>6, <3>1, NewEnough
    <3>3. QED
      BY <2>4, <2>6, <3>1, <3>2
  <2>8. MsgsInv'
    BY <1>1, <1>4, <1>9, <2>1, <2>2, <2>6, <2>7, NewMessage
  <2>9. \A j \in Ids : j \in Ids' /\ msgs'[j].addr = msgs[j].addr
    <3>1. PICK r : r = [addr |-> p, type |-> t]
      OBVIOUS
    <3>2. r \in MsgEntries /\ msgs \in Seq(MsgEntries) /\ msgs' = Append(msgs, r)
      BY <1>1, <1>4, <2>1, <3>1 DEF MsgEntries, MsgTypeOK
    <3>3. Len(msgs') = Len(msgs) + 1 /\ Len(msgs) \in Nat
      BY <3>2
    <3>4. \A j \in 1..Len(msgs) : msgs'[j] = msgs[j]
      BY <3>2
    <3>5. QED
      BY <3>3, <3>4 DEF Ids
  <2>10. QED
    BY <1>1, <2>8, <2>9, FramesKept DEF MsgInv
<1>11. CASE ~Fits(pos, s)
  <2>1. nextmsg' = p /\ touched' = NoTouch /\ msgs' = msgs /\ mem' = mem
    BY <1>2, <1>3, <1>5, <1>6, <1>8, <1>11
  <2>2. MsgsInv'
    BY <1>1, <1>9, <2>1, RoomAbove
  <2>3. \A j \in Ids : j \in Ids' /\ msgs'[j].addr = msgs[j].addr
    BY <2>1 DEF Ids
  <2>4. QED
    BY <1>1, <2>2, <2>3, FramesKept DEF MsgInv
<1>12. QED
  BY <1>10, <1>11

LEMMA Clear_CardGood == ASSUME MsgInv, Clear_Card PROVE MsgInv'
<1>1. Ids' = {} /\ msgs' = <<>> /\ frames' = <<>>
  BY DEF Clear_Card, Ids
<1>2. MsgTypeOK'
  <2>1. Blocks[1].base \in Nat
    BY BlockFacts
  <2>2. QED
    BY <2>1 DEF Clear_Card, MsgInv, MsgsInv, MsgTypeOK
<1>3. Laid'
  <2>1. /\ msgblock' = 1 /\ nextmsg' = Blocks[1].base
        /\ Blocks[1].base \in Nat /\ Blocks[1].base <= BlockEnd(1)
    BY BlockFacts DEF Clear_Card
  <2>2. QED
    BY <1>1, <2>1 DEF Laid
<1>4. Shapes' /\ StaysInside'
  BY <1>1 DEF Shapes, StaysInside
<1>5. FramesInv'
  <2>1. nextstack' = 0 /\ stack' = stack
    BY DEF Clear_Card
  <2>2. QED
    BY <1>1, <2>1, MsgAssumption DEF MsgInv, FramesInv, FramesLaid, FramesNameMessages
<1>6. QED
  BY <1>2, <1>3, <1>4, <1>5 DEF MsgInv, MsgsInv

LEMMA Clear_FrameGood == ASSUME MsgInv, Clear_Frame PROVE MsgInv'
<1>1. MsgsInv'
  BY NoMessage DEF MsgInv, Clear_Frame
<1>2. FramesInv'
  BY MsgAssumption DEF Clear_Frame, MsgInv, FramesInv, FramesLaid, FramesNameMessages
<1>3. QED
  BY <1>1, <1>2 DEF MsgInv

LEMMA Set_Frequency_ModeGood == ASSUME MsgInv, Set_Frequency_Mode PROVE MsgInv'
<1>1. MsgsInv'
  BY NoMessage DEF MsgInv, Set_Frequency_Mode
<1>2. FramesInv'
  BY FramesKept DEF Set_Frequency_Mode, MsgInv, Ids
<1>3. QED
  BY <1>1, <1>2 DEF MsgInv

\* Whatever entry the routines that change one reach, it names the same
\* message as before.
LEMMA EntryChange ==
    ASSUME MsgInv, UNCHANGED <<mem, msgs, msgblock, nextmsg, sound, nextstack, frames>>,
           touched' = NoTouch,
           stack' \in [0 .. StackLen - 1 -> StackEntries],
           \A x \in 0 .. StackLen - 1 : stack'[x].ptr = stack[x].ptr
    PROVE  MsgInv'
<1>1. MsgsInv'
  BY NoMessage DEF MsgInv
<1>2. FramesLaid'
  BY DEF MsgInv, FramesInv, FramesLaid
<1>3. ASSUME NEW f \in DOMAIN frames, NEW k \in 0 .. frames[f].msgcnt - 1
      PROVE  \E i \in Ids : stack'[frames[f].first + k].ptr = msgs[i].addr
  <2>1. \E i \in Ids : stack[frames[f].first + k].ptr = msgs[i].addr
    BY DEF MsgInv, FramesInv, FramesNameMessages
  <2>2. frames[f].first + k \in 0 .. StackLen - 1
    BY InStack DEF MsgInv
  <2>3. QED
    BY <2>1, <2>2
<1>4. FramesNameMessages'
  BY <1>3 DEF FramesNameMessages, Ids
<1>5. QED
  BY <1>1, <1>2, <1>4 DEF MsgInv, FramesInv

\* A gap time is replaced.
LEMMA GapChange ==
    ASSUME MsgInv, NEW g \in Gaps, ChangeEntry([s \in Contents |-> [s EXCEPT !.gap = g]])
    PROVE  MsgInv'
<1>1. PICK e :
        stack' = [x \in DOMAIN stack |->
                    IF x = e THEN [s \in Contents |-> [s EXCEPT !.gap = g]][stack[x]]
                    ELSE stack[x]]
  BY DEF ChangeEntry
<1>2. stack \in [0 .. StackLen - 1 -> StackEntries]
  BY DEF MsgInv, FramesInv, FramesLaid
<1>3. ASSUME NEW x \in 0 .. StackLen - 1
      PROVE  stack'[x] = (IF x = e THEN [stack[x] EXCEPT !.gap = g] ELSE stack[x])
  <2>1. x \in DOMAIN stack /\ stack[x] \in Contents
    BY <1>2 DEF Contents
  <2>2. QED
    BY <1>1, <2>1
<1>4. ASSUME NEW s \in StackEntries
      PROVE  [s EXCEPT !.gap = g] \in StackEntries /\ [s EXCEPT !.gap = g].ptr = s.ptr
  BY DEF StackEntries
<1>5. \A x \in 0 .. StackLen - 1 : stack'[x] \in StackEntries /\ stack'[x].ptr = stack[x].ptr
  BY <1>2, <1>3, <1>4
<1>6. stack' \in [0 .. StackLen - 1 -> StackEntries]
  <2>1. DOMAIN stack' = 0 .. StackLen - 1 /\ stack' = [x \in DOMAIN stack' |-> stack'[x]]
    BY <1>1, <1>2
  <2>2. QED
    BY <1>5, <2>1
<1>7. QED
  BY <1>3, <1>5, <1>6, EntryChange DEF ChangeEntry

\* A gap time is replaced, and on some cards the function bits are cleared.
LEMMA IMGChange ==
    ASSUME MsgInv, NEW g \in Gaps, ChangeEntry([s \in Contents |->
                           [ptr |-> s.ptr, gap |-> g, func |-> IF card.img250 THEN {} ELSE s.func]])
    PROVE  MsgInv'
<1>1. PICK e :
        stack' = [x \in DOMAIN stack |->
                    IF x = e THEN [s \in Contents |->
                            [ptr |-> s.ptr, gap |-> g, func |-> IF card.img250 THEN {} ELSE s.func]][stack[x]]
                    ELSE stack[x]]
  BY DEF ChangeEntry
<1>2. stack \in [0 .. StackLen - 1 -> StackEntries]
  BY DEF MsgInv, FramesInv, FramesLaid
<1>3. ASSUME NEW x \in 0 .. StackLen - 1
      PROVE  stack'[x] = (IF x = e THEN [ptr |-> stack[x].ptr, gap |-> g, func |-> IF card.img250 THEN {} ELSE stack[x].func] ELSE stack[x])
  <2>1. x \in DOMAIN stack /\ stack[x] \in Contents
    BY <1>2 DEF Contents
  <2>2. QED
    BY <1>1, <2>1
<1>4. ASSUME NEW s \in StackEntries
      PROVE  LET r == [ptr |-> s.ptr, gap |-> g, func |-> IF card.img250 THEN {} ELSE s.func]
             IN  r \in StackEntries /\ r.ptr = s.ptr
  BY DEF StackEntries
<1>5. \A x \in 0 .. StackLen - 1 : stack'[x] \in StackEntries /\ stack'[x].ptr = stack[x].ptr
  BY <1>2, <1>3, <1>4
<1>6. stack' \in [0 .. StackLen - 1 -> StackEntries]
  <2>1. DOMAIN stack' = 0 .. StackLen - 1 /\ stack' = [x \in DOMAIN stack' |-> stack'[x]]
    BY <1>1, <1>2
  <2>2. QED
    BY <1>5, <2>1
<1>7. QED
  BY <1>3, <1>5, <1>6, EntryChange DEF ChangeEntry

\* A function bit is set or cleared.
LEMMA FuncChange ==
    ASSUME MsgInv, NEW bit \in {"interrupt", "checksum", "checksum error"}, PutFunc(bit)
    PROVE  MsgInv'
<1>1. PICK on \in BOOLEAN :
        ChangeEntry([s \in Contents |->
                       [s EXCEPT !.func = IF on THEN @ \cup {bit} ELSE @ \ {bit}]])
  BY DEF PutFunc
<1>2. PICK F : F = [s \in Contents |->
                      [s EXCEPT !.func = IF on THEN @ \cup {bit} ELSE @ \ {bit}]]
  OBVIOUS
<1>3. ChangeEntry(F)
  BY <1>1, <1>2
<1>4. PICK e : stack' = [x \in DOMAIN stack |-> IF x = e THEN F[stack[x]] ELSE stack[x]]
  BY <1>3 DEF ChangeEntry
<1>5. stack \in [0 .. StackLen - 1 -> StackEntries]
  BY DEF MsgInv, FramesInv, FramesLaid
<1>6. ASSUME NEW s \in StackEntries, NEW r,
             r = [s EXCEPT !.func = IF on THEN s.func \cup {bit} ELSE s.func \ {bit}]
      PROVE  r \in StackEntries /\ r.ptr = s.ptr
  <2>1. PICK b : b = IF on THEN s.func \cup {bit} ELSE s.func \ {bit}
    OBVIOUS
  <2>2. b \in SUBSET {"interrupt", "checksum", "checksum error"}
    BY <2>1 DEF StackEntries
  <2>3. r = [s EXCEPT !.func = b]
    BY <1>6, <2>1
  <2>4. QED
    BY <2>2, <2>3 DEF StackEntries
<1>7. ASSUME NEW x \in 0 .. StackLen - 1
      PROVE  stack'[x] \in StackEntries /\ stack'[x].ptr = stack[x].ptr
  <2>1. x \in DOMAIN stack /\ stack[x] \in Contents /\ stack[x] \in StackEntries
    BY <1>5 DEF Contents
  <2>2. CASE x = e
    <3>1. stack'[x] = [stack[x] EXCEPT !.func = IF on THEN stack[x].func \cup {bit}
                                                ELSE stack[x].func \ {bit}]
      BY <1>2, <1>4, <2>1, <2>2
    <3>2. QED
      BY <1>6, <2>1, <2>2, <3>1
  <2>3. CASE x # e
    BY <1>4, <2>1, <2>3
  <2>4. QED
    BY <2>2, <2>3
<1>8. stack' \in [0 .. StackLen - 1 -> StackEntries]
  <2>1. DOMAIN stack' = 0 .. StackLen - 1 /\ stack' = [x \in DOMAIN stack' |-> stack'[x]]
    BY <1>4, <1>5
  <2>2. QED
    BY <1>7, <2>1
<1>9. QED
  BY <1>3, <1>7, <1>8, EntryChange DEF ChangeEntry

\* The longest good prefix is there, and good.
LEMMA AcceptedFacts ==
    ASSUME FramesInv, MsgTypeOK, NEW idl \in UNION {[1..n -> 1..MsgMax] : n \in 0..2},
           Len(frames) < MaxFrames
    PROVE  /\ Accepted(idl) \in 0..2 /\ Len(idl) \in 0..2
           /\ \A k \in 1..Accepted(idl) : idl[k] \in Ids /\ nextstack + k <= StackLen
<1> DEFINE good(n) == /\ Len(frames) < MaxFrames
                      /\ \A k \in 1..n : idl[k] \in Ids /\ nextstack + k <= StackLen
           stop(n) == good(n) /\ (n = Len(idl) \/ ~good(n + 1))
<1>1. PICK l \in 0..2 : l = Len(idl)
  <2>1. PICK n \in 0..2 : idl \in [1..n -> 1..MsgMax]
    OBVIOUS
  <2>2. Len(idl) = n
    BY <2>1
  <2>3. QED
    BY <2>2
<1>2. Accepted(idl) = CHOOSE n \in 0..l : stop(n)
  BY <1>1 DEF Accepted
<1>3. good(0)
  OBVIOUS
<1>4. \E n \in 0..l : stop(n)
  <2> HIDE DEF good
  <2>1. CASE l = 0 \/ ~good(1)
    BY <1>1, <1>3, <2>1
  <2>2. CASE l # 0 /\ good(1) /\ (l = 1 \/ ~good(2))
    BY <1>1, <2>2
  <2>3. CASE l = 2 /\ good(2)
    BY <1>1, <2>3
  <2>4. QED
    BY <1>1, <2>1, <2>2, <2>3
<1>5. PICK n \in 0..l : n = Accepted(idl) /\ stop(n)
  <2> HIDE DEF stop
  <2>1. QED
    BY <1>2, <1>4
<1>6. QED
  BY <1>1, <1>5

LEMMA Create_FrameGood == ASSUME MsgInv, Create_Frame PROVE MsgInv'
<1>1. MsgsInv'
  BY NoMessage DEF MsgInv, Create_Frame
<1>2. PICK idl \in UNION {[1..n -> 1..MsgMax] : n \in 0..2}, gap \in Gaps :
        LET n == IF idl = <<>> THEN 0
                 ELSE IF Len(frames) >= MaxFrames THEN 0 ELSE Accepted(idl)
        IN  /\ stack' = [e \in DOMAIN stack |->
                  IF e \in nextstack .. nextstack + n - 1
                  THEN [ptr |-> msgs[idl[e - nextstack + 1]].addr, gap |-> gap, func |-> {}]
                  ELSE stack[e]]
            /\ IF n = Len(idl)
               THEN /\ frames' = Append(frames, [first |-> nextstack, msgcnt |-> n])
                    /\ nextstack' = nextstack + n
               ELSE UNCHANGED <<frames, nextstack>>
  BY DEF Create_Frame
<1>3. /\ FramesInv /\ MsgTypeOK /\ Len(frames) \in Nat /\ MaxFrames \in Nat
      /\ nextstack \in Nat /\ nextstack <= StackLen /\ StackLen \in Nat /\ msgs' = msgs
      /\ stack \in [0 .. StackLen - 1 -> StackEntries]
  <2>1. FramesInv /\ MsgTypeOK
    BY DEF MsgInv, MsgsInv
  <2>2. FramesLaid /\ MaxFrames \in Nat /\ StackLen \in Nat
    BY <2>1, MsgAssumption DEF FramesInv
  <2>3. msgs' = msgs
    BY DEF Create_Frame
  <2> QED BY <2>1, <2>2, <2>3 DEF FramesLaid
<1>4. PICK n \in 0..2 :
        /\ n = IF idl = <<>> THEN 0 ELSE IF Len(frames) >= MaxFrames THEN 0 ELSE Accepted(idl)
        /\ \A k \in 1..n : idl[k] \in Ids /\ nextstack + k <= StackLen
  <2>1. CASE idl = <<>> \/ Len(frames) >= MaxFrames
    BY <2>1
  <2>2. CASE idl # <<>> /\ ~(Len(frames) >= MaxFrames)
    <3>1. Len(frames) < MaxFrames
      BY <1>3, <2>2
    <3>2. /\ Accepted(idl) \in 0..2
          /\ \A k \in 1..Accepted(idl) : idl[k] \in Ids /\ nextstack + k <= StackLen
      BY <1>3, <3>1, AcceptedFacts
    <3>3. QED
      BY <2>2, <3>2
  <2>3. QED
    BY <2>1, <2>2
<1>5. /\ stack' = [e \in DOMAIN stack |->
            IF e \in nextstack .. nextstack + n - 1
            THEN [ptr |-> msgs[idl[e - nextstack + 1]].addr, gap |-> gap, func |-> {}]
            ELSE stack[e]]
      /\ \/ /\ frames' = Append(frames, [first |-> nextstack, msgcnt |-> n])
            /\ nextstack' = nextstack + n
         \/ UNCHANGED <<frames, nextstack>>
  BY <1>2, <1>4
<1>6. ASSUME NEW e \in 0 .. StackLen - 1
      PROVE  /\ stack'[e] \in StackEntries
             /\ e < nextstack => stack'[e] = stack[e]
             /\ e \in nextstack .. nextstack + n - 1 =>
                   \E i \in Ids : stack'[e].ptr = msgs[i].addr
  <2>1. e \in DOMAIN stack /\ stack[e] \in StackEntries
    BY <1>3
  <2>2. CASE e \in nextstack .. nextstack + n - 1
    <3>1. e - nextstack + 1 \in 1..n /\ ~(e < nextstack)
      BY <1>3, <2>2
    <3>2. PICK i \in Ids : i = idl[e - nextstack + 1]
      BY <1>4, <3>1
    <3>3. stack'[e] = [ptr |-> msgs[i].addr, gap |-> gap, func |-> {}]
      BY <1>5, <2>1, <2>2, <3>2
    <3>4. msgs[i].addr \in Nat
      BY <1>3, MsgFacts
    <3>5. QED
      BY <3>1, <3>3, <3>4 DEF StackEntries
  <2>3. CASE e \notin nextstack .. nextstack + n - 1
    BY <1>5, <2>1, <2>3
  <2>4. QED
    BY <2>2, <2>3
<1>7. stack' \in [0 .. StackLen - 1 -> StackEntries]
  <2>1. DOMAIN stack' = 0 .. StackLen - 1 /\ stack' = [x \in DOMAIN stack' |-> stack'[x]]
    BY <1>3, <1>5
  <2>2. QED
    BY <1>6, <2>1
<1>8. nextstack + n <= StackLen
  <2>1. n # 0 => nextstack + n <= StackLen
    BY <1>4
  <2>2. QED
    BY <1>3, <2>1
\* The frames created before.
<1>9. ASSUME NEW f \in DOMAIN frames
      PROVE  /\ frames[f].first + frames[f].msgcnt <= nextstack
             /\ \A k \in 0 .. frames[f].msgcnt - 1 :
                   \E i \in Ids : stack'[frames[f].first + k].ptr = msgs[i].addr
  <2>1. frames[f].first + frames[f].msgcnt <= nextstack
    BY <1>3, FrameEntry
  <2>2. ASSUME NEW k \in 0 .. frames[f].msgcnt - 1
        PROVE  \E i \in Ids : stack'[frames[f].first + k].ptr = msgs[i].addr
    <3>1. frames[f].first + k \in 0 .. StackLen - 1 /\ frames[f].first + k < nextstack
      BY <1>3, InStack
    <3>2. \E i \in Ids : stack[frames[f].first + k].ptr = msgs[i].addr
      BY <1>3 DEF FramesInv, FramesNameMessages
    <3>3. QED
      BY <1>6, <3>1, <3>2
  <2>3. QED
    BY <2>1, <2>2
<1>10. CASE UNCHANGED <<frames, nextstack>>
  <2>1. FramesLaid'
    BY <1>3, <1>7, <1>10 DEF FramesInv, FramesLaid
  <2>2. FramesNameMessages'
    BY <1>3, <1>9, <1>10 DEF FramesNameMessages, Ids
  <2>3. QED
    BY <1>1, <2>1, <2>2 DEF MsgInv, FramesInv
<1>11. CASE /\ frames' = Append(frames, [first |-> nextstack, msgcnt |-> n])
            /\ nextstack' = nextstack + n
  <2>1. PICK R, r : R = [first : Nat, msgcnt : Nat] /\ r = [first |-> nextstack, msgcnt |-> n]
    OBVIOUS
  <2>2. r \in R /\ r.first = nextstack /\ r.msgcnt = n
    BY <1>3, <2>1
  <2>3. frames \in Seq(R) /\ frames' = Append(frames, r)
    BY <1>3, <1>11, <2>1 DEF FramesInv, FramesLaid
  <2>4. /\ frames' \in Seq(R) /\ Len(frames') = Len(frames) + 1
        /\ DOMAIN frames = 1..Len(frames) /\ DOMAIN frames' = 1..Len(frames) + 1
        /\ frames'[Len(frames) + 1] = r
    BY <2>2, <2>3
  <2>5. \A f \in DOMAIN frames : frames'[f] = frames[f]
    BY <2>3, <2>4
  <2>6. \A f \in DOMAIN frames' : f \in DOMAIN frames \/ f = Len(frames) + 1
    BY <1>3, <2>4
  <2>7. FramesLaid'
    <3>1. ASSUME NEW f \in DOMAIN frames' PROVE frames'[f].first + frames'[f].msgcnt <= nextstack'
      <4>1. CASE f \in DOMAIN frames
        <5>1. PICK x \in Nat, y \in Nat : x = frames[f].first /\ y = frames[f].msgcnt
          BY <1>3, <4>1, FrameEntry
        <5>2. x + y <= nextstack + n
          <6>1. x + y <= nextstack
            BY <1>9, <4>1, <5>1
          <6>2. nextstack \in Nat /\ n \in Nat
            BY <1>3
          <6>3. QED
            BY <5>1, <6>1, <6>2
        <5>3. frames'[f].first = x /\ frames'[f].msgcnt = y
          BY <2>5, <4>1, <5>1
        <5>4. nextstack' = nextstack + n
          BY <1>11
        <5>5. QED
          BY <5>2, <5>3, <5>4
      <4>2. CASE f = Len(frames) + 1
        BY <1>3, <1>11, <2>2, <2>4, <4>2
      <4>3. QED
        BY <2>6, <4>1, <4>2
    <3>2. nextstack' \in 0 .. StackLen
      BY <1>3, <1>8, <1>11
    <3>3. QED
      BY <1>7, <2>1, <2>4, <3>1, <3>2 DEF FramesLaid
  <2>8. FramesNameMessages'
    <3>1. ASSUME NEW f \in DOMAIN frames', NEW k \in 0 .. frames'[f].msgcnt - 1
          PROVE  \E i \in Ids : stack'[frames'[f].first + k].ptr = msgs[i].addr
      <4>1. CASE f \in DOMAIN frames
        BY <1>9, <2>5, <4>1
      <4>2. CASE f = Len(frames) + 1
        <5>1. k \in 0 .. n - 1 /\ frames'[f].first = nextstack
          BY <2>2, <2>4, <4>2
        <5>2. PICK e \in 0 .. StackLen - 1 : e = nextstack + k /\ e \in nextstack .. nextstack + n - 1
          BY <1>3, <1>8, <5>1
        <5>3. QED
          BY <1>6, <5>1, <5>2
      <4>3. QED
        BY <2>6, <4>1, <4>2
    <3>2. QED
      BY <1>3, <3>1 DEF FramesNameMessages, Ids
  <2>9. QED
    BY <1>1, <2>7, <2>8 DEF MsgInv, FramesInv
<1>12. QED
  BY <1>5, <1>10, <1>11

LEMMA MsgInvInit == MsgInit => MsgInv
<1> SUFFICES ASSUME MsgInit PROVE MsgInv
  OBVIOUS
<1>1. Ids = {} /\ msgs = <<>> /\ frames = <<>>
  BY DEF MsgInit, Ids
<1>2. /\ Blocks[1].base \in Nat /\ Blocks[1].base <= BlockEnd(1)
  BY BlockFacts
<1>3. MsgTypeOK
  BY <1>2 DEF MsgInit, MsgTypeOK, MsgWords
<1>4. Laid
  BY <1>1, <1>2 DEF MsgInit, Laid
<1>5. Shapes /\ StaysInside
  BY <1>1 DEF Shapes, StaysInside
<1>6. FramesInv
  <2>1. [ptr |-> 0, gap |-> 0, func |-> {}] \in StackEntries
    BY DEF StackEntries
  <2>2. QED
    BY <1>1, <2>1, MsgAssumption DEF MsgInit, FramesInv, FramesLaid, FramesNameMessages
<1>7. QED
  BY <1>3, <1>4, <1>5, <1>6 DEF MsgInv, MsgsInv

LEMMA MsgInvNext == MsgInv /\ [MsgNext]_MsgVars => MsgInv'
<1> SUFFICES ASSUME MsgInv, [MsgNext]_MsgVars PROVE MsgInv'
  OBVIOUS
<1>1. CASE Create_1553_Message \/ Re_Create_Message \/ Clear_Card
  BY <1>1, Create_1553_MessageGood, Re_Create_MessageGood, Clear_CardGood
<1>2. CASE Alter_Message \/ Alter_Cmd \/ Read_Message \/ Get_BC_Msgentry
  BY <1>2, Alter_MessageGood, Alter_CmdGood, Read_MessageGood, Get_BC_MsgentryGood
<1>3. CASE Set_Skip \/ Set_Restore \/ Send_Msg_Once \/ Set_Jump
  BY <1>3, Set_SkipGood, Set_RestoreGood, Send_Msg_OnceGood, Set_JumpGood
<1>4. CASE Create_Frame \/ Clear_Frame \/ Set_Frequency_Mode
  BY <1>4, Create_FrameGood, Clear_FrameGood, Set_Frequency_ModeGood
<1>5. CASE Alter_IMG \/ Alter_MsgSendTime
  BY <1>5, IMGChange, GapChange DEF Alter_IMG, Alter_MsgSendTime
<1>6. CASE Set_Interrupt_On_Msg \/ Enable_Checksum \/ Enable_Checksum_Error
  BY <1>6, FuncChange DEF Set_Interrupt_On_Msg, Enable_Checksum, Enable_Checksum_Error
<1>7. CASE UNCHANGED MsgVars
  <2>1. UNCHANGED <<mem, msgs, msgblock, nextmsg, sound, touched, stack, nextstack, frames>>
    BY <1>7 DEF MsgVars
  <2>2. MsgTypeOK' /\ Laid' /\ StaysInside'
    BY <2>1 DEF MsgInv, MsgsInv, MsgTypeOK, Laid, StaysInside, Ids, NextPtr, OwnWords
  <2>3. Shapes'
    BY <2>1 DEF MsgInv, MsgsInv, Shapes, Shaped, Room, Ids, NextPtr
  <2>4. FramesInv'
    BY <2>1, FramesKept DEF MsgInv, Ids
  <2>5. QED
    BY <2>2, <2>3, <2>4 DEF MsgInv, MsgsInv
<1>8. QED
  BY <1>1, <1>2, <1>3, <1>4, <1>5, <1>6, <1>7 DEF MsgNext

LEMMA MsgInvHolds == MsgSpec => []MsgInv
  BY MsgInvInit, MsgInvNext, PTL DEF MsgSpec

\* The routines that create, re-create, alter, read, skip, restore and turn a
\* message into a jump keep to the words of their message: for any layout of
\* the blocks, any command words and any number of calls, up to the first call
\* of one of the four kinds that stray.
THEOREM MessagesKeepToThemselves == MsgSpec => []StaysInside
<1>1. MsgInv => StaysInside
  BY DEF MsgInv, MsgsInv
<1>2. QED
  BY <1>1, MsgInvHolds, PTL

\* No frame ever names a message that is gone or was never created, whichever
\* calls of Create_Frame_Px fail half way.
THEOREM FramesStayValid == MsgSpec => []FramesNameMessages
<1>1. MsgInv => FramesNameMessages
  BY DEF MsgInv, FramesInv
<1>2. QED
  BY <1>1, MsgInvHolds, PTL

(***************************************************************************)
(* The settings.                                                           *)
(***************************************************************************)
\* The table of the settings, entry by entry.
LEMMA FieldIs ==
    /\ Field["retry"] = <<"control", 4..6>>
    /\ Field["bus"] = <<"control", {7}>>
    /\ Field["errors"] = <<"control", (8..12) \cup {14}>>
    /\ Field["halt"] = <<"control", {13}>>
    /\ Field["stop"] = <<"control", {15}>>
    /\ Field["bitcnt"] = <<"bit", 0..3>>
    /\ Field["zerocross"] = <<"bit", 4..7>>
    /\ Field["bc1553a"] = <<"bcprot", {0}>>
    /\ Field["nosrq"] = <<"bcprot", {1}>>
    /\ Field["syncerr"] = <<"bcprot", {2}>>
    /\ Field["res250"] = <<"bcprot", {3}>>
    /\ Field["skipimg"] = <<"bcprot", {4}>>
    /\ Field["frequency"] = <<"bcprot", {5}>>
    /\ Field["run"] = <<"start", {0}>>
    /\ Field["replaying"] = <<"boardopt", {11}>>
    /\ Field["replay"] = <<"replay", Byte>>
    /\ Field["ttagsync"] = <<"ttagsendsync", Word>>
    /\ Field["syncpat"] = <<"sync_pattern", Word>>
    /\ Field["errword"] = <<"err_word_index", Word>>
    /\ Field["errbit"] = <<"err_bit_index", Word>>
    /\ Field["interrupt"] = <<"interpt", Byte>>
    /\ Field["rtint"] = <<"int_cond", Byte>>
    /\ Field["hdrexists"] = <<"header_exists", Word>>
    /\ Field["hdrval"] = <<"header_val", Word>>
    /\ Field["clr1"] = <<"ttagclr1", Byte>>
    /\ Field["clr17"] = <<"ttagclr17", Byte>>
    /\ Field["expanded"] = <<"modfn", {0}>>
    /\ Field["enhanced"] = <<"modfn", {1}>>
    /\ Field["perRT"] = <<"modfn", {2}>>
    /\ Field["irig"] = <<"modfn", {3}>>
    /\ Field["active"] = <<"active5", 0..1>>
    /\ Field["rtbus"] = <<"active5", 2..3>>
    /\ Field["immed"] = <<"active5", {4}>>
    /\ Field["broadint"] = <<"active31", {1}>>
    /\ Field["status"] = <<"status", Word>>
    /\ Field["invalid"] = <<"rtprot", {0}>>
    /\ Field["rt1553a"] = <<"rtprot", {1}>>
    /\ Field["inteom"] = <<"rtid", {0}>>
    /\ Field["interr"] = <<"rtid", {1}>>
    /\ Field["illegal"] = <<"rtid", {2}>>
    /\ Field["inactive"] = <<"rtid", {3}>>
    /\ Field["dbuffer"] = <<"rtid", {4}>>
    /\ Field["upper"] = <<"rtid", {6}>>
    /\ Field["busy"] = <<"rtid", {7}>>
    /\ Field["buffers"] = <<"rtid", 8..11>>
    /\ Field["block"] = <<"blk_lookup", Byte>>
    /\ Field["modecode"] = <<"mode_code", Byte>>
    /\ Field["rterrors"] = <<"err_inject", Byte>>
    /\ Field["wdcnt"] = <<"word_count", Byte>>
    /\ Field["builtin"] = <<"built_in_test", Word>>
    /\ Field["vector"] = <<"vector", Word>>
    /\ Field["checksum"] = <<"checksum_flag", Word>>
    /\ Field["trigmode"] = <<"trig_ctl", {3, 4, 7}>>
    /\ Field["triggers"] = <<"trig_ctl", 0..1>>
    /\ Field["broad"] = <<"broad_ctl", Word>>
    /\ Field["concurrent"] = <<"mon_connect", Byte>>
    /\ Field["monresp"] = <<"response_time", Word>>
    /\ Field["monrespa"] = <<"resptime_1553a", Word>>
    /\ Field["interval"] = <<"interval_int", Word>>
    /\ Field["cnttrig"] = <<"cnt_trigger", Byte>>
    /\ Field["per1553a"] = <<"modePerRT", Word>>
    /\ Field["mon1553a"] = <<"x1553a", Word>>
    /\ Field["lkupblk"] = <<"lookup", 0..6>>
    /\ Field["lkupint"] = <<"lookup", {7}>>
<1>1. /\ Field["retry"] = <<"control", 4..6>>
      /\ Field["bus"] = <<"control", {7}>>
      /\ Field["errors"] = <<"control", (8..12) \cup {14}>>
      /\ Field["halt"] = <<"control", {13}>>
      /\ Field["stop"] = <<"control", {15}>>
      /\ Field["bitcnt"] = <<"bit", 0..3>>
      /\ Field["zerocross"] = <<"bit", 4..7>>
      /\ Field["bc1553a"] = <<"bcprot", {0}>>
  BY DEF Field
<1>2. /\ Field["nosrq"] = <<"bcprot", {1}>>
      /\ Field["syncerr"] = <<"bcprot", {2}>>
      /\ Field["res250"] = <<"bcprot", {3}>>
      /\ Field["skipimg"] = <<"bcprot", {4}>>
      /\ Field["frequency"] = <<"bcprot", {5}>>
      /\ Field["run"] = <<"start", {0}>>
      /\ Field["replaying"] = <<"boardopt", {11}>>
      /\ Field["replay"] = <<"replay", Byte>>
      /\ Field["ttagsync"] = <<"ttagsendsync", Word>>
  BY DEF Field
<1>3. /\ Field["syncpat"] = <<"sync_pattern", Word>>
      /\ Field["errword"] = <<"err_word_index", Word>>
      /\ Field["errbit"] = <<"err_bit_index", Word>>
      /\ Field["interrupt"] = <<"interpt", Byte>>
      /\ Field["rtint"] = <<"int_cond", Byte>>
      /\ Field["hdrexists"] = <<"header_exists", Word>>
      /\ Field["hdrval"] = <<"header_val", Word>>
      /\ Field["clr1"] = <<"ttagclr1", Byte>>
  BY DEF Field
<1>4. /\ Field["clr17"] = <<"ttagclr17", Byte>>
      /\ Field["expanded"] = <<"modfn", {0}>>
      /\ Field["enhanced"] = <<"modfn", {1}>>
      /\ Field["perRT"] = <<"modfn", {2}>>
      /\ Field["irig"] = <<"modfn", {3}>>
      /\ Field["active"] = <<"active5", 0..1>>
      /\ Field["rtbus"] = <<"active5", 2..3>>
      /\ Field["immed"] = <<"active5", {4}>>
  BY DEF Field
<1>5. /\ Field["broadint"] = <<"active31", {1}>>
      /\ Field["status"] = <<"status", Word>>
      /\ Field["invalid"] = <<"rtprot", {0}>>
      /\ Field["rt1553a"] = <<"rtprot", {1}>>
      /\ Field["inteom"] = <<"rtid", {0}>>
      /\ Field["interr"] = <<"rtid", {1}>>
      /\ Field["illegal"] = <<"rtid", {2}>>
      /\ Field["inactive"] = <<"rtid", {3}>>
  BY DEF Field
<1>6. /\ Field["dbuffer"] = <<"rtid", {4}>>
      /\ Field["upper"] = <<"rtid", {6}>>
      /\ Field["busy"] = <<"rtid", {7}>>
      /\ Field["buffers"] = <<"rtid", 8..11>>
      /\ Field["block"] = <<"blk_lookup", Byte>>
      /\ Field["modecode"] = <<"mode_code", Byte>>
      /\ Field["rterrors"] = <<"err_inject", Byte>>
      /\ Field["wdcnt"] = <<"word_count", Byte>>
  BY DEF Field
<1>7. /\ Field["builtin"] = <<"built_in_test", Word>>
      /\ Field["vector"] = <<"vector", Word>>
      /\ Field["checksum"] = <<"checksum_flag", Word>>
      /\ Field["trigmode"] = <<"trig_ctl", {3, 4, 7}>>
      /\ Field["triggers"] = <<"trig_ctl", 0..1>>
      /\ Field["broad"] = <<"broad_ctl", Word>>
      /\ Field["concurrent"] = <<"mon_connect", Byte>>
      /\ Field["monresp"] = <<"response_time", Word>>
  BY DEF Field
<1>8. /\ Field["monrespa"] = <<"resptime_1553a", Word>>
      /\ Field["interval"] = <<"interval_int", Word>>
      /\ Field["cnttrig"] = <<"cnt_trigger", Byte>>
      /\ Field["per1553a"] = <<"modePerRT", Word>>
      /\ Field["mon1553a"] = <<"x1553a", Word>>
      /\ Field["lkupblk"] = <<"lookup", 0..6>>
      /\ Field["lkupint"] = <<"lookup", {7}>>
  BY DEF Field
<1> QED BY <1>1, <1>2, <1>3, <1>4, <1>5, <1>6, <1>7, <1>8

\* Their names.
LEMMA SettingsAre ==
    Settings = {"retry", "bus", "errors", "halt", "stop", "bitcnt", "zerocross",
                "bc1553a", "nosrq", "syncerr", "res250", "skipimg", "frequency", "run",
                "replaying", "replay", "ttagsync", "syncpat", "errword", "errbit",
                "interrupt", "rtint", "hdrexists", "hdrval", "clr1", "clr17",
                "expanded", "enhanced", "perRT", "irig", "active", "rtbus", "immed",
                "broadint", "status", "invalid", "rt1553a", "inteom", "interr",
                "illegal", "inactive", "dbuffer", "upper", "busy", "buffers", "block",
                "modecode", "rterrors", "wdcnt", "builtin", "vector", "checksum",
                "trigmode", "triggers", "broad", "concurrent", "monresp", "monrespa",
                "interval", "cnttrig", "per1553a", "mon1553a", "lkupblk", "lkupint"}
BY DEF Settings, Field

\* The register of each setting.
LEMMA Home ==
    ASSUME NEW x \in Settings
    PROVE  \/ /\ Field[x][1] = "control"
              /\ x \in {"retry", "bus", "errors", "halt", "stop"}
           \/ /\ Field[x][1] = "bit"
              /\ x \in {"bitcnt", "zerocross"}
           \/ /\ Field[x][1] = "bcprot"
              /\ x \in {"bc1553a", "nosrq", "syncerr", "res250", "skipimg", "frequency"}
           \/ Field[x][1] = "start" /\ x = "run"
           \/ Field[x][1] = "boardopt" /\ x = "replaying"
           \/ Field[x][1] = "replay" /\ x = "replay"
           \/ Field[x][1] = "ttagsendsync" /\ x = "ttagsync"
           \/ Field[x][1] = "sync_pattern" /\ x = "syncpat"
           \/ Field[x][1] = "err_word_index" /\ x = "errword"
           \/ Field[x][1] = "err_bit_index" /\ x = "errbit"
           \/ Field[x][1] = "interpt" /\ x = "interrupt"
           \/ Field[x][1] = "int_cond" /\ x = "rtint"
           \/ Field[x][1] = "header_exists" /\ x = "hdrexists"
           \/ Field[x][1] = "header_val" /\ x = "hdrval"
           \/ Field[x][1] = "ttagclr1" /\ x = "clr1"
           \/ Field[x][1] = "ttagclr17" /\ x = "clr17"
           \/ /\ Field[x][1] = "modfn"
              /\ x \in {"expanded", "enhanced", "perRT", "irig"}
           \/ /\ Field[x][1] = "active5"
              /\ x \in {"active", "rtbus", "immed"}
           \/ Field[x][1] = "active31" /\ x = "broadint"
           \/ Field[x][1] = "status" /\ x = "status"
           \/ /\ Field[x][1] = "rtprot"
              /\ x \in {"invalid", "rt1553a"}
           \/ /\ Field[x][1] = "rtid"
              /\ x \in {"inteom", "interr", "illegal", "inactive", "dbuffer",
                        "upper", "busy", "buffers"}
           \/ Field[x][1] = "blk_lookup" /\ x = "block"
           \/ Field[x][1] = "mode_code" /\ x = "modecode"
           \/ Field[x][1] = "err_inject" /\ x = "rterrors"
           \/ Field[x][1] = "word_count" /\ x = "wdcnt"
           \/ Field[x][1] = "built_in_test" /\ x = "builtin"
           \/ Field[x][1] = "vector" /\ x = "vector"
           \/ Field[x][1] = "checksum_flag" /\ x = "checksum"
           \/ /\ Field[x][1] = "trig_ctl"
              /\ x \in {"trigmode", "triggers"}
           \/ Field[x][1] = "broad_ctl" /\ x = "broad"
           \/ Field[x][1] = "mon_connect" /\ x = "concurrent"
           \/ Field[x][1] = "response_time" /\ x = "monresp"
           \/ Field[x][1] = "resptime_1553a" /\ x = "monrespa"
           \/ Field[x][1] = "interval_int" /\ x = "interval"
           \/ Field[x][1] = "cnt_trigger" /\ x = "cnttrig"
           \/ Field[x][1] = "modePerRT" /\ x = "per1553a"
           \/ Field[x][1] = "x1553a" /\ x = "mon1553a"
           \/ /\ Field[x][1] = "lookup"
              /\ x \in {"lkupblk", "lkupint"}
<1>1. CASE x \in {"retry", "bus", "errors", "halt", "stop", "bitcnt",
                  "zerocross"}
  <2>1. /\ Field["retry"][1] = "control"
        /\ Field["bus"][1] = "control"
        /\ Field["errors"][1] = "control"
        /\ Field["halt"][1] = "control"
        /\ Field["stop"][1] = "control"
        /\ Field["bitcnt"][1] = "bit"
        /\ Field["zerocross"][1] = "bit"
    BY FieldIs
  <2>2. \/ /\ Field[x][1] = "control"
           /\ x \in {"retry", "bus", "errors", "halt", "stop"}
        \/ /\ Field[x][1] = "bit"
           /\ x \in {"bitcnt", "zerocross"}
    BY <1>1, <2>1
  <2> QED BY <2>2
<1>2. CASE x \in {"bc1553a", "nosrq", "syncerr", "res250", "skipimg", "frequency",
                  "run", "replaying", "replay", "ttagsync", "syncpat"}
  <2>1. /\ Field["bc1553a"][1] = "bcprot"
        /\ Field["nosrq"][1] = "bcprot"
        /\ Field["syncerr"][1] = "bcprot"
        /\ Field["res250"][1] = "bcprot"
        /\ Field["skipimg"][1] = "bcprot"
        /\ Field["frequency"][1] = "bcprot"
        /\ Field["run"][1] = "start"
        /\ Field["replaying"][1] = "boardopt"
        /\ Field["replay"][1] = "replay"
        /\ Field["ttagsync"][1] = "ttagsendsync"
        /\ Field["syncpat"][1] = "sync_pattern"
    BY FieldIs
  <2>2. \/ /\ Field[x][1] = "bcprot"
           /\ x \in {"bc1553a", "nosrq", "syncerr", "res250", "skipimg", "frequency"}
        \/ Field[x][1] = "start" /\ x = "run"
        \/ Field[x][1] = "boardopt" /\ x = "replaying"
        \/ Field[x][1] = "replay" /\ x = "replay"
        \/ Field[x][1] = "ttagsendsync" /\ x = "ttagsync"
        \/ Field[x][1] = "sync_pattern" /\ x = "syncpat"
    BY <1>2, <2>1
  <2> QED BY <2>2
<1>3. CASE x \in {"errword", "errbit", "interrupt", "rtint", "hdrexists",
                  "hdrval", "clr1", "clr17"}
  <2>1. /\ Field["errword"][1] = "err_word_index"
        /\ Field["errbit"][1] = "err_bit_index"
        /\ Field["interrupt"][1] = "interpt"
        /\ Field["rtint"][1] = "int_cond"
        /\ Field["hdrexists"][1] = "header_exists"
        /\ Field["hdrval"][1] = "header_val"
        /\ Field["clr1"][1] = "ttagclr1"
        /\ Field["clr17"][1] = "ttagclr17"
    BY FieldIs
  <2>2. \/ Field[x][1] = "err_word_index" /\ x = "errword"
        \/ Field[x][1] = "err_bit_index" /\ x = "errbit"
        \/ Field[x][1] = "interpt" /\ x = "interrupt"
        \/ Field[x][1] = "int_cond" /\ x = "rtint"
        \/ Field[x][1] = "header_exists" /\ x = "hdrexists"
        \/ Field[x][1] = "header_val" /\ x = "hdrval"
        \/ Field[x][1] = "ttagclr1" /\ x = "clr1"
        \/ Field[x][1] = "ttagclr17" /\ x = "clr17"
    BY <1>3, <2>1
  <2> QED BY <2>2
<1>4. CASE x \in {"expanded", "enhanced", "perRT", "irig", "active", "rtbus",
                  "immed", "broadint", "status"}
  <2>1. /\ Field["expanded"][1] = "modfn"
        /\ Field["enhanced"][1] = "modfn"
        /\ Field["perRT"][1] = "modfn"
        /\ Field["irig"][1] = "modfn"
        /\ Field["active"][1] = "active5"
        /\ Field["rtbus"][1] = "active5"
        /\ Field["immed"][1] = "active5"
        /\ Field["broadint"][1] = "active31"
        /\ Field["status"][1] = "status"
    BY FieldIs
  <2>2. \/ /\ Field[x][1] = "modfn"
           /\ x \in {"expanded", "enhanced", "perRT", "irig"}
        \/ /\ Field[x][1] = "active5"
           /\ x \in {"active", "rtbus", "immed"}
        \/ Field[x][1] = "active31" /\ x = "broadint"
        \/ Field[x][1] = "status" /\ x = "status"
    BY <1>4, <2>1
  <2> QED BY <2>2
<1>5. CASE x \in {"invalid", "rt1553a", "inteom", "interr", "illegal",
                  "inactive", "dbuffer", "upper", "busy", "buffers"}
  <2>1. /\ Field["invalid"][1] = "rtprot"
        /\ Field["rt1553a"][1] = "rtprot"
        /\ Field["inteom"][1] = "rtid"
        /\ Field["interr"][1] = "rtid"
        /\ Field["illegal"][1] = "rtid"
        /\ Field["inactive"][1] = "rtid"
        /\ Field["dbuffer"][1] = "rtid"
        /\ Field["upper"][1] = "rtid"
        /\ Field["busy"][1] = "rtid"
        /\ Field["buffers"][1] = "rtid"
    BY FieldIs
  <2>2. \/ /\ Field[x][1] = "rtprot"
           /\ x \in {"invalid", "rt1553a"}
        \/ /\ Field[x][1] = "rtid"
           /\ x \in {"inteom", "interr", "illegal", "inactive", "dbuffer",
                     "upper", "busy", "buffers"}
    BY <1>5, <2>1
  <2> QED BY <2>2
<1>6. CASE x \in {"block", "modecode", "rterrors", "wdcnt", "builtin",
                  "vector", "checksum", "trigmode", "triggers", "broad"}
  <2>1. /\ Field["block"][1] = "blk_lookup"
        /\ Field["modecode"][1] = "mode_code"
        /\ Field["rterrors"][1] = "err_inject"
        /\ Field["wdcnt"][1] = "word_count"
        /\ Field["builtin"][1] = "built_in_test"
        /\ Field["vector"][1] = "vector"
        /\ Field["checksum"][1] = "checksum_flag"
        /\ Field["trigmode"][1] = "trig_ctl"
        /\ Field["triggers"][1] = "trig_ctl"
        /\ Field["broad"][1] = "broad_ctl"
    BY FieldIs
  <2>2. \/ Field[x][1] = "blk_lookup" /\ x = "block"
        \/ Field[x][1] = "mode_code" /\ x = "modecode"
        \/ Field[x][1] = "err_inject" /\ x = "rterrors"
        \/ Field[x][1] = "word_count" /\ x = "wdcnt"
        \/ Field[x][1] = "built_in_test" /\ x = "builtin"
        \/ Field[x][1] = "vector" /\ x = "vector"
        \/ Field[x][1] = "checksum_flag" /\ x = "checksum"
        \/ /\ Field[x][1] = "trig_ctl"
           /\ x \in {"trigmode", "triggers"}
        \/ Field[x][1] = "broad_ctl" /\ x = "broad"
    BY <1>6, <2>1
  <2> QED BY <2>2
<1>7. CASE x \in {"concurrent", "monresp", "monrespa", "interval", "cnttrig",
                  "per1553a", "mon1553a", "lkupblk", "lkupint"}
  <2>1. /\ Field["concurrent"][1] = "mon_connect"
        /\ Field["monresp"][1] = "response_time"
        /\ Field["monrespa"][1] = "resptime_1553a"
        /\ Field["interval"][1] = "interval_int"
        /\ Field["cnttrig"][1] = "cnt_trigger"
        /\ Field["per1553a"][1] = "modePerRT"
        /\ Field["mon1553a"][1] = "x1553a"
        /\ Field["lkupblk"][1] = "lookup"
        /\ Field["lkupint"][1] = "lookup"
    BY FieldIs
  <2>2. \/ Field[x][1] = "mon_connect" /\ x = "concurrent"
        \/ Field[x][1] = "response_time" /\ x = "monresp"
        \/ Field[x][1] = "resptime_1553a" /\ x = "monrespa"
        \/ Field[x][1] = "interval_int" /\ x = "interval"
        \/ Field[x][1] = "cnt_trigger" /\ x = "cnttrig"
        \/ Field[x][1] = "modePerRT" /\ x = "per1553a"
        \/ Field[x][1] = "x1553a" /\ x = "mon1553a"
        \/ /\ Field[x][1] = "lookup"
           /\ x \in {"lkupblk", "lkupint"}
    BY <1>7, <2>1
  <2> QED BY <2>2
<1> QED BY SettingsAre, <1>1, <1>2, <1>3, <1>4, <1>5, <1>6, <1>7

\* The settings that share a register.
LEMMA Sharing ==
    ASSUME NEW x \in Settings
    PROVE  /\ Field[x][1] = "control" => x \in {"retry", "bus", "errors", "halt", "stop"}
           /\ Field[x][1] = "bit" => x \in {"bitcnt", "zerocross"}
           /\ Field[x][1] = "bcprot" => x \in {"bc1553a", "nosrq", "syncerr", "res250",
                                    "skipimg", "frequency"}
           /\ Field[x][1] = "modfn" => x \in {"expanded", "enhanced", "perRT", "irig"}
           /\ Field[x][1] = "active5" => x \in {"active", "rtbus", "immed"}
           /\ Field[x][1] = "rtprot" => x \in {"invalid", "rt1553a"}
           /\ Field[x][1] = "rtid" => x \in {"inteom", "interr", "illegal", "inactive",
                                    "dbuffer", "upper", "busy", "buffers"}
           /\ Field[x][1] = "trig_ctl" => x \in {"trigmode", "triggers"}
           /\ Field[x][1] = "lookup" => x \in {"lkupblk", "lkupint"}
BY Home

\* The others have a register each.
LEMMA Alone ==
    ASSUME NEW x \in Settings
    PROVE  /\ Field[x][1] = "start" => x = "run"
           /\ Field[x][1] = "boardopt" => x = "replaying"
           /\ Field[x][1] = "replay" => x = "replay"
           /\ Field[x][1] = "ttagsendsync" => x = "ttagsync"
           /\ Field[x][1] = "sync_pattern" => x = "syncpat"
           /\ Field[x][1] = "err_word_index" => x = "errword"
           /\ Field[x][1] = "err_bit_index" => x = "errbit"
           /\ Field[x][1] = "interpt" => x = "interrupt"
           /\ Field[x][1] = "int_cond" => x = "rtint"
           /\ Field[x][1] = "header_exists" => x = "hdrexists"
           /\ Field[x][1] = "header_val" => x = "hdrval"
           /\ Field[x][1] = "ttagclr1" => x = "clr1"
           /\ Field[x][1] = "ttagclr17" => x = "clr17"
           /\ Field[x][1] = "active31" => x = "broadint"
           /\ Field[x][1] = "status" => x = "status"
           /\ Field[x][1] = "blk_lookup" => x = "block"
           /\ Field[x][1] = "mode_code" => x = "modecode"
           /\ Field[x][1] = "err_inject" => x = "rterrors"
           /\ Field[x][1] = "word_count" => x = "wdcnt"
           /\ Field[x][1] = "built_in_test" => x = "builtin"
           /\ Field[x][1] = "vector" => x = "vector"
           /\ Field[x][1] = "checksum_flag" => x = "checksum"
           /\ Field[x][1] = "broad_ctl" => x = "broad"
           /\ Field[x][1] = "mon_connect" => x = "concurrent"
           /\ Field[x][1] = "response_time" => x = "monresp"
           /\ Field[x][1] = "resptime_1553a" => x = "monrespa"
           /\ Field[x][1] = "interval_int" => x = "interval"
           /\ Field[x][1] = "cnt_trigger" => x = "cnttrig"
           /\ Field[x][1] = "modePerRT" => x = "per1553a"
           /\ Field[x][1] = "x1553a" => x = "mon1553a"
BY Home

\* No two settings have a bit in common.
LEMMA FieldsDisjoint ==
    ASSUME NEW x \in Settings, NEW y \in Settings, x # y, Field[x][1] = Field[y][1]
    PROVE  Field[x][2] \cap Field[y][2] = {}
<1>1. CASE Field[x][1] = "control"
  <2>1. /\ Field["retry"] = <<"control", 4..6>>
        /\ Field["bus"] = <<"control", {7}>>
        /\ Field["errors"] = <<"control", (8..12) \cup {14}>>
        /\ Field["halt"] = <<"control", {13}>>
        /\ Field["stop"] = <<"control", {15}>>
    BY FieldIs
  <2>2. /\ x \in {"retry", "bus", "errors", "halt", "stop"}
        /\ y \in {"retry", "bus", "errors", "halt", "stop"}
    BY <1>1, Sharing
  <2> QED BY <2>1, <2>2
<1>2. CASE Field[x][1] = "bit"
  <2>1. /\ Field["bitcnt"] = <<"bit", 0..3>>
        /\ Field["zerocross"] = <<"bit", 4..7>>
    BY FieldIs
  <2>2. /\ x \in {"bitcnt", "zerocross"}
        /\ y \in {"bitcnt", "zerocross"}
    BY <1>2, Sharing
  <2> QED BY <2>1, <2>2
<1>3. CASE Field[x][1] = "bcprot"
  <2>1. /\ Field["bc1553a"] = <<"bcprot", {0}>>
        /\ Field["nosrq"] = <<"bcprot", {1}>>
        /\ Field["syncerr"] = <<"bcprot", {2}>>
        /\ Field["res250"] = <<"bcprot", {3}>>
        /\ Field["skipimg"] = <<"bcprot", {4}>>
        /\ Field["frequency"] = <<"bcprot", {5}>>
    BY FieldIs
  <2>2. /\ x \in {"bc1553a", "nosrq", "syncerr", "res250", "skipimg", "frequency"}
        /\ y \in {"bc1553a", "nosrq", "syncerr", "res250", "skipimg", "frequency"}
    BY <1>3, Sharing
  <2> QED BY <2>1, <2>2
<1>4. CASE Field[x][1] = "modfn"
  <2>1. /\ Field["expanded"] = <<"modfn", {0}>>
        /\ Field["enhanced"] = <<"modfn", {1}>>
        /\ Field["perRT"] = <<"modfn", {2}>>
        /\ Field["irig"] = <<"modfn", {3}>>
    BY FieldIs
  <2>2. /\ x \in {"expanded", "enhanced", "perRT", "irig"}
        /\ y \in {"expanded", "enhanced", "perRT", "irig"}
    BY <1>4, Sharing
  <2> QED BY <2>1, <2>2
<1>5. CASE Field[x][1] = "active5"
  <2>1. /\ Field["active"] = <<"active5", 0..1>>
        /\ Field["rtbus"] = <<"active5", 2..3>>
        /\ Field["immed"] = <<"active5", {4}>>
    BY FieldIs
  <2>2. /\ x \in {"active", "rtbus", "immed"}
        /\ y \in {"active", "rtbus", "immed"}
    BY <1>5, Sharing
  <2> QED BY <2>1, <2>2
<1>6. CASE Field[x][1] = "rtprot"
  <2>1. /\ Field["invalid"] = <<"rtprot", {0}>>
        /\ Field["rt1553a"] = <<"rtprot", {1}>>
    BY FieldIs
  <2>2. /\ x \in {"invalid", "rt1553a"}
        /\ y \in {"invalid", "rt1553a"}
    BY <1>6, Sharing
  <2> QED BY <2>1, <2>2
<1>7. CASE Field[x][1] = "rtid"
  <2>1. /\ Field["inteom"] = <<"rtid", {0}>>
        /\ Field["interr"] = <<"rtid", {1}>>
        /\ Field["illegal"] = <<"rtid", {2}>>
        /\ Field["inactive"] = <<"rtid", {3}>>
        /\ Field["dbuffer"] = <<"rtid", {4}>>
        /\ Field["upper"] = <<"rtid", {6}>>
        /\ Field["busy"] = <<"rtid", {7}>>
        /\ Field["buffers"] = <<"rtid", 8..11>>
    BY FieldIs
  <2>2. /\ x \in {"inteom", "interr", "illegal", "inactive", "dbuffer",
                 "upper", "busy", "buffers"}
        /\ y \in {"inteom", "interr", "illegal", "inactive", "dbuffer",
                 "upper", "busy", "buffers"}
    BY <1>7, Sharing
  <2> QED BY <2>1, <2>2
<1>8. CASE Field[x][1] = "trig_ctl"
  <2>1. /\ Field["trigmode"] = <<"trig_ctl", {3, 4, 7}>>
        /\ Field["triggers"] = <<"trig_ctl", 0..1>>
    BY FieldIs
  <2>2. /\ x \in {"trigmode", "triggers"}
        /\ y \in {"trigmode", "triggers"}
    BY <1>8, Sharing
  <2> QED BY <2>1, <2>2
<1>9. CASE Field[x][1] = "lookup"
  <2>1. /\ Field["lkupblk"] = <<"lookup", 0..6>>
        /\ Field["lkupint"] = <<"lookup", {7}>>
    BY FieldIs
  <2>2. /\ x \in {"lkupblk", "lkupint"}
        /\ y \in {"lkupblk", "lkupint"}
    BY <1>9, Sharing
  <2> QED BY <2>1, <2>2
<1>10. CASE Field[x][1] \notin {"control", "bit", "bcprot", "modfn", "active5",
                             "rtprot", "rtid", "trig_ctl", "lookup"}
  <2>1. Field[x][1] \in {"start", "boardopt", "replay", "ttagsendsync",
                         "sync_pattern", "err_word_index", "err_bit_index",
                         "interpt", "int_cond", "header_exists", "header_val",
                         "ttagclr1", "ttagclr17", "active31", "status", "blk_lookup",
                         "mode_code", "err_inject", "word_count", "built_in_test",
                         "vector", "checksum_flag", "broad_ctl", "mon_connect",
                         "response_time", "resptime_1553a", "interval_int",
                         "cnt_trigger", "modePerRT", "x1553a"}
    <3>1. Field[x][1] \in {"control", "bit", "bcprot", "modfn", "active5",
                           "rtprot", "rtid", "trig_ctl", "lookup", "start",
                           "boardopt", "replay", "ttagsendsync",
                           "sync_pattern", "err_word_index", "err_bit_index",
                           "interpt", "int_cond", "header_exists",
                           "header_val", "ttagclr1", "ttagclr17", "active31",
                           "status", "blk_lookup", "mode_code", "err_inject",
                           "word_count", "built_in_test", "vector",
                           "checksum_flag", "broad_ctl", "mon_connect",
                           "response_time", "resptime_1553a", "interval_int",
                           "cnt_trigger", "modePerRT", "x1553a"}
      BY Home
    <3> QED BY <1>10, <3>1
  <2> QED BY <2>1, Alone
<1> QED BY <1>1, <1>2, <1>3, <1>4, <1>5, <1>6, <1>7, <1>8, <1>9, <1>10

(***************************************************************************)
(* The bits of a number.                                                   *)
(***************************************************************************)
\* Each bit and its weight.
LEMMA BitsAre ==
    ASSUME NEW n, NEW b \in Bits(n)
    PROVE  /\ b \in Word
           /\ \/ b = 0 /\ (n \div 1) % 2 = 1
              \/ b = 1 /\ (n \div 2) % 2 = 1
              \/ b = 2 /\ (n \div 4) % 2 = 1
              \/ b = 3 /\ (n \div 8) % 2 = 1
              \/ b = 4 /\ (n \div 16) % 2 = 1
              \/ b = 5 /\ (n \div 32) % 2 = 1
              \/ b = 6 /\ (n \div 64) % 2 = 1
              \/ b = 7 /\ (n \div 128) % 2 = 1
              \/ b = 8 /\ (n \div 256) % 2 = 1
              \/ b = 9 /\ (n \div 512) % 2 = 1
              \/ b = 10 /\ (n \div 1024) % 2 = 1
              \/ b = 11 /\ (n \div 2048) % 2 = 1
              \/ b = 12 /\ (n \div 4096) % 2 = 1
              \/ b = 13 /\ (n \div 8192) % 2 = 1
              \/ b = 14 /\ (n \div 16384) % 2 = 1
              \/ b = 15 /\ (n \div 32768) % 2 = 1
<1>1. b \in 0..15 /\ (n \div Weight[b + 1]) % 2 = 1
  BY DEF Bits
<1>2. \/ b = 0 \/ b = 1 \/ b = 2 \/ b = 3 \/ b = 4 \/ b = 5 \/ b = 6 \/ b = 7
      \/ b = 8 \/ b = 9 \/ b = 10 \/ b = 11 \/ b = 12 \/ b = 13 \/ b = 14 \/ b = 15
  BY <1>1
<1>3. /\ Weight[0 + 1] = 1 /\ Weight[1 + 1] = 2 /\ Weight[2 + 1] = 4 /\ Weight[3 + 1] = 8
      /\ Weight[4 + 1] = 16 /\ Weight[5 + 1] = 32 /\ Weight[6 + 1] = 64 /\ Weight[7 + 1] = 128
  BY DEF Weight
<1>4. /\ Weight[8 + 1] = 256 /\ Weight[9 + 1] = 512 /\ Weight[10 + 1] = 1024
      /\ Weight[11 + 1] = 2048 /\ Weight[12 + 1] = 4096 /\ Weight[13 + 1] = 8192
      /\ Weight[14 + 1] = 16384 /\ Weight[15 + 1] = 32768
  BY DEF Weight
<1> QED BY <1>1, <1>2, <1>3, <1>4 DEF Word

LEMMA BitsWord == ASSUME NEW n PROVE Bits(n) \subseteq Word
BY DEF Bits, Word

\* The numbers of a byte, and of less.
LEMMA BitsByte ==
    ASSUME NEW n \in Nat, n < 256
    PROVE  /\ Bits(n) \subseteq Byte
           /\ n < 8 => Bits(n) \subseteq 0..3
           /\ n < 128 => Bits(n) \subseteq 0..6
<1> SUFFICES ASSUME NEW b \in Bits(n)
             PROVE  b \in 0..7 /\ (n < 8 => b \in 0..3) /\ (n < 128 => b \in 0..6)
  BY DEF Byte
<1> QED BY BitsAre

(***************************************************************************)
(* The invariant.                                                          *)
(***************************************************************************)
\* What the fields of a register have in common with the calls: a replay is
\* never asked for; a bus controller's zero crossing is not in the same mode as
\* an RT's bit count, which takes the whole register; only an RT has an RT
\* interrupt; and the triggers are the ones the host keeps.
SettingsInv ==
    /\ DOMAIN reg = Registers /\ DOMAIN asked = Settings
    /\ BitsHold
    /\ asked["replaying"] = <<>>
    /\ RT => asked["zerocross"] = <<>>
    /\ ~RT => 1 \notin reg["active5"]
    /\ trig = [set |-> trig.set, mode |-> trig.mode]
    /\ trig.set \subseteq 0..1 /\ trig.mode \subseteq {3, 4, 7}

\* No setting takes a neighbour's bits, nor leaves bits of its own: what a call
\* that changes registers has to show.
LEMMA ChangeHolds ==
    ASSUME SettingsInv, NEW s \in Settings, NEW clear, NEW set, Change(s, clear, set),
           set \subseteq Field[s][2],
           reg[Field[s][1]] \cap Field[s][2] \subseteq clear \cup set,
           \A x \in Settings : x # s /\ Field[x][1] = Field[s][1] =>
                Field[x][2] \cap clear = {} \/ asked[x] = <<>>,
           s # "replaying", s = "zerocross" => ~RT,
           Field[s][1] = "active5" /\ ~RT => 1 \notin set
    PROVE  SettingsInv'
<1> DEFINE r == Field[s][1]
<1>1. /\ DOMAIN reg = Registers /\ DOMAIN asked = Settings /\ r \in Registers
      /\ "active5" \in Registers
  <2>1. "active" \in Settings /\ Field["active"][1] = "active5"
    BY SettingsAre, FieldIs
  <2> QED BY <2>1 DEF SettingsInv, Registers
<1>2. /\ reg'[r] = (reg[r] \ clear) \cup set
      /\ \A q \in Registers : q # r => reg'[q] = reg[q]
      /\ DOMAIN reg' = Registers
  BY <1>1 DEF Change
<1>3. /\ asked'[s] = <<set>> /\ \A x \in Settings : x # s => asked'[x] = asked[x]
      /\ DOMAIN asked' = Settings
  BY <1>1 DEF Change
<1>4. UNCHANGED <<mode, trig>>
  BY DEF Change
<1>5. ASSUME NEW x \in Settings, asked'[x] # <<>>, ~Unanswered(x)'
      PROVE  reg'[Field[x][1]] \cap Field[x][2] = asked'[x][1]
  <2>1. CASE x = s
    <3>1. asked'[x][1] = set
      BY <1>3, <2>1
    <3> QED BY <1>2, <2>1, <3>1
  <2>2. CASE x # s /\ Field[x][1] = r
    <3>1. Field[x][2] \cap Field[s][2] = {}
      BY <2>2, FieldsDisjoint
    <3>2. reg[r] \cap Field[x][2] = asked[x][1] /\ asked[x] # <<>> /\ asked'[x] = asked[x]
      BY <1>3, <1>5, <2>2 DEF SettingsInv, BitsHold, Unanswered
    <3>3. Field[x][2] \cap clear = {}
      BY <2>2, <3>2
    <3> QED BY <1>2, <2>2, <3>1, <3>2, <3>3
  <2>3. CASE x # s /\ Field[x][1] # r
    <3>1. Field[x][1] \in Registers
      BY DEF Registers
    <3>2. reg[Field[x][1]] \cap Field[x][2] = asked[x][1] /\ asked'[x] = asked[x]
      BY <1>3, <1>5, <2>3 DEF SettingsInv, BitsHold, Unanswered
    <3> QED BY <1>2, <2>3, <3>1, <3>2
  <2> QED BY <2>1, <2>2, <2>3
<1>6. BitsHold'
  BY <1>5 DEF BitsHold, Unanswered
<1>7. /\ asked'["replaying"] = <<>>
      /\ mode' = "RT" => asked'["zerocross"] = <<>>
  <2>1. "replaying" \in Settings /\ "zerocross" \in Settings
    BY SettingsAre
  <2> QED BY <1>3, <1>4, <2>1 DEF SettingsInv, RT
<1>8. mode' # "RT" => 1 \notin reg'["active5"]
  BY <1>1, <1>2, <1>4 DEF SettingsInv, RT
<1> QED
  BY <1>2, <1>3, <1>4, <1>6, <1>7, <1>8 DEF SettingsInv, RT

\* A call that clears and sets bits of its own field only, all of them.
LEMMA OwnField ==
    ASSUME SettingsInv, NEW s \in Settings, NEW clear, NEW set, Change(s, clear, set),
           set \subseteq Field[s][2], clear \subseteq Field[s][2],
           Field[s][2] \subseteq clear \cup set,
           s # "replaying", s = "zerocross" => ~RT,
           Field[s][1] = "active5" /\ ~RT => 1 \notin set
    PROVE  SettingsInv'
<1>1. reg[Field[s][1]] \cap Field[s][2] \subseteq clear \cup set
  OBVIOUS
<1>2. \A x \in Settings : x # s /\ Field[x][1] = Field[s][1] => Field[x][2] \cap clear = {}
  BY FieldsDisjoint
<1> QED BY <1>1, <1>2, ChangeHolds

\* A flag has its bit for itself.
LEMMA FlagHolds ==
    ASSUME SettingsInv, NEW s \in Settings, Flag(s, Field[s][2]),
           s \notin {"replaying", "zerocross"}, Field[s][1] # "active5"
    PROVE  SettingsInv'
<1>1. PICK on \in BOOLEAN :
        Change(s, Field[s][2], IF on THEN Field[s][2] ELSE {})
  BY DEF Flag
<1>2. PICK set : set = IF on THEN Field[s][2] ELSE {}
  OBVIOUS
<1>3. Change(s, Field[s][2], set) /\ set \subseteq Field[s][2]
  BY <1>1, <1>2
<1> QED BY <1>3, OwnField

\* A setting that has its register for itself.
LEMMA SoleHolds ==
    ASSUME SettingsInv, NEW s \in Settings, NEW clear, NEW set, Change(s, clear, set),
           \A x \in Settings : Field[x][1] = Field[s][1] => x = s,
           set \subseteq Field[s][2], Field[s][2] \subseteq clear,
           s \notin {"replaying", "zerocross"}, Field[s][1] # "active5"
    PROVE  SettingsInv'
<1>1. reg[Field[s][1]] \cap Field[s][2] \subseteq clear \cup set
  OBVIOUS
<1> QED BY <1>1, ChangeHolds

LEMMA ByteHolds ==
    ASSUME SettingsInv,
           NEW s \in {"replay", "interrupt", "rtint", "clr1", "clr17", "modecode",
                      "rterrors", "wdcnt", "cnttrig", "concurrent"},
           NEW clear \in {Byte, Word}, NEW n \in Nat, n < 256, Change(s, clear, Bits(n))
    PROVE  SettingsInv'
<1>1. s \in Settings
  BY SettingsAre
<1>2. Field[s][2] = Byte /\ Byte \subseteq clear
  <2>1. Field[s][2] = Byte
    BY FieldIs
  <2> QED BY <2>1 DEF Byte, Word
<1>3. Field[s][1] \in {"replay", "interpt", "int_cond", "ttagclr1", "ttagclr17", "mode_code",
                       "err_inject", "word_count", "cnt_trigger", "mon_connect"}
  BY FieldIs
<1>4. \A x \in Settings : Field[x][1] = Field[s][1] => x = s
  BY <1>1, <1>3, Alone
<1> QED BY <1>1, <1>2, <1>3, <1>4, BitsByte, SoleHolds

LEMMA WordHolds ==
    ASSUME SettingsInv,
           NEW s \in {"ttagsync", "hdrexists", "hdrval", "mon1553a", "builtin", "vector",
                      "checksum", "interval", "broad", "monresp", "monrespa"},
           NEW n, Change(s, Word, Bits(n))
    PROVE  SettingsInv'
<1>1. s \in Settings
  BY SettingsAre
<1>2. Field[s][2] = Word
  BY FieldIs
<1>3. Field[s][1] \in {"ttagsendsync", "header_exists", "header_val", "x1553a", "built_in_test",
                       "vector", "checksum_flag", "interval_int", "broad_ctl", "response_time",
                       "resptime_1553a"}
  BY FieldIs
<1>4. \A x \in Settings : Field[x][1] = Field[s][1] => x = s
  BY <1>1, <1>3, Alone
<1> QED BY <1>1, <1>2, <1>3, <1>4, BitsWord, SoleHolds

\* A call that changes several settings, those of T, or writes its own way.
LEMMA KeptOthers ==
    ASSUME SettingsInv, NEW T,
           DOMAIN reg' = Registers, DOMAIN asked' = Settings, mode' = mode,
           trig' = [set |-> trig'.set, mode |-> trig'.mode],
           trig'.set \subseteq 0..1, trig'.mode \subseteq {3, 4, 7},
           \A x \in Settings \ T : /\ asked'[x] = asked[x] \/ asked'[x] = <<>>
                                   /\ reg'[Field[x][1]] \cap Field[x][2]
                                        = reg[Field[x][1]] \cap Field[x][2],
           \A x \in T : asked'[x] # <<>> =>
                           reg'[Field[x][1]] \cap Field[x][2] = asked'[x][1],
           "replaying" \notin T, "zerocross" \notin T,
           ~RT => 1 \notin reg'["active5"]
    PROVE  SettingsInv'
<1>1. ASSUME NEW x \in Settings, asked'[x] # <<>>, ~Unanswered(x)'
      PROVE  reg'[Field[x][1]] \cap Field[x][2] = asked'[x][1]
  <2>1. CASE x \in T
    BY <1>1, <2>1
  <2>2. CASE x \notin T
    <3>1. asked'[x] = asked[x] /\ reg'[Field[x][1]] \cap Field[x][2]
                                    = reg[Field[x][1]] \cap Field[x][2]
      BY <1>1, <2>2
    <3> QED BY <1>1, <3>1 DEF SettingsInv, BitsHold, Unanswered
  <2> QED BY <2>1, <2>2
<1>2. /\ asked'["replaying"] = <<>>
      /\ RT => asked'["zerocross"] = <<>>
  <2>1. "replaying" \in Settings /\ "zerocross" \in Settings
    BY SettingsAre
  <2> QED BY <2>1 DEF SettingsInv
<1>3. BitsHold'
  BY <1>1 DEF BitsHold, Unanswered
<1> QED BY <1>2, <1>3 DEF SettingsInv, RT

\* A register written in some bits keeps the fields that have none of them.
LEMMA FieldKept ==
    ASSUME NEW x \in Settings, NEW r, NEW m,
           reg'[r] \ m = reg[r] \ m, Field[x][1] = r, Field[x][2] \cap m = {}
    PROVE  reg'[Field[x][1]] \cap Field[x][2] = reg[Field[x][1]] \cap Field[x][2]
<1>1. \A b \in Field[x][2] : b \in reg'[r] <=> b \in reg[r]
  OBVIOUS
<1> QED BY <1>1

(***************************************************************************)
(* The calls.                                                              *)
(***************************************************************************)
\* The control word of a message.
LEMMA ControlHolds ==
    ASSUME SettingsInv,
           \/ Set_Bus \/ Set_Halt \/ Set_Continue \/ Set_Stop_On_Error
           \/ Set_Retry \/ Insert_Msg_Err
    PROVE  SettingsInv'
<1>0. /\ {"bus", "halt", "stop", "retry", "errors"} \subseteq Settings
      /\ Field["bus"] = <<"control", {7}>> /\ Field["halt"] = <<"control", {13}>>
      /\ Field["stop"] = <<"control", {15}>> /\ Field["retry"] = <<"control", 4..6>>
      /\ Field["errors"] = <<"control", (8..12) \cup {14}>>
  BY SettingsAre, FieldIs
<1>1. CASE Set_Bus
  <2>1. PICK channel \in {0, 128} : Change("bus", {7}, Bits(channel))
    BY <1>1 DEF Set_Bus
  <2>2. Bits(channel) \subseteq {7}
    <3> SUFFICES ASSUME NEW b \in Bits(channel) PROVE b = 7
      OBVIOUS
    <3> QED BY <2>1, BitsAre
  <2> QED BY <1>0, <2>1, <2>2, OwnField
<1>2. CASE Set_Halt
  BY <1>0, <1>2, OwnField DEF Set_Halt
<1>3. CASE Set_Continue
  BY <1>0, <1>3, OwnField DEF Set_Continue
<1>4. CASE Set_Stop_On_Error
  BY <1>0, <1>4, OwnField DEF Set_Stop_On_Error
<1>5. CASE Set_Retry
  <2>1. PICK n \in 0..3, alt \in {0, 64} : Change("retry", 4..6, Bits(alt) \cup Bits(16 * n))
    BY <1>5 DEF Set_Retry
  <2>2. Bits(alt) \subseteq 4..6
    <3> SUFFICES ASSUME NEW b \in Bits(alt) PROVE b = 6
      OBVIOUS
    <3> QED BY <2>1, BitsAre
  <2>3. Bits(16 * n) \subseteq 4..6
    <3> SUFFICES ASSUME NEW b \in Bits(16 * n) PROVE b \in 4..6
      OBVIOUS
    <3> QED BY <2>1, BitsAre
  <2>4. Bits(alt) \cup Bits(16 * n) \subseteq 4..6
    BY <2>2, <2>3
  <2> QED BY <1>0, <2>1, <2>4, OwnField
<1>6. CASE Insert_Msg_Err
  <2>1. PICK flags \in {0, 16384, 4096, 768}, receive \in BOOLEAN :
            Change("errors", (8..12) \cup {14},
                   IF flags = 0 \/ receive THEN Bits(flags) ELSE Bits(flags) \cup {8})
    BY <1>6 DEF Insert_Msg_Err
  <2>2. Bits(flags) \subseteq (8..12) \cup {14}
    <3> SUFFICES ASSUME NEW b \in Bits(flags) PROVE b \in 8..12 \/ b = 14
      OBVIOUS
    <3> QED BY <2>1, BitsAre
  <2>3. ASSUME NEW set, set \subseteq (8..12) \cup {14}, Change("errors", (8..12) \cup {14}, set)
        PROVE  SettingsInv'
    <3>1. /\ Field["errors"][1] # "active5" /\ Field["errors"][2] = (8..12) \cup {14}
          /\ "errors" # "replaying" /\ "errors" # "zerocross" /\ "errors" \in Settings
      BY <1>0
    <3> DEFINE clear == (8..12) \cup {14}
    <3>2. Field["errors"][2] = clear /\ set \subseteq clear /\ Change("errors", clear, set)
      BY <2>3, <3>1
    <3> HIDE DEF clear
    <3> QED BY <3>1, <3>2, OwnField
  <2>4. CASE flags = 0 \/ receive
    BY <2>1, <2>2, <2>3, <2>4
  <2>5. CASE ~(flags = 0 \/ receive)
    <3>1. Bits(flags) \cup {8} \subseteq (8..12) \cup {14}
      <4>1. 8 \in (8..12) \cup {14}
        OBVIOUS
      <4> QED BY <2>2, <4>1
    <3>2. Change("errors", (8..12) \cup {14}, Bits(flags) \cup {8})
      BY <2>1, <2>5
    <3> QED BY <2>3, <3>1, <3>2
  <2> QED BY <2>4, <2>5
<1> QED BY <1>1, <1>2, <1>3, <1>4, <1>5, <1>6

\* A bit of a register others use too.
LEMMA FlagsHold ==
    ASSUME SettingsInv,
           \/ Enable_SRQ_Support \/ Set_Frequency \/ Set_IMG_On_Skip \/ Set_Expanded_Block_Mode
           \/ Set_Broad_Interrupt \/ Set_RTid_Interrupt \/ Set_RTid_Status \/ Set_SAid_Illegal
           \/ Set_IRIG_TimeTag_Mode \/ Set_Enhanced_Mon \/ Enable_Lkup_Int
    PROVE  SettingsInv'
<1>1. PICK s \in {"nosrq", "frequency", "skipimg", "expanded", "broadint", "inteom", "interr",
                  "illegal", "inactive", "busy", "irig", "enhanced", "lkupint"} :
          Flag(s, Field[s][2])
  <2>1. /\ Field["nosrq"][2] = {1} /\ Field["frequency"][2] = {5} /\ Field["skipimg"][2] = {4}
        /\ Field["expanded"][2] = {0} /\ Field["broadint"][2] = {1} /\ Field["inteom"][2] = {0}
        /\ Field["interr"][2] = {1} /\ Field["illegal"][2] = {2} /\ Field["inactive"][2] = {3}
        /\ Field["busy"][2] = {7} /\ Field["irig"][2] = {3} /\ Field["enhanced"][2] = {1}
        /\ Field["lkupint"][2] = {7}
    BY FieldIs
  <2> QED
    BY <2>1 DEF Enable_SRQ_Support, Set_Frequency, Set_IMG_On_Skip, Set_Expanded_Block_Mode,
       Set_Broad_Interrupt, Set_RTid_Interrupt, Set_RTid_Status, Set_SAid_Illegal,
       Set_IRIG_TimeTag_Mode, Set_Enhanced_Mon, Enable_Lkup_Int
<1>2. s \in Settings /\ Field[s][1] # "active5"
  BY SettingsAre, FieldIs
<1> QED BY <1>1, <1>2, FlagHolds

\* Registers of one setting.
LEMMA BytesHold ==
    ASSUME SettingsInv,
           \/ Set_Word_Cnt \/ Set_Replay \/ Set_Interrupt \/ Clear_Timetag_Sync
           \/ Set_Mode_Addr \/ Set_RT_Errors \/ Set_RT_Interrupt \/ Reset_RT_Interrupt
           \/ Set_Wd_Cnt_Err \/ Set_Cnt_Trig \/ Set_MON_Concurrent
    PROVE  SettingsInv'
<1>1. CASE Set_Word_Cnt \/ Set_Wd_Cnt_Err
  <2>1. PICK offset \in -3..3, clear \in {Byte, Word} :
            Change("wdcnt", clear, Bits(offset % 256))
    BY <1>1 DEF Set_Word_Cnt, Set_Wd_Cnt_Err
  <2>2. PICK n \in Nat : n < 256 /\ n = offset % 256
    BY <2>1
  <2> QED BY <2>1, <2>2, ByteHolds
<1>2. CASE Set_RT_Interrupt \/ Reset_RT_Interrupt
  <2>1. PICK set \in {{}, {1}} : Change("rtint", Byte, set)
    BY <1>2 DEF Set_RT_Interrupt, Reset_RT_Interrupt
  <2>2. /\ "rtint" \in Settings /\ Field["rtint"][1] = "int_cond"
        /\ Field["rtint"][2] = Byte /\ "rtint" \notin {"replaying", "zerocross"}
    BY SettingsAre, FieldIs
  <2>3. \A x \in Settings : Field[x][1] = Field["rtint"][1] => x = "rtint"
    BY <2>2, Alone
  <2>4. set \subseteq Field["rtint"][2]
    BY <2>1, <2>2 DEF Byte
  <2>5. Field["rtint"][2] \subseteq Byte /\ Field["rtint"][1] # "active5"
    BY <2>2
  <2> QED BY <2>1, <2>2, <2>3, <2>4, <2>5, SoleHolds
<1>3. CASE Set_Interrupt
  <2>1. PICK s \in {"interrupt", "rtint"}, n \in {0, 1, 2, 3, 15, 62} : Change(s, Byte, Bits(n))
    BY <1>3 DEF Set_Interrupt
  <2> QED BY <2>1, ByteHolds
<1>4. CASE Clear_Timetag_Sync
  <2>1. PICK s \in {"clr1", "clr17"}, n \in {0, 1} : Change(s, Byte, Bits(n))
    BY <1>4 DEF Clear_Timetag_Sync
  <2> QED BY <2>1, ByteHolds
<1>5. CASE Set_Cnt_Trig
  <2>1. PICK n \in {0, 199, 255} : Change("cnttrig", Byte, Bits(n % 256))
    BY <1>5 DEF Set_Cnt_Trig
  <2>2. n % 256 = n
    BY <2>1
  <2> QED BY <2>1, <2>2, ByteHolds
<1>6. CASE Set_Replay
  <2>1. PICK n \in {0, 1} : Change("replay", Byte, Bits(n))
    BY <1>6 DEF Set_Replay
  <2> QED BY <2>1, ByteHolds
<1>7. CASE Set_Mode_Addr
  <2>1. PICK n \in 0..2 : Change("modecode", Byte, Bits(n))
    BY <1>7 DEF Set_Mode_Addr
  <2> QED BY <2>1, ByteHolds
<1>8. CASE Set_RT_Errors
  <2>1. PICK n \in {0, 246} : Change("rterrors", Byte, Bits(n))
    BY <1>8 DEF Set_RT_Errors
  <2> QED BY <2>1, ByteHolds
<1>9. CASE Set_MON_Concurrent
  <2>1. PICK n \in {0, 2} : Change("concurrent", Byte, Bits(n))
    BY <1>9 DEF Set_MON_Concurrent
  <2> QED BY <2>1, ByteHolds
<1> QED BY <1>1, <1>2, <1>3, <1>4, <1>5, <1>6, <1>7, <1>8, <1>9

LEMMA WordsHold ==
    ASSUME SettingsInv,
           \/ Send_Timetag_Sync \/ Set_Header_Exists \/ Set_Header_Value \/ Set_Bit \/ Set_Vector
           \/ Set_Checksum_Blocks \/ Set_Message_Interval_Interrupt_Value \/ Set_Broad_Ctl
           \/ Set_Mon_Response_Time \/ Set_Mon_Response_Time_1553A
    PROVE  SettingsInv'
<1>1. \E s \in {"ttagsync", "hdrexists", "hdrval", "mon1553a", "builtin", "vector",
               "checksum", "interval", "broad", "monresp", "monrespa"} :
         \E n \in Int : Change(s, Word, Bits(n))
  <2>1. CASE Set_Header_Exists
    <3>1. CASE BC /\ \E enable \in {0, 1} : Change("hdrexists", Word, Bits(256 * enable))
      BY <3>1
    <3>2. CASE ~BC \/ ~\E enable \in {0, 1} : Change("hdrexists", Word, Bits(256 * enable))
      <4>1. PICK n \in {0, 256, 1, 257} : Change("hdrexists", Word, Bits(n))
        BY <2>1, <3>2 DEF Set_Header_Exists
      <4> QED BY <4>1
    <3> QED BY <3>1, <3>2
  <2>2. CASE Send_Timetag_Sync \/ Set_Header_Value \/ Set_Bit \/ Set_Vector
    BY <2>2 DEF Send_Timetag_Sync, Set_Header_Value, Set_Bit, Set_Vector
  <2>3. CASE Set_Checksum_Blocks \/ Set_Message_Interval_Interrupt_Value \/ Set_Broad_Ctl
    BY <2>3 DEF Set_Checksum_Blocks, Set_Message_Interval_Interrupt_Value, Set_Broad_Ctl
  <2>4. CASE Set_Mon_Response_Time \/ Set_Mon_Response_Time_1553A
    BY <2>4 DEF Set_Mon_Response_Time, Set_Mon_Response_Time_1553A
  <2> QED BY <2>1, <2>2, <2>3, <2>4
<1> QED BY <1>1, WordHolds

\* The error in the number of bits, and the zero crossing beside it.
LEMMA BitRegisterHolds ==
    ASSUME SettingsInv, Set_Bit_Cnt \/ Set_Zero_Cross
    PROVE  SettingsInv'
<1>0. /\ "bitcnt" \in Settings /\ Field["bitcnt"] = <<"bit", 0..3>>
      /\ "zerocross" \in Settings /\ Field["zerocross"] = <<"bit", 4..7>>
      /\ \A x \in Settings : Field[x][1] = "bit" => x = "bitcnt" \/ x = "zerocross"
  <2>1. \A x \in Settings : Field[x][1] = "bit" => x = "bitcnt" \/ x = "zerocross"
    BY Sharing
  <2> QED BY <2>1, SettingsAre, FieldIs
<1>1. CASE Set_Zero_Cross
  <2>1. PICK type \in (0..10) \ {7} : Change("zerocross", 4..7, Bits(16 * type))
    BY <1>1 DEF Set_Zero_Cross
  <2>2. Bits(16 * type) \subseteq 4..7
    <3> SUFFICES ASSUME NEW b \in Bits(16 * type) PROVE b \in 4..7
      OBVIOUS
    <3> QED BY <2>1, BitsAre
  <2>3. ~RT
    BY <1>1 DEF Set_Zero_Cross, BC, RT
  <2> QED BY <1>0, <2>1, <2>2, <2>3, OwnField
<1>2. CASE Set_Bit_Cnt
  <2>1. \/ \E n \in 0..6 : Change("bitcnt", 0..3, Bits(n))
        \/ RT /\ \E n \in 0..6 : Change("bitcnt", Word, Bits(n))
    <3>1. PICK offset \in -3..3 :
            \/ Change("bitcnt", 0..3, Bits(offset + 3))
            \/ RT /\ Change("bitcnt", Word, Bits(
                    CASE offset = -3 -> 5 [] offset = -2 -> 0 [] offset = -1 -> 2
                      [] offset = 0 -> 3 [] offset = 1 -> 4 [] offset = 2 -> 1
                      [] OTHER -> 6))
      BY <1>2 DEF Set_Bit_Cnt
    <3>2. offset + 3 \in 0..6
      BY <3>1
    <3>3. PICK n \in 0..6 :
            n = CASE offset = -3 -> 5 [] offset = -2 -> 0 [] offset = -1 -> 2
                  [] offset = 0 -> 3 [] offset = 1 -> 4 [] offset = 2 -> 1
                  [] OTHER -> 6
      OBVIOUS
    <3> QED BY <3>1, <3>2, <3>3
  <2>2. \A n \in 0..6 : Bits(n) \subseteq 0..3
    BY BitsByte
  <2>3. ASSUME NEW n \in 0..6, Change("bitcnt", 0..3, Bits(n)) PROVE SettingsInv'
    BY <1>0, <2>2, <2>3, OwnField
  <2>4. ASSUME RT, NEW n \in 0..6, Change("bitcnt", Word, Bits(n)) PROVE SettingsInv'
    <3>1. asked["zerocross"] = <<>>
      BY <2>4 DEF SettingsInv
    <3>2. reg["bit"] \cap (0..3) \subseteq Word \cup Bits(n)
      BY DEF Word
    <3>3. \A x \in Settings : x # "bitcnt" /\ Field[x][1] = "bit" => asked[x] = <<>>
      BY <1>0, <3>1
    <3> QED BY <1>0, <2>2, <2>4, <3>2, <3>3, ChangeHolds
  <2> QED BY <2>1, <2>3, <2>4
<1> QED BY <1>1, <1>2

\* The start register, and the bits of an RT's byte.
LEMMA StartHolds ==
    ASSUME SettingsInv, Restart \/ Stop
    PROVE  SettingsInv'
<1>0. /\ "run" \in Settings /\ Field["run"] = <<"start", {0}>>
      /\ \A x \in Settings : /\ Field[x][1] = "start" => x = "run"
                             /\ Field[x][1] = "boardopt" => x = "replaying"
  <2>1. \A x \in Settings : /\ Field[x][1] = "start" => x = "run"
                            /\ Field[x][1] = "boardopt" => x = "replaying"
    BY Alone
  <2> QED BY <2>1, SettingsAre, FieldIs
<1>1. CASE Restart
  BY <1>0, <1>1, OwnField DEF Restart
<1>2. CASE Stop
  <2>1. /\ DOMAIN reg = Registers /\ DOMAIN asked = Settings
        /\ asked["replaying"] = <<>>
        /\ ~RT => 1 \notin reg["active5"]
        /\ trig = [set |-> trig.set, mode |-> trig.mode]
        /\ trig.set \subseteq 0..1 /\ trig.mode \subseteq {3, 4, 7}
    BY DEF SettingsInv
  <2>2. {"start", "boardopt", "active5"} \subseteq Registers
    <3>1. /\ {"run", "replaying", "active"} \subseteq Settings
          /\ Field["run"][1] = "start" /\ Field["replaying"][1] = "boardopt"
          /\ Field["active"][1] = "active5"
      BY SettingsAre, FieldIs
    <3> QED BY <3>1 DEF Registers
  <2>3. /\ DOMAIN reg' = Registers /\ DOMAIN asked' = Settings
        /\ reg'["start"] = reg["start"] \ {0}
        /\ \A r \in Registers \ {"start", "boardopt"} : reg'[r] = reg[r]
        /\ asked'["run"] = <<{}>> /\ \A x \in Settings \ {"run"} : asked'[x] = asked[x]
        /\ mode' = mode /\ trig' = trig
    BY <1>0, <1>2, <2>1, <2>2 DEF Stop
  <2>4. ASSUME NEW x \in Settings \ {"run", "replaying"}
        PROVE  reg'[Field[x][1]] = reg[Field[x][1]]
    <3>1. Field[x][1] \in Registers
      BY DEF Registers
    <3> QED BY <1>0, <2>3, <3>1
  <2>5. ASSUME NEW x \in Settings, asked'[x] # <<>>, ~Unanswered(x)'
        PROVE  reg'[Field[x][1]] \cap Field[x][2] = asked'[x][1]
    <3>1. CASE x = "run"
      BY <1>0, <2>3, <3>1
    <3>2. x # "replaying"
      <4>1. "replaying" \in Settings \ {"run"}
        BY SettingsAre
      <4>2. asked'["replaying"] = asked["replaying"]
        BY <2>3, <4>1
      <4>3. asked["replaying"] = <<>>
        BY <2>1
      <4>4. asked'["replaying"] = <<>>
        BY <4>2, <4>3
      <4>5. asked'[x] # <<>>
        BY <2>5
      <4> QED BY <4>4, <4>5
    <3>3. CASE x \in Settings \ {"run", "replaying"}
      <4>1. asked'[x] = asked[x]
        BY <2>3, <3>3
      <4> QED BY <2>4, <2>5, <3>3, <4>1 DEF SettingsInv, BitsHold, Unanswered
    <3> QED BY <3>1, <3>2, <3>3
  <2>6. BitsHold'
    BY <2>5 DEF BitsHold, Unanswered
  <2>7. asked'["replaying"] = <<>> /\ (mode' = "RT" => asked'["zerocross"] = <<>>)
    <3>1. "zerocross" \in Settings /\ "replaying" \in Settings
      BY SettingsAre
    <3> QED BY <2>1, <2>3, <3>1 DEF SettingsInv, RT
  <2>8. mode' # "RT" => 1 \notin reg'["active5"]
    <3>1. reg'["active5"] = reg["active5"]
      <4>1. "active5" \in Registers \ {"start", "boardopt"}
        BY <2>2
      <4> QED BY <2>3, <4>1
    <3>2. mode' = mode
      BY <2>3
    <3>3. mode # "RT" => 1 \notin reg["active5"]
      BY DEF SettingsInv, RT
    <3> QED BY <3>1, <3>2, <3>3
  <2> QED BY <2>1, <2>3, <2>6, <2>7, <2>8 DEF SettingsInv, RT
<1> QED BY <1>1, <1>2

\* Settings of an RT and of its sub-addresses.
LEMMA RtHolds ==
    ASSUME SettingsInv,
           \/ Enable_1553A_Support \/ Set_RT_Active_Bus
           \/ Set_RTid_Multibuf \/ Reset_RTid_Multibuf
    PROVE  SettingsInv'
<1>0. /\ {"bc1553a", "rt1553a", "rtbus", "buffers"} \subseteq Settings
      /\ Field["bc1553a"] = <<"bcprot", {0}>> /\ Field["rt1553a"] = <<"rtprot", {1}>>
      /\ Field["rtbus"] = <<"active5", 2..3>> /\ Field["buffers"] = <<"rtid", 8..11>>
  BY SettingsAre, FieldIs
<1>1. CASE Enable_1553A_Support
  <2>1. \/ Flag("bc1553a", {0}) \/ Flag("rt1553a", {1})
        \/ \E n \in {0, 1} : Change("mon1553a", Word, Bits(n))
    BY <1>1 DEF Enable_1553A_Support
  <2>2. \A n \in {0, 1} : Change("mon1553a", Word, Bits(n)) => SettingsInv'
    BY WordHolds
  <2>3. Flag("bc1553a", {0}) => SettingsInv'
    <3>1. Flag("bc1553a", {0}) => Flag("bc1553a", Field["bc1553a"][2])
      BY <1>0
    <3>2. Field["bc1553a"][1] # "active5" /\ "bc1553a" \notin {"replaying", "zerocross"}
      BY <1>0
    <3> QED BY <1>0, <3>1, <3>2, FlagHolds
  <2>4. Flag("rt1553a", {1}) => SettingsInv'
    <3>1. Flag("rt1553a", {1}) => Flag("rt1553a", Field["rt1553a"][2])
      BY <1>0
    <3>2. Field["rt1553a"][1] # "active5" /\ "rt1553a" \notin {"replaying", "zerocross"}
      BY <1>0
    <3> QED BY <1>0, <3>1, <3>2, FlagHolds
  <2> QED BY <2>1, <2>2, <2>3, <2>4
<1>2. CASE Set_RT_Active_Bus
  <2>1. PICK bus \in 0..3 : Change("rtbus", 2..3, Bits(4 * bus))
    BY <1>2 DEF Set_RT_Active_Bus
  <2>2. Bits(4 * bus) \subseteq 2..3
    <3> SUFFICES ASSUME NEW b \in Bits(4 * bus) PROVE b \in 2..3
      OBVIOUS
    <3> QED BY <2>1, BitsAre
  <2>3. 1 \notin Bits(4 * bus)
    BY <2>2
  <2> QED BY <1>0, <2>1, <2>2, <2>3, OwnField
<1>3. ASSUME NEW set, set \subseteq 8..11, NEW clear, clear \in {8..15, 12..15},
             Change("buffers", clear, set), reg["rtid"] \cap (8..11) \subseteq clear \cup set
      PROVE  SettingsInv'
  <2>1. \A x \in Settings : x # "buffers" /\ Field[x][1] = "rtid" =>
            Field[x][2] \cap clear = {}
    <3>1. /\ Field["inteom"][2] = {0} /\ Field["interr"][2] = {1} /\ Field["illegal"][2] = {2}
          /\ Field["inactive"][2] = {3} /\ Field["dbuffer"][2] = {4} /\ Field["upper"][2] = {6}
          /\ Field["busy"][2] = {7}
      BY FieldIs
    <3>2. \A x \in Settings : Field[x][1] = "rtid" =>
              x \in {"inteom", "interr", "illegal", "inactive", "dbuffer", "upper", "busy",
                     "buffers"}
      BY Sharing
    <3>3. \A x \in Settings : x # "buffers" /\ Field[x][1] = "rtid" => Field[x][2] \subseteq 0..7
      BY <3>1, <3>2
    <3>4. clear \subseteq 8..15
      BY <1>3
    <3> QED BY <3>3, <3>4
  <2>2. /\ Field["buffers"][1] = "rtid" /\ Field["buffers"][2] = 8..11
        /\ "buffers" # "replaying" /\ "buffers" # "zerocross" /\ "rtid" # "active5"
    BY <1>0
  <2>3. \A x \in Settings : x # "buffers" /\ Field[x][1] = Field["buffers"][1] =>
            Field[x][2] \cap clear = {} \/ asked[x] = <<>>
    BY <2>1, <2>2
  <2>4. /\ set \subseteq Field["buffers"][2]
        /\ reg[Field["buffers"][1]] \cap Field["buffers"][2] \subseteq clear \cup set
    BY <1>3, <2>2
  <2> QED BY <1>0, <1>3, <2>2, <2>3, <2>4, ChangeHolds
<1>4. CASE Set_RTid_Multibuf
  <2>1. PICK n \in {0, 2, 16} :
          Change("buffers", 8..15, IF n > 0 THEN Bits(256 * (n - 1)) ELSE {})
    BY <1>4 DEF Set_RTid_Multibuf
  <2>2. n > 0 => Bits(256 * (n - 1)) \subseteq 8..11
    <3> SUFFICES ASSUME n > 0, NEW b \in Bits(256 * (n - 1)) PROVE b \in 8..11
      OBVIOUS
    <3>1. n = 2 \/ n = 16
      BY <2>1
    <3> QED BY <3>1, BitsAre
  <2>3. PICK set : set = IF n > 0 THEN Bits(256 * (n - 1)) ELSE {}
    OBVIOUS
  <2>4. set \subseteq 8..11
    BY <2>2, <2>3
  <2> QED BY <1>3, <2>1, <2>3, <2>4
<1>5. CASE Reset_RTid_Multibuf
  BY <1>3, <1>5 DEF Reset_RTid_Multibuf
<1> QED BY <1>1, <1>2, <1>4, <1>5

\* A call that writes the registers p and q and changes the settings T.
LEMMA TwoRegisters ==
    ASSUME SettingsInv, NEW p \in Registers, NEW q \in Registers, NEW T \in SUBSET Settings,
           DOMAIN reg' = Registers, \A r \in Registers \ {p, q} : reg'[r] = reg[r],
           DOMAIN asked' = Settings, \A x \in Settings \ T : asked'[x] = asked[x],
           mode' = mode, trig' = [set |-> trig'.set, mode |-> trig'.mode],
           trig'.set \subseteq 0..1, trig'.mode \subseteq {3, 4, 7},
           \A x \in Settings \ T : Field[x][1] \in {p, q} =>
                reg'[Field[x][1]] \cap Field[x][2] = reg[Field[x][1]] \cap Field[x][2],
           \A x \in T : asked'[x] # <<>> =>
                reg'[Field[x][1]] \cap Field[x][2] = asked'[x][1],
           "replaying" \notin T, "zerocross" \notin T,
           "active5" \in {p, q} /\ ~RT => 1 \notin reg'["active5"]
    PROVE  SettingsInv'
<1>1. ASSUME NEW x \in Settings \ T
      PROVE  reg'[Field[x][1]] \cap Field[x][2] = reg[Field[x][1]] \cap Field[x][2]
  <2>1. Field[x][1] \in Registers
    BY DEF Registers
  <2>2. CASE Field[x][1] \in {p, q}
    BY <2>2
  <2>3. CASE Field[x][1] \notin {p, q}
    BY <2>1, <2>3
  <2> QED BY <2>2, <2>3
<1>2. ~RT => 1 \notin reg'["active5"]
  <2>1. "active5" \in Registers
    <3>1. "active" \in Settings /\ Field["active"][1] = "active5"
      BY SettingsAre, FieldIs
    <3> QED BY <3>1 DEF Registers
  <2>2. "active5" \notin {p, q} => reg'["active5"] = reg["active5"]
    BY <2>1
  <2> QED BY <2>2 DEF SettingsInv
<1> QED BY <1>1, <1>2, KeptOthers

\* What the invariant says of the parts a call leaves alone.
LEMMA TrigKept ==
    ASSUME SettingsInv, trig' = trig
    PROVE  /\ trig' = [set |-> trig'.set, mode |-> trig'.mode]
           /\ trig'.set \subseteq 0..1 /\ trig'.mode \subseteq {3, 4, 7}
BY DEF SettingsInv

\* A setting that keeps its bits of a register written under a mask: those of
\* another setting, one that is all of the mask, and those outside it.
LEMMA NeighbourKept ==
    ASSUME NEW x \in Settings, NEW s \in Settings, x # s,
           Field[x][1] = Field[s][1],
           reg'[Field[s][1]] \ Field[s][2] = reg[Field[s][1]] \ Field[s][2]
    PROVE  reg'[Field[x][1]] \cap Field[x][2] = reg[Field[x][1]] \cap Field[x][2]
<1>1. Field[x][2] \cap Field[s][2] = {}
  BY FieldsDisjoint
<1> QED BY <1>1, FieldKept

\* A register of its own, and one written under the mask of a setting.
LEMMA OwnAndShared ==
    ASSUME SettingsInv, NEW a \in Settings, NEW s \in Settings, a # s,
           NEW av, NEW sv,
           \A x \in Settings : Field[x][1] = Field[a][1] => x = a,
           DOMAIN reg' = Registers, DOMAIN asked' = Settings,
           \A r \in Registers \ {Field[a][1], Field[s][1]} : reg'[r] = reg[r],
           reg'[Field[a][1]] = av, av \subseteq Field[a][2],
           reg'[Field[s][1]] = (reg[Field[s][1]] \ Field[s][2]) \cup sv,
           sv \subseteq Field[s][2],
           asked'[a] = <<av>>, asked'[s] = <<sv>>,
           \A x \in Settings \ {a, s} : asked'[x] = asked[x],
           mode' = mode, trig' = trig,
           {a, s} \cap {"replaying", "zerocross"} = {},
           Field[a][1] # "active5", Field[s][1] = "active5" => 1 \notin sv
    PROVE  SettingsInv'
<1>1. Field[a][1] \in Registers /\ Field[s][1] \in Registers
  BY DEF Registers
<1>2. ASSUME NEW x \in Settings \ {a, s}, Field[x][1] \in {Field[a][1], Field[s][1]}
      PROVE  reg'[Field[x][1]] \cap Field[x][2] = reg[Field[x][1]] \cap Field[x][2]
  <2>1. Field[x][1] = Field[s][1]
    BY <1>2
  <2>2. reg'[Field[s][1]] \ Field[s][2] = reg[Field[s][1]] \ Field[s][2]
    OBVIOUS
  <2> QED BY <2>1, <2>2, NeighbourKept
<1>3. reg'[Field[a][1]] \cap Field[a][2] = asked'[a][1]
  OBVIOUS
<1>4. reg'[Field[s][1]] \cap Field[s][2] = asked'[s][1]
  OBVIOUS
<1>5. "active5" \in {Field[a][1], Field[s][1]} /\ ~RT => 1 \notin reg'["active5"]
  <2>1. CASE Field[s][1] = "active5"
    <3>1. ~RT => 1 \notin reg["active5"]
      BY DEF SettingsInv
    <3>2. reg'["active5"] \subseteq reg["active5"] \cup sv
      BY <2>1
    <3> QED BY <2>1, <3>1, <3>2
  <2> QED BY <2>1
<1>6. {a, s} \in SUBSET Settings /\ "replaying" \notin {a, s} /\ "zerocross" \notin {a, s}
  OBVIOUS
<1>7. \A x \in {a, s} : asked'[x] # <<>> =>
          reg'[Field[x][1]] \cap Field[x][2] = asked'[x][1]
  BY <1>3, <1>4
<1>8. /\ trig' = [set |-> trig'.set, mode |-> trig'.mode]
      /\ trig'.set \subseteq 0..1 /\ trig'.mode \subseteq {3, 4, 7}
  BY TrigKept
<1> DEFINE T == {a, s}
           p == Field[a][1]
           q == Field[s][1]
<1>9. \A x \in Settings \ T : Field[x][1] \in {p, q} =>
          reg'[Field[x][1]] \cap Field[x][2] = reg[Field[x][1]] \cap Field[x][2]
  BY <1>2
<1>10. /\ p \in Registers /\ q \in Registers /\ T \in SUBSET Settings
       /\ \A r \in Registers \ {p, q} : reg'[r] = reg[r]
       /\ \A x \in Settings \ T : asked'[x] = asked[x]
       /\ \A x \in T : asked'[x] # <<>> =>
             reg'[Field[x][1]] \cap Field[x][2] = asked'[x][1]
       /\ "replaying" \notin T /\ "zerocross" \notin T
  BY <1>1, <1>6, <1>7
<1>11. "active5" \in {p, q} /\ ~RT => 1 \notin reg'["active5"]
  BY <1>5
<1> HIDE DEF T, p, q
<1> QED BY <1>8, <1>9, <1>10, <1>11, TwoRegisters

\* Calls that write a register of their own and a bit of a shared one.
LEMMA PairsHold ==
    ASSUME SettingsInv,
           Set_Sync_Pattern \/ Set_1553Status \/ Enable_Mon_1553A_Support
    PROVE  SettingsInv'
<1>0. /\ {"syncpat", "syncerr", "status", "immed", "per1553a", "perRT"} \subseteq Settings
      /\ Field["syncpat"] = <<"sync_pattern", Word>> /\ Field["syncerr"] = <<"bcprot", {2}>>
      /\ Field["status"] = <<"status", Word>> /\ Field["immed"] = <<"active5", {4}>>
      /\ Field["per1553a"] = <<"modePerRT", Word>> /\ Field["perRT"] = <<"modfn", {2}>>
  BY SettingsAre, FieldIs
<1>1. \A x \in Settings : /\ Field[x][1] = "sync_pattern" => x = "syncpat"
                          /\ Field[x][1] = "status" => x = "status"
                          /\ Field[x][1] = "modePerRT" => x = "per1553a"
  BY Alone
<1>2. /\ {"sync_pattern", "bcprot", "status", "active5", "modePerRT", "modfn"} \subseteq Registers
      /\ DOMAIN reg = Registers /\ DOMAIN asked = Settings
  <2>1. {"sync_pattern", "bcprot", "status", "active5", "modePerRT", "modfn"} \subseteq Registers
    BY <1>0 DEF Registers
  <2> QED BY <2>1 DEF SettingsInv
<1>3. CASE Set_Sync_Pattern
  <2>1. PICK pattern \in {0, 63} :
         /\ reg' = [reg EXCEPT !.bcprot = @ \cup {2}, !.sync_pattern = Bits(pattern)]
         /\ asked' = [asked EXCEPT !.syncpat = <<Bits(pattern)>>, !.syncerr = <<{2}>>]
    BY <1>3 DEF Set_Sync_Pattern
  <2>2. mode' = mode /\ trig' = trig
    BY <1>3 DEF Set_Sync_Pattern
  <2>3. /\ reg'["sync_pattern"] = Bits(pattern) /\ reg'["bcprot"] = reg["bcprot"] \cup {2}
        /\ DOMAIN reg' = Registers
        /\ \A r \in Registers \ {"sync_pattern", "bcprot"} : reg'[r] = reg[r]
    BY <1>2, <2>1
  <2>4. /\ asked'["syncpat"] = <<Bits(pattern)>> /\ asked'["syncerr"] = <<{2}>>
        /\ DOMAIN asked' = Settings
        /\ \A x \in Settings \ {"syncpat", "syncerr"} : asked'[x] = asked[x]
    BY <1>0, <1>2, <2>1
  <2>5. Bits(pattern) \subseteq Word
    BY BitsWord
  <2>6. reg'["bcprot"] = (reg["bcprot"] \ {2}) \cup {2}
    BY <2>3
  <2>7. SettingsInv'
    <3> DEFINE a == "syncpat"
               s == "syncerr"
               av == Bits(pattern)
               sv == {2}
    <3>1. /\ a \in Settings /\ s \in Settings /\ a # s
          /\ Field[a][1] = "sync_pattern" /\ Field[a][2] = Word
          /\ Field[s][1] = "bcprot" /\ Field[s][2] = sv
          /\ {a, s} \cap {"replaying", "zerocross"} = {}
          /\ Field[a][1] # "active5" /\ Field[s][1] # "active5"
      BY <1>0
    <3>2. \A x \in Settings : Field[x][1] = Field[a][1] => x = a
      BY <1>1, <3>1
    <3>3. /\ \A r \in Registers \ {Field[a][1], Field[s][1]} : reg'[r] = reg[r]
          /\ reg'[Field[a][1]] = av /\ av \subseteq Field[a][2]
          /\ reg'[Field[s][1]] = (reg[Field[s][1]] \ Field[s][2]) \cup sv
      BY <2>3, <2>5, <2>6, <3>1
    <3>4. /\ asked'[a] = <<av>> /\ asked'[s] = <<sv>>
          /\ \A x \in Settings \ {a, s} : asked'[x] = asked[x]
      BY <2>4
    <3>5. sv \subseteq Field[s][2]
      BY <3>1
    <3> HIDE DEF a, s, av, sv
    <3> QED BY <2>2, <2>3, <2>4, <3>1, <3>2, <3>3, <3>4, <3>5, OwnAndShared
  <2> QED BY <2>7
<1>4. CASE Set_1553Status
  <2>1. PICK v \in StatusWords, immed \in {{}, {4}} :
         /\ reg' = [reg EXCEPT !.active5 = (@ \ {4}) \cup immed, !.status = Bits(v)]
         /\ asked' = [asked EXCEPT !.status = <<Bits(v)>>, !.immed = <<immed>>]
    BY <1>4 DEF Set_1553Status
  <2>2. mode' = mode /\ trig' = trig
    BY <1>4 DEF Set_1553Status
  <2>3. /\ reg'["status"] = Bits(v) /\ reg'["active5"] = (reg["active5"] \ {4}) \cup immed
        /\ DOMAIN reg' = Registers
        /\ \A r \in Registers \ {"status", "active5"} : reg'[r] = reg[r]
    BY <1>2, <2>1
  <2>4. /\ asked'["status"] = <<Bits(v)>> /\ asked'["immed"] = <<immed>>
        /\ DOMAIN asked' = Settings
        /\ \A x \in Settings \ {"status", "immed"} : asked'[x] = asked[x]
    BY <1>0, <1>2, <2>1
  <2>5. Bits(v) \subseteq Word
    BY BitsWord
  <2>6. immed \subseteq {4} /\ 1 \notin immed
    BY <2>1
  <2>7. SettingsInv'
    <3> DEFINE a == "status"
               s == "immed"
               av == Bits(v)
               sv == immed
    <3>1. /\ a \in Settings /\ s \in Settings /\ a # s
          /\ Field[a][1] = "status" /\ Field[a][2] = Word
          /\ Field[s][1] = "active5" /\ Field[s][2] = {4}
          /\ {a, s} \cap {"replaying", "zerocross"} = {}
          /\ Field[a][1] # "active5"
      BY <1>0
    <3>2. \A x \in Settings : Field[x][1] = Field[a][1] => x = a
      BY <1>1, <3>1
    <3>3. /\ \A r \in Registers \ {Field[a][1], Field[s][1]} : reg'[r] = reg[r]
          /\ reg'[Field[a][1]] = av /\ av \subseteq Field[a][2]
          /\ reg'[Field[s][1]] = (reg[Field[s][1]] \ Field[s][2]) \cup sv
          /\ sv \subseteq Field[s][2]
      BY <2>3, <2>5, <2>6, <3>1
    <3>4. /\ asked'[a] = <<av>> /\ asked'[s] = <<sv>>
          /\ \A x \in Settings \ {a, s} : asked'[x] = asked[x]
      BY <2>4
    <3>5. Field[s][1] = "active5" => 1 \notin sv
      BY <2>6
    <3>6. DOMAIN reg' = Registers /\ DOMAIN asked' = Settings
      BY <2>3, <2>4
    <3> HIDE DEF a, s, av, sv
    <3> QED BY <2>2, <3>1, <3>2, <3>3, <3>4, <3>5, <3>6, OwnAndShared
  <2> QED BY <2>7
<1>5. CASE Enable_Mon_1553A_Support
  <2>1. PICK v \in {10, 11} :
         /\ reg' = [reg EXCEPT !.modfn = @ \cup {2}, !.modePerRT = Bits(v)]
         /\ asked' = [asked EXCEPT !.perRT = <<{2}>>, !.per1553a = <<Bits(v)>>]
    BY <1>5 DEF Enable_Mon_1553A_Support
  <2>2. mode' = mode /\ trig' = trig
    BY <1>5 DEF Enable_Mon_1553A_Support
  <2>3. /\ reg'["modePerRT"] = Bits(v) /\ reg'["modfn"] = reg["modfn"] \cup {2}
        /\ DOMAIN reg' = Registers
        /\ \A r \in Registers \ {"modePerRT", "modfn"} : reg'[r] = reg[r]
    BY <1>2, <2>1
  <2>4. /\ asked'["per1553a"] = <<Bits(v)>> /\ asked'["perRT"] = <<{2}>>
        /\ DOMAIN asked' = Settings
        /\ \A x \in Settings \ {"per1553a", "perRT"} : asked'[x] = asked[x]
    BY <1>0, <1>2, <2>1
  <2>5. Bits(v) \subseteq Word
    BY BitsWord
  <2>6. reg'["modfn"] = (reg["modfn"] \ {2}) \cup {2}
    BY <2>3
  <2>7. SettingsInv'
    <3> DEFINE a == "per1553a"
               s == "perRT"
               av == Bits(v)
               sv == {2}
    <3>1. /\ a \in Settings /\ s \in Settings /\ a # s
          /\ Field[a][1] = "modePerRT" /\ Field[a][2] = Word
          /\ Field[s][1] = "modfn" /\ Field[s][2] = sv
          /\ {a, s} \cap {"replaying", "zerocross"} = {}
          /\ Field[a][1] # "active5" /\ Field[s][1] # "active5"
      BY <1>0
    <3>2. \A x \in Settings : Field[x][1] = Field[a][1] => x = a
      BY <1>1, <3>1
    <3>3. /\ \A r \in Registers \ {Field[a][1], Field[s][1]} : reg'[r] = reg[r]
          /\ reg'[Field[a][1]] = av /\ av \subseteq Field[a][2]
          /\ reg'[Field[s][1]] = (reg[Field[s][1]] \ Field[s][2]) \cup sv
      BY <2>3, <2>5, <2>6, <3>1
    <3>4. /\ asked'[a] = <<av>> /\ asked'[s] = <<sv>>
          /\ \A x \in Settings \ {a, s} : asked'[x] = asked[x]
      BY <2>4
    <3>5. sv \subseteq Field[s][2]
      BY <3>1
    <3> HIDE DEF a, s, av, sv
    <3> QED BY <2>2, <2>3, <2>4, <3>1, <3>2, <3>3, <3>4, <3>5, OwnAndShared
  <2> QED BY <2>7
<1> QED BY <1>3, <1>4, <1>5

\* Set_Error_Location_Px: two registers of one setting each.
LEMMA ErrorLocationHolds ==
    ASSUME SettingsInv, Set_Error_Location
    PROVE  SettingsInv'
<1>0. /\ "errword" \in Settings /\ Field["errword"] = <<"err_word_index", Word>>
      /\ "errbit" \in Settings /\ Field["errbit"] = <<"err_bit_index", Word>>
  BY SettingsAre, FieldIs
<1>1. \A x \in Settings : /\ Field[x][1] = "err_word_index" => x = "errword"
                          /\ Field[x][1] = "err_bit_index" => x = "errbit"
  BY Alone
<1>2. /\ {"err_word_index", "err_bit_index"} \subseteq Registers
      /\ DOMAIN reg = Registers /\ DOMAIN asked = Settings
  <2>1. {"err_word_index", "err_bit_index"} \subseteq Registers
    BY <1>0 DEF Registers
  <2> QED BY <2>1 DEF SettingsInv
<1>3. PICK w \in {0, 31}, b \in {0, 16} :
         /\ reg' = [reg EXCEPT !.err_word_index = Bits(w), !.err_bit_index = Bits(b)]
         /\ asked' = [asked EXCEPT !.errword = <<Bits(w)>>, !.errbit = <<Bits(b)>>]
  BY DEF Set_Error_Location
<1>4. mode' = mode /\ trig' = trig
  BY DEF Set_Error_Location
<1>5. /\ reg'["err_word_index"] = Bits(w) /\ reg'["err_bit_index"] = Bits(b)
      /\ DOMAIN reg' = Registers
      /\ \A r \in Registers \ {"err_word_index", "err_bit_index"} : reg'[r] = reg[r]
  BY <1>2, <1>3
<1>6. /\ asked'["errword"] = <<Bits(w)>> /\ asked'["errbit"] = <<Bits(b)>>
      /\ DOMAIN asked' = Settings
      /\ \A x \in Settings \ {"errword", "errbit"} : asked'[x] = asked[x]
  BY <1>0, <1>2, <1>3
<1>7. Bits(w) \subseteq Word /\ Bits(b) \subseteq Word
  BY BitsWord
<1>8. /\ trig' = [set |-> trig'.set, mode |-> trig'.mode]
      /\ trig'.set \subseteq 0..1 /\ trig'.mode \subseteq {3, 4, 7}
  BY <1>4, TrigKept
<1> DEFINE T == {"errword", "errbit"}
           p == "err_word_index"
           q == "err_bit_index"
<1>9. \A x \in Settings \ T : Field[x][1] \notin {p, q}
  BY <1>1
<1>10. \A x \in T : reg'[Field[x][1]] \cap Field[x][2] = asked'[x][1]
  <2>1. reg'[Field["errword"][1]] \cap Field["errword"][2] = asked'["errword"][1]
    BY <1>0, <1>5, <1>6, <1>7
  <2>2. reg'[Field["errbit"][1]] \cap Field["errbit"][2] = asked'["errbit"][1]
    BY <1>0, <1>5, <1>6, <1>7
  <2> QED BY <2>1, <2>2
<1>11. /\ p \in Registers /\ q \in Registers /\ T \in SUBSET Settings
       /\ \A r \in Registers \ {p, q} : reg'[r] = reg[r]
       /\ \A x \in Settings \ T : asked'[x] = asked[x]
       /\ "replaying" \notin T /\ "zerocross" \notin T /\ "active5" \notin {p, q}
  BY <1>0, <1>2, <1>5, <1>6
<1>12. DOMAIN reg' = Registers /\ DOMAIN asked' = Settings
  BY <1>5, <1>6
<1> HIDE DEF T, p, q
<1> QED BY <1>4, <1>8, <1>9, <1>10, <1>11, <1>12, TwoRegisters

\* A call that writes one register p and changes the settings T.
LEMMA OneRegister ==
    ASSUME SettingsInv, NEW p \in Registers, NEW T \in SUBSET Settings,
           DOMAIN reg' = Registers, \A r \in Registers \ {p} : reg'[r] = reg[r],
           DOMAIN asked' = Settings, \A x \in Settings \ T : asked'[x] = asked[x],
           mode' = mode, trig' = [set |-> trig'.set, mode |-> trig'.mode],
           trig'.set \subseteq 0..1, trig'.mode \subseteq {3, 4, 7},
           \A x \in Settings \ T : Field[x][1] = p =>
                reg'[Field[x][1]] \cap Field[x][2] = reg[Field[x][1]] \cap Field[x][2],
           \A x \in T : asked'[x] # <<>> =>
                reg'[Field[x][1]] \cap Field[x][2] = asked'[x][1],
           "replaying" \notin T, "zerocross" \notin T, p # "active5"
    PROVE  SettingsInv'
<1>1. /\ \A r \in Registers \ {p, p} : reg'[r] = reg[r]
      /\ \A x \in Settings \ T : Field[x][1] \in {p, p} =>
            reg'[Field[x][1]] \cap Field[x][2] = reg[Field[x][1]] \cap Field[x][2]
      /\ "active5" \notin {p, p}
  OBVIOUS
<1> QED BY <1>1, TwoRegisters

\* The byte of RT 31, whose interrupt bit is that of the broadcasts.
LEMMA RT31Holds ==
    ASSUME SettingsInv, NEW set \in SUBSET (0..1), RT31Byte(set)
    PROVE  SettingsInv'
<1>0. /\ "broadint" \in Settings /\ Field["broadint"] = <<"active31", {1}>>
      /\ \A x \in Settings : Field[x][1] = "active31" => x = "broadint"
  <2>1. \A x \in Settings : Field[x][1] = "active31" => x = "broadint"
    BY Alone
  <2> QED BY <2>1, SettingsAre, FieldIs
<1>2. "active31" \in Registers /\ DOMAIN reg = Registers /\ DOMAIN asked = Settings
  <2>1. "active31" \in Registers
    BY <1>0 DEF Registers
  <2> QED BY <2>1 DEF SettingsInv
<1>3. /\ reg' = [reg EXCEPT !.active31 = (@ \ (0..1)) \cup set]
      /\ asked' = [asked EXCEPT !.broadint = <<set \cap {1}>>]
      /\ mode' = mode /\ trig' = trig
  BY DEF RT31Byte
<1>4. /\ reg'["active31"] = (reg["active31"] \ (0..1)) \cup set
      /\ DOMAIN reg' = Registers
      /\ \A r \in Registers \ {"active31"} : reg'[r] = reg[r]
  BY <1>2, <1>3
<1>5. /\ asked'["broadint"] = <<set \cap {1}>>
      /\ DOMAIN asked' = Settings
      /\ \A x \in Settings \ {"broadint"} : asked'[x] = asked[x]
  BY <1>0, <1>2, <1>3
<1>6. ((reg["active31"] \ (0..1)) \cup set) \cap {1} = set \cap {1}
  OBVIOUS
<1>7. reg'[Field["broadint"][1]] \cap Field["broadint"][2] = asked'["broadint"][1]
  BY <1>0, <1>4, <1>5, <1>6
<1>8. /\ trig' = [set |-> trig'.set, mode |-> trig'.mode]
      /\ trig'.set \subseteq 0..1 /\ trig'.mode \subseteq {3, 4, 7}
  BY <1>3, TrigKept
<1> DEFINE T == {"broadint"}
           p == "active31"
<1>9. /\ p \in Registers /\ T \in SUBSET Settings /\ p # "active5"
      /\ \A r \in Registers \ {p} : reg'[r] = reg[r]
      /\ \A x \in Settings \ T : asked'[x] = asked[x] /\ Field[x][1] # p
      /\ \A x \in T : reg'[Field[x][1]] \cap Field[x][2] = asked'[x][1]
      /\ "replaying" \notin T /\ "zerocross" \notin T
  BY <1>0, <1>2, <1>4, <1>5, <1>7
<1> HIDE DEF T, p
<1> QED BY <1>3, <1>4, <1>5, <1>8, <1>9, OneRegister

\* Set_RT_Active_Px and Set_RT_Nonactive_Px: in BC/RT mode only the active bit
\* is written, and there is no RT interrupt beside it.
LEMMA ActiveHolds ==
    ASSUME SettingsInv, Set_RT_Active \/ Set_RT_Nonactive
    PROVE  SettingsInv'
<1>0. /\ "active" \in Settings /\ Field["active"][1] = "active5"
      /\ Field["active"][2] = 0..1 /\ "active" \notin {"replaying", "zerocross"}
  BY SettingsAre, FieldIs
<1>1. ASSUME RT, NEW set \in {{}, {0}, 0..1}, Change("active", 0..1, set)
      PROVE  SettingsInv'
  <2>1. set \subseteq 0..1
    BY <1>1
  <2> QED BY <1>0, <1>1, <2>1, OwnField
<1>2. ASSUME ~RT, NEW clear \in {{}, {0}}, NEW set \in {{}, {0}},
             clear \cup set = {0}, Change("active", clear, set)
      PROVE  SettingsInv'
  <2>1. reg["active5"] \cap (0..1) \subseteq {0}
    BY <1>2 DEF SettingsInv
  <2>2. /\ set \subseteq Field["active"][2] /\ 1 \notin set
        /\ reg[Field["active"][1]] \cap Field["active"][2] \subseteq clear \cup set
    BY <1>0, <1>2, <2>1
  <2>3. clear \subseteq Field["active"][2]
    BY <1>0, <1>2
  <2>4. \A x \in Settings : x # "active" /\ Field[x][1] = Field["active"][1] =>
            Field[x][2] \cap clear = {} \/ asked[x] = <<>>
    <3>1. \A x \in Settings : x # "active" /\ Field[x][1] = Field["active"][1] =>
              Field[x][2] \cap Field["active"][2] = {}
      BY <1>0, FieldsDisjoint
    <3> QED BY <2>3, <3>1
  <2> QED BY <1>0, <1>2, <2>2, <2>4, ChangeHolds
<1>3. CASE RT
  <2>1. \/ \E set \in {{}, {0}, 0..1} : Change("active", 0..1, set)
        \/ \E set \in {{}, {0}, 0..1} : RT31Byte(set)
    <3>1. ~BC
      BY <1>3 DEF BC, RT
    <3> QED BY <3>1 DEF Set_RT_Active, Set_RT_Nonactive
  <2>2. ASSUME NEW set \in {{}, {0}, 0..1}, RT31Byte(set) PROVE SettingsInv'
    <3>1. set \in SUBSET (0..1)
      OBVIOUS
    <3> QED BY <2>2, <3>1, RT31Holds
  <2> QED BY <1>1, <1>3, <2>1, <2>2
<1>4. CASE ~RT
  <2>1. Change("active", {}, {0}) \/ Change("active", {0}, {})
    BY <1>4 DEF Set_RT_Active, Set_RT_Nonactive
  <2> QED BY <1>2, <1>4, <2>1
<1> QED BY <1>3, <1>4

\* Set_Invalid_Data_Res_Px: on holds; off has no effect, and is excepted.
LEMMA InvalidHolds ==
    ASSUME SettingsInv, Set_Invalid_Data_Res
    PROVE  SettingsInv'
<1>0. /\ "invalid" \in Settings /\ Field["invalid"] = <<"rtprot", {0}>>
      /\ "rtprot" \in Registers /\ "replaying" \in Settings /\ "zerocross" \in Settings
  <2>1. /\ "invalid" \in Settings /\ Field["invalid"] = <<"rtprot", {0}>>
        /\ "replaying" \in Settings /\ "zerocross" \in Settings
    BY SettingsAre, FieldIs
  <2> QED BY <2>1 DEF Registers
<1>1. CASE Change("invalid", {}, {0})
  <2>1. /\ Field["invalid"][1] # "active5" /\ Field["invalid"][2] = {0}
        /\ "invalid" # "replaying" /\ "invalid" # "zerocross"
    BY <1>0
  <2> QED BY <1>0, <1>1, <2>1, OwnField
<1>2. CASE Change("invalid", {}, {})
  <2>1. DOMAIN reg = Registers /\ DOMAIN asked = Settings
    BY DEF SettingsInv
  <2>2. /\ reg' = [reg EXCEPT ![Field["invalid"][1]] = (@ \ {}) \cup {}]
        /\ asked' = [asked EXCEPT !["invalid"] = <<{}>>]
        /\ mode' = mode /\ trig' = trig
    BY <1>2 DEF Change
  <2>3. DOMAIN reg' = Registers /\ \A r \in Registers : reg'[r] = reg[r]
    <3>1. (reg["rtprot"] \ {}) \cup {} = reg["rtprot"]
      OBVIOUS
    <3> QED BY <1>0, <2>1, <2>2, <3>1
  <2>4. /\ DOMAIN asked' = Settings /\ asked'["invalid"] = <<{}>>
        /\ \A x \in Settings \ {"invalid"} : asked'[x] = asked[x]
    BY <1>0, <2>1, <2>2
  <2>5. ASSUME NEW x \in Settings, asked'[x] # <<>>, ~Unanswered(x)'
        PROVE  reg'[Field[x][1]] \cap Field[x][2] = asked'[x][1]
    <3>1. x # "invalid" /\ asked'[x] = asked[x]
      BY <2>4, <2>5 DEF Unanswered
    <3>2. reg[Field[x][1]] \cap Field[x][2] = asked[x][1]
      BY <2>5, <3>1 DEF SettingsInv, BitsHold, Unanswered
    <3>3. Field[x][1] \in Registers
      BY DEF Registers
    <3> QED BY <2>3, <3>1, <3>2, <3>3
  <2>6. BitsHold'
    BY <2>5 DEF BitsHold, Unanswered
  <2>7. "active5" \in Registers
    <3>1. "active" \in Settings /\ Field["active"][1] = "active5"
      BY SettingsAre, FieldIs
    <3> QED BY <3>1 DEF Registers
  <2>8. /\ asked'["replaying"] = <<>>
        /\ mode' = "RT" => asked'["zerocross"] = <<>>
        /\ mode' # "RT" => 1 \notin reg'["active5"]
    BY <1>0, <2>2, <2>3, <2>4, <2>7 DEF SettingsInv, RT
  <2> QED BY <2>2, <2>3, <2>4, <2>6, <2>8 DEF SettingsInv, RT
<1> QED BY <1>1, <1>2 DEF Set_Invalid_Data_Res

\* Assign_RT_Data_Px and Assign_DB_Datablk_Px: the block's number goes to one
\* register and its top bit to the sub-address's word.
LEMMA AssignHolds ==
    ASSUME SettingsInv, NEW n \in Nat, NEW more \in {{}, {4}}, AssignBlock(n, more)
    PROVE  SettingsInv'
<1>0. /\ "block" \in Settings /\ Field["block"] = <<"blk_lookup", Byte>>
      /\ "upper" \in Settings /\ Field["upper"] = <<"rtid", {6}>>
      /\ "dbuffer" \in Settings /\ Field["dbuffer"] = <<"rtid", {4}>>
  BY SettingsAre, FieldIs
<1>1. \A x \in Settings : Field[x][1] = "blk_lookup" => x = "block"
  BY Alone
<1>2. {"blk_lookup", "rtid"} \subseteq Registers /\ DOMAIN reg = Registers /\ DOMAIN asked = Settings
  <2>1. {"blk_lookup", "rtid"} \subseteq Registers
    BY <1>0 DEF Registers
  <2> QED BY <2>1 DEF SettingsInv
<1> DEFINE low == LowByte(n)
           top == UpperHalf(n)
<1>3. /\ reg' = [reg EXCEPT !.rtid = (@ \ {6}) \cup more \cup top, !.blk_lookup = low]
      /\ asked' = [asked EXCEPT !.dbuffer = IF more = {} THEN @ ELSE <<more>>,
                     !.block = <<low>>, !.upper = <<top>>]
      /\ mode' = mode /\ trig' = trig
  BY DEF AssignBlock
<1>4. low \subseteq Byte /\ top \subseteq {6}
  <2>1. n % 256 \in Nat /\ n % 256 < 256
    OBVIOUS
  <2>2. low \subseteq Byte
    BY <2>1, BitsByte DEF LowByte
  <2>3. top \subseteq {6}
    BY DEF UpperHalf
  <2> QED BY <2>2, <2>3
<1> HIDE DEF low, top
<1>5. /\ reg'["blk_lookup"] = low /\ reg'["rtid"] = (reg["rtid"] \ {6}) \cup more \cup top
      /\ DOMAIN reg' = Registers
      /\ \A r \in Registers \ {"blk_lookup", "rtid"} : reg'[r] = reg[r]
  BY <1>2, <1>3
<1>6. /\ asked'["block"] = <<low>> /\ asked'["upper"] = <<top>>
      /\ asked'["dbuffer"] = IF more = {} THEN asked["dbuffer"] ELSE <<more>>
      /\ DOMAIN asked' = Settings
      /\ \A x \in Settings \ {"block", "upper", "dbuffer"} : asked'[x] = asked[x]
  BY <1>0, <1>2, <1>3
<1>7. reg'[Field["block"][1]] \cap Field["block"][2] = asked'["block"][1]
  BY <1>0, <1>4, <1>5, <1>6
<1>8. reg'[Field["upper"][1]] \cap Field["upper"][2] = asked'["upper"][1]
  <2>1. 6 \notin more
    OBVIOUS
  <2>2. ((reg["rtid"] \ {6}) \cup more \cup top) \cap {6} = top
    BY <1>4, <2>1
  <2> QED BY <1>0, <1>5, <1>6, <2>2
<1>9. ASSUME asked'["dbuffer"] # <<>>
      PROVE  reg'[Field["dbuffer"][1]] \cap Field["dbuffer"][2] = asked'["dbuffer"][1]
  <2>1. CASE more = {}
    <3>1. asked'["dbuffer"] = asked["dbuffer"]
      BY <1>6, <2>1
    <3>2. reg["rtid"] \cap {4} = asked["dbuffer"][1]
      BY <1>0, <1>9, <3>1 DEF SettingsInv, BitsHold, Unanswered
    <3>3. ((reg["rtid"] \ {6}) \cup top) \cap {4} = reg["rtid"] \cap {4}
      BY <1>4
    <3>4. reg'["rtid"] \cap {4} = asked'["dbuffer"][1]
      BY <1>5, <2>1, <3>1, <3>2, <3>3
    <3> QED BY <1>0, <3>4
  <2>2. CASE more = {4}
    <3>1. asked'["dbuffer"] = <<{4}>>
      BY <1>6, <2>2
    <3>2. reg'["rtid"] \cap {4} = {4}
      BY <1>5, <2>2
    <3> QED BY <1>0, <3>1, <3>2
  <2> QED BY <2>1, <2>2
<1> DEFINE T == {"block", "upper", "dbuffer"}
           p == "blk_lookup"
           q == "rtid"
<1>10. ASSUME NEW x \in Settings \ T, Field[x][1] \in {p, q}
       PROVE  reg'[Field[x][1]] \cap Field[x][2] = reg[Field[x][1]] \cap Field[x][2]
  <2>1. Field[x][1] = "rtid" /\ x # "upper" /\ x # "dbuffer"
    BY <1>1, <1>10
  <2>2. Field[x][2] \cap {4} = {} /\ Field[x][2] \cap {6} = {}
    BY <1>0, <2>1, FieldsDisjoint
  <2>3. \A b \in Field[x][2] : b \in reg'["rtid"] <=> b \in reg["rtid"]
    BY <1>4, <1>5, <2>2
  <2> QED BY <2>1, <2>3
<1>11. /\ trig' = [set |-> trig'.set, mode |-> trig'.mode]
       /\ trig'.set \subseteq 0..1 /\ trig'.mode \subseteq {3, 4, 7}
  BY <1>3, TrigKept
<1>12. \A x \in T : asked'[x] # <<>> =>
          reg'[Field[x][1]] \cap Field[x][2] = asked'[x][1]
  BY <1>7, <1>8, <1>9
<1>13. /\ p \in Registers /\ q \in Registers /\ T \in SUBSET Settings
       /\ \A r \in Registers \ {p, q} : reg'[r] = reg[r]
       /\ \A x \in Settings \ T : asked'[x] = asked[x]
       /\ "replaying" \notin T /\ "zerocross" \notin T /\ "active5" \notin {p, q}
  BY <1>0, <1>2, <1>5, <1>6
<1>14. DOMAIN reg' = Registers /\ DOMAIN asked' = Settings /\ mode' = mode
  BY <1>3, <1>5, <1>6
<1> HIDE DEF T, p, q
<1> QED BY <1>10, <1>11, <1>12, <1>13, <1>14, TwoRegisters

LEMMA BlocksHold ==
    ASSUME SettingsInv, Assign_RT_Data \/ Assign_DB_Datablk
    PROVE  SettingsInv'
<1>1. CASE Assign_RT_Data
  <2>1. PICK n \in {3, 300} : AssignBlock(n, {})
    BY <1>1 DEF Assign_RT_Data
  <2>2. n \in Nat /\ {} \in {{}, {4}}
    BY <2>1
  <2> QED BY <2>1, <2>2, AssignHolds
<1>2. CASE Assign_DB_Datablk
  <2>1. (\E n \in {4, 300} : AssignBlock(n, {4})) \/ Change("dbuffer", 4..5, {})
    BY <1>2 DEF Assign_DB_Datablk
  <2>2. ASSUME NEW n \in {4, 300}, AssignBlock(n, {4}) PROVE SettingsInv'
    <3>1. n \in Nat /\ {4} \in {{}, {4}}
      BY <2>2
    <3> QED BY <2>2, <3>1, AssignHolds
  <2>3. ASSUME Change("dbuffer", 4..5, {}) PROVE SettingsInv'
    <3>1. /\ "dbuffer" \in Settings /\ Field["dbuffer"] = <<"rtid", {4}>>
          /\ Field["inteom"][2] = {0} /\ Field["interr"][2] = {1} /\ Field["illegal"][2] = {2}
          /\ Field["inactive"][2] = {3} /\ Field["buffers"][2] = 8..11
          /\ Field["upper"][2] = {6} /\ Field["busy"][2] = {7}
      BY SettingsAre, FieldIs
    <3>2. \A x \in Settings : Field[x][1] = "rtid" =>
              x \in {"inteom", "interr", "illegal", "inactive", "dbuffer", "upper", "busy",
                     "buffers"}
      BY Sharing
    <3> DEFINE clear == 4..5
    <3>3. \A x \in Settings : x # "dbuffer" /\ Field[x][1] = Field["dbuffer"][1] =>
              Field[x][2] \cap clear = {}
      BY <3>1, <3>2
    <3>4. Field["dbuffer"][1] # "active5" /\ Field["dbuffer"][2] = {4} /\ {4} \subseteq clear
      BY <3>1
    <3>5. /\ reg[Field["dbuffer"][1]] \cap Field["dbuffer"][2] \subseteq clear \cup {}
          /\ "dbuffer" # "replaying" /\ "dbuffer" # "zerocross"
      BY <3>4
    <3>6. Change("dbuffer", clear, {})
      BY <2>3
    <3> HIDE DEF clear
    <3> QED BY <3>1, <3>3, <3>4, <3>5, <3>6, ChangeHolds
  <2> QED BY <2>1, <2>2, <2>3
<1> QED BY <1>1, <1>2

\* Set_Trigger1_Px and Set_Trigger2_Px: the register is written from the
\* triggers and the mode the host keeps.
LEMMA TriggerHolds ==
    ASSUME SettingsInv, NEW t \in 0..1, SetTrigger(t)
    PROVE  SettingsInv'
<1>0. /\ "triggers" \in Settings /\ Field["triggers"] = <<"trig_ctl", 0..1>>
      /\ "trigmode" \in Settings /\ Field["trigmode"] = <<"trig_ctl", {3, 4, 7}>>
  BY SettingsAre, FieldIs
<1>1. \A x \in Settings : Field[x][1] = "trig_ctl" => x \in {"trigmode", "triggers"}
  BY Sharing
<1>2. "trig_ctl" \in Registers /\ DOMAIN reg = Registers /\ DOMAIN asked = Settings
  <2>1. "trig_ctl" \in Registers
    BY <1>0 DEF Registers
  <2> QED BY <2>1 DEF SettingsInv
<1>3. /\ trig = [set |-> trig.set, mode |-> trig.mode]
      /\ trig.set \subseteq 0..1 /\ trig.mode \subseteq {3, 4, 7}
  BY DEF SettingsInv
<1>4. PICK now \in {trig.set \cup {t}, trig.set \ {t}} :
         /\ trig' = [trig EXCEPT !.set = now]
         /\ reg' = [reg EXCEPT !.trig_ctl = IF now = {} THEN {2} ELSE now \cup trig.mode]
         /\ asked' = [asked EXCEPT
                        !.trigmode = IF now = {} \/ @ = <<>> THEN <<>> ELSE <<trig.mode>>,
                        !.triggers = <<now>>]
  BY DEF SetTrigger
<1>5. mode' = mode
  BY DEF SetTrigger
<1>6. now \subseteq 0..1
  BY <1>3, <1>4
<1>7. /\ reg'["trig_ctl"] = IF now = {} THEN {2} ELSE now \cup trig.mode
      /\ DOMAIN reg' = Registers
      /\ \A r \in Registers \ {"trig_ctl"} : reg'[r] = reg[r]
  BY <1>2, <1>4
<1>8. /\ asked'["triggers"] = <<now>>
      /\ asked'["trigmode"] = IF now = {} \/ asked["trigmode"] = <<>> THEN <<>> ELSE <<trig.mode>>
      /\ DOMAIN asked' = Settings
      /\ \A x \in Settings \ {"triggers", "trigmode"} : asked'[x] = asked[x]
  BY <1>0, <1>2, <1>4
<1>9. reg'["trig_ctl"] \cap (0..1) = now
  <2>1. CASE now = {}
    <3>1. reg'["trig_ctl"] = {2}
      BY <1>7, <2>1
    <3> QED BY <2>1, <3>1
  <2>2. CASE now # {}
    <3>1. reg'["trig_ctl"] = now \cup trig.mode
      BY <1>7, <2>2
    <3> QED BY <1>3, <1>6, <3>1
  <2> QED BY <2>1, <2>2
<1>10. ASSUME asked'["trigmode"] # <<>>
       PROVE  reg'["trig_ctl"] \cap {3, 4, 7} = asked'["trigmode"][1]
  <2>1. now # {} /\ asked'["trigmode"] = <<trig.mode>>
    BY <1>8, <1>10
  <2>2. reg'["trig_ctl"] = now \cup trig.mode
    BY <1>7, <2>1
  <2>3. reg'["trig_ctl"] \cap {3, 4, 7} = trig.mode
    BY <1>3, <1>6, <2>2
  <2> QED BY <2>1, <2>3
<1>11. trig' = [set |-> now, mode |-> trig.mode]
  BY <1>3, <1>4
<1>12. /\ trig' = [set |-> trig'.set, mode |-> trig'.mode]
       /\ trig'.set \subseteq 0..1 /\ trig'.mode \subseteq {3, 4, 7}
  BY <1>3, <1>6, <1>11
<1> DEFINE T == {"triggers", "trigmode"}
           p == "trig_ctl"
<1>13. \A x \in T : asked'[x] # <<>> => reg'[Field[x][1]] \cap Field[x][2] = asked'[x][1]
  <2>1. reg'[Field["triggers"][1]] \cap Field["triggers"][2] = asked'["triggers"][1]
    BY <1>0, <1>8, <1>9
  <2>2. asked'["trigmode"] # <<>> =>
            reg'[Field["trigmode"][1]] \cap Field["trigmode"][2] = asked'["trigmode"][1]
    BY <1>0, <1>10
  <2> QED BY <2>1, <2>2
<1>14. /\ p \in Registers /\ T \in SUBSET Settings /\ p # "active5"
       /\ \A r \in Registers \ {p} : reg'[r] = reg[r]
       /\ \A x \in Settings \ T : asked'[x] = asked[x] /\ Field[x][1] # p
       /\ "replaying" \notin T /\ "zerocross" \notin T
  BY <1>0, <1>1, <1>2, <1>7, <1>8
<1>15. DOMAIN reg' = Registers /\ DOMAIN asked' = Settings
  BY <1>7, <1>8
<1> HIDE DEF T, p
<1> QED BY <1>5, <1>12, <1>13, <1>14, <1>15, OneRegister

LEMMA TriggerModeHolds ==
    ASSUME SettingsInv, Set_Trigger_Mode
    PROVE  SettingsInv'
<1>0. /\ "triggers" \in Settings /\ Field["triggers"] = <<"trig_ctl", 0..1>>
      /\ "trigmode" \in Settings /\ Field["trigmode"] = <<"trig_ctl", {3, 4, 7}>>
  BY SettingsAre, FieldIs
<1>1. \A x \in Settings : Field[x][1] = "trig_ctl" => x \in {"trigmode", "triggers"}
  BY Sharing
<1>2. "trig_ctl" \in Registers /\ DOMAIN reg = Registers /\ DOMAIN asked = Settings
  <2>1. "trig_ctl" \in Registers
    BY <1>0 DEF Registers
  <2> QED BY <2>1 DEF SettingsInv
<1>3. /\ trig = [set |-> trig.set, mode |-> trig.mode]
      /\ trig.set \subseteq 0..1 /\ trig.mode \subseteq {3, 4, 7}
  BY DEF SettingsInv
<1>4. PICK m \in {Bits(8), Bits(16), Bits(136)} :
         /\ reg' = [reg EXCEPT !.trig_ctl = (@ \cap (0..1)) \cup m]
         /\ trig' = [trig EXCEPT !.mode = m]
         /\ asked' = [asked EXCEPT !.trigmode = <<m>>]
  BY DEF Set_Trigger_Mode
<1>5. mode' = mode
  BY DEF Set_Trigger_Mode
<1>6. m \subseteq {3, 4, 7}
  <2>1. Bits(8) \subseteq {3, 4, 7}
    <3> SUFFICES ASSUME NEW b \in Bits(8) PROVE b = 3
      OBVIOUS
    <3> QED BY BitsAre
  <2>2. Bits(16) \subseteq {3, 4, 7}
    <3> SUFFICES ASSUME NEW b \in Bits(16) PROVE b = 4
      OBVIOUS
    <3> QED BY BitsAre
  <2>3. Bits(136) \subseteq {3, 4, 7}
    <3> SUFFICES ASSUME NEW b \in Bits(136) PROVE b = 3 \/ b = 7
      OBVIOUS
    <3> QED BY BitsAre
  <2> QED BY <1>4, <2>1, <2>2, <2>3
<1>7. /\ reg'["trig_ctl"] = (reg["trig_ctl"] \cap (0..1)) \cup m
      /\ DOMAIN reg' = Registers
      /\ \A r \in Registers \ {"trig_ctl"} : reg'[r] = reg[r]
  BY <1>2, <1>4
<1>8. /\ asked'["trigmode"] = <<m>> /\ DOMAIN asked' = Settings
      /\ \A x \in Settings \ {"trigmode"} : asked'[x] = asked[x]
  BY <1>0, <1>2, <1>4
<1>9. /\ reg'["trig_ctl"] \cap (0..1) = reg["trig_ctl"] \cap (0..1)
      /\ reg'["trig_ctl"] \cap {3, 4, 7} = m
  <2>1. m \cap (0..1) = {}
    BY <1>6
  <2>2. ((reg["trig_ctl"] \cap (0..1)) \cup m) \cap (0..1) = reg["trig_ctl"] \cap (0..1)
    BY <2>1
  <2>3. (reg["trig_ctl"] \cap (0..1)) \cap {3, 4, 7} = {}
    OBVIOUS
  <2>4. ((reg["trig_ctl"] \cap (0..1)) \cup m) \cap {3, 4, 7} = m
    BY <1>6, <2>3
  <2> QED BY <1>7, <2>2, <2>4
<1>11. trig' = [set |-> trig.set, mode |-> m]
  BY <1>3, <1>4
<1>12. /\ trig' = [set |-> trig'.set, mode |-> trig'.mode]
       /\ trig'.set \subseteq 0..1 /\ trig'.mode \subseteq {3, 4, 7}
  BY <1>3, <1>6, <1>11
<1> DEFINE T == {"trigmode"}
           p == "trig_ctl"
<1>13. reg'[Field["trigmode"][1]] \cap Field["trigmode"][2] = asked'["trigmode"][1]
  BY <1>0, <1>8, <1>9
<1>14. \A x \in Settings \ T : Field[x][1] = p =>
          reg'[Field[x][1]] \cap Field[x][2] = reg[Field[x][1]] \cap Field[x][2]
  <2>1. \A x \in Settings \ T : Field[x][1] = p => x = "triggers"
    BY <1>1
  <2> QED BY <1>0, <1>9, <2>1
<1>15. /\ p \in Registers /\ T \in SUBSET Settings /\ p # "active5"
       /\ \A r \in Registers \ {p} : reg'[r] = reg[r]
       /\ \A x \in Settings \ T : asked'[x] = asked[x]
       /\ \A x \in T : reg'[Field[x][1]] \cap Field[x][2] = asked'[x][1]
       /\ "replaying" \notin T /\ "zerocross" \notin T
  BY <1>0, <1>2, <1>7, <1>8, <1>13
<1>16. DOMAIN reg' = Registers /\ DOMAIN asked' = Settings
  BY <1>7, <1>8
<1> HIDE DEF T, p
<1> QED BY <1>5, <1>12, <1>14, <1>15, <1>16, OneRegister

\* Assign_Blk_Px writes the whole byte of the lookup table.
LEMMA LookupHolds ==
    ASSUME SettingsInv, Assign_Blk
    PROVE  SettingsInv'
<1>0. /\ "lkupblk" \in Settings /\ Field["lkupblk"] = <<"lookup", 0..6>>
      /\ "lkupint" \in Settings /\ Field["lkupint"] = <<"lookup", {7}>>
  BY SettingsAre, FieldIs
<1>1. \A x \in Settings : Field[x][1] = "lookup" => x \in {"lkupblk", "lkupint"}
  BY Sharing
<1>2. "lookup" \in Registers /\ DOMAIN reg = Registers
  <2>1. "lookup" \in Registers
    BY <1>0 DEF Registers
  <2> QED BY <2>1 DEF SettingsInv
<1>3. PICK n \in {0, 127} : ChangeEnding("lkupblk", Byte, Bits(n), {"lkupint"})
  BY DEF Assign_Blk
<1>4. mode' = mode /\ trig' = trig
  BY <1>3 DEF ChangeEnding
<1>5. Bits(n) \subseteq 0..6
  <2>1. n \in Nat /\ n < 128 /\ n < 256
    BY <1>3
  <2> QED BY <2>1, BitsByte
<1>6. reg' = [reg EXCEPT !["lookup"] = (@ \ Byte) \cup Bits(n)]
  BY <1>0, <1>3 DEF ChangeEnding
<1>7. /\ reg'["lookup"] = (reg["lookup"] \ Byte) \cup Bits(n)
      /\ DOMAIN reg' = Registers
      /\ \A r \in Registers \ {"lookup"} : reg'[r] = reg[r]
  BY <1>2, <1>6
<1>8. /\ asked'["lkupblk"] = <<Bits(n)>> /\ asked'["lkupint"] = <<>>
      /\ DOMAIN asked' = Settings
      /\ \A x \in Settings \ {"lkupblk", "lkupint"} : asked'[x] = asked[x]
  <2>1. asked' = [x \in Settings |-> IF x = "lkupblk" THEN <<Bits(n)>>
                                     ELSE IF x \in {"lkupint"} THEN <<>> ELSE asked[x]]
    BY <1>3 DEF ChangeEnding
  <2> QED BY <1>0, <2>1
<1>9. reg'["lookup"] \cap (0..6) = Bits(n)
  BY <1>5, <1>7 DEF Byte
<1>10. /\ trig' = [set |-> trig'.set, mode |-> trig'.mode]
       /\ trig'.set \subseteq 0..1 /\ trig'.mode \subseteq {3, 4, 7}
  BY <1>4, TrigKept
<1> DEFINE T == {"lkupblk", "lkupint"}
           p == "lookup"
<1>11. \A x \in T : asked'[x] # <<>> => reg'[Field[x][1]] \cap Field[x][2] = asked'[x][1]
  <2>1. reg'[Field["lkupblk"][1]] \cap Field["lkupblk"][2] = asked'["lkupblk"][1]
    BY <1>0, <1>8, <1>9
  <2> QED BY <1>8, <2>1
<1>12. /\ p \in Registers /\ T \in SUBSET Settings /\ p # "active5"
       /\ \A r \in Registers \ {p} : reg'[r] = reg[r]
       /\ \A x \in Settings \ T : asked'[x] = asked[x] /\ Field[x][1] # p
       /\ "replaying" \notin T /\ "zerocross" \notin T
  BY <1>0, <1>1, <1>2, <1>7, <1>8
<1>13. DOMAIN reg' = Registers /\ DOMAIN asked' = Settings
  BY <1>7, <1>8
<1> HIDE DEF T, p
<1> QED BY <1>4, <1>10, <1>11, <1>12, <1>13, OneRegister

\* A call that sets a time leaves the bits alone, as do steps of others.
LEMMA BitsAlone ==
    ASSUME SettingsInv, UNCHANGED <<mode, reg, asked, trig>>
    PROVE  SettingsInv'
BY DEF SettingsInv, BitsHold, Unanswered, RT

LEMMA TimesAlone ==
    ASSUME SettingsInv,
           \/ Set_BC_Resp \/ Set_Var_Amp \/ Set_RT_Resp_Time \/ Set_Timetag_Res
           \/ Set_Frame_Time \/ Set_Minor_Frame_Time \/ StartCount
    PROVE  SettingsInv'
<1>1. \E t, value, stored : Store(t, value, stored)
  <2>1. CASE Set_BC_Resp
    BY <2>1 DEF Set_BC_Resp
  <2>2. CASE Set_Var_Amp
    BY <2>2 DEF Set_Var_Amp
  <2>6. CASE Set_RT_Resp_Time
    BY <2>6 DEF Set_RT_Resp_Time
  <2>3. CASE Set_Timetag_Res
    BY <2>3 DEF Set_Timetag_Res
  <2>7. CASE Set_Frame_Time
    BY <2>7 DEF Set_Frame_Time
  <2>5. CASE Set_Minor_Frame_Time \/ StartCount
    BY <2>5 DEF Set_Minor_Frame_Time, StartCount
  <2> QED BY <2>1, <2>2, <2>3, <2>5, <2>6, <2>7
<1>2. UNCHANGED <<mode, reg, asked, trig>>
  BY <1>1 DEF Store
<1> QED BY <1>2, BitsAlone

\* A gap: an Intel's first sets the option that says how it is counted.
LEMMA GapLeavesBits ==
    ASSUME SettingsInv, AlterGap
    PROVE  SettingsInv'
<1>1. PICK t : AlterGapTo(t)
  BY DEF AlterGap
<1>2. CASE AlterGapNios(t) \/ AlterGapOther(t)
  BY <1>2, BitsAlone DEF AlterGapNios, AlterGapOther, Store
<1>3. CASE AlterGapIntel(t)
  <2>0. /\ "res250" \in Settings /\ Field["res250"] = <<"bcprot", {3}>>
        /\ "bcprot" \in Registers
    <3>1. "res250" \in Settings /\ Field["res250"] = <<"bcprot", {3}>>
      BY SettingsAre, FieldIs
    <3> QED BY <3>1 DEF Registers
  <2>1. DOMAIN reg = Registers /\ DOMAIN asked = Settings
    BY DEF SettingsInv
  <2>2. /\ reg' = [reg EXCEPT !.bcprot = @ \cup {3}]
        /\ asked' = [asked EXCEPT !.res250 = <<{3}>>]
        /\ mode' = mode /\ trig' = trig
    BY <1>3 DEF AlterGapIntel
  <2>3. /\ DOMAIN reg' = Registers /\ reg'["bcprot"] = reg["bcprot"] \cup {3}
        /\ \A r \in Registers \ {"bcprot"} : reg'[r] = reg[r]
    BY <2>0, <2>1, <2>2
  <2>4. /\ DOMAIN asked' = Settings /\ asked'["res250"] = <<{3}>>
        /\ \A x \in Settings \ {"res250"} : asked'[x] = asked[x]
    BY <2>0, <2>1, <2>2
  <2>5. /\ trig' = [set |-> trig'.set, mode |-> trig'.mode]
        /\ trig'.set \subseteq 0..1 /\ trig'.mode \subseteq {3, 4, 7}
    BY <2>2, TrigKept
  <2>6. ASSUME NEW x \in Settings \ {"res250"}, Field[x][1] = "bcprot"
        PROVE  reg'[Field[x][1]] \cap Field[x][2] = reg[Field[x][1]] \cap Field[x][2]
    <3>1. /\ Field[x][1] = Field["res250"][1]
          /\ reg'[Field["res250"][1]] \ Field["res250"][2]
               = reg[Field["res250"][1]] \ Field["res250"][2]
      BY <2>0, <2>3, <2>6
    <3> QED BY <2>0, <3>1, NeighbourKept
  <2>7. reg'[Field["res250"][1]] \cap Field["res250"][2] = asked'["res250"][1]
    BY <2>0, <2>3, <2>4
  <2> DEFINE T == {"res250"}
             p == "bcprot"
  <2>8. /\ p \in Registers /\ T \in SUBSET Settings /\ p # "active5"
        /\ \A r \in Registers \ {p} : reg'[r] = reg[r]
        /\ \A x \in Settings \ T : asked'[x] = asked[x]
        /\ \A x \in T : reg'[Field[x][1]] \cap Field[x][2] = asked'[x][1]
        /\ "replaying" \notin T /\ "zerocross" \notin T
    BY <2>0, <2>3, <2>4, <2>7
  <2>9. \A x \in Settings \ T : Field[x][1] = p =>
            reg'[Field[x][1]] \cap Field[x][2] = reg[Field[x][1]] \cap Field[x][2]
    BY <2>6
  <2> HIDE DEF T, p
  <2> QED BY <2>2, <2>3, <2>4, <2>5, <2>8, <2>9, OneRegister
<1> QED BY <1>1, <1>2, <1>3 DEF AlterGapTo

LEMMA SettingsInit == ASSUME SetInit PROVE SettingsInv
<1>1. /\ DOMAIN reg = Registers /\ DOMAIN asked = Settings
      /\ \A x \in Settings \ {"res250"} : asked[x] = <<>>
  BY DEF SetInit
<1>2. /\ "replaying" \in Settings /\ "zerocross" \in Settings
      /\ "res250" \in Settings /\ Field["res250"] = <<"bcprot", {3}>>
      /\ "active" \in Settings /\ Field["active"][1] = "active5"
  BY SettingsAre, FieldIs
<1>3. "active5" \in Registers /\ "bcprot" \in Registers
  BY <1>2 DEF Registers
<1>4. 1 \notin reg["active5"]
  <2>1. reg["active5"] = {}
    BY <1>3 DEF SetInit
  <2> QED BY <2>1
<1>5. /\ trig = [set |-> trig.set, mode |-> trig.mode]
      /\ trig.set \subseteq 0..1 /\ trig.mode \subseteq {3, 4, 7}
  BY DEF SetInit
<1>6. asked["res250"] # <<>> => reg["bcprot"] \cap {3} = asked["res250"][1]
  <2>1. reg["bcprot"] = IF module.proc = "NIOS" THEN {3} ELSE {}
    BY <1>3 DEF SetInit
  <2>2. asked["res250"] = IF Intel250 THEN <<>> ELSE IF module.proc = "NIOS" THEN <<{3}>>
                                                ELSE <<{}>>
    BY <1>2 DEF SetInit
  <2>3. CASE Intel250
    BY <2>2, <2>3
  <2>4. CASE ~Intel250 /\ module.proc = "NIOS"
    BY <2>1, <2>2, <2>4
  <2>5. CASE ~Intel250 /\ module.proc # "NIOS"
    BY <2>1, <2>2, <2>5
  <2> QED BY <2>3, <2>4, <2>5
<1>7. BitsHold
  BY <1>1, <1>2, <1>6 DEF BitsHold
<1> QED BY <1>1, <1>2, <1>4, <1>5, <1>7 DEF SettingsInv

LEMMA SettingsStep == ASSUME SettingsInv, [SetNext]_SetVars PROVE SettingsInv'
<1>1. CASE UNCHANGED SetVars
  BY <1>1, BitsAlone DEF SetVars
<1>2. CASE \/ Set_Bus \/ Set_Halt \/ Set_Continue \/ Set_Stop_On_Error
           \/ Set_Retry \/ Insert_Msg_Err
  BY <1>2, ControlHolds
<1>3. CASE \/ Enable_SRQ_Support \/ Set_Frequency \/ Set_IMG_On_Skip \/ Set_Expanded_Block_Mode
           \/ Set_Broad_Interrupt \/ Set_RTid_Interrupt \/ Set_RTid_Status \/ Set_SAid_Illegal
           \/ Set_IRIG_TimeTag_Mode \/ Set_Enhanced_Mon \/ Enable_Lkup_Int
  BY <1>3, FlagsHold
<1>4. CASE \/ Set_Word_Cnt \/ Set_Replay \/ Set_Interrupt \/ Clear_Timetag_Sync
           \/ Set_Mode_Addr \/ Set_RT_Errors \/ Set_RT_Interrupt \/ Reset_RT_Interrupt
           \/ Set_Wd_Cnt_Err \/ Set_Cnt_Trig \/ Set_MON_Concurrent
  BY <1>4, BytesHold
<1>5. CASE \/ Send_Timetag_Sync \/ Set_Header_Exists \/ Set_Header_Value \/ Set_Bit \/ Set_Vector
           \/ Set_Checksum_Blocks \/ Set_Message_Interval_Interrupt_Value \/ Set_Broad_Ctl
           \/ Set_Mon_Response_Time \/ Set_Mon_Response_Time_1553A
  BY <1>5, WordsHold
<1>6. CASE Set_Bit_Cnt \/ Set_Zero_Cross
  BY <1>6, BitRegisterHolds
<1>7. CASE Restart \/ Stop
  BY <1>7, StartHolds
<1>8. CASE \/ Enable_1553A_Support \/ Set_RT_Active_Bus
           \/ Set_RTid_Multibuf \/ Reset_RTid_Multibuf
  BY <1>8, RtHolds
<1>9. CASE Set_Sync_Pattern \/ Set_1553Status \/ Enable_Mon_1553A_Support
  BY <1>9, PairsHold
<1>10. CASE Set_Error_Location
  BY <1>10, ErrorLocationHolds
<1>11. CASE Set_RT_Active \/ Set_RT_Nonactive
  BY <1>11, ActiveHolds
<1>12. CASE Set_Invalid_Data_Res
  BY <1>12, InvalidHolds
<1>13. CASE Assign_RT_Data \/ Assign_DB_Datablk
  BY <1>13, BlocksHold
<1>14. CASE Set_Trigger1 \/ Set_Trigger2
  <2>1. PICK t \in 0..1 : SetTrigger(t)
    BY <1>14 DEF Set_Trigger1, Set_Trigger2
  <2> QED BY <2>1, TriggerHolds
<1>15. CASE Set_Trigger_Mode
  BY <1>15, TriggerModeHolds
<1>16. CASE Assign_Blk
  BY <1>16, LookupHolds
<1>17. CASE \/ Set_BC_Resp \/ Set_Var_Amp \/ Set_RT_Resp_Time \/ Set_Timetag_Res
            \/ Set_Frame_Time \/ Set_Minor_Frame_Time \/ StartCount
  BY <1>17, TimesAlone
<1>18. CASE AlterGap
  BY <1>18, GapLeavesBits
<1> QED
  BY <1>1, <1>2, <1>3, <1>4, <1>5, <1>6, <1>7, <1>8, <1>9, <1>10, <1>11, <1>12, <1>13, <1>14,
     <1>15, <1>16, <1>17, <1>18 DEF SetNext

\* Every setting that a call accepted stays in force, whatever is set
\* afterwards through the same register, for every number of calls; excepted is
\* flag 0 of Set_Invalid_Data_Res_Px, which has no effect.
THEOREM SettingsHold == SetSpec => []BitsHold
<1>1. SettingsInv => BitsHold
  BY DEF SettingsInv
<1> QED BY <1>1, SettingsInit, SettingsStep, PTL DEF SetSpec

(***************************************************************************)
(* The times set through PxSettings.                                       *)
(***************************************************************************)
\* A quotient and its remainder.
LEMMA Quotient ==
    \A a \in Nat, d \in Nat \ {0} :
        a \div d \in Nat /\ (a \div d) * d <= a /\ a < (a \div d) * d + d
OBVIOUS

\* A multiplier and a count of 155 ns: within the registers, and less than two
\* counts of each repetition short of the time.
LEMMA CountOf155 ==
    ASSUME NEW t \in Nat, t <= 665714687
    PROVE  \E m, n \in Nat :
               /\ m = t \div 10158 /\ TimesOf155(t) = <<m, n>>
               /\ t - (m + 1) * ((n * 155) \div 1000) <= 2 * m + 1
               /\ (m + 1) * ((n * 155) \div 1000) <= t
<1> DEFINE m == t \div 10158
           d == m + 1
           q == t \div d
           n == (q * 1000) \div 155
           r == (n * 155) \div 1000
<1>1. m \in Nat /\ m <= 65535 /\ d \in Nat \ {0} /\ t < 10158 * d
    BY SMT
<1> HIDE DEF m, d
<1>2. q \in Nat /\ q * d <= t /\ t < q * d + d
    BY SMT, <1>1, Quotient
<1>3. q <= 10157
  <2>1. ASSUME q >= 10158
        PROVE  q * d >= 10158 * d
      BY SMT, <1>1, <1>2, <2>1
  <2> QED BY SMT, <1>1, <1>2, <2>1
<1> HIDE DEF q
<1>4. n \in Nat /\ n <= 65535 /\ r \in Nat /\ r <= q /\ q <= r + 1
    BY SMT, <1>2, <1>3
<1> HIDE DEF n, r
<1>5. d * r <= d * q /\ d * q <= d * r + d
    BY SMT, <1>1, <1>2, <1>4
<1>6. t - d * r <= 2 * m + 1 /\ d * r <= t
    BY SMT, <1>1, <1>2, <1>4, <1>5 DEF d
<1>7. TimesOf155(t) = <<m, n>>
    BY SMT, <1>1, <1>4 DEF TimesOf155, m, d, q, n
<1> QED
    BY SMT, <1>1, <1>4, <1>6, <1>7 DEF m, d, r

MinorFits(us, m, q) ==
    /\ MinorTimeOf(us) = <<m, q>>
    /\ us - m * q <= m - 1 /\ m * q <= us

\* The minor frame time: as CountOf155, in microseconds.
LEMMA MinorTime ==
    ASSUME NEW us \in Nat \ {0}, us <= 2147483647
    PROVE  \E m, q \in Nat : MinorFits(us, m, q)
<1> DEFINE m == (us - 1) \div 65535 + 1
           q == us \div m
<1>1. m \in Nat \ {0} /\ m <= 65535 /\ us <= 65535 * m
    BY SMT
<1> HIDE DEF m
<1>2. q \in Nat /\ q * m <= us /\ us < q * m + m
    BY SMT, <1>1, Quotient
<1> HIDE DEF q
<1>3. q <= 65535
  <2>1. ASSUME q >= 65536
        PROVE  q * m >= 65536 * m
      BY SMT, <1>1, <1>2, <2>1
  <2> QED BY SMT, <1>1, <1>2, <2>1
<1>4. MinorTimeOf(us) = <<m, q>>
  <2>1. m % 65536 = m /\ q % 65536 = q
      BY SMT, <1>1, <1>2, <1>3
  <2>2. MinorTimeOf(us) = <<m % 65536, q % 65536>>
      BY SMT DEF MinorTimeOf, m, q
  <2> QED BY SMT, <2>1, <2>2
<1>5. us - m * q <= m - 1 /\ m * q <= us
    BY SMT, <1>1, <1>2
<1>6. MinorFits(us, m, q)
    BY SMT, <1>4, <1>5 DEF MinorFits
<1> QED
    BY SMT, <1>1, <1>2, <1>6

\* The instruction counter is read back as it was given.
LEMMA SwappedTwice ==
    \A n \in Nat : n <= 65535 => Swapped(n) \in Nat /\ Swapped(Swapped(n)) = n
BY SMT DEF Swapped

\* A gap in counts of 250 ns: put together again it is the gap, and its upper
\* half leaves the bits beside the multiplier alone.
LEMMA GapOf250 ==
    ASSUME NEW t \in Nat, t <= MAX_IMG
    PROVE  \E x, y \in Nat : /\ CountOf250(t) = <<x, y>>
                             /\ ((x % 8192) * 65536 + y) \div 4 = t
<1> DEFINE c == 4 * t
           x == c \div 65536
           y == c % 65536
<1>1. c \in Nat /\ c <= 332816712 /\ c \div 4 = t
    BY SMT DEF MAX_IMG
<1> HIDE DEF c
<1>2. /\ x \in Nat /\ y \in Nat /\ x <= 8191 /\ y <= 65535
      /\ x * 65536 + y = c
    BY SMT, <1>1
<1>3. CountOf250(t) = <<x % 65536, y>>
    BY SMT DEF CountOf250, c
<1> HIDE DEF x, y
<1>4. x % 65536 = x /\ x % 8192 = x
    BY SMT, <1>2
<1> QED
    BY SMT, <1>1, <1>2, <1>3, <1>4

\* The numbers stored for a time other than a gap, and what they mean.
StoredSound(t) ==
    /\ num[t] \in Nat \X Nat
    /\ told[t] # <<>> => /\ told[t][1] \in Nat
                         /\ told[t][1] - Meaning(t) <= Tolerance(t)
                         /\ Meaning(t) - told[t][1] <= Tolerance(t)

\* The modules that count gaps in 250 ns, and what their option says: a NIOS
\* always does, an Intel from its first gap on.
Unit250 == module.proc = "NIOS" \/ Intel250
Option250 ==
    /\ module.proc = "NIOS" => asked["res250"] = <<{3}>>
    /\ Intel250 /\ told["gap"] # <<>> => asked["res250"] = <<{3}>>
    /\ ~Unit250 => asked["res250"] = <<{}>>

\* The numbers stored for a gap, in the unit of the module.
StoredGap ==
    told["gap"] # <<>> =>
       /\ told["gap"][1] \in Nat
       /\ Unit250 /\ ~Shortened("gap") =>
             (GapMultiplier * 65536 + num["gap"][2]) \div 4 = told["gap"][1]
       /\ ~Unit250 =>
             LET v == (GapMultiplier + 1) * ((num["gap"][2] * 155) \div 1000)
                 d == 2 * num["gap"][1] + 1
             IN  told["gap"][1] - v <= d /\ v - told["gap"][1] <= d

TimesInv ==
    /\ num \in [Times -> Nat \X Nat] /\ told \in [Times -> Seq(Nat)]
    /\ \A t \in Times \ {"gap"} : StoredSound(t)
    /\ StoredGap /\ Option250

\* A routine that sets bits leaves the times and that option alone.
TimesLeft == UNCHANGED <<module, num, told>> /\ asked'["res250"] = asked["res250"]
LEMMA BitsLeaveTimes ==
    ASSUME DOMAIN asked = Settings
    PROVE  /\ \A s, c, v : Change(s, c, v) /\ s # "res250" => TimesLeft
           /\ \A s, c, v, e : ChangeEnding(s, c, v, e) /\ s # "res250"
                                /\ "res250" \notin e => TimesLeft
           /\ \A s, k : Flag(s, k) /\ s # "res250" => TimesLeft
           /\ \A v : RT31Byte(v) => TimesLeft
           /\ \A n, v : AssignBlock(n, v) => TimesLeft
           /\ \A t : SetTrigger(t) => TimesLeft
<1>0. "res250" \in Settings
  BY SettingsAre
<1>1. ASSUME NEW s, NEW c, NEW v, Change(s, c, v), s # "res250" PROVE TimesLeft
  BY <1>0, <1>1 DEF Change, TimesLeft
<1>2. ASSUME NEW s, NEW c, NEW v, NEW e, ChangeEnding(s, c, v, e), s # "res250",
             "res250" \notin e
      PROVE  TimesLeft
  BY <1>0, <1>2 DEF ChangeEnding, TimesLeft
<1>3. ASSUME NEW s, NEW k, Flag(s, k), s # "res250" PROVE TimesLeft
  BY <1>1, <1>3 DEF Flag
<1>4. ASSUME NEW v, RT31Byte(v) PROVE TimesLeft
  BY <1>0, <1>4 DEF RT31Byte, TimesLeft
<1>5. ASSUME NEW n, NEW v, AssignBlock(n, v) PROVE TimesLeft
  BY <1>0, <1>5 DEF AssignBlock, TimesLeft
<1>6. ASSUME NEW t, SetTrigger(t) PROVE TimesLeft
  BY <1>0, <1>6 DEF SetTrigger, TimesLeft
<1> QED BY <1>1, <1>2, <1>3, <1>4, <1>5, <1>6

\* The same for the calls that write their registers in their own way.
LEMMA PairsLeaveTimes ==
    ASSUME DOMAIN asked = Settings,
           \/ Set_Sync_Pattern \/ Set_Error_Location \/ Stop \/ Set_1553Status
           \/ Enable_Mon_1553A_Support \/ Set_Trigger_Mode
    PROVE  TimesLeft
<1>0. "res250" \in Settings
  BY SettingsAre
<1>1. CASE Set_Sync_Pattern
  BY <1>0, <1>1, Zenon DEF Set_Sync_Pattern, TimesLeft
<1>2. CASE Set_Error_Location
  BY <1>0, <1>2, Zenon DEF Set_Error_Location, TimesLeft
<1>3. CASE Stop
  BY <1>0, <1>3 DEF Stop, TimesLeft
<1>4. CASE Set_1553Status
  BY <1>0, <1>4 DEF Set_1553Status, TimesLeft
<1>5. CASE Enable_Mon_1553A_Support
  BY <1>0, <1>5 DEF Enable_Mon_1553A_Support, TimesLeft
<1>6. CASE Set_Trigger_Mode
  BY <1>0, <1>6 DEF Set_Trigger_Mode, TimesLeft
<1> QED BY <1>1, <1>2, <1>3, <1>4, <1>5, <1>6

\* Every step sets bits or is one of the eight routines for times.
LEMMA TimeRoutines ==
    ASSUME SetNext, DOMAIN asked = Settings
    PROVE  \/ TimesLeft
           \/ Set_BC_Resp \/ Set_Var_Amp \/ Set_RT_Resp_Time \/ Set_Timetag_Res
           \/ Set_Frame_Time \/ AlterGap \/ Set_Minor_Frame_Time \/ StartCount
<1>1. ASSUME Set_Bus \/ Set_Halt \/ Set_Continue \/ Set_Stop_On_Error \/
          Set_Retry \/ Insert_Msg_Err \/ Set_Bit_Cnt \/ Set_Zero_Cross
          \/ Set_Word_Cnt \/ Enable_SRQ_Support \/ Set_Frequency \/
          Set_IMG_On_Skip \/ Set_Replay \/ Send_Timetag_Sync \/ Set_Interrupt
      PROVE  TimesLeft
    BY <1>1, BitsLeaveTimes DEF Set_Bus, Set_Halt, Set_Continue,
       Set_Stop_On_Error, Set_Retry, Insert_Msg_Err, Set_Bit_Cnt,
       Set_Zero_Cross, Set_Word_Cnt, Enable_SRQ_Support, Set_Frequency,
       Set_IMG_On_Skip, Set_Replay, Send_Timetag_Sync, Set_Interrupt
<1>2. ASSUME Restart \/ Set_Header_Exists \/ Set_Header_Value \/
          Enable_1553A_Support \/ Clear_Timetag_Sync \/
          Set_Expanded_Block_Mode
      PROVE  TimesLeft
    BY <1>2, BitsLeaveTimes DEF Restart, Set_Header_Exists,
       Set_Header_Value, Enable_1553A_Support, Clear_Timetag_Sync,
       Set_Expanded_Block_Mode
<1>3. ASSUME Set_RT_Active \/ Set_RT_Nonactive \/ Set_Broad_Interrupt
             \/ Set_RT_Active_Bus \/ Set_Mode_Addr \/ Set_RT_Errors
             \/ Set_RT_Interrupt \/ Reset_RT_Interrupt \/ Set_Bit
             \/ Set_Vector \/ Set_Wd_Cnt_Err \/ Set_Checksum_Blocks
      PROVE  TimesLeft
    BY <1>3, BitsLeaveTimes DEF Set_RT_Active, Set_RT_Nonactive,
       Set_Broad_Interrupt, Set_RT_Active_Bus, Set_Mode_Addr, Set_RT_Errors,
       Set_RT_Interrupt, Reset_RT_Interrupt, Set_Bit, Set_Vector, Set_Wd_Cnt_Err,
       Set_Checksum_Blocks
<1>4. ASSUME Set_Invalid_Data_Res
      PROVE  TimesLeft
    BY <1>4, BitsLeaveTimes DEF Set_Invalid_Data_Res
<1>5. ASSUME Set_RTid_Interrupt \/ Set_RTid_Status \/ Set_SAid_Illegal
             \/ Set_RTid_Multibuf \/ Reset_RTid_Multibuf \/ Assign_RT_Data
             \/ Assign_DB_Datablk
      PROVE  TimesLeft
    BY <1>5, BitsLeaveTimes DEF Set_RTid_Interrupt, Set_RTid_Status,
       Set_SAid_Illegal, Set_RTid_Multibuf, Reset_RTid_Multibuf, Assign_RT_Data,
       Assign_DB_Datablk
<1>6. ASSUME Set_IRIG_TimeTag_Mode \/ Set_Enhanced_Mon \/
          Set_Trigger1 \/ Set_Trigger2 \/ Set_Cnt_Trig \/
          Set_Message_Interval_Interrupt_Value \/ Set_Broad_Ctl \/
          Set_MON_Concurrent \/ Set_Mon_Response_Time \/
          Set_Mon_Response_Time_1553A \/ Assign_Blk \/ Enable_Lkup_Int
      PROVE  TimesLeft
    BY <1>6, BitsLeaveTimes DEF Set_IRIG_TimeTag_Mode, Set_Enhanced_Mon,
       Set_Trigger1, Set_Trigger2, Set_Cnt_Trig, Set_Message_Interval_Interrupt_Value,
       Set_Broad_Ctl, Set_MON_Concurrent, Set_Mon_Response_Time,
       Set_Mon_Response_Time_1553A, Assign_Blk, Enable_Lkup_Int
<1> QED
    BY <1>1, <1>2, <1>3, <1>4, <1>5, <1>6, PairsLeaveTimes DEF SetNext

\* Storing a time changes that time only.
LEMMA StoreStep ==
    ASSUME TimesInv, NEW t \in Times, NEW v \in Nat, NEW x \in Nat, NEW y \in Nat,
           Store(t, v, <<x, y>>)
    PROVE  /\ num' \in [Times -> Nat \X Nat] /\ told' \in [Times -> Seq(Nat)]
           /\ num'[t] = <<x, y>> /\ told'[t] = <<v>>
           /\ \A s \in Times \ {t} : num'[s] = num[s] /\ told'[s] = told[s]
           /\ module' = module /\ asked' = asked
BY DEF Store, TimesInv

\* A step that leaves the gap alone, and the option.
LEMMA GapLeft ==
    ASSUME StoredGap, Option250, num'["gap"] = num["gap"], told'["gap"] = told["gap"],
           module' = module, asked'["res250"] = asked["res250"]
    PROVE  StoredGap' /\ Option250'
<1>1. Unit250' = Unit250 /\ Intel250' = Intel250
  BY DEF Unit250, Intel250
<1>2. GapMultiplier' = GapMultiplier /\ Shortened("gap")' = Shortened("gap")
  BY DEF GapMultiplier, Shortened
<1>3. Option250'
  BY <1>1 DEF Option250
<1>4. StoredGap'
  BY <1>1, <1>2 DEF StoredGap
<1> QED BY <1>3, <1>4

\* The times not touched stay sound, so that one routine's own time is all that is
\* left to show.
LEMMA OneTime ==
    ASSUME TimesInv, NEW t \in Times \ {"gap"},
           num' \in [Times -> Nat \X Nat], told' \in [Times -> Seq(Nat)],
           \A s \in Times \ {t} : num'[s] = num[s] /\ told'[s] = told[s],
           module' = module, asked' = asked, StoredSound(t)'
    PROVE  TimesInv'
<1>1. ASSUME NEW s \in Times \ {t, "gap"}
      PROVE  StoredSound(s)'
  <2>1. StoredSound(s) /\ num'[s] = num[s] /\ told'[s] = told[s]
      BY DEF TimesInv
  <2>2. Meaning(s)' = Meaning(s) /\ Tolerance(s)' = Tolerance(s)
      BY <2>1 DEF Meaning, Tolerance, Times, Get_Minor_Frame_Time, Get_Instruction_Counter
  <2> QED BY <2>1, <2>2 DEF StoredSound
<1>2. num'["gap"] = num["gap"] /\ told'["gap"] = told["gap"]
  BY DEF Times
<1>3. StoredGap' /\ Option250'
  BY <1>2, GapLeft DEF TimesInv
<1> QED
    BY <1>1, <1>3 DEF TimesInv

\* The option on the board follows from what was asked for.
LEMMA OptionHeld ==
    ASSUME SettingsInv, Option250
    PROVE  /\ module.proc = "NIOS" => In250
           /\ Intel250 /\ told["gap"] # <<>> => In250
           /\ ~Unit250 => ~In250
<1>1. "res250" \in Settings /\ Field["res250"] = <<"bcprot", {3}>>
  BY SettingsAre, FieldIs
<1>2. asked["res250"] # <<>> => reg["bcprot"] \cap {3} = asked["res250"][1]
  BY <1>1 DEF SettingsInv, BitsHold, Unanswered
<1>3. asked["res250"] = <<{3}>> => 3 \in reg["bcprot"]
  BY <1>2
<1>4. asked["res250"] = <<{}>> => 3 \notin reg["bcprot"]
  BY <1>2
<1> QED BY <1>3, <1>4 DEF Option250, In250

\* What is stored of a gap.
LEMMA GapStep ==
    ASSUME SettingsInv, TimesInv, AlterGap
    PROVE  TimesInv'
<1>1. PICK t \in Given["gap"] : t <= MAX_IMG /\ AlterGapTo(t)
  BY DEF AlterGap
<1>2. t \in Nat
  BY GivenAssumption DEF Times
<1>3. DOMAIN asked = Settings /\ "res250" \in Settings /\ "gap" \in Times
  BY SettingsAre DEF SettingsInv, Times
<1>4. ASSUME NEW x \in Nat, NEW y \in Nat,
             num' = [num EXCEPT !["gap"] = <<x, y>>], told' = [told EXCEPT !["gap"] = <<t>>],
             module' = module, (StoredGap /\ Option250)'
      PROVE  TimesInv'
  <2>1. /\ num' \in [Times -> Nat \X Nat] /\ told' \in [Times -> Seq(Nat)]
        /\ \A s \in Times \ {"gap"} : num'[s] = num[s] /\ told'[s] = told[s]
    <3>1. <<x, y>> \in Nat \X Nat /\ <<t>> \in Seq(Nat)
      BY <1>2
    <3> QED BY <1>3, <1>4, <3>1 DEF TimesInv
  <2>2. ASSUME NEW s \in Times \ {"gap"}
        PROVE  StoredSound(s)'
    <3>1. StoredSound(s) /\ num'[s] = num[s] /\ told'[s] = told[s]
      BY <2>1 DEF TimesInv
    <3>2. Meaning(s)' = Meaning(s) /\ Tolerance(s)' = Tolerance(s)
      BY <3>1 DEF Meaning, Tolerance, Times, Get_Minor_Frame_Time, Get_Instruction_Counter
    <3> QED BY <3>1, <3>2 DEF StoredSound
  <2> QED BY <1>4, <2>1, <2>2 DEF TimesInv
<1>6. CASE AlterGapNios(t)
  <2>1. PICK x, y \in Nat : /\ CountOf250(Calibrated(t)) = <<x, y>>
                            /\ ((x % 8192) * 65536 + y) \div 4 = Calibrated(t)
    <3>1. Calibrated(t) \in Nat /\ Calibrated(t) <= MAX_IMG
      BY <1>1, <1>2, SMT DEF Calibrated, MAX_IMG
    <3> QED BY <3>1, GapOf250
  <2>2. /\ num' = [num EXCEPT !["gap"] = <<x, y>>] /\ told' = [told EXCEPT !["gap"] = <<t>>]
        /\ module' = module /\ asked' = asked /\ module.proc = "NIOS"
    BY <1>6, <2>1 DEF AlterGapNios, Store
  <2>3. num'["gap"] = <<x, y>> /\ told'["gap"] = <<t>>
    BY <1>3, <2>2 DEF TimesInv
  <2>4. Unit250' /\ ~Intel250' /\ (t < 30000 => Calibrated(t) = t)
    BY <1>2, <2>2, SMT DEF Unit250, Intel250, Calibrated
  <2>5. StoredGap'
    <3>1. ~Shortened("gap")' => t < 30000
      BY <1>2, <2>2, <2>3, SMT DEF Shortened
    <3>2. GapMultiplier' = x % 8192 /\ num'["gap"][2] = y /\ told'["gap"][1] = t
      BY <2>3 DEF GapMultiplier
    <3> QED BY <1>2, <2>1, <2>4, <3>1, <3>2 DEF StoredGap
  <2>6. Option250'
    BY <2>2, <2>4 DEF Option250, TimesInv, Unit250
  <2> QED BY <1>4, <2>2, <2>5, <2>6
<1>7. CASE AlterGapIntel(t)
  <2>1. PICK x, y \in Nat : /\ CountOf250(t) = <<x, y>>
                            /\ ((x % 8192) * 65536 + y) \div 4 = t
    BY <1>1, <1>2, GapOf250
  <2>2. /\ num' = [num EXCEPT !["gap"] = <<x, y>>] /\ told' = [told EXCEPT !["gap"] = <<t>>]
        /\ module' = module /\ Intel250
        /\ asked' = [asked EXCEPT !["res250"] = <<{3}>>]
    <3>1. num' = [num EXCEPT !.gap = CountOf250(t)] /\ told' = [told EXCEPT !.gap = <<t>>]
      BY <1>7 DEF AlterGapIntel
    <3>2. /\ module' = module /\ Intel250
          /\ asked' = [asked EXCEPT !.res250 = <<{3}>>]
      BY <1>7 DEF AlterGapIntel
    <3>3. num' = [num EXCEPT !["gap"] = <<x, y>>] /\ told' = [told EXCEPT !["gap"] = <<t>>]
      BY <2>1, <3>1
    <3> QED BY <3>2, <3>3
  <2>3. num'["gap"] = <<x, y>> /\ told'["gap"] = <<t>> /\ asked'["res250"] = <<{3}>>
    BY <1>3, <2>2 DEF TimesInv
  <2>4. Unit250'
    BY <2>2 DEF Unit250, Intel250
  <2>5. StoredGap'
    <3>1. GapMultiplier' = x % 8192 /\ num'["gap"][2] = y /\ told'["gap"][1] = t
      BY <2>3 DEF GapMultiplier
    <3> QED BY <1>2, <2>1, <2>4, <3>1 DEF StoredGap
  <2>6. Option250'
    BY <2>3, <2>4 DEF Option250
  <2> QED BY <1>4, <2>2, <2>5, <2>6
<1>8. CASE AlterGapOther(t)
  <2>1. t <= 665714687
    BY <1>1, <1>2, SMT DEF MAX_IMG
  <2>2. PICK x, y \in Nat :
            /\ x = t \div 10158 /\ TimesOf155(t) = <<x, y>>
            /\ t - (x + 1) * ((y * 155) \div 1000) <= 2 * x + 1
            /\ (x + 1) * ((y * 155) \div 1000) <= t
    BY <1>2, <2>1, CountOf155
  <2>3. PICK v \in Nat : v = (x + 1) * ((y * 155) \div 1000)
    BY SMT
  <2>4. x % 8192 = x
    BY <1>1, <1>2, <2>2, SMT DEF MAX_IMG
  <2>5. /\ num' = [num EXCEPT !["gap"] = <<x, y>>] /\ told' = [told EXCEPT !["gap"] = <<t>>]
        /\ module' = module /\ asked' = asked
    BY <1>8, <2>2 DEF AlterGapOther, Store
  <2>6. ~Unit250 /\ ~Unit250' /\ ~Intel250' /\ module'.proc # "NIOS"
    <3>1. module.proc = "NIOS" => In250
      BY OptionHeld DEF TimesInv
    <3>2. ~Unit250
      BY <1>8, <3>1 DEF AlterGapOther, In250, Unit250
    <3> QED BY <2>5, <3>2 DEF Unit250, Intel250
  <2>7. num'["gap"] = <<x, y>> /\ told'["gap"] = <<t>>
    BY <1>3, <2>5 DEF TimesInv
  <2>8. StoredGap'
    <3>1. /\ GapMultiplier' = x /\ num'["gap"][2] = y /\ num'["gap"][1] = x
          /\ told'["gap"][1] = t
      BY <2>4, <2>7 DEF GapMultiplier
    <3>2. t - v <= 2 * x + 1 /\ v - t <= 2 * x + 1
      BY <1>2, <2>2, <2>3, SMT
    <3> QED BY <1>2, <2>3, <2>6, <3>1, <3>2 DEF StoredGap
  <2>9. Option250'
    BY <2>5, <2>6 DEF Option250, TimesInv
  <2> QED BY <1>4, <2>5, <2>8, <2>9
<1> QED BY <1>1, <1>6, <1>7, <1>8 DEF AlterGapTo

\* Each routine stores its time to within its unit.
LEMMA TimesStep == SettingsInv /\ TimesInv /\ [SetNext]_SetVars => TimesInv'
<1> SUFFICES ASSUME SettingsInv, TimesInv, [SetNext]_SetVars
             PROVE  TimesInv'
    OBVIOUS
<1>1. ASSUME NEW t \in Times \ {"gap"}, NEW v \in Nat, NEW x \in Nat, NEW y \in Nat,
             Store(t, v, <<x, y>>),
             num'[t] = <<x, y>> /\ told'[t] = <<v>> =>
                 /\ v - Meaning(t)' <= Tolerance(t)'
                 /\ Meaning(t)' - v <= Tolerance(t)'
      PROVE  TimesInv'
  <2>1. /\ num' \in [Times -> Nat \X Nat] /\ told' \in [Times -> Seq(Nat)]
        /\ num'[t] = <<x, y>> /\ told'[t] = <<v>>
        /\ \A s \in Times \ {t} : num'[s] = num[s] /\ told'[s] = told[s]
        /\ module' = module /\ asked' = asked
      BY <1>1, StoreStep
  <2>2. StoredSound(t)'
      BY <1>1, <2>1 DEF StoredSound
  <2> QED BY <2>1, <2>2, OneTime
<1>2. CASE Set_BC_Resp
  <2>1. PICK t \in Given["resptime"] : t <= 32000 /\ Store("resptime", t, <<(t \div 155) % 256, 0>>)
      BY <1>2, SMT DEF Set_BC_Resp
  <2> DEFINE x == (t \div 155) % 256
             y == 0
  <2>2. t \in Nat /\ x \in Nat /\ y \in Nat /\ x * 155 <= t /\ t <= x * 155 + 154
      BY <2>1, GivenAssumption, SMT DEF Times
  <2>4. num'["resptime"] = <<x, y>> =>
            /\ t - Meaning("resptime")' <= Tolerance("resptime")'
            /\ Meaning("resptime")' - t <= Tolerance("resptime")'
      BY <2>2, SMT DEF Meaning, Tolerance
  <2>5. Store("resptime", t, <<x, y>>)
      BY <2>1, <2>2, SMT
  <2> HIDE DEF x, y
  <2> QED BY <1>1, <2>2, <2>4, <2>5, SMT DEF Times
<1>3. CASE Set_Var_Amp
  <2>1. PICK mv \in Given["amplitude"] : 
            mv \div 30 <= 255 /\ Store("amplitude", mv, <<(mv \div 30) % 256, 0>>)
      BY <1>3, SMT DEF Set_Var_Amp
  <2> DEFINE x == (mv \div 30) % 256
             y == 0
  <2>2. mv \in Nat /\ x \in Nat /\ y \in Nat /\ x * 30 <= mv /\ mv <= x * 30 + 29
      BY <2>1, GivenAssumption, SMT DEF Times
  <2>4. num'["amplitude"] = <<x, y>> =>
            /\ mv - Meaning("amplitude")' <= Tolerance("amplitude")'
            /\ Meaning("amplitude")' - mv <= Tolerance("amplitude")'
      BY <2>2, SMT DEF Meaning, Tolerance
  <2>5. Store("amplitude", mv, <<x, y>>)
      BY <2>1, <2>2, SMT
  <2> HIDE DEF x, y
  <2> QED BY <1>1, <2>2, <2>4, <2>5, SMT DEF Times
<1>4. CASE Set_RT_Resp_Time
  <2>1. PICK ns \in Given["rtresp"] : 
            Store("rtresp", ns, <<((ns - 4000) \div 155) % 256, 0>>)
      BY <1>4, SMT DEF Set_RT_Resp_Time
  <2> DEFINE x == ((ns - 4000) \div 155) % 256
             y == 0
  <2>2. ns \in Nat /\ x \in Nat /\ y \in Nat /\ x * 155 + 4000 <= ns
        /\ ns <= x * 155 + 4154
      BY <2>1, GivenAssumption, SMT DEF Times
  <2>4. num'["rtresp"] = <<x, y>> =>
            /\ ns - Meaning("rtresp")' <= Tolerance("rtresp")'
            /\ Meaning("rtresp")' - ns <= Tolerance("rtresp")'
      BY <2>2, SMT DEF Meaning, Tolerance
  <2>5. Store("rtresp", ns, <<x, y>>)
      BY <2>1, <2>2, SMT
  <2> HIDE DEF x, y
  <2> QED BY <1>1, <2>2, <2>4, <2>5, SMT DEF Times
<1>5. CASE Set_Timetag_Res
  <2>1. PICK r \in Given["ttagres"] : 
            r >= 4 /\ r <= 1024
            /\ Store("ttagres", r, <<(((r + 2) \div 4) - 1) % 256, 0>>)
      BY <1>5, SMT DEF Set_Timetag_Res
  <2> DEFINE x == (((r + 2) \div 4) - 1) % 256
             y == 0
  <2>2. r \in Nat /\ x \in Nat /\ y \in Nat /\ r - 2 <= (x + 1) * 4 /\ (x + 1) * 4 <= r + 2
      BY <2>1, GivenAssumption, SMT DEF Times
  <2>4. num'["ttagres"] = <<x, y>> =>
            /\ r - Meaning("ttagres")' <= Tolerance("ttagres")'
            /\ Meaning("ttagres")' - r <= Tolerance("ttagres")'
      BY <2>2, SMT DEF Meaning, Tolerance
  <2>5. Store("ttagres", r, <<x, y>>)
      BY <2>1, <2>2, SMT
  <2> HIDE DEF x, y
  <2> QED BY <1>1, <2>2, <2>4, <2>5, SMT DEF Times
<1>6. CASE Set_Frame_Time
  <2>1. PICK t \in Given["frame"] : Store("frame", t, TimesOf155(t))
      BY <1>6, SMT DEF Set_Frame_Time
  <2>2. t \in Nat /\ t <= 665714687
      BY <2>1, GivenAssumption, SMT DEF Times
  <2>3. PICK x, y \in Nat :
            /\ x = t \div 10158 /\ TimesOf155(t) = <<x, y>>
            /\ t - (x + 1) * ((y * 155) \div 1000) <= 2 * x + 1
            /\ (x + 1) * ((y * 155) \div 1000) <= t
      BY <2>2, CountOf155, SMT
  <2>4. PICK v \in Nat : v = (x + 1) * ((y * 155) \div 1000)
      BY SMT
  <2>6. num'["frame"] = <<x, y>> =>
            Meaning("frame")' = v /\ Tolerance("frame")' = 2 * x + 1
      BY <2>4, SMT DEF Meaning, Tolerance
  <2>7. t - v <= 2 * x + 1 /\ v - t <= 2 * x + 1
      BY <2>2, <2>3, <2>4, SMT
  <2>8. Store("frame", t, <<x, y>>)
      BY <2>1, <2>3, SMT
  <2> QED BY <1>1, <2>2, <2>6, <2>7, <2>8, SMT DEF Times
<1>7. CASE AlterGap
  BY <1>7, GapStep
<1>8. CASE Set_Minor_Frame_Time
  <2>1. PICK us \in Given["minor"] : Store("minor", us, MinorTimeOf(us))
      BY <1>8, SMT DEF Set_Minor_Frame_Time
  <2>2. us \in Nat \ {0} /\ us <= 2147483647
      BY GivenAssumption, SMT DEF Times
  <2>3. PICK x, y \in Nat : MinorFits(us, x, y)
      BY <2>2, MinorTime, SMT
  <2>4. num'["minor"] = <<x, y>> =>
            Meaning("minor")' = x * y /\ Tolerance("minor")' = x - 1
      BY SMT DEF Meaning, Tolerance, Get_Minor_Frame_Time
  <2>5. us - x * y <= x - 1 /\ x * y - us <= x - 1
      BY <2>2, <2>3, SMT DEF MinorFits
  <2>6. Store("minor", us, <<x, y>>)
      BY <2>1, <2>3, SMT DEF MinorFits
  <2> QED BY <1>1, <2>2, <2>4, <2>5, <2>6, SMT DEF Times
<1>9. CASE StartCount
  <2>1. PICK n \in Given["counter"] : Store("counter", n, <<Swapped(n), 0>>)
      BY <1>9, SMT DEF StartCount
  <2> DEFINE x == Swapped(n)
             y == 0
  <2>2. /\ n \in Nat /\ n <= 65535 /\ x \in Nat /\ y \in Nat
        /\ Swapped(x) = n
      BY GivenAssumption, SwappedTwice, SMT DEF Times
  <2>4. num'["counter"] = <<x, y>> =>
            /\ n - Meaning("counter")' <= Tolerance("counter")'
            /\ Meaning("counter")' - n <= Tolerance("counter")'
      BY <2>2, SMT DEF Meaning, Tolerance, Get_Instruction_Counter
  <2>5. Store("counter", n, <<x, y>>)
      BY <2>1, <2>2, SMT
  <2> HIDE DEF x, y
  <2> QED BY <1>1, <2>2, <2>4, <2>5, SMT DEF Times
<1>10. CASE TimesLeft
  <2>1. ASSUME NEW t \in Times \ {"gap"}
        PROVE  Meaning(t)' = Meaning(t) /\ Tolerance(t)' = Tolerance(t)
      BY <1>10 DEF TimesLeft, Meaning, Tolerance, Times, Get_Minor_Frame_Time,
                   Get_Instruction_Counter
  <2>2. \A t \in Times \ {"gap"} : StoredSound(t)'
      BY <1>10, <2>1 DEF TimesLeft, TimesInv, StoredSound
  <2>3. StoredGap' /\ Option250'
      BY <1>10, GapLeft DEF TimesLeft, TimesInv
  <2> QED BY <1>10, <2>2, <2>3 DEF TimesInv, TimesLeft
<1>11. CASE UNCHANGED SetVars
  BY <1>10, <1>11 DEF SetVars, TimesLeft
<1>12. DOMAIN asked = Settings
  BY DEF SettingsInv
<1> QED
    BY <1>2, <1>3, <1>4, <1>5, <1>6, <1>7, <1>8, <1>9, <1>10, <1>11, <1>12, TimeRoutines

\* Every time or count accepted by a routine is what the board and the Get_
\* routines make of the registers, to within their unit, for every value the
\* registers can hold and after any other calls: no quotient is cut off, the
\* multiplier of a gap stays clear of the bits kept beside it, and a gap is
\* written in the unit that the option on the board says.  Excepted are the
\* gaps of 30 ms and more of a NIOS module.
THEOREM TimesAreKept == SetSpec => []TimesHold
<1>1. SetInit => TimesInv
  <2> SUFFICES ASSUME SetInit
               PROVE  TimesInv
      OBVIOUS
  <2>1. num = [t \in Times |-> <<0, 0>>] /\ told = [t \in Times |-> <<>>]
      BY DEF SetInit
  <2>2. Option250
    <3>1. "res250" \in Settings /\ told["gap"] = <<>>
      BY <2>1, SettingsAre DEF Times
    <3>2. asked["res250"] = IF Intel250 THEN <<>> ELSE IF module.proc = "NIOS" THEN <<{3}>>
                                                  ELSE <<{}>>
      BY <3>1 DEF SetInit
    <3> QED BY <3>1, <3>2 DEF Option250, Unit250, Intel250
  <2> QED BY <2>1, <2>2 DEF TimesInv, StoredSound, StoredGap, Times
<1>2. TimesInv /\ SettingsInv /\ [SetNext]_SetVars => TimesInv'
    BY TimesStep
<1>3. TimesInv /\ SettingsInv => TimesHold
  <2> SUFFICES ASSUME TimesInv, SettingsInv, NEW t \in Times,
                      told[t] # <<>>, ~Shortened(t)
               PROVE  Kept(t)
      BY DEF TimesHold
  <2>1. CASE t # "gap"
      BY <2>1 DEF TimesInv, StoredSound, Kept
  <2>2. CASE t = "gap" /\ Unit250
    <3>1. In250
        BY <2>2, OptionHeld DEF TimesInv, Unit250
    <3>2. Meaning("gap") = told["gap"][1] /\ told["gap"][1] \in Nat /\ Tolerance("gap") = 0
        BY <2>2, <3>1 DEF TimesInv, StoredGap, Meaning, Tolerance, GapTime
    <3> QED BY <2>2, <3>2, SMT DEF Kept
  <2>3. CASE t = "gap" /\ ~Unit250
    <3>1. ~In250
        BY <2>3, OptionHeld DEF TimesInv
    <3>2. /\ Meaning("gap") = (GapMultiplier + 1) * ((num["gap"][2] * 155) \div 1000)
          /\ Tolerance("gap") = 2 * num["gap"][1] + 1
        BY <3>1 DEF Meaning, Tolerance, GapTime
    <3> QED BY <2>3, <3>2 DEF TimesInv, StoredGap, Kept
  <2> QED BY <2>1, <2>2, <2>3
<1> QED
    BY <1>1, <1>2, <1>3, SettingsInit, SettingsStep, PTL DEF SetSpec
=============================================================================

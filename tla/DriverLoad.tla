----------------------------- MODULE DriverLoad -----------------------------
(***************************************************************************)
(* Loading and unloading the kernel driver: the cards on the PCI bus are   *)
(* found, the memory banks of each are laid out over its base address      *)
(* registers, mapped, its interrupt hooked and its DMA buffer allocated;   *)
(* then the device number is registered and processes may map the banks.   *)
(* Every call of the kernel may fail.  Memory is counted in pages of       *)
(* 1000h bytes; a bank shorter than a page counts as one, as in mmap.      *)
(***************************************************************************)
EXTENDS Integers, Sequences, FiniteSets

CONSTANTS
    Kinds,        \* kinds of card, of the domain of Lengths
    MaxCards,     \* bound on the cards found on the bus
    MaxBoards     \* MAXBOARDS, the length of ExcDevice

VARIABLES
    phase,        \* how far loading has come
    found,        \* ExcDevice: kinds of the cards found, in order
    bars,         \* lengths of the base address registers of each card
    ids,          \* board id switch of each card
    cur,          \* the card being initialised
    dev,          \* what each card holds
    chrdev,       \* the major number is registered
    proc,         \* the entry under /proc exists
    maps          \* pages mapped by processes: card asked for, bar, page

LoadVars == <<phase, found, bars, ids, cur, dev, chrdev, proc, maps>>

GLOBAL == 4
DMA == 9
MAX_BANKS == 16
EXC_4000PCI == 25
EXC_1553PCIPX == 29

\* A bank: its base address register, offset and length.
Bank(bar, off, len) == [bar |-> bar, off |-> off, len |-> len]

\* Physical addresses from 0 on, which no base address register holds: where
\* a slot of the table of banks points that is not in use, with length 0.
PHYSICAL == 6
Unused == Bank(PHYSICAL, 0, 0)

\* Mutant of Modules128K: module 5 at the offset of module 4.
Modules128KTwice(n) == [i \in 0..(n - 1) |-> Bank(0, 32 * (IF i = 5 THEN 4 ELSE i), 32)]

Modules128K(n) == [i \in 0..(n - 1) |-> Bank(0, 32 * i, 32)]

\* Modules 4 to 7 of an expanded card follow the bank of global registers.
Skip4(f) == [i \in {IF j < 4 THEN j ELSE j + 1 : j \in DOMAIN f} |->
               f[IF i < 4 THEN i ELSE i - 1]]

\* The banks 0, 1, ... of a sequence.
Banks(s) == [i \in 0..(Len(s) - 1) |-> s[i + 1]]

With(f, i, b) == [j \in DOMAIN f \cup {i} |-> IF j = i THEN b ELSE f[j]]
WithRegisters(f, gbar, dbar) == With(With(f, GLOBAL, Bank(gbar, 0, 1)), DMA, Bank(dbar, 0, 1))

\* Lengths a card's memory may have; the first is the one of the hardware.
Lengths ==
    [c4000 |-> <<128, 256, 64>>, pcie |-> <<256, 128, 64>>, c807 |-> <<16384, 256>>,
     eth |-> <<65536>>, afdx |-> <<65536>>, c1394 |-> <<2048, 1024>>, e1394 |-> <<2048, 1024>>,
     pcipx |-> <<8>>, amcc |-> <<8>>]

ASSUME KindsAssumption == Kinds \subseteq DOMAIN Lengths

\* ExcFindResources, by kind: the banks laid out when the memory has length
\* len; the empty function where the length is refused.
Layout4000(len) ==
    CASE len = 128 -> Modules128K(4) [] len = 256 -> Skip4(Modules128K(8)) [] OTHER -> <<>>

Layout807(len) == IF len = 16384 THEN WithRegisters(Skip4(Modules128K(8)), 4, 2) ELSE <<>>

LayoutETH ==
    WithRegisters(Banks(<<Bank(0, 0, 32704), Bank(0, 32704, 32), Bank(0, 32736, 32),
                          Bank(0, 32768, 32704)>>), 2, 4)

LayoutAFDX ==
    LET both == Banks(<<Bank(4, 0, 4096), Bank(4, 4096, 28672),
                        Bank(4, 32768, 4096), Bank(4, 36864, 28672)>>)
        all == With(With(both, 5, Bank(0, 128, 32)), 6, Bank(0, 160, 32))
    IN  With(With(all, GLOBAL, Bank(2, 0, 1)), DMA, Bank(2, 1, 1))

Layout1394(len) == IF len = 2048 THEN [i \in 0..2 |-> Bank(0, 512 * i, 512)] ELSE <<>>

LayoutPCIPX == [i \in 0..GLOBAL |-> IF i = GLOBAL THEN Bank(0, 0, 1) ELSE Bank(i + 1, 0, 8)]

Layout(kind, len) ==
    CASE kind \in {"c4000", "c1394"} ->
            LET f == IF kind = "c4000" THEN Layout4000(len) ELSE Layout1394(len)
            IN  IF f = <<>> THEN f ELSE With(f, GLOBAL, Bank(IF kind = "c4000" THEN 1 ELSE 2, 0, 1))
      [] kind \in {"pcie", "e1394"} ->
            LET f == IF kind = "pcie" THEN Layout4000(len) ELSE Layout1394(len)
            IN  IF f = <<>> THEN f ELSE WithRegisters(f, 2, 4)
      [] kind = "c807" -> Layout807(len)
      [] kind = "eth" -> LayoutETH
      [] kind = "afdx" -> LayoutAFDX
      [] kind = "pcipx" -> LayoutPCIPX
      [] kind = "amcc" -> [i \in 0..3 |-> Bank(i + 1, 0, 8)]

\* The base address registers of the hardware: the memory has length len.
Bars(kind, len) ==
    CASE kind \in {"c4000"} -> [b \in 0..1 |-> IF b = 0 THEN len ELSE 1]
      [] kind \in {"pcie", "c807", "eth", "c1394", "e1394"} ->
            [b \in {0, 2, 4} |-> IF b = 0 THEN len ELSE 1]
      [] kind = "afdx" -> [b \in {0, 2, 4} |-> CASE b = 0 -> 256 [] b = 2 -> 2 [] OTHER -> len]
      [] kind = "pcipx" -> [b \in 0..4 |-> IF b = 0 THEN 1 ELSE len]
      [] kind = "amcc" -> [b \in 1..4 |-> len]

\* A wrong length is an error, except on a 1394 card: FALSE is success.
Refused(kind, banks) == banks = <<>> /\ kind \notin {"c1394", "e1394"}
HasDma(kind) == kind \in {"pcie", "c807", "eth", "afdx", "e1394"}
Is4000(kind) == kind \in {"c4000", "pcie", "c807", "eth", "afdx"}

Nothing == [banks |-> <<>>, mapped |-> {}, irq |-> FALSE, usingIRQ |-> FALSE,
            buffer |-> FALSE, socket |-> 0]
FoundCards == 1..Len(found)

\* ExcGetOurPCIDevices looks for the kinds in this order.
SearchOrder == <<"c4000", "pcie", "afdx", "eth", "c1394", "e1394", "c807">>
Before(k, l) == \E i, j \in DOMAIN SearchOrder : i <= j /\ SearchOrder[i] = k /\ SearchOrder[j] = l

(***************************************************************************)
(* exc_init_module.                                                        *)
(***************************************************************************)
\* The table is cleared, the entry under /proc made, the cards looked for
\* (ExcGetOurPCIDevices); without one the module does not load.
exc_init_module ==
    /\ phase = "unloaded"
    /\ proc' = TRUE
    /\ phase' = IF found = <<>> THEN "failed" ELSE "find"
    /\ cur' = 1
    /\ UNCHANGED <<found, bars, ids, dev, chrdev, maps>>

\* Banks, then whether the card has an interrupt.
ExcFindResources ==
    /\ phase = "find"
    /\ LET banks == Layout(found[cur], bars[cur])
       IN  \/ /\ Refused(found[cur], banks)
              /\ phase' = "failed" /\ UNCHANGED dev
           \/ /\ ~Refused(found[cur], banks)
              /\ \E uses \in BOOLEAN : (banks = <<>> => ~uses) /\
                    dev' = [dev EXCEPT ![cur] = [@ EXCEPT !.banks = banks, !.usingIRQ = uses]]
              /\ phase' = "map"
    /\ UNCHANGED <<found, bars, ids, cur, chrdev, proc, maps>>

\* ExcInitResources maps the banks in order; the first that cannot be mapped
\* ends it with an error.
MapBanks ==
    /\ phase = "map"
    /\ LET all == DOMAIN dev[cur].banks
       IN  \/ dev' = [dev EXCEPT ![cur] =
                        [@ EXCEPT !.mapped = all,
                                  !.socket = IF Is4000(found[cur]) THEN ids[cur] ELSE 0]]
              /\ phase' = "hook"
           \/ \E bad \in all : /\ dev' = [dev EXCEPT ![cur] = [@ EXCEPT !.mapped = {i \in all : i < bad}]]
                               /\ phase' = "failed"
    /\ UNCHANGED <<found, bars, ids, cur, chrdev, proc, maps>>

\* request_irq; on failure the card goes on without.
HookIrq ==
    /\ phase = "hook"
    /\ \/ ~dev[cur].usingIRQ /\ UNCHANGED dev
       \/ /\ dev[cur].usingIRQ
          /\ \E ok \in BOOLEAN : dev' = [dev EXCEPT ![cur] = [@ EXCEPT !.irq = ok, !.usingIRQ = ok]]
    /\ phase' = "buffer"
    /\ UNCHANGED <<found, bars, ids, cur, chrdev, proc, maps>>

\* The DMA buffer, whose allocation is not checked; then the next card.
AllocBuffer ==
    /\ phase = "buffer"
    /\ \E ok \in BOOLEAN : dev' = [dev EXCEPT ![cur] = [@ EXCEPT !.buffer = HasDma(found[cur]) /\ ok]]
    /\ IF cur < Len(found) THEN cur' = cur + 1 /\ phase' = "find"
       ELSE cur' = cur /\ phase' = "register"
    /\ UNCHANGED <<found, bars, ids, chrdev, proc, maps>>

ExcAllocateMajorNumber ==
    /\ phase = "register"
    /\ \/ chrdev' = TRUE /\ phase' = "loaded"
       \/ chrdev' = FALSE /\ phase' = "failed"
    /\ UNCHANGED <<found, bars, ids, cur, dev, proc, maps>>

(***************************************************************************)
(* exc_cleanup_module.                                                     *)
(***************************************************************************)
\* Mutant of exc_cleanup_module: the banks are unmapped with the interrupt.
exc_cleanup_moduleIrq ==
    /\ phase = "loaded"
    /\ phase' = "removed" /\ chrdev' = FALSE /\ proc' = FALSE
    /\ maps' = {}
    /\ dev' = [c \in FoundCards |->
                 IF dev[c].usingIRQ THEN Nothing
                 ELSE [dev[c] EXCEPT !.buffer = FALSE]]
    /\ UNCHANGED <<found, bars, ids, cur>>

\* The interrupt is freed where it is used, the banks that have an address
\* unmapped, the buffer freed where it has one.  The processes have closed
\* the device, and with it their mappings have ended.
exc_cleanup_module ==
    /\ phase = "loaded"
    /\ phase' = "removed" /\ chrdev' = FALSE /\ proc' = FALSE
    /\ maps' = {}
    /\ dev' = [c \in FoundCards |->
                 [dev[c] EXCEPT !.irq = @ /\ ~dev[c].usingIRQ,
                                !.mapped = @ \ DOMAIN dev[c].banks,
                                !.buffer = FALSE]]
    /\ UNCHANGED <<found, bars, ids, cur>>

(***************************************************************************)
(* open, GETBANKINFO and mmap.                                             *)
(***************************************************************************)
\* The first card whose number is the minor number; the special minors name
\* the first card of a type.
mGetCardFromMinorNumberInt(minor) ==
    LET match == {c \in FoundCards :
                    CASE minor = EXC_4000PCI -> Is4000(found[c])
                      [] minor = EXC_1553PCIPX -> found[c] = "pcipx"
                      [] OTHER -> dev[c].socket = minor}
    IN  {c \in match : \A d \in match : c <= d}

\* The table of banks as the loop over MAX_BANKS finds it.
Slot(c, i) == IF i \in DOMAIN dev[c].banks THEN dev[c].banks[i] ELSE Unused

\* No slot counts as shorter than a page.
Pages(b) == IF b.len = 0 THEN 1 ELSE b.len

\* Every page of the range lies in some slot of the card, in use or not.
exc_range_is_allowed(c, bar, first, n) ==
    \A page \in first..(first + n - 1) :
       \E i \in 0..(MAX_BANKS - 1) :
          LET b == Slot(c, i)
          IN  b.bar = bar /\ page >= b.off /\ page + 1 <= b.off + Pages(b)

\* One or two pages, about the ends of a slot.
ExcMmap ==
    /\ phase = "loaded" /\ maps = {}
    /\ \E minor \in {EXC_4000PCI, EXC_1553PCIPX, 0, 1} : \E c \in mGetCardFromMinorNumberInt(minor) :
         \E i \in 0..(MAX_BANKS - 1), n \in 1..2 :
            LET b == Slot(c, i)
            IN  \E first \in {b.off, b.off + Pages(b) - 1, b.off + Pages(b)} :
                   /\ exc_range_is_allowed(c, b.bar, first, n)
                   /\ maps' = {[card |-> c, bar |-> b.bar, page |-> p] : p \in first..(first + n - 1)}
    /\ UNCHANGED <<phase, found, bars, ids, cur, dev, chrdev, proc>>

\* Up to MaxCards cards on the bus; of a PCIPX or a 429 card only one is
\* looked for.
LoadInit ==
    /\ phase = "unloaded" /\ cur = 1 /\ chrdev = FALSE /\ proc = FALSE /\ maps = {}
    /\ \E n \in 0..MaxCards : found \in [1..n -> Kinds]
    /\ Len(found) <= MaxBoards
    /\ \/ Len(found) = 1
       \/ \A c, d \in FoundCards : c <= d => Before(found[c], found[d])
    /\ bars \in [FoundCards -> UNION {{Lengths[k][j] : j \in DOMAIN Lengths[k]} : k \in Kinds}]
    /\ \A c \in FoundCards : \E j \in DOMAIN Lengths[found[c]] : bars[c] = Lengths[found[c]][j]
    /\ ids \in [FoundCards -> 0..1]
    /\ dev = [c \in FoundCards |-> Nothing]

LoadNext ==
    \/ exc_init_module \/ ExcFindResources \/ MapBanks \/ HookIrq \/ AllocBuffer
    \/ ExcAllocateMajorNumber \/ exc_cleanup_module \/ ExcMmap

LoadSpec == LoadInit /\ [][LoadNext]_LoadVars

(***************************************************************************)
(* Properties.                                                             *)
(***************************************************************************)
\* The types of the device table.
BankTables == {<<>>} \cup {Layout(found[c], bars[c]) : c \in FoundCards}
Card == [banks : BankTables, mapped : SUBSET (UNION {DOMAIN t : t \in BankTables}),
         irq : BOOLEAN, usingIRQ : BOOLEAN, buffer : BOOLEAN, socket : Nat]
LoadTypeOK ==
    /\ found \in Seq(Kinds) /\ ids \in [FoundCards -> Nat]
    /\ phase \in {"unloaded", "find", "map", "hook", "buffer", "register", "loaded",
                  "removed", "failed"}
    /\ cur \in Nat \ {0} /\ chrdev \in BOOLEAN /\ proc \in BOOLEAN
    /\ phase \in {"find", "map", "hook", "buffer"} => cur \in FoundCards
    /\ dev \in [FoundCards -> Card]

\* Whatever failed on the way to a loaded driver, unloading it returns all it
\* took from the kernel: no interrupt stays hooked, no bank mapped, no buffer
\* allocated, no entry under /proc.
NothingLeft ==
    phase = "removed" =>
       /\ ~chrdev /\ ~proc
       /\ \A c \in FoundCards : dev[c].mapped = {} /\ ~dev[c].irq /\ ~dev[c].buffer

\* The banks of every card lie inside the memory the card has and do not
\* overlap, and what a process maps is memory of the card it opened, or page 0
\* of physical memory: a slot of the table that is not in use admits that one
\* page, and no other.
BanksFit ==
    \A c \in FoundCards :
       LET banks == dev[c].banks
       IN  /\ \A i \in DOMAIN banks :
                 /\ banks[i].bar \in DOMAIN Bars(found[c], bars[c])
                 /\ banks[i].off + banks[i].len <= Bars(found[c], bars[c])[banks[i].bar]
           /\ \A i, j \in DOMAIN banks :
                 \/ i = j \/ banks[i].bar # banks[j].bar
                 \/ banks[i].off + banks[i].len <= banks[j].off
                 \/ banks[j].off + banks[j].len <= banks[i].off
           /\ \A m \in maps : m.card = c =>
                 \/ m.bar = PHYSICAL /\ m.page = 0
                 \/ /\ m.bar \in DOMAIN Bars(found[c], bars[c])
                    /\ m.page \in 0..(Bars(found[c], bars[c])[m.bar] - 1)
=============================================================================

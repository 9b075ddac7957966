------------------------------ MODULE MCDriver ------------------------------
(***************************************************************************)
(* The kernel driver for TLC: interrupts and the processes that wait for   *)
(* them, the DMA queue, and loading and unloading.  The three have no      *)
(* state in common; a behaviour explores one ("part").                     *)
(***************************************************************************)
EXTENDS DriverIrq, DriverDma, DriverLoad

VARIABLE part       \* the part explored in this behaviour

DriverInit ==
    /\ part \in {"irq", "dma", "load"}
    /\ IrqInit /\ (part = "irq" \/ cardType = CHOOSE c \in CardTypes : TRUE)
    /\ DmaInit /\ (part = "dma" \/ subtype = CHOOSE b \in Boards : TRUE)
    /\ LoadInit /\ (part = "load" \/ found = <<>>)
DriverNext ==
    /\ UNCHANGED part
    /\ \/ part = "irq" /\ IrqNext /\ UNCHANGED <<DmaVars, LoadVars>>
       \/ part = "dma" /\ DmaNext /\ UNCHANGED <<IrqVars, LoadVars>>
       \/ part = "load" /\ LoadNext /\ UNCHANGED <<IrqVars, DmaVars>>
DriverSpec == DriverInit /\ [][DriverNext]_<<part, IrqVars, DmaVars, LoadVars>>

\* Processes are interchangeable, and so are modules.
DriverSymmetry == Permutations(Procs) \cup Permutations(Mods)
=============================================================================

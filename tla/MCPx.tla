-------------------------------- MODULE MCPx --------------------------------
(***************************************************************************)
(* The Px library for TLC.  No two of its models have state in common, so  *)
(* a behaviour explores one part ("part") while the variables of the       *)
(* others keep one initial value each.                                     *)
(***************************************************************************)
EXTENDS PxRunning, PxMessages, PxSettings, PxMode, PxMon, PxTransfer, PxHandles

VARIABLE part       \* the part explored in this behaviour

\* Four message blocks a few messages long; two words of registers lie
\* between the second and the third.
MCBlocks == << [base |-> 1, size |-> 6], [base |-> 7, size |-> 9],
               [base |-> 18, size |-> 5], [base |-> 23, size |-> 6] >>
MCCards == {[small |-> TRUE, expanded |-> FALSE, img250 |-> FALSE],
            [small |-> FALSE, expanded |-> FALSE, img250 |-> TRUE],
            [small |-> FALSE, expanded |-> TRUE, img250 |-> FALSE]}
\* Every type, word counts of one and two, and one command word whose T/R
\* bit is wrong for its type.
MCCommands ==
    {[type |-> RT2BC, d0 |-> 1025, d1 |-> 0], [type |-> BC2RT, d0 |-> 2, d1 |-> 0],
     [type |-> RT2RT, d0 |-> 1, d1 |-> 1025], [type |-> MODE, d0 |-> 17, d1 |-> 0],
     [type |-> BRD_RCV, d0 |-> 2, d1 |-> 0], [type |-> BRD_RT2RT, d0 |-> 1, d1 |-> 1025],
     [type |-> BRD_MODE, d0 |-> 1026, d1 |-> 0], [type |-> MINOR_FRAME, d0 |-> 0, d1 |-> 0],
     [type |-> BC2RT, d0 |-> 1026, d1 |-> 0]}
\* Two frames; message 2 is in both.
MCStack == <<1, 2, 2, 3>>
MCFrameTable == << [first |-> 1, msgcnt |-> 2], [first |-> 3, msgcnt |-> 2] >>
\* All of a frame, one message, more than it has, and a negative count.
MCCounts == {-1, 0, 1, 3}

MCModules == {[proc |-> "AMD", single |-> FALSE, img250 |-> FALSE],
              [proc |-> "NIOS", single |-> FALSE, img250 |-> FALSE],
              [proc |-> "NIOS", single |-> TRUE, img250 |-> FALSE],
              [proc |-> "INTEL", single |-> FALSE, img250 |-> TRUE]}
MCModes == {"BC_RT", "RT", "MON_BLOCK", "MON_LOOKUP"}
\* Both ends of what each routine accepts, and where a multiplier changes.
MCGiven ==
    [resptime |-> {1999, 2000, 12000, 12001, 32000, 32001},
     amplitude |-> {0, 29, 7650, 7679, 7680}, rtresp |-> {4000, 9000, 12000, 43679},
     ttagres |-> {3, 4, 5, 6, 1023, 1024, 1025},
     frame |-> {1, 10157, 10158, 700000, 665714687},
     gap |-> {20, 10158, 29999, 30000, 83204178, 83214336},
     minor |-> {1, 65535, 65536, 200000, 2147483647},
     counter |-> {1, 255, 256, 832, 65535}]
MCModeModules == {[nios |-> TRUE, monOnly |-> FALSE], [nios |-> TRUE, monOnly |-> TRUE],
                  [nios |-> FALSE, monOnly |-> FALSE]}

\* Every reader; those that can copy by DMA both ways; triggers where the
\* reader waits for one; a ring longer than the 32-bit reader's.
Setup(who, dma, ignore, trigger) ==
    [who |-> who, dma |-> dma, ignore |-> ignore, trig |-> trigger, long |-> FALSE]
LongRing(setup) == [setup EXCEPT !.long = TRUE]
Plain(who) == Setup(who, FALSE, FALSE, "none")
MCReaders ==
    {Plain(who) : who \in {"nios", "old", "wide", "irig", "bcm", "new", "get"}}
    \cup {Setup(who, TRUE, FALSE, "none") : who \in {"nios", "old", "rtm"}}
    \cup {Setup("nios", FALSE, FALSE, "only"), Setup("nios", FALSE, FALSE, "after"),
          Setup("old", FALSE, FALSE, "after"), Setup("nios", FALSE, TRUE, "none"),
          Setup("wide", FALSE, FALSE, "after"), LongRing(Plain("wide"))}

MCOffsets == 0..8
MCModuleNums == {0, 4, 20, 100, 101}

Parts == {"messages", "running", "settings", "mode", "mon", "transfer", "handles"}
PxVars == <<part, MsgVars, RunVars, SetVars, ModeVars, MonVars, TransferVars, HandleVars>>

PxInit ==
    /\ part \in Parts
    /\ RunInit /\ HandleInit
    /\ MsgInit /\ (part = "messages" \/ card = CHOOSE c \in Cards : TRUE)
    /\ SetInit /\ (part = "settings" \/ <<module, mode>> = CHOOSE c \in Modules \X Modes : TRUE)
    /\ ModeInit /\ (part = "mode" \/ modeModule = CHOOSE c \in ModeModules : TRUE)
    /\ MonInit /\ (part = "mon" \/ reader = CHOOSE r \in Readers : TRUE)
    /\ TransferInit
    /\ part = "transfer" \/ req = [long |-> FALSE, write |-> FALSE, afdx |-> FALSE,
                                   code |-> 0, off |-> 0, len |-> 2]
PxNext ==
    /\ UNCHANGED part
    /\ \/ /\ part = "messages" /\ MsgNext
          /\ UNCHANGED <<RunVars, SetVars, ModeVars, MonVars, TransferVars, HandleVars>>
       \/ /\ part = "running" /\ RunNext
          /\ UNCHANGED <<MsgVars, SetVars, ModeVars, MonVars, TransferVars, HandleVars>>
       \/ /\ part = "settings" /\ SetNext
          /\ UNCHANGED <<MsgVars, RunVars, ModeVars, MonVars, TransferVars, HandleVars>>
       \/ /\ part = "mode" /\ ModeNext
          /\ UNCHANGED <<MsgVars, RunVars, SetVars, MonVars, TransferVars, HandleVars>>
       \/ /\ part = "mon" /\ MonNext
          /\ UNCHANGED <<MsgVars, RunVars, SetVars, ModeVars, TransferVars, HandleVars>>
       \/ /\ part = "transfer" /\ TransferNext
          /\ UNCHANGED <<MsgVars, RunVars, SetVars, ModeVars, MonVars, HandleVars>>
       \/ /\ part = "handles" /\ HandleNext
          /\ UNCHANGED <<MsgVars, RunVars, SetVars, ModeVars, MonVars, TransferVars>>
PxSpec == PxInit /\ [][PxNext]_PxVars
=============================================================================

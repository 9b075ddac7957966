------------------------------- MODULE PxMon -------------------------------
(***************************************************************************)
(* The bus monitor of the Px library: the module's firmware writes each    *)
(* message of the bus into the next block of a ring in dual-port memory,   *)
(* the program reads them out with one of the library's readers while the  *)
(* firmware goes on.  The only handshake is the END_OF_MSG bit of a        *)
(* block's status, the time tags and the firmware's message count.         *)
(*                                                                         *)
(* A message is its number, which stands for its time tag (tag), for its   *)
(* data words (words) and, counting the stored ones only, for its message  *)
(* counter (cnt).  A reader copies a block head first, so a copy may mix   *)
(* two messages.  The firmware is external: it is modelled from what the   *)
(* readers' tests and comments say of it.  Time tags and counters do not   *)
(* wrap within the bound.                                                  *)
(***************************************************************************)
EXTENDS Naturals, Sequences, FiniteSets, SequencesExt

CONSTANTS
    MonBlocks,      \* lastblock, blocks of the ring
    OldBlocks,      \* MAXMONBLOCKS_OLD, blocks of a ring in the regular mode
    BankEnds,       \* last block of each bank of the ring
    CacheBlocks,    \* MAX_NUMBER_BLOCKS_IN_DMA_READ, fewer than the ring's
    Readers,        \* of [who, dma, ignore, trig, long]: the reader the program uses,
                    \* whether it copies by DMA, ignoreoverrun, trig_ctl, one of "none",
                    \* "only" (STORE_ONLY) and "after" (STORE_AFTER), and whether the
                    \* ring is that of a mode with more blocks than the regular one
    MaxMonMsgs,     \* bound on the messages on the bus
    MaxMonRuns      \* bound on the times the monitor is started

ReaderSetups ==
    [who : {"old", "wide", "nios", "irig", "bcm", "rtm", "new", "get"},
     dma : BOOLEAN, ignore : BOOLEAN, trig : {"none", "only", "after"}, long : BOOLEAN]

ASSUME MonRingAssumption ==
    /\ MonBlocks \in Nat /\ CacheBlocks \in Nat \ {0} /\ CacheBlocks < MonBlocks
    /\ MonBlocks - 1 \in BankEnds /\ BankEnds \subseteq 0..(MonBlocks - 1)
    /\ OldBlocks \in 1..MonBlocks
\* The 32-bit reader has no DMA.
ASSUME ReadersAssumption ==
    Readers \subseteq ReaderSetups /\ \A r \in Readers : r.who = "wide" => ~r.dma

VARIABLES
    reader,           \* the reader in use and how the monitor is set up
    ring,             \* the blocks in dual-port memory
    fw,               \* firmware: block it is at, messages seen and stored, armed
    start,            \* bit 0 of the start register
    nextblock,        \* nextblock or next_MON_entry of the handle
    lastmsgttag,      \* time tag of the last message handed over
    lastCountRead,    \* count up to which the block reader has read
    wait_for_trigger,
    dmaBuffer,        \* the copy made by DMA: valid, first and last block, copies
    lcl,              \* messages of mBufManagement.buffer not handed over yet
    rd,               \* the call in progress
    pend,             \* history: stored, not handed over, not cleared
    out,              \* history: the message just handed over
    past              \* history: what went wrong so far

MonVars == <<reader, ring, fw, start, nextblock, lastmsgttag, lastCountRead,
             wait_for_trigger, dmaBuffer, lcl, rd, pend, out, past>>
Host == <<nextblock, lastmsgttag, lastCountRead, wait_for_trigger, dmaBuffer, lcl>>

BlockNums == 0..(MonBlocks - 1)
Empty == [eom |-> FALSE, trig |-> FALSE, tag |-> 0, words |-> 0, cnt |-> 0]
NoOut == [tag |-> 0, words |-> 0, prev |-> 0, due |-> 0, again |-> FALSE]
Resting == [pc |-> "idle", blk |-> 0, copy |-> Empty, first |-> 0, cc |-> 0,
            bufs |-> <<>>, again |-> FALSE, old |-> FALSE]
\* The last block of the bank b is in.
BankEnd(b) == CHOOSE e \in BankEnds : /\ b <= e
                                      /\ \A f \in BankEnds : b <= f => e <= f
\* Head and tail of a block, copied over what the copy holds.
Head1(c, b) == [c EXCEPT !.eom = b.eom, !.trig = b.trig, !.tag = b.tag]
Tail1(c, b) == [c EXCEPT !.words = b.words, !.cnt = b.cnt]
Sequential == reader.who \in {"old", "wide", "nios", "irig", "new", "get"}
OldReader == reader.who \in {"old", "wide"}
HALTED == ~start /\ ~fw.writing

(***************************************************************************)
(* The firmware (external).                                                *)
(***************************************************************************)
\* A message starts: its block's status is zero until it has ended.  The ring
\* is lapped when the block holds the oldest message not handed over.
FwBegin ==
    /\ start /\ ~fw.writing /\ fw.n < MaxMonMsgs
    /\ fw' = [fw EXCEPT !.writing = TRUE, !.n = @ + 1]
    /\ ring' = [ring EXCEPT ![fw.blk] =
           [eom |-> FALSE, trig |-> FALSE, tag |-> fw.n + 1, words |-> fw.n + 1,
            cnt |-> ring[fw.blk].cnt]]
    /\ past' = [past EXCEPT !.lapped = @ \/ Len(pend) >= MonBlocks]
    /\ UNCHANGED <<reader, start, Host, rd, pend>>
    /\ out' = NoOut
\* It ends.  While the firmware waits for a trigger a message without one is
\* not stored: the next is written over it.
FwEnd(triggered) ==
    /\ fw.writing
    /\ triggered => reader.trig # "none"
    /\ ring' = [ring EXCEPT ![fw.blk] =
           [@ EXCEPT !.eom = TRUE, !.trig = triggered, !.cnt = fw.stored]]
    /\ rd' = [rd EXCEPT !.again = @ \/ (OldReader /\ rd.pc # "idle" /\ fw.blk = rd.blk)]
    /\ IF fw.armed /\ ~triggered
       THEN /\ fw' = [fw EXCEPT !.writing = FALSE]
            /\ UNCHANGED <<pend, past>>
       ELSE /\ fw' = [fw EXCEPT !.writing = FALSE, !.stored = @ + 1,
                                !.blk = (@ + 1) % MonBlocks,
                                !.armed = @ /\ reader.trig # "after"]
            /\ pend' = Append(pend, fw.n)
            /\ past' = [past EXCEPT !.lapped = @ \/ /\ reader.who = "new"
                                                    /\ Len(pend) + 1 >= MonBlocks]
    /\ UNCHANGED <<reader, start, Host>>
    /\ out' = NoOut

(***************************************************************************)
(* Starting, stopping and clearing.                                        *)
(***************************************************************************)
\* Run_MON_Px of a halted module; of any other it ends in etimeout.  Where
\* the firmware writes next does not change.
Run_MON_Px ==
    /\ Sequential /\ rd.pc = "idle" /\ HALTED /\ past.runs < MaxMonRuns
    /\ wait_for_trigger' = (reader.trig # "none")
    /\ lastmsgttag' = 0
    /\ start' = TRUE
    /\ fw' = [fw EXCEPT !.armed = reader.trig # "none"]
    /\ past' = [past EXCEPT !.handed = 0, !.runs = @ + 1]
    /\ UNCHANGED <<reader, ring, nextblock, lastCountRead, dmaBuffer, lcl, rd,
                   pend>>
    /\ out' = NoOut
Stop_Px ==
    /\ Sequential /\ rd.pc = "idle" /\ start
    /\ start' = FALSE
    /\ UNCHANGED <<reader, ring, fw, Host, rd, pend, past>>
    /\ out' = NoOut
\* Clear_Msg_Blks_Px stops the module and waits for it to halt ...
Clear_Msg_Blks_Px ==
    /\ Sequential /\ rd.pc = "idle"
    /\ start' = FALSE
    /\ rd' = [rd EXCEPT !.pc = "clear", !.old = start]
    /\ UNCHANGED <<reader, ring, fw, Host, pend, past>>
    /\ out' = NoOut
\* ... clears the ring, goes on where the firmware will write next, and puts
\* the start register back.  The DMA copy and the local buffer stay.
ClearBlocks ==
    /\ rd.pc = "clear" /\ HALTED
    /\ ring' = [b \in BlockNums |-> Empty]
    /\ nextblock' = fw.blk
    /\ start' = rd.old
    /\ rd' = Resting
    /\ pend' = <<>>
    /\ past' = [past EXCEPT !.cleared = fw.n]
    /\ UNCHANGED <<reader, fw, lastmsgttag, lastCountRead, wait_for_trigger,
                   dmaBuffer, lcl>>
    /\ out' = NoOut

(***************************************************************************)
(* What the readers have in common.                                        *)
(***************************************************************************)
\* A call returns with nothing.
Returns == /\ rd' = Resting
           /\ UNCHANGED pend
           /\ out' = NoOut
\* What is left of the tags of s when message c is handed over: the newer ones.
NewerThan(c, s) ==
    LET k == CHOOSE k \in 0..Len(s) :
                \A i \in 1..Len(s) : i > k <=> s[i] > c.tag /\ s[i] > c.words
    IN SubSeq(s, k + 1, Len(s))
\* A call hands message c over.
HandsOver(c) ==
    /\ rd' = Resting
    /\ out' = [tag |-> c.tag, words |-> c.words, prev |-> past.handed,
               due |-> IF pend = <<>> THEN 0 ELSE Head(pend),
               again |-> rd.again]
    /\ pend' = NewerThan(c, pend)
\* The time tag went back: messages of the next lap were read before.
WentBackNever(c) == FALSE
WentBack(c) == reader.who # "irig" /\ c.tag < lastmsgttag /\ ~reader.ignore
\* With a trigger pending only a message that carries it counts.
Untriggered(c) == Sequential /\ wait_for_trigger /\ ~c.trig
TriggerSeen(c) == wait_for_trigger' = (wait_for_trigger /\ ~(c.trig /\ reader.trig = "after"))
\* What Get_Next_Mon_Message_Px does with a copy that has its END_OF_MSG bit:
\* it is refused, passed over or handed over.  Only the last moves on.
Judge(c) ==
    \/ /\ WentBack(c)
       /\ past' = [past EXCEPT !.refused = c.tag,
                               !.twice = @ \/ past.refused = c.tag]
       /\ Returns
       /\ UNCHANGED <<nextblock, lastmsgttag, wait_for_trigger>>
    \/ /\ ~WentBack(c)
       /\ lastmsgttag' = IF reader.who = "irig" THEN lastmsgttag ELSE c.tag
       /\ \/ /\ Untriggered(c)
             /\ Returns
             /\ UNCHANGED <<nextblock, wait_for_trigger, past>>
          \/ /\ ~Untriggered(c)
             /\ TriggerSeen(c)
             /\ HandsOver(c)
             /\ nextblock' = (nextblock + 1) % MonBlocks
             /\ past' = [past EXCEPT !.handed = c.tag]

(***************************************************************************)
(* Reading one block from dual-port memory.                                *)
(***************************************************************************)
\* The reader is called and takes nextblock round the ring: the 32-bit reader
\* round the regular one, however many blocks there are.  With DMA the block is
\* looked for in the copy first: Get_DmaMonBlockCopy_Px.
CutShort == reader.who = "wide" /\ reader.long
CallReader(who) ==
    /\ reader.who = who /\ rd.pc = "idle"
    /\ nextblock' = nextblock % (IF CutShort THEN OldBlocks ELSE MonBlocks)
    /\ rd' = [Resting EXCEPT !.pc = IF reader.dma THEN "cache" ELSE "head",
                             !.blk = nextblock']
    /\ UNCHANGED <<reader, ring, fw, start, lastmsgttag, lastCountRead,
                   wait_for_trigger, dmaBuffer, lcl, pend, past>>
    /\ out' = NoOut
Get_Next_Mon_Message_Px == CallReader("nios")
Get_Next_Mon_IRIG_Message_Px == CallReader("irig")
Get_Next_Message_BCM_Px == CallReader("bcm")
Get_Next_Message_RTM_Px == CallReader("rtm")
Get_Next_Message_Old_Px == CallReader("old")
Get_Next_Message_32Bit_Px == CallReader("wide")
\* Get_Message_Px reads the block it is asked for and leaves it as it is.
Get_Message_Px(b) ==
    /\ reader.who = "get" /\ rd.pc = "idle"
    /\ rd' = [Resting EXCEPT !.pc = "head", !.blk = b]
    /\ UNCHANGED <<reader, ring, fw, start, Host, pend, past>>
    /\ out' = NoOut

\* The copy's head; the old readers judge the time tag by it.
CopyHead ==
    /\ rd.pc = "head"
    /\ LET c == Head1(Empty, ring[rd.blk])
       IN \/ /\ OldReader /\ (~c.eom \/ WentBack(c))
             /\ Returns
             /\ UNCHANGED <<lastmsgttag, past>>
          \/ /\ OldReader => c.eom /\ ~WentBack(c)
             /\ lastmsgttag' = IF OldReader THEN c.tag ELSE lastmsgttag
             /\ rd' = [rd EXCEPT !.pc = "words", !.copy = c]
             /\ UNCHANGED <<pend, past>>
             /\ out' = NoOut
    /\ UNCHANGED <<reader, ring, fw, start, nextblock, lastCountRead,
                   wait_for_trigger, dmaBuffer, lcl>>
\* The rest of it.  A copy without END_OF_MSG is no message.
CopyWords ==
    /\ rd.pc = "words"
    /\ IF rd.copy.eom
       THEN /\ rd' = [rd EXCEPT !.pc = "check", !.copy = Tail1(@, ring[rd.blk])]
            /\ UNCHANGED pend
            /\ out' = NoOut
       ELSE Returns
    /\ UNCHANGED <<reader, ring, fw, start, Host, past>>
\* The head is read again; both copies must have the same status and time tag.
SameStatus(c, b) == c.eom = b.eom /\ c.trig = b.trig
SameHead(c, b) == c.eom = b.eom /\ c.trig = b.trig /\ c.tag = b.tag
CopyAgain ==
    /\ rd.pc = "check" /\ ~OldReader
    /\ IF SameHead(rd.copy, ring[rd.blk])
       THEN /\ rd' = [rd EXCEPT !.pc = "eom"]
            /\ UNCHANGED pend
            /\ out' = NoOut
       ELSE Returns
    /\ UNCHANGED <<reader, ring, fw, start, Host, past>>

\* END_OF_MSG is taken away in dual-port memory, then the message is judged.
ClearEom ==
    /\ rd.pc = "eom" /\ reader.who # "get" /\ ~OldReader
    /\ ring' = [ring EXCEPT ![rd.blk] = [@ EXCEPT !.eom = FALSE, !.trig = rd.copy.trig]]
    /\ Judge(rd.copy)
    /\ UNCHANGED <<reader, fw, start, lastCountRead, dmaBuffer, lcl>>
GetMessageEnds ==
    /\ rd.pc = "eom" /\ reader.who = "get"
    /\ HandsOver(rd.copy)
    /\ UNCHANGED <<reader, ring, fw, start, Host, past>>

\* The old readers take the status again after the words, and ask only that it
\* has END_OF_MSG; a message without the trigger keeps the bit.
OldStatusAgain ==
    /\ rd.pc = "check" /\ OldReader
    /\ LET b == IF reader.dma /\ dmaBuffer.valid THEN rd.copy ELSE ring[rd.blk]
           c == [rd.copy EXCEPT !.eom = b.eom, !.trig = b.trig]
       IN IF Untriggered(c) \/ ~c.eom
          THEN /\ Returns
               /\ UNCHANGED wait_for_trigger
          ELSE /\ rd' = [rd EXCEPT !.pc = "eom", !.copy = c]
               /\ TriggerSeen(c)
               /\ UNCHANGED pend
               /\ out' = NoOut
    /\ UNCHANGED <<reader, ring, fw, start, nextblock, lastmsgttag,
                   lastCountRead, dmaBuffer, lcl, past>>
\* Then the bit goes, in dual-port memory and in the DMA copy.
OldClearEom ==
    /\ rd.pc = "eom" /\ OldReader
    /\ ring' = [ring EXCEPT ![rd.blk] = [@ EXCEPT !.eom = FALSE, !.trig = rd.copy.trig]]
    /\ dmaBuffer' = IF reader.dma /\ dmaBuffer.valid
                    THEN [dmaBuffer EXCEPT !.data[rd.blk - dmaBuffer.begin].eom = FALSE]
                    ELSE dmaBuffer
    /\ HandsOver(rd.copy)
    /\ nextblock' = (nextblock + 1) % MonBlocks
    /\ past' = [past EXCEPT !.handed = rd.copy.tag, !.lapped = @ \/ rd.again]
    /\ UNCHANGED <<reader, fw, start, lastmsgttag, lastCountRead,
                   wait_for_trigger, lcl>>

(***************************************************************************)
(* The DMA copy.                                                           *)
(***************************************************************************)
\* Is block b in the copy, with its END_OF_MSG bit?
Cached(b) == /\ dmaBuffer.valid
             /\ b \in dmaBuffer.begin..dmaBuffer.end
             /\ dmaBuffer.data[b - dmaBuffer.begin].eom
\* A message from the copy goes to its reader's tests without another look at
\* dual-port memory.
FromCopy(c) ==
    \/ /\ ~c.eom
       /\ Returns
       /\ UNCHANGED <<nextblock, lastmsgttag, wait_for_trigger, past>>
    \/ /\ c.eom /\ ~OldReader
       /\ Judge(c)
    \/ /\ c.eom /\ OldReader /\ WentBack(c)
       /\ Returns
       /\ UNCHANGED <<nextblock, lastmsgttag, wait_for_trigger, past>>
    \/ /\ c.eom /\ OldReader /\ ~WentBack(c)
       /\ rd' = [rd EXCEPT !.pc = "check", !.copy = c]
       /\ lastmsgttag' = c.tag
       /\ UNCHANGED <<nextblock, wait_for_trigger, past, pend>>
       /\ out' = NoOut
\* The last block a fetch from block b takes: the buffer's size or the bank ends it.
FetchEnd(b) == IF b + CacheBlocks - 1 < BankEnd(b) THEN b + CacheBlocks - 1 ELSE BankEnd(b)
Get_DmaMonBlockCopy_Px ==
    /\ rd.pc = "cache"
    /\ \/ /\ Cached(rd.blk)
          /\ FromCopy(dmaBuffer.data[rd.blk - dmaBuffer.begin])
          /\ UNCHANGED dmaBuffer
       \/ /\ ~Cached(rd.blk)
          /\ rd' = [rd EXCEPT !.pc = "dma"]
          /\ dmaBuffer' = [dmaBuffer EXCEPT !.begin = rd.blk, !.end = FetchEnd(rd.blk)]
          /\ UNCHANGED <<nextblock, lastmsgttag, wait_for_trigger, past, pend>>
          /\ out' = NoOut
    /\ UNCHANGED <<reader, ring, fw, start, lastCountRead, lcl>>
Fetched == 0..(dmaBuffer.end - dmaBuffer.begin)
\* The transfer takes the blocks while the firmware may write them.
FetchHeads ==
    /\ rd.pc = "dma"
    /\ dmaBuffer' = [dmaBuffer EXCEPT !.data =
           [i \in DOMAIN @ |-> IF i \in Fetched THEN Head1(@[i], ring[dmaBuffer.begin + i])
                                ELSE @[i]]]
    /\ rd' = [rd EXCEPT !.pc = "dma2"]
    /\ UNCHANGED <<reader, ring, fw, start, nextblock, lastmsgttag,
                   lastCountRead, wait_for_trigger, lcl, pend, past>>
    /\ out' = NoOut
FetchWords ==
    /\ rd.pc = "dma2"
    /\ dmaBuffer' = [dmaBuffer EXCEPT !.valid = TRUE, !.data =
           [i \in DOMAIN @ |-> IF i \in Fetched THEN Tail1(@[i], ring[dmaBuffer.begin + i])
                                ELSE @[i]]]
    /\ rd' = [rd EXCEPT !.pc = "marks"]
    /\ UNCHANGED <<reader, ring, fw, start, nextblock, lastmsgttag,
                   lastCountRead, wait_for_trigger, lcl, pend, past>>
    /\ out' = NoOut
\* It may fail; the buffer then holds what an earlier one left there.
FetchFails ==
    /\ rd.pc = "dma"
    /\ dmaBuffer' = [dmaBuffer EXCEPT !.valid = FALSE]
    /\ rd' = [rd EXCEPT !.pc = "marks"]
    /\ past' = [past EXCEPT !.failed = TRUE]
    /\ UNCHANGED <<reader, ring, fw, start, nextblock, lastmsgttag,
                   lastCountRead, wait_for_trigger, lcl, pend>>
    /\ out' = NoOut
\* The END_OF_MSG bits of the leading messages of the buffer go in dual-port
\* memory, whether the transfer failed or not; then the first block's copy is
\* used, or the block is read directly.
LeadingMarked == {i \in Fetched : \A j \in 0..i : dmaBuffer.data[j].eom}
ClearFetched ==
    /\ rd.pc = "marks"
    /\ ring' = [b \in BlockNums |->
                  IF b - dmaBuffer.begin \in LeadingMarked THEN [ring[b] EXCEPT !.eom = FALSE]
                  ELSE ring[b]]
    /\ \/ /\ dmaBuffer.valid
          /\ FromCopy(dmaBuffer.data[0])
       \/ /\ ~dmaBuffer.valid
          /\ rd' = [rd EXCEPT !.pc = "head"]
          /\ UNCHANGED <<nextblock, lastmsgttag, wait_for_trigger, past, pend>>
          /\ out' = NoOut
    /\ UNCHANGED <<reader, fw, start, lastCountRead, dmaBuffer, lcl>>

(***************************************************************************)
(* The block reader: Get_Next_Message_New_Px and Read_Monitor_Block_Px.    *)
(* It goes by the firmware's message count and empties no block.           *)
(***************************************************************************)
\* With messages left in the buffer the next one is handed over.
NextOfBuffer ==
    /\ reader.who = "new" /\ rd.pc = "idle" /\ lcl # <<>>
    /\ HandsOver(Head(lcl))
    /\ lcl' = Tail(lcl)
    /\ past' = [past EXCEPT !.handed = Head(lcl).tag]
    /\ UNCHANGED <<reader, ring, fw, start, nextblock, lastmsgttag,
                   lastCountRead, wait_for_trigger, dmaBuffer>>
\* The count says what to read: what came since, or, when the ring has been
\* gone round, the whole ring from the block after the current one; in either
\* case no further than the end of the bank.
Overwritten(cc) == cc < lastCountRead \/ cc - lastCountRead >= MonBlocks
FirstEntry(cc) == IF Overwritten(cc) THEN (cc + 1) % MonBlocks ELSE lastCountRead % MonBlocks
ToRead(cc) ==
    LET wanted == IF Overwritten(cc) THEN MonBlocks ELSE cc - lastCountRead
        room == BankEnd(FirstEntry(cc)) - FirstEntry(cc) + 1
    IN IF wanted > room THEN room ELSE wanted
Read_Monitor_Block_Px ==
    /\ reader.who = "new" /\ rd.pc = "idle" /\ lcl = <<>>
    /\ fw.stored # lastCountRead
    /\ LET first == FirstEntry(fw.stored)
       IN rd' = [Resting EXCEPT !.pc = "block", !.cc = fw.stored, !.first = first,
                     !.bufs = [i \in 1..ToRead(fw.stored) |->
                                 Head1(Empty, ring[first + i - 1])]]
    /\ UNCHANGED <<reader, ring, fw, start, Host, pend, past>>
    /\ out' = NoOut
\* Messages overwritten before they were copied, their counters beyond what was
\* expected, are left out in front; from the first gap on they are left out
\* behind, with the last good one.
BaseCount == IF Overwritten(rd.cc) THEN rd.cc - (MonBlocks - 1) ELSE lastCountRead
GoodAt(s, i) == s[i].cnt < BaseCount + MonBlocks /\ s[i].eom
FollowsAt(s, i) == s[i].cnt = s[i - 1].cnt + 1 /\ s[i].eom
FirstGood(s) == CHOOSE i \in 1..(Len(s) + 1) : /\ i <= Len(s) => GoodAt(s, i)
                                              /\ \A j \in 1..(i - 1) : ~GoodAt(s, j)
FirstGap(s, i) == CHOOSE k \in (i + 1)..(Len(s) + 1) :
                     /\ k <= Len(s) => ~FollowsAt(s, k)
                     /\ \A j \in (i + 1)..(k - 1) : FollowsAt(s, j)
Intact(s) ==
    LET i == FirstGood(s)
    IN IF i > Len(s) THEN <<>>
       ELSE LET k == FirstGap(s, i)
            IN SubSeq(s, i, IF k > Len(s) THEN Len(s) ELSE k - 2)
BlockCopied ==
    /\ rd.pc = "block"
    /\ LET good == Intact([i \in DOMAIN rd.bufs |->
                              Tail1(rd.bufs[i], ring[rd.first + i - 1])])
       IN IF good = <<>>
          THEN /\ Returns
               /\ UNCHANGED <<lastCountRead, lcl, past>>
          ELSE /\ HandsOver(Head(good))
               /\ lcl' = Tail(good)
               /\ lastCountRead' = Last(good).cnt + 1
               /\ past' = [past EXCEPT !.handed = Head(good).tag]
    /\ UNCHANGED <<reader, ring, fw, start, nextblock, lastmsgttag,
                   wait_for_trigger, dmaBuffer>>

-----------------------------------------------------------------------------
MonInit ==
    /\ reader \in Readers
    /\ ring = [b \in BlockNums |-> Empty]
    /\ fw = [blk |-> 0, writing |-> FALSE, n |-> 0, stored |-> 0, armed |-> FALSE]
    /\ start = ~Sequential
    /\ nextblock = 0 /\ lastmsgttag = 0 /\ lastCountRead = 0
    /\ wait_for_trigger = FALSE
    /\ dmaBuffer = [valid |-> FALSE, begin |-> 0, end |-> 0,
                    data |-> [i \in 0..(CacheBlocks - 1) |-> Empty]]
    /\ lcl = <<>> /\ rd = Resting
    /\ pend = <<>>
    /\ out = NoOut
    /\ past = [lapped |-> FALSE, failed |-> FALSE, handed |-> 0, cleared |-> 0, runs |-> 0,
               refused |-> 0, twice |-> FALSE]

MonNext ==
    \/ FwBegin \/ \E triggered \in BOOLEAN : FwEnd(triggered)
    \/ Run_MON_Px \/ Stop_Px \/ Clear_Msg_Blks_Px \/ ClearBlocks
    \/ Get_Next_Mon_Message_Px \/ Get_Next_Mon_IRIG_Message_Px
    \/ Get_Next_Message_BCM_Px \/ Get_Next_Message_RTM_Px
    \/ Get_Next_Message_Old_Px \/ Get_Next_Message_32Bit_Px
    \/ \E b \in BlockNums : Get_Message_Px(b)
    \/ CopyHead \/ CopyWords \/ CopyAgain \/ ClearEom \/ GetMessageEnds
    \/ OldStatusAgain \/ OldClearEom
    \/ Get_DmaMonBlockCopy_Px
    \/ FetchHeads \/ FetchWords \/ FetchFails \/ ClearFetched
    \/ NextOfBuffer \/ Read_Monitor_Block_Px \/ BlockCopied

MonSpec == MonInit /\ [][MonNext]_MonVars

-----------------------------------------------------------------------------
(***************************************************************************)
(* Properties.                                                             *)
(***************************************************************************)
\* What is handed over is one message: the second look at a block's head finds
\* every overwriting.  Only three readers can mix two messages: one that copies
\* by DMA, which never looks again; the block reader, when the firmware has
\* begun to overwrite; an old reader, and it only when the firmware has put a
\* whole message into the block during the call.
NeverMixed ==
    out.tag # out.words => \/ reader.dma \/ reader.who = "new"
                           \/ OldReader /\ out.again

\* Until the firmware laps the reader, or a DMA transfer fails, or the ring is
\* cleared under a copy that stays, the messages handed over are the stored
\* ones, all of them, in order; the 32-bit reader does so in the regular ring
\* only.  After a lap, and by that reader in any other ring, some may be left
\* out but, where the time tag is looked at, they never go back.
StaleCopy == past.cleared # 0 /\ (reader.dma \/ reader.who = "new")
HandedInOrder ==
    out # NoOut /\ reader.who # "get" /\ ~StaleCopy =>
        /\ \/ past.lapped \/ past.failed
           \/ past.runs > 1 /\ reader.trig # "none"
           \/ CutShort
           \/ out.tag = out.due
        /\ reader.who \notin {"irig", "new"} /\ ~reader.ignore => out.tag > out.prev

\* A message refused because its time tag went back is refused once: the reader
\* has taken its END_OF_MSG bit and waits for the firmware to come round.
RefusedOnce == past.twice => reader.dma

\* Every stored message is answered for once, in the order of the bus.
MonitorFollowsBus == HandedInOrder /\ RefusedOnce
=============================================================================

----------------------------- MODULE PxMonProofs -----------------------------
(***************************************************************************)
(* Proofs about the bus monitor of the Px library.                         *)
(*                                                                         *)
(* NeverMixed and RefusedOnce need only what a marked block and a copy in  *)
(* progress hold (MonBase, RefusedGone).  MonitorFollowsBus needs to know  *)
(* where the stored messages that were not handed over yet lie: in the     *)
(* blocks just behind the firmware (PendSound), with the reader at the     *)
(* oldest of them, in whatever it has copied (WindowSound, NewSound), and  *)
(* nowhere once they were handed over (HandedGone, CacheSound).  MonInv is *)
(* the conjunction of all these.                                           *)
(***************************************************************************)
EXTENDS PxMon, WellFoundedInduction, TLAPS

(***************************************************************************)
(* The types.                                                              *)
(***************************************************************************)
MonBlock == [eom : BOOLEAN, trig : BOOLEAN, tag : Nat, words : Nat, cnt : Nat]
FwStates == [blk : BlockNums, writing : BOOLEAN, n : Nat, stored : Nat, armed : BOOLEAN]
ReadFields == {"pc", "blk", "copy", "first", "cc", "bufs", "again", "old"}
PastFields == {"lapped", "failed", "handed", "cleared", "runs", "refused", "twice"}
RingType ==
    /\ reader \in Readers /\ start \in BOOLEAN
    /\ ring \in [BlockNums -> MonBlock]
    /\ fw \in FwStates
Caches == [valid : BOOLEAN, begin : BlockNums, end : BlockNums,
           data : [0..(CacheBlocks - 1) -> MonBlock]]
HostType ==
    /\ wait_for_trigger \in BOOLEAN /\ nextblock \in BlockNums /\ lastmsgttag \in Nat
    /\ dmaBuffer \in Caches
ReadSteps == {"idle", "clear", "cache", "dma", "dma2", "marks", "head", "words",
              "check", "eom", "block"}
ReadType ==
    /\ DOMAIN rd = ReadFields
    /\ rd.pc \in ReadSteps /\ rd.blk \in BlockNums /\ rd.copy \in MonBlock
    /\ rd.again \in BOOLEAN /\ rd.old \in BOOLEAN
PastType ==
    /\ DOMAIN past = PastFields
    /\ past.lapped \in BOOLEAN /\ past.failed \in BOOLEAN /\ past.cleared \in Nat
    /\ past.runs \in Nat /\ past.refused \in Nat /\ past.twice \in BOOLEAN
    /\ reader.who # "new" => past.handed \in Nat
MonTypeOK == RingType /\ HostType /\ ReadType /\ PastType

\* The message with tag t has been written to its end.
Ended(t) == t <= fw.n /\ (fw.writing => t < fw.n)

\* A block holds one message, an ended one if it is marked, no two blocks the
\* same one, and the firmware's block the message it is writing.
RingSound ==
    /\ \A b \in BlockNums : /\ ring[b].words = ring[b].tag /\ ring[b].tag <= fw.n
                            /\ ring[b].eom => ring[b].tag # 0 /\ Ended(ring[b].tag)
    /\ \A a, b \in BlockNums : ring[a].tag = ring[b].tag /\ ring[a].tag # 0 => a = b
    /\ fw.writing => fw.n # 0 /\ ring[fw.blk].tag = fw.n
    /\ past.cleared <= fw.n /\ (fw.n = 0 => fw.blk = 0)
    /\ fw.stored <= fw.n /\ (fw.writing => fw.stored < fw.n)

\* Which readers come to which step of a call, and what a call has by then.
InCopy == rd.pc \in {"words", "check", "eom"}
StepSound ==
    /\ rd.pc \in {"cache", "dma", "dma2", "marks"} => reader.dma /\ reader.who \notin {"get", "new"}
    /\ rd.pc = "block" => reader.who = "new"
    /\ rd.pc \in {"head", "words", "check", "eom"} => reader.who # "new"
    /\ rd.pc \notin {"idle", "clear"} /\ reader.who \notin {"get", "new"} => rd.blk = nextblock
    /\ dmaBuffer.valid => reader.dma /\ reader.who \notin {"get", "new"}
    /\ rd.pc \in {"head", "words"} => ~dmaBuffer.valid
    /\ rd.pc \in {"check", "eom"} => rd.copy.eom /\ (dmaBuffer.valid => OldReader)
    /\ rd.pc \in {"marks", "head", "words", "check", "eom"} /\ reader.dma /\ reader.who # "get"
          => dmaBuffer.valid \/ past.failed

\* A copy read without DMA, against the block it is read from: its head is as
\* old as the block's or older, its words are not older than its head, and where
\* the two differ the block has been begun anew, of which an old reader learns
\* from END_OF_MSG unless a whole message went into the block (rd.again).
CopySound ==
    InCopy /\ ~dmaBuffer.valid =>
       /\ rd.copy.tag <= ring[rd.blk].tag
       /\ rd.pc # "words" => rd.copy.tag <= rd.copy.words /\ rd.copy.words <= ring[rd.blk].tag
       /\ rd.pc = "eom" /\ ~OldReader => rd.copy.words = rd.copy.tag
       /\ OldReader => rd.copy.eom
       /\ OldReader /\ rd.pc # "eom" /\ ring[rd.blk].tag # rd.copy.tag =>
             rd.again \/ ~ring[rd.blk].eom
       /\ OldReader /\ rd.pc = "check" /\ rd.copy.words # rd.copy.tag =>
             rd.again \/ ~ring[rd.blk].eom
       /\ OldReader /\ rd.pc = "eom" /\ rd.copy.words # rd.copy.tag => rd.again
       /\ rd.copy.eom =>
             /\ rd.copy.tag # 0 /\ Ended(rd.copy.tag)
             /\ \A a \in BlockNums : ring[a].eom /\ ring[a].tag = rd.copy.tag => a = rd.blk
             /\ ring[rd.blk].tag = rd.copy.tag => ring[rd.blk].trig = rd.copy.trig

\* The message with tag h is no longer to be read: it has ended, and neither a
\* block with END_OF_MSG nor a copy of one holds it.
Gone(h) == /\ Ended(h)
           /\ \A b \in BlockNums : ring[b].eom => ring[b].tag # h
           /\ InCopy /\ rd.copy.eom => rd.copy.tag # h
\* A refused message stays refused because it is gone.
RefusedGone == ~reader.dma => ~past.twice /\ Gone(past.refused)
\* The message last handed over is gone as well, and its tag not above the
\* handle's.
HandedGone ==
    reader.who \notin {"new", "get"} /\ ~StaleCopy =>
       /\ Gone(past.handed)
       /\ reader.who # "irig" /\ ~reader.ignore => past.handed <= lastmsgttag
       /\ OldReader /\ InCopy => lastmsgttag = rd.copy.tag
       /\ fw.n = 0 => nextblock = 0

\* The blocks of the DMA copy that the reader still comes to, with END_OF_MSG.
Live == {i \in 0..(CacheBlocks - 1) : /\ nextblock >= dmaBuffer.begin
                                      /\ dmaBuffer.begin + i \in nextblock..dmaBuffer.end
                                      /\ dmaBuffer.data[i].eom}
CacheFilled == rd.pc = "dma2" \/ (dmaBuffer.valid /\ rd.pc # "dma")
\* The copy begins at the block the reader was at when it was made.
CacheRange ==
    /\ dmaBuffer.begin <= dmaBuffer.end /\ dmaBuffer.end < dmaBuffer.begin + CacheBlocks
    /\ rd.pc \in {"dma", "dma2", "marks"} => dmaBuffer.begin = nextblock
    /\ rd.pc \in {"check", "eom"} /\ dmaBuffer.valid =>
          /\ nextblock \in dmaBuffer.begin..dmaBuffer.end
          /\ rd.copy = dmaBuffer.data[nextblock - dmaBuffer.begin]
\* What is left in the copy has ended, was not handed over, is there once, and
\* if the ring still has it marked, at the block it was copied from or, later,
\* behind a block that the reader comes to before it.
CacheSound ==
    CacheFilled /\ ~StaleCopy => \A i \in Live :
       /\ dmaBuffer.data[i].tag # 0 /\ Ended(dmaBuffer.data[i].tag)
       /\ dmaBuffer.data[i].tag # past.handed
       /\ \A j \in Live : dmaBuffer.data[j].tag = dmaBuffer.data[i].tag => i = j
       /\ \A b \in BlockNums : ring[b].eom /\ ring[b].tag = dmaBuffer.data[i].tag =>
             IF rd.pc \in {"dma2", "marks"} THEN b = dmaBuffer.begin + i
             ELSE \E j \in 0..i : nextblock <= dmaBuffer.begin + j /\ j \notin Live

\* Nothing has happened that excuses a message out of order.
Good == /\ ~past.lapped /\ ~past.failed /\ ~(past.runs > 1 /\ reader.trig # "none")
        /\ ~CutShort /\ ~StaleCopy /\ reader.who # "get"
\* How many messages ago the firmware was at block b, if it stored them all.
Behind(b) == IF b < fw.blk THEN fw.blk - b ELSE fw.blk + MonBlocks - b
\* The stored messages that were not handed over lie in the blocks just behind
\* the firmware, oldest first, and the reader is at the oldest.
PendSound ==
    Good => /\ pend \in Seq(Nat) /\ Len(pend) <= MonBlocks
            /\ \A i \in 1..Len(pend) : pend[i] # 0 /\ Ended(pend[i])
            /\ \A i, j \in 1..Len(pend) : i < j => pend[i] < pend[j]
            /\ \A b \in BlockNums : Behind(b) <= Len(pend) =>
                  ring[b].tag = pend[Len(pend) - Behind(b) + 1]
            /\ reader.who # "new" =>
                  IF pend = <<>> THEN nextblock = fw.blk ELSE Behind(nextblock) = Len(pend)
\* Before the first start nothing has happened.
FreshSound ==
    /\ fw.n = 0 => \A b \in BlockNums : ~ring[b].trig
    /\ Sequential /\ past.runs = 0 => ~start /\ ~rd.old /\ fw.n = 0 /\ ~fw.writing
    /\ wait_for_trigger => reader.trig # "none"
    /\ fw.armed => reader.trig # "none" /\ Sequential
\* While the firmware waits for the trigger so does the program, and nothing it
\* may read carries it.
ArmedSound ==
    Good => /\ fw.armed => wait_for_trigger
            /\ reader.trig = "after" /\ fw.armed =>
                  /\ \A b \in BlockNums : ~ring[b].trig
                  /\ InCopy => ~rd.copy.trig
                  /\ CacheFilled => \A i \in Live : ~dmaBuffer.data[i].trig
\* A message the firmware did not store: it will be passed over.
Stray(c) == ~c.trig /\ wait_for_trigger /\ Sequential
\* What is marked in the ring is not handed over yet, or not stored.
RingWindow == \A b \in BlockNums : ring[b].eom => \/ Behind(b) <= Len(pend)
                                                  \/ b = fw.blk /\ fw.armed /\ ~ring[b].trig
\* A copy in progress is the oldest message not handed over, or not stored.
CopyWindow ==
    InCopy /\ rd.copy.eom =>
       /\ \/ pend # <<>> /\ rd.copy.tag = pend[1]
          \/ Stray(rd.copy)
          \/ OldReader /\ rd.pc = "eom" /\ rd.again
       /\ ~(OldReader /\ rd.pc = "eom" /\ Stray(rd.copy))
\* Block i of the DMA copy is as far behind the reader's as its message is
\* behind the oldest.
Pending(i) == LET d == dmaBuffer.begin + i - nextblock
              IN d < Len(pend) /\ dmaBuffer.data[i].tag = pend[d + 1]
CacheWindow ==
    CacheFilled => \A i \in Live :
       \/ Pending(i) /\ (rd.pc # "dma2" => dmaBuffer.data[i].words = dmaBuffer.data[i].tag)
       \/ /\ Stray(dmaBuffer.data[i])
          /\ reader.trig = "after" => \A j \in Live : ~dmaBuffer.data[j].trig
WindowSound == Good /\ reader.who # "new" => RingWindow /\ CopyWindow /\ CacheWindow
\* The block reader: the local buffer holds the oldest messages that were not
\* handed over, the ring the rest, and the counts say how many these are.
NewSound ==
    Good /\ reader.who = "new" =>
       /\ Len(pend) < MonBlocks /\ fw.blk = fw.stored % MonBlocks
       /\ lcl \in Seq(MonBlock) /\ Len(lcl) <= Len(pend)
       /\ lastCountRead \in Nat /\ fw.stored = lastCountRead + Len(pend) - Len(lcl)
       /\ \A i \in 1..Len(lcl) : lcl[i].tag = pend[i] /\ lcl[i].words = pend[i]
       /\ \A b \in BlockNums : Behind(b) <= Len(pend) =>
             ring[b].eom /\ ring[b].cnt = fw.stored - Behind(b)
       /\ rd.pc = "block" =>
             /\ lcl = <<>> /\ rd.first \in BlockNums /\ Behind(rd.first) = Len(pend)
             /\ rd.cc \in Nat /\ rd.cc >= lastCountRead /\ rd.cc < lastCountRead + MonBlocks
             /\ rd.bufs \in Seq(MonBlock) /\ rd.bufs # <<>> /\ Len(rd.bufs) <= Len(pend)
             /\ rd.first + Len(rd.bufs) <= MonBlocks
             /\ \A i \in 1..Len(rd.bufs) : rd.bufs[i].eom /\ rd.bufs[i].tag = pend[i]

MonBase == MonTypeOK /\ CacheRange /\ RingSound /\ StepSound /\ CopySound
MonCopies == MonBase /\ HandedGone /\ CacheSound
MonInv == MonCopies /\ PendSound /\ FreshSound /\ ArmedSound /\ WindowSound /\ NewSound

\* The smallest number of a set of numbers.
LEMMA LeastOf ==
    ASSUME NEW S \in SUBSET Nat, S # {}
    PROVE  \E m \in S : \A i \in S : m <= i
<1>1. PICK R : R = OpToRel(<, Nat)
  OBVIOUS
<1>2. \A x, y \in Nat : y < x => <<y, x>> \in R
  BY <1>1 DEF OpToRel
<1>3. PICK x \in S : \A y \in S : ~(<<y, x>> \in R)
  BY <1>1, NatLessThanWellFounded, WFMin
<1>4. ASSUME NEW y \in S PROVE x <= y
  <2>1. x \in Nat /\ y \in Nat /\ ~(y < x)
    BY <1>2, <1>3
  <2>2. QED
    BY <2>1
<1>5. QED
  BY <1>4

\* The block after b.
LEMMA RingOrder ==
    ASSUME NEW b \in BlockNums
    PROVE  /\ (b + 1) % MonBlocks = IF b = MonBlocks - 1 THEN 0 ELSE b + 1
           /\ (b + 1) % MonBlocks \in BlockNums
<1>1. CASE b = MonBlocks - 1
  <2>1. (b + 1) % MonBlocks = 0
    BY <1>1, MonRingAssumption
  <2> QED BY <1>1, <2>1, MonRingAssumption DEF BlockNums
<1>2. CASE b # MonBlocks - 1
  <2>1. (b + 1) % MonBlocks = b + 1
    BY <1>2, MonRingAssumption DEF BlockNums
  <2> QED BY <1>2, <2>1, MonRingAssumption DEF BlockNums
<1> QED BY <1>1, <1>2

\* A bank ends at or after each of its blocks.
LEMMA BankEndIs ==
    ASSUME NEW b \in BlockNums
    PROVE  BankEnd(b) \in BlockNums /\ b <= BankEnd(b)
<1>1. PICK S : S = {e \in BankEnds : b <= e}
  OBVIOUS
<1>2. MonBlocks - 1 \in S
  BY <1>1, MonRingAssumption DEF BlockNums
<1>3. S \in SUBSET Nat /\ S # {}
  <2>1. BankEnds \subseteq Nat
    BY MonRingAssumption
  <2> QED BY <1>1, <1>2, <2>1
<1>4. PICK e \in S : \A f \in S : e <= f
  BY <1>3, LeastOf
<1>5. e \in BankEnds /\ b <= e /\ \A f \in BankEnds : b <= f => e <= f
  BY <1>1, <1>4
<1> QED
  BY <1>5, MonRingAssumption DEF BankEnd, BlockNums

\* Copying a head or the words makes a block.
LEMMA Copying ==
    ASSUME NEW c \in MonBlock, NEW b \in MonBlock
    PROVE  /\ Head1(c, b) \in MonBlock /\ Tail1(c, b) \in MonBlock
           /\ Head1(c, b).eom = b.eom /\ Head1(c, b).trig = b.trig
           /\ Head1(c, b).tag = b.tag /\ Head1(c, b).words = c.words
           /\ Head1(c, b).cnt = c.cnt
           /\ Tail1(c, b).eom = c.eom /\ Tail1(c, b).trig = c.trig
           /\ Tail1(c, b).tag = c.tag /\ Tail1(c, b).words = b.words
           /\ Tail1(c, b).cnt = b.cnt
BY DEF Head1, Tail1, MonBlock

\* A cleared block is a block.
LEMMA EmptyBlock == Empty \in MonBlock
BY DEF Empty, MonBlock

(***************************************************************************)
(* What the steps that write the ring do, field by field.                  *)
(***************************************************************************)
LEMMA FwStateIs ==
    ASSUME NEW g, DOMAIN g = {"blk", "writing", "n", "stored", "armed"},
           g = [f \in DOMAIN g |-> g[f]],
           g.blk \in BlockNums, g.writing \in BOOLEAN, g.n \in Nat, g.stored \in Nat,
           g.armed \in BOOLEAN
    PROVE  g \in FwStates
<1>1. g = [blk |-> g.blk, writing |-> g.writing, n |-> g.n, stored |-> g.stored,
           armed |-> g.armed]
  OBVIOUS
<1> QED
  BY <1>1 DEF FwStates

\* What the firmware's begin of a message changes.
LEMMA FwBeginDoes ==
    ASSUME MonTypeOK, FwBegin
    PROVE  /\ ring' \in [BlockNums -> MonBlock] /\ fw' \in FwStates
           /\ ~fw.writing /\ fw'.writing /\ fw'.n = fw.n + 1
           /\ fw'.blk = fw.blk /\ fw'.stored = fw.stored /\ fw'.armed = fw.armed
           /\ ~ring'[fw.blk].eom /\ ~ring'[fw.blk].trig
           /\ ring'[fw.blk].tag = fw.n + 1 /\ ring'[fw.blk].words = fw.n + 1
           /\ \A b \in BlockNums : b # fw.blk => ring'[b] = ring[b]
           /\ DOMAIN past' = PastFields /\ past'.lapped = (past.lapped \/ Len(pend) >= MonBlocks)
           /\ \A f \in PastFields \ {"lapped"} : past'[f] = past[f]
<1> DEFINE new == [eom |-> FALSE, trig |-> FALSE, tag |-> fw.n + 1, words |-> fw.n + 1,
                   cnt |-> ring[fw.blk].cnt]
<1>1. fw \in FwStates /\ fw.blk \in BlockNums /\ fw.n \in Nat /\ ring[fw.blk].cnt \in Nat
  BY DEF MonTypeOK, RingType, FwStates, MonBlock
<1>2. new \in MonBlock /\ ~new.eom /\ ~new.trig /\ new.tag = fw.n + 1 /\ new.words = fw.n + 1
  BY <1>1 DEF MonBlock
<1>3. ring' = [ring EXCEPT ![fw.blk] = new]
  BY DEF FwBegin
<1>4. ring \in [BlockNums -> MonBlock]
  BY DEF MonTypeOK, RingType
<1> HIDE DEF new
<1>5. /\ ring' \in [BlockNums -> MonBlock] /\ ring'[fw.blk] = new
      /\ \A b \in BlockNums : b # fw.blk => ring'[b] = ring[b]
  BY <1>1, <1>2, <1>3, <1>4
<1>6. fw' = [fw EXCEPT !.writing = TRUE, !.n = @ + 1] /\ ~fw.writing
  BY DEF FwBegin
<1>7. /\ fw' \in FwStates /\ fw'.writing /\ fw'.n = fw.n + 1
      /\ fw'.blk = fw.blk /\ fw'.stored = fw.stored /\ fw'.armed = fw.armed
  <2>1. /\ DOMAIN fw' = {"blk", "writing", "n", "stored", "armed"} /\ fw'.writing
        /\ fw'.n = fw.n + 1 /\ fw'.writing = TRUE
        /\ fw'.blk = fw.blk /\ fw'.stored = fw.stored /\ fw'.armed = fw.armed
    BY <1>1, <1>6 DEF FwStates
  <2>2. fw' \in FwStates
    <3>2. fw' = [f \in DOMAIN fw' |-> fw'[f]]
      BY <1>6
    <3>1. fw.stored \in Nat /\ fw.armed \in BOOLEAN /\ fw.n + 1 \in Nat
      BY <1>1 DEF FwStates
    <3> QED BY <1>1, <2>1, <3>1, <3>2, FwStateIs
  <2> QED BY <2>1, <2>2
<1>8. /\ DOMAIN past' = PastFields /\ past'.lapped = (past.lapped \/ Len(pend) >= MonBlocks)
      /\ \A f \in PastFields \ {"lapped"} : past'[f] = past[f]
  BY DEF FwBegin, MonTypeOK, PastType, PastFields
<1> QED
  BY <1>2, <1>5, <1>6, <1>7, <1>8

\* What its end changes.
LEMMA FwEndDoes ==
    ASSUME MonTypeOK, NEW triggered \in BOOLEAN, FwEnd(triggered)
    PROVE  /\ ring' \in [BlockNums -> MonBlock] /\ fw' \in FwStates
           /\ fw.writing /\ ~fw'.writing /\ fw'.n = fw.n
           /\ ring'[fw.blk].eom /\ ring'[fw.blk].trig = triggered
           /\ ring'[fw.blk].tag = ring[fw.blk].tag
           /\ ring'[fw.blk].words = ring[fw.blk].words
           /\ ring'[fw.blk].cnt = fw.stored
           /\ \A b \in BlockNums : b # fw.blk => ring'[b] = ring[b]
           /\ DOMAIN past' = PastFields
           /\ \A f \in PastFields \ {"lapped"} : past'[f] = past[f]
           /\ past.lapped => past'.lapped
           /\ past'.lapped \in BOOLEAN
           /\ DOMAIN rd' = ReadFields
           /\ \A f \in ReadFields \ {"again"} : rd'[f] = rd[f]
           /\ rd'.again = (rd.again \/ (OldReader /\ rd.pc # "idle" /\ fw.blk = rd.blk))
           /\ IF fw.armed /\ ~triggered
              THEN /\ fw'.blk = fw.blk /\ fw'.stored = fw.stored /\ fw'.armed
                   /\ UNCHANGED <<pend, past>>
              ELSE /\ fw'.blk = (fw.blk + 1) % MonBlocks /\ fw'.stored = fw.stored + 1
                   /\ fw'.armed = (fw.armed /\ reader.trig # "after")
                   /\ pend' = Append(pend, fw.n)
                   /\ past'.lapped = (past.lapped \/ (reader.who = "new"
                                                     /\ Len(pend) + 1 >= MonBlocks))
<1> DEFINE new == [ring[fw.blk] EXCEPT !.eom = TRUE, !.trig = triggered, !.cnt = fw.stored]
<1>1. fw \in FwStates /\ fw.blk \in BlockNums /\ fw.stored \in Nat /\ ring[fw.blk] \in MonBlock
  BY DEF MonTypeOK, RingType, FwStates
<1>2. /\ new \in MonBlock /\ new.eom /\ new.trig = triggered /\ new.tag = ring[fw.blk].tag
      /\ new.words = ring[fw.blk].words /\ new.cnt = fw.stored
  BY <1>1 DEF MonBlock
<1>3. ring' = [ring EXCEPT ![fw.blk] = new]
  BY DEF FwEnd
<1>4. ring \in [BlockNums -> MonBlock]
  BY DEF MonTypeOK, RingType
<1> HIDE DEF new
<1>5. /\ ring' \in [BlockNums -> MonBlock] /\ ring'[fw.blk] = new
      /\ \A b \in BlockNums : b # fw.blk => ring'[b] = ring[b]
  BY <1>1, <1>2, <1>3, <1>4
<1>6. /\ fw.writing /\ fw' \in FwStates /\ ~fw'.writing /\ fw'.n = fw.n
      /\ IF fw.armed /\ ~triggered
         THEN fw'.blk = fw.blk /\ fw'.stored = fw.stored /\ fw'.armed
         ELSE /\ fw'.blk = (fw.blk + 1) % MonBlocks /\ fw'.stored = fw.stored + 1
              /\ fw'.armed = (fw.armed /\ reader.trig # "after")
  <2>1. (fw.blk + 1) % MonBlocks \in BlockNums
    BY <1>1, RingOrder
  <2>2. CASE fw.armed /\ ~triggered
    BY <1>1, <2>2 DEF FwEnd, FwStates
  <2>3. CASE ~(fw.armed /\ ~triggered)
    <3>1. fw' = [fw EXCEPT !.writing = FALSE, !.stored = @ + 1, !.blk = (@ + 1) % MonBlocks,
                           !.armed = @ /\ reader.trig # "after"] /\ fw.writing
      BY <2>3 DEF FwEnd
    <3>2. /\ DOMAIN fw' = {"blk", "writing", "n", "stored", "armed"} /\ ~fw'.writing
          /\ fw'.n = fw.n /\ fw'.writing = FALSE /\ fw'.stored = fw.stored + 1
          /\ fw'.blk = (fw.blk + 1) % MonBlocks
          /\ fw'.armed = (fw.armed /\ reader.trig # "after")
      BY <1>1, <2>1, <3>1 DEF FwStates
    <3>3. fw' \in FwStates
      <4>2. fw' = [f \in DOMAIN fw' |-> fw'[f]]
        BY <3>1
      <4>1. fw.n \in Nat /\ fw'.armed \in BOOLEAN /\ fw.stored + 1 \in Nat
        BY <1>1, <3>2 DEF FwStates
      <4> QED BY <2>1, <3>2, <4>1, <4>2, FwStateIs
    <3> QED BY <2>3, <3>1, <3>2, <3>3
  <2> QED BY <2>2, <2>3
<1>7. /\ DOMAIN past' = PastFields
      /\ \A f \in PastFields \ {"lapped"} : past'[f] = past[f]
      /\ past.lapped => past'.lapped
      /\ past'.lapped \in BOOLEAN
      /\ IF fw.armed /\ ~triggered THEN UNCHANGED <<pend, past>>
         ELSE /\ pend' = Append(pend, fw.n)
              /\ past'.lapped = (past.lapped \/ (reader.who = "new"
                                                /\ Len(pend) + 1 >= MonBlocks))
  <2>1. CASE fw.armed /\ ~triggered
    BY <2>1 DEF FwEnd, MonTypeOK, PastType, PastFields
  <2>2. CASE ~(fw.armed /\ ~triggered)
    <3>1. PICK late \in BOOLEAN : late = (reader.who = "new" /\ Len(pend) + 1 >= MonBlocks)
      OBVIOUS
    <3>2. past' = [past EXCEPT !.lapped = @ \/ late] /\ pend' = Append(pend, fw.n)
      BY <2>2, <3>1 DEF FwEnd
    <3>3. DOMAIN past = PastFields /\ past.lapped \in BOOLEAN
      BY DEF MonTypeOK, PastType, PastFields
    <3>4. "lapped" \in DOMAIN past
      BY <3>3 DEF PastFields
    <3>5. past'.lapped = (past.lapped \/ late)
      BY <3>2, <3>3, <3>4
    <3>6. DOMAIN past' = PastFields /\ \A f \in PastFields \ {"lapped"} : past'[f] = past[f]
      BY <3>2, <3>3
    <3>7. past'.lapped \in BOOLEAN /\ (past.lapped => past'.lapped)
      BY <3>1, <3>3, <3>5
    <3>8. past'.lapped = (past.lapped \/ (reader.who = "new" /\ Len(pend) + 1 >= MonBlocks))
      BY <3>1, <3>5
    <3> QED BY <2>2, <3>2, <3>6, <3>7, <3>8
  <2> QED BY <2>1, <2>2
<1>8. /\ DOMAIN rd' = ReadFields
      /\ \A f \in ReadFields \ {"again"} : rd'[f] = rd[f]
      /\ rd'.again = (rd.again \/ (OldReader /\ rd.pc # "idle" /\ fw.blk = rd.blk))
  <2>1. rd' = [rd EXCEPT !.again = @ \/ (OldReader /\ rd.pc # "idle" /\ fw.blk = rd.blk)]
    BY DEF FwEnd
  <2>2. DOMAIN rd = ReadFields
    BY DEF MonTypeOK, ReadType
  <2>3. "again" \in ReadFields
    BY DEF ReadFields
  <2> QED BY <2>1, <2>2, <2>3
<1> QED
  BY <1>2, <1>5, <1>6, <1>7, <1>8

\* The block a reader empties.
LEMMA EomCleared ==
    ASSUME MonTypeOK, ClearEom \/ OldClearEom
    PROVE  /\ ring' \in [BlockNums -> MonBlock]
           /\ ~ring'[rd.blk].eom /\ ring'[rd.blk].trig = rd.copy.trig
           /\ ring'[rd.blk].tag = ring[rd.blk].tag
           /\ ring'[rd.blk].words = ring[rd.blk].words /\ ring'[rd.blk].cnt = ring[rd.blk].cnt
           /\ \A b \in BlockNums : b # rd.blk => ring'[b] = ring[b]
<1> DEFINE new == [ring[rd.blk] EXCEPT !.eom = FALSE, !.trig = rd.copy.trig]
<1>1. rd.blk \in BlockNums /\ ring[rd.blk] \in MonBlock /\ rd.copy.trig \in BOOLEAN
  BY DEF MonTypeOK, RingType, ReadType, MonBlock
<1>2. /\ new \in MonBlock /\ ~new.eom /\ new.trig = rd.copy.trig /\ new.tag = ring[rd.blk].tag
      /\ new.words = ring[rd.blk].words /\ new.cnt = ring[rd.blk].cnt
  BY <1>1 DEF MonBlock
<1>3. ring' = [ring EXCEPT ![rd.blk] = new]
  BY DEF ClearEom, OldClearEom
<1>4. ring \in [BlockNums -> MonBlock]
  BY DEF MonTypeOK, RingType
<1> HIDE DEF new
<1>5. /\ ring' \in [BlockNums -> MonBlock] /\ ring'[rd.blk] = new
      /\ \A b \in BlockNums : b # rd.blk => ring'[b] = ring[b]
  BY <1>1, <1>2, <1>3, <1>4
<1> QED
  BY <1>2, <1>5

\* The blocks emptied after a transfer.
LEMMA FetchedCleared ==
    ASSUME MonTypeOK, ClearFetched
    PROVE  /\ ring' \in [BlockNums -> MonBlock]
           /\ \A b \in BlockNums :
                 /\ ring'[b].eom = (ring[b].eom /\ b - dmaBuffer.begin \notin LeadingMarked)
                 /\ ring'[b].trig = ring[b].trig /\ ring'[b].tag = ring[b].tag
                 /\ ring'[b].words = ring[b].words /\ ring'[b].cnt = ring[b].cnt
<1>1. ASSUME NEW b \in BlockNums
      PROVE  /\ [ring[b] EXCEPT !.eom = FALSE] \in MonBlock
             /\ ~[ring[b] EXCEPT !.eom = FALSE].eom
             /\ [ring[b] EXCEPT !.eom = FALSE].trig = ring[b].trig
             /\ [ring[b] EXCEPT !.eom = FALSE].tag = ring[b].tag
             /\ [ring[b] EXCEPT !.eom = FALSE].words = ring[b].words
             /\ [ring[b] EXCEPT !.eom = FALSE].cnt = ring[b].cnt
  BY DEF MonTypeOK, RingType, MonBlock
<1>2. \A b \in BlockNums : ring[b] \in MonBlock /\ ring[b].eom \in BOOLEAN
  BY DEF MonTypeOK, RingType, MonBlock
<1>3. ring' = [b \in BlockNums |->
                 IF b - dmaBuffer.begin \in LeadingMarked THEN [ring[b] EXCEPT !.eom = FALSE]
                 ELSE ring[b]]
  BY DEF ClearFetched
<1>4. ring' \in [BlockNums -> MonBlock]
  BY <1>1, <1>2, <1>3
<1>5. ASSUME NEW b \in BlockNums
      PROVE  /\ ring'[b].eom = (ring[b].eom /\ b - dmaBuffer.begin \notin LeadingMarked)
             /\ ring'[b].trig = ring[b].trig /\ ring'[b].tag = ring[b].tag
             /\ ring'[b].words = ring[b].words /\ ring'[b].cnt = ring[b].cnt
  <2>1. CASE b - dmaBuffer.begin \in LeadingMarked
    <3>1. ring'[b] = [ring[b] EXCEPT !.eom = FALSE]
      BY <1>3, <2>1
    <3>2. /\ ~ring'[b].eom /\ ring'[b].trig = ring[b].trig /\ ring'[b].tag = ring[b].tag
          /\ ring'[b].words = ring[b].words /\ ring'[b].cnt = ring[b].cnt
      BY <1>1, <3>1
    <3>3. ring'[b].eom \in BOOLEAN
      BY <1>4 DEF MonBlock
    <3> QED BY <2>1, <3>2, <3>3
  <2>2. CASE b - dmaBuffer.begin \notin LeadingMarked
    <3>1. ring'[b] = ring[b]
      BY <1>3, <2>2
    <3> QED BY <1>2, <2>2, <3>1
  <2> QED BY <2>1, <2>2
<1> QED
  BY <1>4, <1>5

\* What Clear_Msg_Blks_Px leaves.
LEMMA BlocksCleared ==
    ASSUME MonTypeOK, ClearBlocks
    PROVE  /\ ring' \in [BlockNums -> MonBlock]
           /\ \A b \in BlockNums : ring'[b] = Empty
           /\ ~fw.writing /\ nextblock' = fw.blk /\ rd' = Resting /\ pend' = <<>>
           /\ DOMAIN past' = PastFields /\ past'.cleared = fw.n
           /\ \A f \in PastFields \ {"cleared"} : past'[f] = past[f]
<1>1. ring' = [b \in BlockNums |-> Empty]
  BY DEF ClearBlocks
<1>2. ring' \in [BlockNums -> MonBlock] /\ \A b \in BlockNums : ring'[b] = Empty
  BY <1>1, EmptyBlock
<1>3. ~fw.writing /\ nextblock' = fw.blk /\ rd' = Resting /\ pend' = <<>>
  BY DEF ClearBlocks, HALTED
<1>4. /\ DOMAIN past' = PastFields /\ past'.cleared = fw.n
      /\ \A f \in PastFields \ {"cleared"} : past'[f] = past[f]
  BY DEF ClearBlocks, MonTypeOK, PastType, PastFields
<1> QED
  BY <1>2, <1>3, <1>4

\* The steps that change the ring, the firmware or the start register, and all
\* others.
LEMMA MonSteps ==
    ASSUME [MonNext]_MonVars
    PROVE  \/ FwBegin \/ \E triggered \in BOOLEAN : FwEnd(triggered)
           \/ Run_MON_Px \/ Stop_Px \/ Clear_Msg_Blks_Px \/ ClearBlocks
           \/ ClearEom \/ OldClearEom \/ ClearFetched
           \/ UNCHANGED <<reader, ring, fw, start>>
BY DEF MonNext, MonVars, Get_Next_Mon_Message_Px, Get_Next_Mon_IRIG_Message_Px,
   Get_Next_Message_BCM_Px, Get_Next_Message_RTM_Px, Get_Next_Message_Old_Px,
   Get_Next_Message_32Bit_Px, CallReader, Get_Message_Px, CopyHead, CopyWords, CopyAgain,
   GetMessageEnds, OldStatusAgain, Get_DmaMonBlockCopy_Px, FetchHeads, FetchWords, FetchFails,
   NextOfBuffer, Read_Monitor_Block_Px, BlockCopied

\* Between two calls.
LEMMA RestingIs ==
    /\ DOMAIN Resting = ReadFields /\ Resting.pc = "idle" /\ Resting.blk = 0
    /\ Resting.copy = Empty /\ Resting.again = FALSE /\ Resting.old = FALSE
    /\ 0 \in BlockNums
<1>1. 0 \in BlockNums
  BY MonRingAssumption DEF BlockNums
<1> QED
  BY <1>1 DEF Resting, ReadFields

\* The steps of the host.
LEMMA HostSteps ==
    ASSUME [MonNext]_MonVars
    PROVE  \/ FwBegin \/ \E triggered \in BOOLEAN : FwEnd(triggered)
           \/ Run_MON_Px \/ Stop_Px \/ Clear_Msg_Blks_Px \/ ClearBlocks
           \/ \E who \in {"nios", "irig", "bcm", "rtm", "old", "wide"} : CallReader(who)
           \/ \E b \in BlockNums : Get_Message_Px(b)
           \/ CopyHead \/ CopyWords \/ CopyAgain \/ ClearEom \/ GetMessageEnds
           \/ OldStatusAgain \/ OldClearEom \/ Get_DmaMonBlockCopy_Px
           \/ FetchHeads \/ FetchWords \/ FetchFails \/ ClearFetched
           \/ NextOfBuffer \/ Read_Monitor_Block_Px \/ BlockCopied
           \/ UNCHANGED MonVars
BY DEF MonNext, Get_Next_Mon_Message_Px, Get_Next_Mon_IRIG_Message_Px,
   Get_Next_Message_BCM_Px, Get_Next_Message_RTM_Px, Get_Next_Message_Old_Px,
   Get_Next_Message_32Bit_Px

\* A call takes nextblock round the ring, where it is already: only the 32-bit
\* reader, which has no DMA, may go back to the first block.
LEMMA CallDoes ==
    ASSUME MonTypeOK, NEW who, CallReader(who)
    PROVE  /\ nextblock' \in BlockNums /\ (nextblock = 0 => nextblock' = 0)
           /\ CutShort \/ UNCHANGED nextblock
           /\ CutShort => ~reader.dma
<1>1. nextblock \in 0..(MonBlocks - 1) /\ reader \in Readers
  BY DEF MonTypeOK, HostType, RingType, BlockNums
<1>2. CutShort => ~reader.dma
  BY <1>1, ReadersAssumption DEF CutShort
<1>3. CASE CutShort
  <2>1. nextblock' = nextblock % OldBlocks
    BY <1>3 DEF CallReader
  <2>2. OldBlocks \in 1..MonBlocks /\ MonBlocks \in Nat
    BY MonRingAssumption
  <2>3. nextblock % OldBlocks \in 0..(MonBlocks - 1) /\ 0 % OldBlocks = 0
    BY <1>1, <2>2
  <2> QED BY <1>2, <1>3, <2>1, <2>3 DEF BlockNums
<1>4. CASE ~CutShort
  <2>1. nextblock' = nextblock % MonBlocks
    BY <1>4 DEF CallReader
  <2>2. nextblock % MonBlocks = nextblock
    BY <1>1, MonRingAssumption
  <2> QED BY <1>1, <1>4, <2>1, <2>2 DEF BlockNums
<1> QED
  BY <1>3, <1>4

(***************************************************************************)
(* The types.                                                              *)
(***************************************************************************)
LEMMA RingTypeStep == MonTypeOK /\ [MonNext]_MonVars => RingType'
<1> SUFFICES ASSUME MonTypeOK, [MonNext]_MonVars PROVE RingType'
  OBVIOUS
<1> USE DEF FwStates
<1>1. ASSUME FwBegin PROVE RingType'
  BY <1>1, FwBeginDoes DEF FwBegin, MonTypeOK, RingType
<1>2. ASSUME NEW triggered \in BOOLEAN, FwEnd(triggered) PROVE RingType'
  BY <1>2, FwEndDoes DEF FwEnd, MonTypeOK, RingType
<1>3. ASSUME Run_MON_Px PROVE RingType'
  BY <1>3 DEF Run_MON_Px, MonTypeOK, RingType
<1>4. ASSUME Stop_Px \/ Clear_Msg_Blks_Px PROVE RingType'
  BY <1>4 DEF Stop_Px, Clear_Msg_Blks_Px, MonTypeOK, RingType
<1>5. ASSUME ClearBlocks PROVE RingType'
  BY <1>5, BlocksCleared DEF ClearBlocks, MonTypeOK, RingType, ReadType
<1>6. ASSUME ClearEom \/ OldClearEom PROVE RingType'
  BY <1>6, EomCleared DEF ClearEom, OldClearEom, MonTypeOK, RingType
<1>7. ASSUME ClearFetched PROVE RingType'
  BY <1>7, FetchedCleared DEF ClearFetched, MonTypeOK, RingType
<1>8. ASSUME UNCHANGED <<reader, ring, fw, start>> PROVE RingType'
  BY <1>8 DEF MonTypeOK, RingType
<1> QED
  BY <1>1, <1>2, <1>3, <1>4, <1>5, <1>6, <1>7, <1>8, MonSteps

\* A copy judged leaves the handle's fields of their types.
LEMMA JudgeTyped ==
    ASSUME MonTypeOK, NEW c \in MonBlock, Judge(c)
    PROVE  /\ nextblock' \in BlockNums /\ lastmsgttag' \in Nat /\ wait_for_trigger' \in BOOLEAN
           /\ rd' = Resting
           /\ DOMAIN past' = PastFields
           /\ \A f \in PastFields \ {"handed", "refused", "twice"} : past'[f] = past[f]
           /\ past'.refused \in Nat /\ past'.twice \in BOOLEAN
           /\ past'.handed = past.handed \/ past'.handed \in Nat
<1>1. /\ (nextblock + 1) % MonBlocks \in BlockNums /\ nextblock \in BlockNums
      /\ lastmsgttag \in Nat /\ wait_for_trigger \in BOOLEAN
  BY RingOrder DEF MonTypeOK, HostType
<1>2. c.tag \in Nat /\ c.trig \in BOOLEAN
  BY DEF MonBlock
<1>3. DOMAIN past = PastFields /\ past.refused \in Nat /\ past.twice \in BOOLEAN
  BY DEF MonTypeOK, PastType
<1>4. CASE WentBack(c)
  <2>1. UNCHANGED <<nextblock, lastmsgttag, wait_for_trigger>> /\ rd' = Resting
    BY <1>4 DEF Judge, Returns
  <2>2. past' = [past EXCEPT !.refused = c.tag, !.twice = @ \/ past.refused = c.tag]
    BY <1>4 DEF Judge
  <2>3. "refused" \in DOMAIN past /\ "twice" \in DOMAIN past
    BY <1>3 DEF PastFields
  <2>4. /\ past'.refused = c.tag /\ past'.twice = (past.twice \/ past.refused = c.tag)
        /\ \A f \in PastFields \ {"refused", "twice"} : past'[f] = past[f]
        /\ DOMAIN past' = PastFields /\ past'.handed = past.handed
    BY <1>3, <2>2, <2>3 DEF PastFields
  <2> QED BY <1>1, <1>2, <1>3, <2>1, <2>4
<1>5. CASE ~WentBack(c) /\ Untriggered(c)
  <2>1. UNCHANGED <<nextblock, wait_for_trigger, past>> /\ rd' = Resting /\ lastmsgttag' \in Nat
    BY <1>1, <1>2, <1>5 DEF Judge, Returns
  <2> QED BY <1>1, <1>3, <2>1
<1>6. CASE ~WentBack(c) /\ ~Untriggered(c)
  <2>1. /\ nextblock' = (nextblock + 1) % MonBlocks /\ rd' = Resting /\ lastmsgttag' \in Nat
        /\ wait_for_trigger' \in BOOLEAN
    BY <1>1, <1>2, <1>6 DEF Judge, HandsOver, TriggerSeen
  <2>2. past' = [past EXCEPT !.handed = c.tag]
    BY <1>6 DEF Judge
  <2>3. /\ DOMAIN past' = PastFields /\ past'.handed = c.tag
        /\ \A f \in PastFields \ {"handed"} : past'[f] = past[f]
        /\ past'.refused = past.refused /\ past'.twice = past.twice
    BY <1>3, <2>2 DEF PastFields
  <2> QED BY <1>1, <1>2, <1>3, <2>1, <2>3
<1> QED
  BY <1>4, <1>5, <1>6

\* A block taken from the DMA copy is a block.
LEMMA FromCopyTyped ==
    ASSUME MonTypeOK, NEW c \in MonBlock, FromCopy(c)
    PROVE  /\ nextblock' \in BlockNums /\ lastmsgttag' \in Nat /\ wait_for_trigger' \in BOOLEAN
           /\ \/ rd' = Resting \/ rd' = [rd EXCEPT !.pc = "check", !.copy = c]
           /\ DOMAIN past' = PastFields
           /\ \A f \in PastFields \ {"handed", "refused", "twice"} : past'[f] = past[f]
           /\ past'.refused \in Nat /\ past'.twice \in BOOLEAN
           /\ past'.handed = past.handed \/ past'.handed \in Nat
<1>1. /\ nextblock \in BlockNums /\ lastmsgttag \in Nat /\ wait_for_trigger \in BOOLEAN
      /\ DOMAIN past = PastFields /\ past.refused \in Nat /\ past.twice \in BOOLEAN
      /\ c.tag \in Nat
  BY DEF MonTypeOK, HostType, PastType, MonBlock
<1>2. CASE Judge(c)
  BY <1>2, JudgeTyped
<1>3. CASE /\ UNCHANGED <<nextblock, wait_for_trigger, past>>
           /\ rd' = Resting \/ rd' = [rd EXCEPT !.pc = "check", !.copy = c]
           /\ lastmsgttag' = lastmsgttag \/ lastmsgttag' = c.tag
  BY <1>1, <1>3
<1> QED
  BY <1>2, <1>3 DEF FromCopy, Returns

\* A transfer stays inside the ring and inside the copy.
LEMMA FetchEndIs ==
    ASSUME NEW b \in BlockNums
    PROVE  FetchEnd(b) \in BlockNums /\ b <= FetchEnd(b) /\ FetchEnd(b) < b + CacheBlocks
<1>1. BankEnd(b) \in BlockNums /\ b <= BankEnd(b)
  BY BankEndIs
<1> QED
  BY <1>1, MonRingAssumption DEF FetchEnd, BlockNums

\* The copies a cached block is taken from.
LEMMA CachedTyped ==
    ASSUME MonTypeOK, rd.pc = "cache", Cached(rd.blk), CacheRange
    PROVE  dmaBuffer.data[rd.blk - dmaBuffer.begin] \in MonBlock
<1>1. /\ dmaBuffer \in Caches /\ dmaBuffer.begin <= dmaBuffer.end
      /\ dmaBuffer.end < dmaBuffer.begin + CacheBlocks /\ rd.blk \in BlockNums
  BY DEF MonTypeOK, HostType, ReadType, CacheRange
<1>2. rd.blk - dmaBuffer.begin \in 0..(CacheBlocks - 1)
  <2>1. dmaBuffer.begin \in Nat /\ dmaBuffer.end \in Nat /\ rd.blk \in Nat
    BY <1>1, MonRingAssumption DEF Caches, BlockNums
  <2>2. rd.blk \in dmaBuffer.begin..dmaBuffer.end
    BY DEF Cached
  <2> QED BY <1>1, <2>1, <2>2, MonRingAssumption
<1> QED
  BY <1>1, <1>2 DEF Caches

\* The blocks a transfer takes are blocks of the ring and have room in the copy.
LEMMA FetchedIs ==
    ASSUME MonTypeOK, CacheRange
    PROVE  /\ dmaBuffer.begin \in BlockNums /\ dmaBuffer.end \in BlockNums
           /\ Fetched \subseteq 0..(CacheBlocks - 1)
           /\ \A i \in Fetched : dmaBuffer.begin + i \in BlockNums
           /\ 0 \in Fetched
<1>1. /\ dmaBuffer.begin \in BlockNums /\ dmaBuffer.end \in BlockNums
      /\ dmaBuffer.begin <= dmaBuffer.end /\ dmaBuffer.end < dmaBuffer.begin + CacheBlocks
  BY DEF MonTypeOK, HostType, Caches, CacheRange
<1> QED
  BY <1>1, MonRingAssumption DEF Fetched, BlockNums

\* The first half of a transfer.
LEMMA HeadsFetched ==
    ASSUME MonTypeOK, CacheRange, FetchHeads
    PROVE  /\ dmaBuffer' \in Caches
           /\ dmaBuffer'.begin = dmaBuffer.begin /\ dmaBuffer'.end = dmaBuffer.end
           /\ dmaBuffer'.valid = dmaBuffer.valid
           /\ \A i \in Fetched :
                 dmaBuffer'.data[i] = Head1(dmaBuffer.data[i], ring[dmaBuffer.begin + i])
<1> DEFINE new == [i \in 0..(CacheBlocks - 1) |->
                      IF i \in Fetched THEN Head1(dmaBuffer.data[i], ring[dmaBuffer.begin + i])
                      ELSE dmaBuffer.data[i]]
<1>1. dmaBuffer \in Caches /\ dmaBuffer.data \in [0..(CacheBlocks - 1) -> MonBlock]
  BY DEF MonTypeOK, HostType, Caches
<1>2. new \in [0..(CacheBlocks - 1) -> MonBlock]
  <2>1. \A i \in Fetched : ring[dmaBuffer.begin + i] \in MonBlock
    BY FetchedIs DEF MonTypeOK, RingType
  <2> QED BY <1>1, <2>1, Copying
<1>3. dmaBuffer' = [dmaBuffer EXCEPT !.data = new]
  BY <1>1 DEF FetchHeads
<1>4. \A i \in Fetched : new[i] = Head1(dmaBuffer.data[i], ring[dmaBuffer.begin + i])
  BY FetchedIs
<1> HIDE DEF new
<1> QED
  BY <1>1, <1>2, <1>3, <1>4 DEF Caches

\* Its second half.
LEMMA WordsFetched ==
    ASSUME MonTypeOK, CacheRange, FetchWords
    PROVE  /\ dmaBuffer' \in Caches
           /\ dmaBuffer'.begin = dmaBuffer.begin /\ dmaBuffer'.end = dmaBuffer.end
           /\ dmaBuffer'.valid
           /\ \A i \in Fetched :
                 dmaBuffer'.data[i] = Tail1(dmaBuffer.data[i], ring[dmaBuffer.begin + i])
<1> DEFINE new == [i \in 0..(CacheBlocks - 1) |->
                      IF i \in Fetched THEN Tail1(dmaBuffer.data[i], ring[dmaBuffer.begin + i])
                      ELSE dmaBuffer.data[i]]
<1>1. dmaBuffer \in Caches /\ dmaBuffer.data \in [0..(CacheBlocks - 1) -> MonBlock]
  BY DEF MonTypeOK, HostType, Caches
<1>2. new \in [0..(CacheBlocks - 1) -> MonBlock]
  <2>1. \A i \in Fetched : ring[dmaBuffer.begin + i] \in MonBlock
    BY FetchedIs DEF MonTypeOK, RingType
  <2> QED BY <1>1, <2>1, Copying
<1>3. dmaBuffer' = [dmaBuffer EXCEPT !.valid = TRUE, !.data = new]
  BY <1>1 DEF FetchWords
<1>4. \A i \in Fetched : new[i] = Tail1(dmaBuffer.data[i], ring[dmaBuffer.begin + i])
  BY FetchedIs
<1> HIDE DEF new
<1> QED
  BY <1>1, <1>2, <1>3, <1>4 DEF Caches

\* What an old reader does to the copy when it empties the block.
LEMMA OldCleared ==
    ASSUME MonTypeOK, CacheRange, OldClearEom
    PROVE  /\ dmaBuffer' \in Caches
           /\ dmaBuffer'.begin = dmaBuffer.begin /\ dmaBuffer'.end = dmaBuffer.end
           /\ dmaBuffer'.valid = dmaBuffer.valid
           /\ ~dmaBuffer.valid => UNCHANGED dmaBuffer
           /\ \A i \in 0..(CacheBlocks - 1) :
                 IF dmaBuffer.valid /\ reader.dma /\ i = rd.blk - dmaBuffer.begin
                 THEN /\ ~dmaBuffer'.data[i].eom
                      /\ dmaBuffer'.data[i].trig = dmaBuffer.data[i].trig
                      /\ dmaBuffer'.data[i].tag = dmaBuffer.data[i].tag
                      /\ dmaBuffer'.data[i].words = dmaBuffer.data[i].words
                 ELSE dmaBuffer'.data[i] = dmaBuffer.data[i]
<1>1. dmaBuffer \in Caches /\ dmaBuffer.data \in [0..(CacheBlocks - 1) -> MonBlock]
  BY DEF MonTypeOK, HostType, Caches
<1>2. CASE ~(reader.dma /\ dmaBuffer.valid)
  BY <1>1, <1>2 DEF OldClearEom
<1>3. CASE reader.dma /\ dmaBuffer.valid
  <2> DEFINE at == rd.blk - dmaBuffer.begin
             new == [dmaBuffer.data EXCEPT ![at].eom = FALSE]
  <2>1. \A b \in MonBlock : [b EXCEPT !.eom = FALSE] \in MonBlock
                            /\ ~[b EXCEPT !.eom = FALSE].eom
                            /\ [b EXCEPT !.eom = FALSE].trig = b.trig
                            /\ [b EXCEPT !.eom = FALSE].tag = b.tag
                            /\ [b EXCEPT !.eom = FALSE].words = b.words
    BY DEF MonBlock
  <2>2. /\ new \in [0..(CacheBlocks - 1) -> MonBlock]
        /\ \A i \in 0..(CacheBlocks - 1) :
              IF i = at THEN /\ ~new[i].eom /\ new[i].trig = dmaBuffer.data[i].trig
                             /\ new[i].tag = dmaBuffer.data[i].tag
                             /\ new[i].words = dmaBuffer.data[i].words
              ELSE new[i] = dmaBuffer.data[i]
    BY <1>1, <2>1
  <2>3. dmaBuffer' = [dmaBuffer EXCEPT !.data = new]
    BY <1>1, <1>3 DEF OldClearEom
  <2> HIDE DEF new
  <2>4. /\ dmaBuffer' \in Caches /\ dmaBuffer'.data = new
        /\ dmaBuffer'.begin = dmaBuffer.begin /\ dmaBuffer'.end = dmaBuffer.end
        /\ dmaBuffer'.valid = dmaBuffer.valid
    BY <1>1, <2>2, <2>3 DEF Caches
  <2> QED BY <1>3, <2>2, <2>4
<1> QED
  BY <1>2, <1>3

\* The handle's fields keep their types.
LEMMA HostTypeStep == MonTypeOK /\ CacheRange /\ [MonNext]_MonVars => HostType'
<1> SUFFICES ASSUME MonTypeOK, CacheRange, [MonNext]_MonVars PROVE HostType'
  OBVIOUS
<1>0. HostType
  BY DEF MonTypeOK
<1>1. ASSUME Run_MON_Px PROVE HostType'
  BY <1>0, <1>1 DEF Run_MON_Px, HostType
<1>2. ASSUME ClearBlocks PROVE HostType'
  BY <1>0, <1>2 DEF ClearBlocks, HostType, MonTypeOK, RingType, FwStates
<1>3. ASSUME CopyHead PROVE HostType'
  <2>1. Head1(Empty, ring[rd.blk]).tag \in Nat
    BY EmptyBlock, Copying DEF MonTypeOK, RingType, ReadType, MonBlock
  <2> QED BY <1>0, <1>3, <2>1 DEF CopyHead, HostType
<1>4. ASSUME ClearEom PROVE HostType'
  <2>1. rd.copy \in MonBlock /\ Judge(rd.copy) /\ UNCHANGED dmaBuffer
    BY <1>4 DEF ClearEom, MonTypeOK, ReadType
  <2> QED BY <1>0, <2>1, JudgeTyped DEF HostType
<1>5. ASSUME OldStatusAgain PROVE HostType'
  BY <1>0, <1>5 DEF OldStatusAgain, HostType, TriggerSeen
<1>6. ASSUME OldClearEom PROVE HostType'
  <2>1. (nextblock + 1) % MonBlocks \in BlockNums
    BY <1>0, RingOrder DEF HostType
  <2> QED BY <1>0, <1>6, <2>1, OldCleared DEF OldClearEom, HostType
<1>7. ASSUME Get_DmaMonBlockCopy_Px PROVE HostType'
  <2>1. CASE Cached(rd.blk)
    <3>1. /\ FromCopy(dmaBuffer.data[rd.blk - dmaBuffer.begin]) /\ UNCHANGED dmaBuffer
          /\ rd.pc = "cache"
      BY <1>7, <2>1 DEF Get_DmaMonBlockCopy_Px
    <3> QED BY <1>0, <2>1, <3>1, CachedTyped, FromCopyTyped DEF HostType
  <2>2. CASE ~Cached(rd.blk)
    <3>1. /\ dmaBuffer' = [dmaBuffer EXCEPT !.begin = rd.blk, !.end = FetchEnd(rd.blk)]
          /\ UNCHANGED <<nextblock, lastmsgttag, wait_for_trigger>>
      BY <1>7, <2>2 DEF Get_DmaMonBlockCopy_Px
    <3>2. rd.blk \in BlockNums /\ FetchEnd(rd.blk) \in BlockNums
      BY FetchEndIs DEF MonTypeOK, ReadType
    <3> QED BY <1>0, <3>1, <3>2 DEF HostType, Caches
  <2> QED BY <2>1, <2>2
<1>8. ASSUME FetchHeads \/ FetchWords PROVE HostType'
  BY <1>0, <1>8, HeadsFetched, WordsFetched DEF HostType, FetchHeads, FetchWords
<1>9. ASSUME FetchFails PROVE HostType'
  BY <1>0, <1>9 DEF HostType, FetchFails, Caches
<1>10. ASSUME ClearFetched PROVE HostType'
  <2>1. dmaBuffer.data[0] \in MonBlock
    BY <1>0, MonRingAssumption DEF HostType, Caches
  <2> QED BY <1>0, <1>10, <2>1, FromCopyTyped DEF HostType, ClearFetched
<1>11. ASSUME UNCHANGED <<wait_for_trigger, nextblock, lastmsgttag, dmaBuffer>>
       PROVE  HostType'
  BY <1>0, <1>11 DEF HostType
<1>12. ASSUME NEW who \in {"nios", "irig", "bcm", "rtm", "old", "wide"}, CallReader(who)
       PROVE  HostType'
  BY <1>0, <1>12, CallDoes DEF HostType, CallReader
<1>13. \/ Run_MON_Px \/ ClearBlocks \/ CopyHead \/ ClearEom \/ OldStatusAgain \/ OldClearEom
       \/ \E who \in {"nios", "irig", "bcm", "rtm", "old", "wide"} : CallReader(who)
       \/ Get_DmaMonBlockCopy_Px \/ FetchHeads \/ FetchWords \/ FetchFails \/ ClearFetched
       \/ UNCHANGED <<wait_for_trigger, nextblock, lastmsgttag, dmaBuffer>>
  BY HostSteps DEF FwBegin, FwEnd, Stop_Px, Clear_Msg_Blks_Px, Get_Message_Px, CopyWords,
     CopyAgain, GetMessageEnds, NextOfBuffer, Read_Monitor_Block_Px, BlockCopied, MonVars, Host
<1> QED
  BY <1>1, <1>2, <1>3, <1>4, <1>5, <1>6, <1>7, <1>8, <1>9, <1>10, <1>11, <1>12, <1>13

\* So do those of the call.
LEMMA ReadTypeStep == MonTypeOK /\ CacheRange /\ [MonNext]_MonVars => ReadType'
<1> SUFFICES ASSUME MonTypeOK, CacheRange, [MonNext]_MonVars PROVE ReadType'
  OBVIOUS
<1>0. ReadType
  BY DEF MonTypeOK
<1>1. ASSUME rd' = Resting PROVE ReadType'
  BY <1>1, RestingIs, EmptyBlock DEF ReadType, ReadSteps
<1>2. ASSUME NEW triggered \in BOOLEAN, FwEnd(triggered) PROVE ReadType'
  BY <1>0, <1>2, FwEndDoes DEF ReadType, ReadFields
<1>3. ASSUME Clear_Msg_Blks_Px PROVE ReadType'
  BY <1>0, <1>3 DEF Clear_Msg_Blks_Px, ReadType, ReadFields, ReadSteps, MonTypeOK, RingType
<1>4. ASSUME NEW p \in ReadSteps, NEW b \in BlockNums,
             rd' = [Resting EXCEPT !.pc = p, !.blk = b]
      PROVE  ReadType'
  BY <1>4, RestingIs, EmptyBlock DEF ReadType, ReadFields
<1>5. ASSUME NEW p \in ReadSteps, rd' = [rd EXCEPT !.pc = p] PROVE ReadType'
  BY <1>0, <1>5 DEF ReadType, ReadFields
<1>6. ASSUME NEW p \in ReadSteps, NEW c \in MonBlock, rd' = [rd EXCEPT !.pc = p, !.copy = c]
      PROVE  ReadType'
  BY <1>0, <1>6 DEF ReadType, ReadFields
<1>7. ASSUME CopyHead PROVE ReadType'
  <2>1. Head1(Empty, ring[rd.blk]) \in MonBlock /\ "words" \in ReadSteps
    BY EmptyBlock, Copying DEF MonTypeOK, RingType, ReadType, ReadSteps
  <2> QED BY <1>1, <1>6, <1>7, <2>1 DEF CopyHead, Returns
<1>8. ASSUME CopyWords PROVE ReadType'
  <2>1. Tail1(rd.copy, ring[rd.blk]) \in MonBlock /\ "check" \in ReadSteps
    BY <1>0, Copying DEF MonTypeOK, RingType, ReadType, ReadSteps
  <2>2. rd' = Resting \/ rd' = [rd EXCEPT !.pc = "check", !.copy = Tail1(rd.copy, ring[rd.blk])]
    BY <1>8 DEF CopyWords, Returns
  <2> QED BY <1>1, <1>6, <2>1, <2>2
<1>9. ASSUME CopyAgain PROVE ReadType'
  BY <1>1, <1>5, <1>9 DEF CopyAgain, Returns, ReadSteps
<1>10. ASSUME OldStatusAgain PROVE ReadType'
  <2>1. PICK b \in MonBlock : b = IF reader.dma /\ dmaBuffer.valid THEN rd.copy ELSE ring[rd.blk]
    BY <1>0 DEF MonTypeOK, RingType, ReadType
  <2>2. [rd.copy EXCEPT !.eom = b.eom, !.trig = b.trig] \in MonBlock /\ "eom" \in ReadSteps
    BY <1>0 DEF ReadType, MonBlock, ReadSteps
  <2>3. \/ rd' = Resting
        \/ rd' = [rd EXCEPT !.pc = "eom", !.copy = [rd.copy EXCEPT !.eom = b.eom, !.trig = b.trig]]
    BY <1>10, <2>1 DEF OldStatusAgain, Returns
  <2> QED BY <1>1, <1>6, <2>2, <2>3
<1>11. ASSUME Get_DmaMonBlockCopy_Px PROVE ReadType'
  <2>1. CASE Cached(rd.blk)
    <3>1. /\ FromCopy(dmaBuffer.data[rd.blk - dmaBuffer.begin]) /\ rd.pc = "cache"
      BY <1>11, <2>1 DEF Get_DmaMonBlockCopy_Px
    <3>2. "check" \in ReadSteps
      BY DEF ReadSteps
    <3> QED BY <1>1, <1>6, <2>1, <3>1, <3>2, CachedTyped, FromCopyTyped
  <2>2. CASE ~Cached(rd.blk)
    BY <1>5, <1>11, <2>2 DEF Get_DmaMonBlockCopy_Px, ReadSteps
  <2> QED BY <2>1, <2>2
<1>12. ASSUME FetchHeads \/ FetchWords \/ FetchFails PROVE ReadType'
  BY <1>5, <1>12 DEF FetchHeads, FetchWords, FetchFails, ReadSteps
<1>13. ASSUME ClearFetched PROVE ReadType'
  <2>1. dmaBuffer.data[0] \in MonBlock
    BY MonRingAssumption DEF MonTypeOK, HostType, Caches
  <2>2. "check" \in ReadSteps /\ "head" \in ReadSteps
    BY DEF ReadSteps
  <2>3. FromCopy(dmaBuffer.data[0]) \/ rd' = [rd EXCEPT !.pc = "head"]
    BY <1>13 DEF ClearFetched
  <2> QED BY <1>1, <1>5, <1>6, <2>1, <2>2, <2>3, FromCopyTyped
<1>14. ASSUME Read_Monitor_Block_Px PROVE ReadType'
  BY <1>14, RestingIs, EmptyBlock DEF Read_Monitor_Block_Px, ReadType, ReadFields, ReadSteps
<1>15. ASSUME NEW who, CallReader(who) PROVE ReadType'
  BY <1>4, <1>15, CallDoes DEF CallReader, ReadSteps, MonTypeOK, HostType
<1>16. ASSUME NEW b \in BlockNums, Get_Message_Px(b) PROVE ReadType'
  BY <1>4, <1>16 DEF Get_Message_Px, ReadSteps
<1>17. ASSUME ClearEom PROVE ReadType'
  BY <1>1, <1>17, JudgeTyped DEF ClearEom, MonTypeOK, ReadType
<1>18. ASSUME BlockCopied \/ NextOfBuffer \/ ClearBlocks \/ GetMessageEnds \/ OldClearEom
       PROVE  ReadType'
  BY <1>1, <1>18 DEF BlockCopied, NextOfBuffer, ClearBlocks, GetMessageEnds, OldClearEom,
     HandsOver, Returns
<1>19. ASSUME UNCHANGED rd PROVE ReadType'
  BY <1>0, <1>19 DEF ReadType
<1> QED
  BY <1>2, <1>3, <1>7, <1>8, <1>9, <1>10, <1>11, <1>12, <1>13, <1>14, <1>15, <1>16, <1>17,
     <1>18, <1>19, HostSteps DEF FwBegin, Run_MON_Px, Stop_Px, MonVars

\* And the history.
LEMMA PastTypeStep == MonTypeOK /\ CacheRange /\ StepSound /\ [MonNext]_MonVars => PastType'
<1> SUFFICES ASSUME MonTypeOK, CacheRange, StepSound, [MonNext]_MonVars PROVE PastType'
  OBVIOUS
<1>0. PastType
  BY DEF MonTypeOK
<1>a. UNCHANGED reader
  BY HostSteps DEF FwBegin, FwEnd, Run_MON_Px, Stop_Px, Clear_Msg_Blks_Px, ClearBlocks,
     CallReader, Get_Message_Px, CopyHead, CopyWords, CopyAgain, ClearEom, GetMessageEnds,
     OldStatusAgain, OldClearEom, Get_DmaMonBlockCopy_Px, FetchHeads, FetchWords, FetchFails,
     ClearFetched, NextOfBuffer, Read_Monitor_Block_Px, BlockCopied, MonVars
<1>1. ASSUME FwBegin PROVE PastType'
  <2>1. past'.lapped \in BOOLEAN
    BY <1>0, <1>1, FwBeginDoes DEF PastType
  <2> QED BY <1>0, <1>a, <1>1, <2>1, FwBeginDoes DEF PastType, PastFields
<1>2. ASSUME NEW triggered \in BOOLEAN, FwEnd(triggered) PROVE PastType'
  BY <1>0, <1>a, <1>2, FwEndDoes DEF PastType, PastFields
<1>3. ASSUME Run_MON_Px PROVE PastType'
  BY <1>0, <1>a, <1>3 DEF Run_MON_Px, PastType, PastFields
<1>4. ASSUME ClearBlocks PROVE PastType'
  <2>1. fw.n \in Nat
    BY DEF MonTypeOK, RingType, FwStates
  <2> QED BY <1>0, <1>a, <1>4, <2>1, BlocksCleared DEF PastType, PastFields
<1>5. ASSUME NEW c \in MonBlock, Judge(c) \/ FromCopy(c) PROVE PastType'
  <2>1. /\ DOMAIN past' = PastFields
        /\ \A f \in PastFields \ {"handed", "refused", "twice"} : past'[f] = past[f]
        /\ past'.refused \in Nat /\ past'.twice \in BOOLEAN
        /\ past'.handed = past.handed \/ past'.handed \in Nat
    BY <1>5, JudgeTyped, FromCopyTyped
  <2> QED BY <1>0, <1>a, <2>1 DEF PastType, PastFields
<1>6. ASSUME OldClearEom PROVE PastType'
  <2>1. rd.copy.tag \in Nat /\ rd.again \in BOOLEAN
    BY DEF MonTypeOK, ReadType, MonBlock
  <2>2. past' = [past EXCEPT !.handed = rd.copy.tag, !.lapped = @ \/ rd.again]
    BY <1>6 DEF OldClearEom
  <2> QED BY <1>0, <1>a, <2>1, <2>2 DEF PastType, PastFields
<1>7. ASSUME FetchFails PROVE PastType'
  BY <1>0, <1>a, <1>7 DEF FetchFails, PastType, PastFields
<1>8. ASSUME NextOfBuffer \/ BlockCopied PROVE PastType'
  <2>1. reader.who = "new"
    BY <1>8 DEF NextOfBuffer, BlockCopied, StepSound
  <2>2. \/ UNCHANGED past \/ past' = [past EXCEPT !.handed = Head(lcl).tag]
        \/ \E x : past' = [past EXCEPT !.handed = x]
    BY <1>8 DEF NextOfBuffer, BlockCopied
  <2> QED BY <1>0, <1>a, <2>1, <2>2 DEF PastType, PastFields
<1>9. ASSUME ClearEom PROVE PastType'
  BY <1>5, <1>9 DEF ClearEom, MonTypeOK, ReadType
<1>10. ASSUME Get_DmaMonBlockCopy_Px PROVE PastType'
  <2>1. CASE Cached(rd.blk)
    BY <1>5, <1>10, <2>1, CachedTyped DEF Get_DmaMonBlockCopy_Px
  <2>2. CASE ~Cached(rd.blk)
    BY <1>0, <1>a, <1>10, <2>2 DEF Get_DmaMonBlockCopy_Px, PastType
  <2> QED BY <2>1, <2>2
<1>11. ASSUME ClearFetched PROVE PastType'
  <2>1. dmaBuffer.data[0] \in MonBlock
    BY MonRingAssumption DEF MonTypeOK, HostType, Caches
  <2>2. FromCopy(dmaBuffer.data[0]) \/ UNCHANGED past
    BY <1>11 DEF ClearFetched
  <2> QED BY <1>0, <1>a, <1>5, <2>1, <2>2 DEF PastType
<1>12. ASSUME UNCHANGED past PROVE PastType'
  BY <1>0, <1>a, <1>12 DEF PastType
<1> QED
  BY <1>1, <1>2, <1>3, <1>4, <1>6, <1>7, <1>8, <1>9, <1>10, <1>11, <1>12, HostSteps
  DEF Stop_Px, Clear_Msg_Blks_Px, CallReader, Get_Message_Px, CopyHead, CopyWords, CopyAgain,
     GetMessageEnds, OldStatusAgain, FetchHeads, FetchWords, Read_Monitor_Block_Px, MonVars

(***************************************************************************)
(* What the steps leave alone.                                             *)
(***************************************************************************)
LEMMA ReaderKept ==
    ASSUME [MonNext]_MonVars
    PROVE  UNCHANGED reader
BY HostSteps DEF FwBegin, FwEnd, Run_MON_Px, Stop_Px, Clear_Msg_Blks_Px, ClearBlocks,
   CallReader, Get_Message_Px, CopyHead, CopyWords, CopyAgain, ClearEom, GetMessageEnds,
   OldStatusAgain, OldClearEom, Get_DmaMonBlockCopy_Px, FetchHeads, FetchWords, FetchFails,
   ClearFetched, NextOfBuffer, Read_Monitor_Block_Px, BlockCopied, MonVars

\* What went wrong stays so.
LEMMA PastKept ==
    ASSUME MonTypeOK, CacheRange, [MonNext]_MonVars
    PROVE  /\ past.lapped => past'.lapped
           /\ past.failed => past'.failed
           /\ past'.cleared = past.cleared \/ ClearBlocks
           /\ past'.runs = past.runs \/ (Run_MON_Px /\ past'.runs = past.runs + 1)
<1> DEFINE Goal == /\ past.lapped => past'.lapped
                   /\ past.failed => past'.failed
                   /\ past'.cleared = past.cleared \/ ClearBlocks
                   /\ past'.runs = past.runs \/ (Run_MON_Px /\ past'.runs = past.runs + 1)
<1>0. DOMAIN past = PastFields
  BY DEF MonTypeOK, PastType
<1>1. ASSUME FwBegin PROVE Goal
  BY <1>1, FwBeginDoes DEF PastFields
<1>2. ASSUME NEW triggered \in BOOLEAN, FwEnd(triggered) PROVE Goal
  BY <1>2, FwEndDoes DEF PastFields
<1>3. ASSUME Run_MON_Px PROVE Goal
  BY <1>0, <1>3 DEF Run_MON_Px, PastFields
<1>4. ASSUME ClearBlocks PROVE Goal
  BY <1>4, BlocksCleared DEF PastFields
<1>5. ASSUME NEW c \in MonBlock, Judge(c) \/ FromCopy(c) PROVE Goal
  <2>1. \A f \in PastFields \ {"handed", "refused", "twice"} : past'[f] = past[f]
    BY <1>5, JudgeTyped, FromCopyTyped
  <2> QED BY <2>1 DEF PastFields
<1>6. ASSUME OldClearEom PROVE Goal
  <2>1. past' = [past EXCEPT !.handed = rd.copy.tag, !.lapped = @ \/ rd.again]
    BY <1>6 DEF OldClearEom
  <2> QED BY <1>0, <2>1 DEF PastFields
<1>7. ASSUME FetchFails PROVE Goal
  BY <1>0, <1>7 DEF FetchFails, PastFields
<1>8. ASSUME NextOfBuffer \/ BlockCopied PROVE Goal
  <2>1. UNCHANGED past \/ \E x : past' = [past EXCEPT !.handed = x]
    BY <1>8 DEF NextOfBuffer, BlockCopied
  <2> QED BY <1>0, <2>1 DEF PastFields
<1>9. ASSUME ClearEom PROVE Goal
  BY <1>5, <1>9 DEF ClearEom, MonTypeOK, ReadType
<1>10. ASSUME Get_DmaMonBlockCopy_Px PROVE Goal
  <2>1. CASE Cached(rd.blk)
    BY <1>5, <1>10, <2>1, CachedTyped DEF Get_DmaMonBlockCopy_Px
  <2>2. CASE ~Cached(rd.blk)
    BY <1>10, <2>2 DEF Get_DmaMonBlockCopy_Px
  <2> QED BY <2>1, <2>2
<1>11. ASSUME ClearFetched PROVE Goal
  <2>1. dmaBuffer.data[0] \in MonBlock
    BY MonRingAssumption DEF MonTypeOK, HostType, Caches
  <2>2. FromCopy(dmaBuffer.data[0]) \/ UNCHANGED past
    BY <1>11 DEF ClearFetched
  <2> QED BY <1>5, <2>1, <2>2
<1>12. ASSUME UNCHANGED past PROVE Goal
  BY <1>12
<1> QED
  BY <1>1, <1>2, <1>3, <1>4, <1>6, <1>7, <1>8, <1>9, <1>10, <1>11, <1>12, HostSteps
  DEF Stop_Px, Clear_Msg_Blks_Px, CallReader, Get_Message_Px, CopyHead, CopyWords, CopyAgain,
     GetMessageEnds, OldStatusAgain, FetchHeads, FetchWords, Read_Monitor_Block_Px, MonVars

\* A copy once stale stays stale.
LEMMA StaleStays ==
    ASSUME MonTypeOK, CacheRange, RingSound, [MonNext]_MonVars
    PROVE  StaleCopy => StaleCopy'
<1>1. past'.cleared = past.cleared \/ (ClearBlocks /\ past'.cleared = fw.n)
  BY PastKept, BlocksCleared
<1>2. past.cleared \in Nat /\ fw.n \in Nat /\ past.cleared <= fw.n
  BY DEF MonTypeOK, RingType, FwStates, PastType, RingSound
<1> QED
  BY <1>1, <1>2, ReaderKept DEF StaleCopy

\* What excuses a message out of order once does so for good.
LEMMA GoodBefore ==
    ASSUME MonTypeOK, CacheRange, RingSound, [MonNext]_MonVars, Good'
    PROVE  Good
<1>1. past.runs \in Nat
  BY DEF MonTypeOK, PastType
<1> QED
  BY <1>1, PastKept, StaleStays, ReaderKept DEF Good, CutShort

\* Emptying blocks leaves their messages.
LEMMA RingKept ==
    ASSUME MonTypeOK, CacheRange, ClearEom \/ OldClearEom \/ ClearFetched
    PROVE  /\ \A b \in BlockNums :
                 /\ ring'[b].tag = ring[b].tag /\ ring'[b].words = ring[b].words
                 /\ ring'[b].cnt = ring[b].cnt
                 /\ ring'[b].eom => ring[b].eom
           /\ UNCHANGED <<reader, fw>>
<1>1. CASE ClearEom \/ OldClearEom
  <2>1. \A b \in BlockNums :
           /\ ring'[b].tag = ring[b].tag /\ ring'[b].words = ring[b].words
           /\ ring'[b].cnt = ring[b].cnt
           /\ ring'[b].eom => ring[b].eom
    BY <1>1, EomCleared
  <2> QED BY <1>1, <2>1 DEF ClearEom, OldClearEom
<1>2. CASE ClearFetched
  <2>1. UNCHANGED <<reader, fw>>
    BY <1>2 DEF ClearFetched
  <2> QED BY <1>2, <2>1, FetchedCleared
<1> QED
  BY <1>1, <1>2

(***************************************************************************)
(* The ring.                                                               *)
(***************************************************************************)
LEMMA RingSoundStep == MonTypeOK /\ CacheRange /\ RingSound /\ [MonNext]_MonVars => RingSound'
<1> SUFFICES ASSUME MonTypeOK, CacheRange, RingSound, [MonNext]_MonVars PROVE RingSound'
  OBVIOUS
<1>0. /\ fw \in FwStates /\ fw.n \in Nat /\ fw.blk \in BlockNums /\ fw.stored \in Nat
      /\ \A b \in BlockNums : ring[b] \in MonBlock /\ ring[b].tag \in Nat
      /\ past.cleared \in Nat
  BY DEF MonTypeOK, RingType, FwStates, MonBlock, PastType
<1>1. ASSUME FwBegin PROVE RingSound'
  <2>1. /\ ~fw.writing /\ fw'.writing /\ fw'.n = fw.n + 1 /\ fw'.blk = fw.blk
        /\ fw'.stored = fw.stored
        /\ ~ring'[fw.blk].eom /\ ring'[fw.blk].tag = fw.n + 1 /\ ring'[fw.blk].words = fw.n + 1
        /\ \A b \in BlockNums : b # fw.blk => ring'[b] = ring[b]
        /\ past'.cleared = past.cleared
    BY <1>1, FwBeginDoes DEF PastFields
  <2>2. ASSUME NEW b \in BlockNums
        PROVE  /\ ring'[b].words = ring'[b].tag /\ ring'[b].tag <= fw'.n
               /\ ring'[b].eom => ring'[b].tag # 0 /\ Ended(ring[b].tag)'
    <3>1. CASE b = fw.blk
      BY <1>0, <2>1, <3>1
    <3>2. CASE b # fw.blk
      <4>1. ring'[b] = ring[b] /\ ring[b].tag \in Nat
        BY <1>0, <2>1, <3>2
      <4>2. /\ ring[b].words = ring[b].tag /\ ring[b].tag <= fw.n
            /\ ring[b].eom => ring[b].tag # 0
        BY DEF RingSound
      <4> QED BY <1>0, <2>1, <4>1, <4>2 DEF Ended
    <3> QED BY <3>1, <3>2
  <2>3. ASSUME NEW a \in BlockNums, NEW b \in BlockNums, ring'[a].tag = ring'[b].tag,
               ring'[a].tag # 0
        PROVE  a = b
    <3>1. \A d \in BlockNums : ring[d].tag <= fw.n
      BY DEF RingSound
    <3>2. CASE a # fw.blk /\ b # fw.blk
      BY <2>1, <2>3, <3>2 DEF RingSound
    <3>3. CASE a = fw.blk /\ b # fw.blk
      BY <1>0, <2>1, <2>3, <3>1, <3>3
    <3>4. CASE a # fw.blk /\ b = fw.blk
      BY <1>0, <2>1, <2>3, <3>1, <3>4
    <3> QED BY <3>2, <3>3, <3>4
  <2> QED BY <1>0, <2>1, <2>2, <2>3 DEF RingSound
<1>2. ASSUME NEW triggered \in BOOLEAN, FwEnd(triggered) PROVE RingSound'
  <2>1. /\ fw.writing /\ ~fw'.writing /\ fw'.n = fw.n
        /\ ring'[fw.blk].tag = ring[fw.blk].tag /\ ring'[fw.blk].words = ring[fw.blk].words
        /\ \A b \in BlockNums : b # fw.blk => ring'[b] = ring[b]
        /\ past'.cleared = past.cleared
        /\ fw'.stored = fw.stored \/ fw'.stored = fw.stored + 1
    BY <1>2, FwEndDoes DEF PastFields
  <2>2. ASSUME NEW b \in BlockNums
        PROVE  /\ ring'[b].words = ring'[b].tag /\ ring'[b].tag <= fw'.n
               /\ ring'[b].eom => ring'[b].tag # 0 /\ Ended(ring[b].tag)'
    <3>1. ring'[b].words = ring[b].words /\ ring'[b].tag = ring[b].tag /\ ring[b].tag \in Nat
      BY <1>0, <2>1
    <3>2. ring[b].words = ring[b].tag /\ ring[b].tag <= fw.n
      BY DEF RingSound
    <3>3. ring'[b].eom => ring'[b].tag # 0
      <4>1. CASE b = fw.blk
        BY <2>1, <3>1, <4>1 DEF RingSound
      <4>2. CASE b # fw.blk
        BY <2>1, <3>1, <4>2 DEF RingSound
      <4> QED BY <4>1, <4>2
    <3> QED BY <1>0, <2>1, <3>1, <3>2, <3>3 DEF Ended
  <2>3. ASSUME NEW a \in BlockNums, NEW b \in BlockNums, ring'[a].tag = ring'[b].tag,
               ring'[a].tag # 0
        PROVE  a = b
    <3>1. ring'[a].tag = ring[a].tag /\ ring'[b].tag = ring[b].tag
      BY <2>1
    <3> QED BY <2>3, <3>1 DEF RingSound
  <2> QED BY <1>0, <2>1, <2>2, <2>3 DEF RingSound
<1>3. ASSUME ClearBlocks PROVE RingSound'
  <2>1. /\ \A b \in BlockNums : ~ring'[b].eom /\ ring'[b].tag = 0 /\ ring'[b].words = 0
        /\ ~fw.writing /\ UNCHANGED fw /\ past'.cleared = fw.n
    BY <1>3, BlocksCleared DEF Empty, ClearBlocks
  <2> QED BY <1>0, <2>1 DEF RingSound
<1>4. ASSUME ClearEom \/ OldClearEom \/ ClearFetched PROVE RingSound'
  <2>1. ~ClearBlocks
    BY <1>4 DEF ClearEom, OldClearEom, ClearFetched, ClearBlocks
  <2>2. past'.cleared = past.cleared
    BY <2>1, PastKept
  <2> QED BY <1>0, <1>4, <2>2, RingKept DEF RingSound, Ended
<1>5. ASSUME Run_MON_Px PROVE RingSound'
  <2>1. fw'.n = fw.n /\ fw'.blk = fw.blk /\ fw'.writing = fw.writing /\ fw'.stored = fw.stored
    BY <1>0, <1>5 DEF Run_MON_Px, FwStates
  <2>2. ~ClearBlocks /\ UNCHANGED ring
    BY <1>5 DEF Run_MON_Px, ClearBlocks
  <2> QED BY <2>1, <2>2, PastKept DEF RingSound, Ended
<1>6. ASSUME UNCHANGED <<ring, fw>>, ~ClearBlocks PROVE RingSound'
  BY <1>6, PastKept DEF RingSound, Ended
<1>7. Stop_Px \/ Clear_Msg_Blks_Px => UNCHANGED <<ring, fw>>
  BY DEF Stop_Px, Clear_Msg_Blks_Px
<1> QED
  BY <1>1, <1>2, <1>3, <1>4, <1>5, <1>6, <1>7, MonSteps

(***************************************************************************)
(* The steps of a call.                                                    *)
(***************************************************************************)
LEMMA StepSoundStep == MonTypeOK /\ CacheRange /\ StepSound /\ [MonNext]_MonVars => StepSound'
<1> SUFFICES ASSUME MonTypeOK, CacheRange, StepSound, [MonNext]_MonVars PROVE StepSound'
  OBVIOUS
<1>0. /\ UNCHANGED reader /\ (past.failed => past'.failed)
      /\ DOMAIN rd = ReadFields /\ dmaBuffer \in Caches
      /\ reader.who \in {"old", "wide", "nios", "irig", "bcm", "rtm", "new", "get"}
  BY ReaderKept, PastKept, ReadersAssumption
  DEF MonTypeOK, ReadType, HostType, RingType, ReaderSetups
<1>1. ASSUME rd' = Resting, dmaBuffer'.valid => dmaBuffer.valid PROVE StepSound'
  BY <1>0, <1>1, RestingIs DEF StepSound
<1>2. ASSUME rd'.pc = rd.pc, rd'.blk = rd.blk, rd'.copy = rd.copy,
             UNCHANGED <<nextblock, dmaBuffer>>
      PROVE  StepSound'
  BY <1>0, <1>2 DEF StepSound, OldReader
<1>3. ASSUME NEW triggered \in BOOLEAN, FwEnd(triggered) PROVE StepSound'
  <2>1. rd'.pc = rd.pc /\ rd'.blk = rd.blk /\ rd'.copy = rd.copy
    BY <1>3, FwEndDoes DEF ReadFields
  <2> QED BY <1>2, <1>3, <2>1 DEF FwEnd, Host
<1>4. ASSUME FwBegin \/ Run_MON_Px \/ Stop_Px \/ UNCHANGED MonVars PROVE StepSound'
  BY <1>2, <1>4 DEF FwBegin, Run_MON_Px, Stop_Px, MonVars, Host
<1>5. ASSUME Clear_Msg_Blks_Px PROVE StepSound'
  <2>1. rd'.pc = "clear" /\ UNCHANGED dmaBuffer
    BY <1>0, <1>5 DEF Clear_Msg_Blks_Px, ReadFields, Host
  <2> QED BY <1>0, <2>1 DEF StepSound
<1>6. ASSUME ClearBlocks PROVE StepSound'
  BY <1>1, <1>6 DEF ClearBlocks
<1>7. ASSUME NEW who \in {"nios", "irig", "bcm", "rtm", "old", "wide"}, CallReader(who)
      PROVE  StepSound'
  <2>1. /\ rd'.pc = IF reader.dma THEN "cache" ELSE "head"
        /\ rd'.blk = nextblock' /\ UNCHANGED dmaBuffer /\ reader.who = who
    BY <1>7, RestingIs DEF CallReader, ReadFields
  <2> QED BY <1>0, <2>1 DEF StepSound
<1>8. ASSUME NEW b \in BlockNums, Get_Message_Px(b) PROVE StepSound'
  <2>1. rd'.pc = "head" /\ UNCHANGED <<nextblock, dmaBuffer>> /\ reader.who = "get"
    BY <1>8, RestingIs DEF Get_Message_Px, ReadFields, Host
  <2> QED BY <1>0, <2>1 DEF StepSound
<1>9. ASSUME CopyHead PROVE StepSound'
  <2>1. CASE rd' = Resting
    BY <1>1, <1>9, <2>1 DEF CopyHead
  <2>2. CASE rd' # Resting
    <3>1. rd'.pc = "words" /\ rd'.blk = rd.blk /\ rd.pc = "head"
          /\ UNCHANGED <<nextblock, dmaBuffer>>
      BY <1>0, <1>9, <2>2 DEF CopyHead, Returns, ReadFields
    <3> QED BY <1>0, <3>1 DEF StepSound
  <2> QED BY <2>1, <2>2
<1>10. ASSUME CopyWords PROVE StepSound'
  <2>1. CASE rd' = Resting
    BY <1>1, <1>10, <2>1 DEF CopyWords, Host
  <2>2. CASE rd' # Resting
    <3>1. /\ rd.copy.eom /\ rd.pc = "words" /\ UNCHANGED <<nextblock, dmaBuffer>>
          /\ rd' = [rd EXCEPT !.pc = "check", !.copy = Tail1(@, ring[rd.blk])]
      BY <1>10, <2>2 DEF CopyWords, Returns, Host
    <3>2. Tail1(rd.copy, ring[rd.blk]).eom = rd.copy.eom
      BY Copying DEF MonTypeOK, RingType, ReadType
    <3>3. rd'.pc = "check" /\ rd'.blk = rd.blk /\ rd'.copy.eom
      BY <1>0, <3>1, <3>2 DEF ReadFields
    <3> QED BY <1>0, <3>1, <3>3 DEF StepSound
  <2> QED BY <2>1, <2>2
<1>11. ASSUME CopyAgain PROVE StepSound'
  <2>1. CASE rd' = Resting
    BY <1>1, <1>11, <2>1 DEF CopyAgain, Host
  <2>2. CASE rd' # Resting
    <3>1. /\ rd.pc = "check" /\ UNCHANGED <<nextblock, dmaBuffer>>
          /\ rd'.pc = "eom" /\ rd'.blk = rd.blk /\ rd'.copy = rd.copy
      BY <1>0, <1>11, <2>2 DEF CopyAgain, Returns, Host, ReadFields
    <3> QED BY <1>0, <3>1 DEF StepSound, OldReader
  <2> QED BY <2>1, <2>2
<1>12. ASSUME ClearEom PROVE StepSound'
  BY <1>1, <1>12, JudgeTyped DEF ClearEom, MonTypeOK, ReadType
<1>13. ASSUME OldStatusAgain PROVE StepSound'
  <2>1. CASE rd' = Resting
    BY <1>1, <1>13, <2>1 DEF OldStatusAgain
  <2>2. CASE rd' # Resting
    <3>1. PICK c : c.eom /\ rd' = [rd EXCEPT !.pc = "eom", !.copy = c]
      BY <1>13, <2>2 DEF OldStatusAgain, Returns
    <3>2. /\ rd.pc = "check" /\ OldReader /\ UNCHANGED <<nextblock, dmaBuffer>>
      BY <1>13 DEF OldStatusAgain
    <3>3. rd'.pc = "eom" /\ rd'.blk = rd.blk /\ rd'.copy.eom
      BY <1>0, <3>1 DEF ReadFields
    <3> QED BY <1>0, <3>2, <3>3 DEF StepSound, OldReader
  <2> QED BY <2>1, <2>2
<1>14. ASSUME OldClearEom PROVE StepSound'
  BY <1>1, <1>14, OldCleared DEF OldClearEom, HandsOver
<1>15. ASSUME FromCopy(dmaBuffer.data[rd.blk - dmaBuffer.begin]),
              dmaBuffer.data[rd.blk - dmaBuffer.begin] \in MonBlock,
              rd.pc \in {"cache", "marks"}, UNCHANGED dmaBuffer, dmaBuffer.valid
       PROVE  StepSound'
  <2> DEFINE c == dmaBuffer.data[rd.blk - dmaBuffer.begin]
  <2>1. CASE rd' = Resting
    BY <1>1, <1>15, <2>1
  <2>2. CASE rd' # Resting
    <3>1. /\ c.eom /\ OldReader /\ rd' = [rd EXCEPT !.pc = "check", !.copy = c]
          /\ UNCHANGED nextblock
      BY <1>15, <2>2, JudgeTyped DEF FromCopy, Returns
    <3>2. rd'.pc = "check" /\ rd'.blk = rd.blk /\ rd'.copy.eom
      BY <1>0, <3>1 DEF ReadFields
    <3> QED BY <1>0, <1>15, <3>1, <3>2 DEF StepSound, OldReader
  <2> QED BY <2>1, <2>2
<1>16. ASSUME Get_DmaMonBlockCopy_Px PROVE StepSound'
  <2>1. CASE Cached(rd.blk)
    BY <1>15, <1>16, <2>1, CachedTyped DEF Get_DmaMonBlockCopy_Px, Cached
  <2>2. CASE ~Cached(rd.blk)
    <3>1. /\ rd.pc = "cache" /\ rd'.pc = "dma" /\ rd'.blk = rd.blk
          /\ dmaBuffer'.valid = dmaBuffer.valid /\ UNCHANGED nextblock
      BY <1>0, <1>16, <2>2 DEF Get_DmaMonBlockCopy_Px, ReadFields, Caches
    <3> QED BY <1>0, <3>1 DEF StepSound
  <2> QED BY <2>1, <2>2
<1>17. ASSUME FetchHeads PROVE StepSound'
  <2>1. /\ rd.pc = "dma" /\ rd'.pc = "dma2" /\ rd'.blk = rd.blk /\ UNCHANGED nextblock
        /\ dmaBuffer'.valid = dmaBuffer.valid
    BY <1>0, <1>17, HeadsFetched DEF FetchHeads, ReadFields
  <2> QED BY <1>0, <2>1 DEF StepSound
<1>18. ASSUME FetchWords PROVE StepSound'
  <2>1. /\ rd.pc = "dma2" /\ rd'.pc = "marks" /\ rd'.blk = rd.blk /\ UNCHANGED nextblock
        /\ dmaBuffer'.valid
    BY <1>0, <1>18, WordsFetched DEF FetchWords, ReadFields
  <2> QED BY <1>0, <2>1 DEF StepSound
<1>19. ASSUME FetchFails PROVE StepSound'
  <2>1. /\ rd.pc = "dma" /\ rd'.pc = "marks" /\ rd'.blk = rd.blk /\ UNCHANGED nextblock
        /\ ~dmaBuffer'.valid /\ past'.failed
    BY <1>0, <1>19 DEF FetchFails, ReadFields, Caches, MonTypeOK, PastType, PastFields
  <2> QED BY <1>0, <2>1 DEF StepSound
<1>20. ASSUME ClearFetched PROVE StepSound'
  <2>1. rd.blk = dmaBuffer.begin /\ rd.pc = "marks" /\ UNCHANGED dmaBuffer
    BY <1>20 DEF ClearFetched, StepSound, CacheRange
  <2>2. CASE dmaBuffer.valid
    <3>1. dmaBuffer.begin \in Nat
      BY <1>0, MonRingAssumption DEF Caches, BlockNums
    <3>2. rd.blk - dmaBuffer.begin = 0
      BY <2>1, <3>1
    <3>3. dmaBuffer.data[0] \in MonBlock
      BY <1>0, MonRingAssumption DEF Caches
    <3>4. FromCopy(dmaBuffer.data[0])
      BY <1>20, <2>2 DEF ClearFetched
    <3> QED BY <1>15, <2>1, <2>2, <3>2, <3>3, <3>4
  <2>3. CASE ~dmaBuffer.valid
    <3>1. rd'.pc = "head" /\ rd'.blk = rd.blk /\ UNCHANGED nextblock
      BY <1>0, <1>20, <2>3 DEF ClearFetched, ReadFields
    <3> QED BY <1>0, <2>1, <2>3, <3>1 DEF StepSound
  <2> QED BY <2>2, <2>3
<1>21. ASSUME NextOfBuffer \/ BlockCopied \/ GetMessageEnds PROVE StepSound'
  BY <1>1, <1>21 DEF NextOfBuffer, BlockCopied, GetMessageEnds, HandsOver, Returns, Host
<1>22. ASSUME Read_Monitor_Block_Px PROVE StepSound'
  <2>1. rd'.pc = "block" /\ reader.who = "new" /\ UNCHANGED <<nextblock, dmaBuffer>>
    BY <1>22, RestingIs DEF Read_Monitor_Block_Px, ReadFields, Host
  <2> QED BY <1>0, <2>1 DEF StepSound
<1> QED
  BY <1>3, <1>4, <1>5, <1>6, <1>7, <1>8, <1>9, <1>10, <1>11, <1>12, <1>13, <1>14, <1>16,
     <1>17, <1>18, <1>19, <1>20, <1>21, <1>22, HostSteps

(***************************************************************************)
(* A copy taken from dual-port memory.                                     *)
(***************************************************************************)
LEMMA CopySoundStep ==
    MonTypeOK /\ CacheRange /\ RingSound /\ StepSound /\ CopySound /\ [MonNext]_MonVars
       => CopySound'
<1> SUFFICES ASSUME MonTypeOK, CacheRange, RingSound, StepSound, CopySound, [MonNext]_MonVars,
                    InCopy', ~dmaBuffer'.valid
             PROVE  CopySound'
  BY DEF CopySound
<1>0. /\ UNCHANGED reader /\ DOMAIN rd = ReadFields /\ rd.blk \in BlockNums
      /\ rd.copy \in MonBlock /\ rd.copy.tag \in Nat /\ rd.copy.words \in Nat
      /\ fw.n \in Nat /\ fw.blk \in BlockNums
      /\ \A b \in BlockNums : ring[b] \in MonBlock /\ ring[b].tag \in Nat
  BY ReaderKept DEF MonTypeOK, ReadType, RingType, FwStates, MonBlock
<1>1. ASSUME FwBegin PROVE CopySound'
  <2>1. /\ ~fw.writing /\ fw'.writing /\ fw'.n = fw.n + 1
        /\ ~ring'[fw.blk].eom /\ ring'[fw.blk].tag = fw.n + 1
        /\ \A b \in BlockNums : b # fw.blk => ring'[b] = ring[b]
        /\ UNCHANGED <<rd, dmaBuffer>>
    BY <1>1, FwBeginDoes DEF FwBegin, Host
  <2>2. ring[rd.blk].tag <= fw.n
    BY <1>0 DEF RingSound
  <2>3. InCopy /\ ~dmaBuffer.valid
    BY <2>1 DEF InCopy
  <2>4. rd.copy.eom =>
           /\ rd.copy.tag # 0 /\ Ended(rd.copy.tag)'
           /\ \A a \in BlockNums : ring'[a].eom /\ ring'[a].tag = rd.copy.tag => a = rd.blk
    <3>1. rd.copy.tag <= fw.n
      BY <1>0, <2>2, <2>3 DEF CopySound
    <3> QED BY <1>0, <2>1, <2>3, <3>1 DEF CopySound, Ended
  <2>5. CASE rd.blk = fw.blk
    <3>1. rd.copy.tag <= fw.n /\ (rd.pc # "words" => rd.copy.words <= fw.n)
      BY <1>0, <2>2, <2>3 DEF CopySound
    <3> QED BY <1>0, <2>1, <2>3, <2>4, <2>5, <3>1 DEF CopySound, OldReader
  <2>6. CASE rd.blk # fw.blk
    BY <1>0, <2>1, <2>3, <2>4, <2>6 DEF CopySound, OldReader
  <2> QED BY <2>5, <2>6
<1>2. ASSUME NEW triggered \in BOOLEAN, FwEnd(triggered) PROVE CopySound'
  <2>1. /\ fw.writing /\ ~fw'.writing /\ fw'.n = fw.n
        /\ ring'[fw.blk].tag = ring[fw.blk].tag
        /\ \A b \in BlockNums : b # fw.blk => ring'[b] = ring[b]
        /\ rd'.pc = rd.pc /\ rd'.blk = rd.blk /\ rd'.copy = rd.copy
        /\ rd'.again = (rd.again \/ (OldReader /\ rd.pc # "idle" /\ fw.blk = rd.blk))
        /\ UNCHANGED dmaBuffer
    BY <1>2, FwEndDoes DEF FwEnd, Host, ReadFields
  <2>2. InCopy /\ ~dmaBuffer.valid
    BY <2>1 DEF InCopy
  <2>3. ring[fw.blk].tag = fw.n
    BY <2>1 DEF RingSound
  <2>4. rd.copy.eom =>
           /\ rd.copy.tag # 0 /\ Ended(rd.copy.tag)' /\ rd.copy.tag # fw.n
           /\ \A a \in BlockNums : ring'[a].eom /\ ring'[a].tag = rd.copy.tag => a = rd.blk
    <3>1. rd.copy.eom => rd.copy.tag < fw.n /\ rd.copy.tag # 0
      BY <2>1, <2>2 DEF CopySound, Ended
    <3> QED BY <1>0, <2>1, <2>2, <2>3, <3>1 DEF CopySound, Ended
  <2>5. CASE rd.blk = fw.blk
    <3>1. OldReader => rd'.again
      BY <2>1, <2>2, <2>5 DEF InCopy
    <3> QED BY <2>1, <2>2, <2>3, <2>4, <2>5, <3>1, <1>0 DEF CopySound, OldReader
  <2>6. CASE rd.blk # fw.blk
    <3>1. ring'[rd.blk] = ring[rd.blk]
      BY <1>0, <2>1, <2>6
    <3>2. rd.again => rd'.again
      BY <2>1
    <3> QED BY <1>0, <2>1, <2>2, <2>4, <3>1, <3>2 DEF CopySound, OldReader
  <2> QED BY <2>5, <2>6
<1>3. ASSUME CopyHead PROVE CopySound'
  <2>1. PICK c : c = Head1(Empty, ring[rd.blk])
    OBVIOUS
  <2>2. /\ c.eom = ring[rd.blk].eom /\ c.trig = ring[rd.blk].trig /\ c.tag = ring[rd.blk].tag
    BY <1>0, <2>1, EmptyBlock, Copying
  <2>3. /\ rd' = [rd EXCEPT !.pc = "words", !.copy = c] /\ (OldReader => c.eom)
        /\ UNCHANGED <<ring, fw, dmaBuffer>>
    BY <1>3, <2>1, RestingIs DEF CopyHead, Returns, InCopy
  <2>4. /\ rd'.pc = "words" /\ rd'.blk = rd.blk /\ rd'.copy = c /\ rd'.again = rd.again
    BY <1>0, <2>3 DEF ReadFields
  <2>5. c.eom =>
           /\ c.tag # 0 /\ Ended(c.tag)
           /\ \A a \in BlockNums : ring[a].eom /\ ring[a].tag = c.tag => a = rd.blk
    BY <1>0, <2>2 DEF RingSound
  <2> QED BY <1>0, <2>2, <2>3, <2>4, <2>5 DEF CopySound, OldReader, Ended
<1>4. ASSUME CopyWords PROVE CopySound'
  <2>1. PICK c : c = Tail1(rd.copy, ring[rd.blk])
    OBVIOUS
  <2>2. /\ c.eom = rd.copy.eom /\ c.trig = rd.copy.trig /\ c.tag = rd.copy.tag
        /\ c.words = ring[rd.blk].words
    BY <1>0, <2>1, Copying
  <2>3. /\ rd' = [rd EXCEPT !.pc = "check", !.copy = c] /\ rd.copy.eom /\ rd.pc = "words"
        /\ UNCHANGED <<ring, fw, dmaBuffer>>
    BY <1>4, <2>1, RestingIs DEF CopyWords, Returns, InCopy, Host
  <2>4. /\ rd'.pc = "check" /\ rd'.blk = rd.blk /\ rd'.copy = c /\ rd'.again = rd.again
    BY <1>0, <2>3 DEF ReadFields
  <2>5. InCopy /\ ~dmaBuffer.valid /\ ring[rd.blk].words = ring[rd.blk].tag
    BY <1>0, <2>3 DEF InCopy, RingSound
  <2>6. /\ c.tag <= ring[rd.blk].tag /\ c.words = ring[rd.blk].tag
        /\ OldReader /\ c.words # c.tag => rd.again \/ ~ring[rd.blk].eom
        /\ c.tag # 0 /\ Ended(c.tag)
        /\ \A a \in BlockNums : ring[a].eom /\ ring[a].tag = c.tag => a = rd.blk
        /\ ring[rd.blk].tag = c.tag => ring[rd.blk].trig = c.trig
    BY <2>2, <2>3, <2>5 DEF CopySound
  <2>7. UNCHANGED OldReader /\ c.eom
    BY <1>0, <2>2, <2>3 DEF OldReader
  <2> QED BY <1>0, <2>3, <2>4, <2>6, <2>7 DEF CopySound, Ended
<1>5. ASSUME CopyAgain PROVE CopySound'
  <2>1. /\ rd' = [rd EXCEPT !.pc = "eom"] /\ rd.pc = "check" /\ ~OldReader
        /\ rd.copy.tag = ring[rd.blk].tag /\ UNCHANGED <<ring, fw, dmaBuffer>>
    BY <1>5, RestingIs DEF CopyAgain, Returns, InCopy, Host, SameHead
  <2>2. /\ rd'.pc = "eom" /\ rd'.blk = rd.blk /\ rd'.copy = rd.copy /\ rd'.again = rd.again
    BY <1>0, <2>1 DEF ReadFields
  <2>3. InCopy /\ ~dmaBuffer.valid
    BY <2>1 DEF InCopy
  <2> QED BY <1>0, <2>1, <2>2, <2>3 DEF CopySound, OldReader, Ended
<1>6. ASSUME OldStatusAgain PROVE CopySound'
  <2>1. PICK c : /\ c = [rd.copy EXCEPT !.eom = ring[rd.blk].eom, !.trig = ring[rd.blk].trig]
                 /\ rd' = [rd EXCEPT !.pc = "eom", !.copy = c] /\ c.eom
    BY <1>6, RestingIs DEF OldStatusAgain, Returns, InCopy
  <2>2. rd.pc = "check" /\ OldReader /\ UNCHANGED <<ring, fw, dmaBuffer>>
    BY <1>6 DEF OldStatusAgain
  <2>3. /\ c.tag = rd.copy.tag /\ c.words = rd.copy.words /\ c.eom = ring[rd.blk].eom
        /\ c.trig = ring[rd.blk].trig
    BY <1>0, <2>1 DEF MonBlock
  <2>4. /\ rd'.pc = "eom" /\ rd'.blk = rd.blk /\ rd'.copy = c /\ rd'.again = rd.again
    BY <1>0, <2>1 DEF ReadFields
  <2>5. InCopy /\ ~dmaBuffer.valid
    BY <2>2 DEF InCopy
  <2>6. /\ c.tag <= ring[rd.blk].tag /\ c.tag <= c.words /\ c.words <= ring[rd.blk].tag
        /\ c.words # c.tag => rd.again
        /\ c.tag # 0 /\ Ended(c.tag)
        /\ \A a \in BlockNums : ring[a].eom /\ ring[a].tag = c.tag => a = rd.blk
    BY <2>1, <2>2, <2>3, <2>5 DEF CopySound
  <2>7. OldReader'
    BY <1>0, <2>2 DEF OldReader
  <2>8. /\ rd'.copy.tag <= ring'[rd'.blk].tag /\ rd'.copy.tag <= rd'.copy.words
        /\ rd'.copy.words <= ring'[rd'.blk].tag
        /\ rd'.copy.words # rd'.copy.tag => rd'.again
        /\ rd'.copy.eom /\ rd'.copy.tag # 0
    BY <2>1, <2>2, <2>4, <2>6
  <2>9. /\ rd'.copy.tag <= fw'.n /\ (fw'.writing => rd'.copy.tag < fw'.n)
        /\ \A a \in BlockNums : ring'[a].eom /\ ring'[a].tag = rd'.copy.tag => a = rd'.blk
        /\ ring'[rd'.blk].tag = rd'.copy.tag => ring'[rd'.blk].trig = rd'.copy.trig
    BY <2>2, <2>3, <2>4, <2>6 DEF Ended
  <2> QED BY <2>4, <2>7, <2>8, <2>9 DEF CopySound, Ended
<1>7. ASSUME UNCHANGED <<rd, ring, fw, dmaBuffer>> PROVE CopySound'
  BY <1>0, <1>7 DEF CopySound, InCopy, OldReader, Ended
<1>8. ASSUME rd.pc = "idle", rd'.pc = rd.pc \/ rd'.pc \in {"clear", "head", "cache"} PROVE FALSE
  BY <1>8 DEF InCopy
<1>9. ASSUME rd' = Resting PROVE FALSE
  BY <1>9, RestingIs DEF InCopy
<1>10. ASSUME NEW c \in MonBlock, FromCopy(c), dmaBuffer.valid, UNCHANGED dmaBuffer PROVE FALSE
  BY <1>10
<1>11. ~Clear_Msg_Blks_Px /\ ~Run_MON_Px /\ ~Stop_Px
  BY <1>0, <1>8 DEF Clear_Msg_Blks_Px, Run_MON_Px, Stop_Px, ReadFields
<1>12. ASSUME NEW who \in {"nios", "irig", "bcm", "rtm", "old", "wide"}, CallReader(who)
       PROVE  FALSE
  BY <1>8, <1>12, RestingIs DEF CallReader, ReadFields
<1>13. ASSUME NEW b \in BlockNums, Get_Message_Px(b) PROVE FALSE
  BY <1>8, <1>13, RestingIs DEF Get_Message_Px, ReadFields
<1>14. ~ClearEom /\ ~ClearBlocks /\ ~OldClearEom /\ ~GetMessageEnds /\ ~NextOfBuffer /\ ~BlockCopied
  BY <1>9, JudgeTyped DEF ClearEom, ClearBlocks, OldClearEom, GetMessageEnds, NextOfBuffer,
     BlockCopied, HandsOver, Returns, MonTypeOK, ReadType
<1>15. ~Get_DmaMonBlockCopy_Px
  <2>1. ~Cached(rd.blk) => ~Get_DmaMonBlockCopy_Px
    BY <1>0 DEF Get_DmaMonBlockCopy_Px, InCopy, ReadFields
  <2> QED BY <1>10, <2>1, CachedTyped DEF Get_DmaMonBlockCopy_Px, Cached
<1>16. ~FetchHeads /\ ~FetchWords /\ ~FetchFails
  BY <1>0 DEF FetchHeads, FetchWords, FetchFails, InCopy, ReadFields
<1>17. ~ClearFetched
  BY <1>0 DEF ClearFetched, InCopy, ReadFields
<1>18. ~Read_Monitor_Block_Px
  BY RestingIs DEF Read_Monitor_Block_Px, InCopy, ReadFields
<1> QED
  BY <1>1, <1>2, <1>3, <1>4, <1>5, <1>6, <1>7, <1>11, <1>12, <1>13, <1>14, <1>15, <1>16,
     <1>17, <1>18, HostSteps DEF MonVars

(***************************************************************************)
(* The DMA copy and the call that reads from it.                           *)
(***************************************************************************)
\* Where a copy being read comes from.
LEMMA CopyComes ==
    ASSUME MonTypeOK, CacheRange, StepSound, [MonNext]_MonVars, InCopy'
    PROVE  \/ /\ InCopy /\ rd'.copy.tag = rd.copy.tag /\ rd'.blk = rd.blk
              /\ (rd'.copy.eom => rd.copy.eom)
              /\ (dmaBuffer.valid => rd'.copy = rd.copy)
              /\ UNCHANGED <<nextblock, lastmsgttag, dmaBuffer>>
              /\ FwBegin \/ (\E triggered \in BOOLEAN : FwEnd(triggered))
                 \/ UNCHANGED <<ring, fw, past>>
           \/ /\ CopyHead /\ rd'.copy.tag = ring[rd.blk].tag /\ rd'.copy.eom = ring[rd.blk].eom
              /\ rd'.blk = rd.blk /\ rd.pc = "head"
              /\ OldReader => ~WentBack(rd'.copy) /\ lastmsgttag' = rd'.copy.tag
              /\ UNCHANGED <<ring, fw, past, nextblock, dmaBuffer>>
           \/ /\ dmaBuffer.valid /\ OldReader /\ rd.pc \in {"cache", "marks"}
              /\ nextblock \in dmaBuffer.begin..dmaBuffer.end
              /\ rd'.copy = dmaBuffer.data[nextblock - dmaBuffer.begin] /\ rd'.copy.eom
              /\ ~WentBack(rd'.copy) /\ lastmsgttag' = rd'.copy.tag
              /\ rd'.pc = "check" /\ rd'.blk = rd.blk
              /\ UNCHANGED <<fw, past, nextblock, dmaBuffer>>
              /\ ClearFetched \/ (rd.pc = "cache" /\ UNCHANGED ring)
<1>0. /\ UNCHANGED reader /\ DOMAIN rd = ReadFields /\ rd.blk \in BlockNums
      /\ rd.copy \in MonBlock /\ rd.copy = [f \in DOMAIN rd.copy |-> rd.copy[f]]
      /\ \A b \in BlockNums : ring[b] \in MonBlock
  BY ReaderKept DEF MonTypeOK, ReadType, RingType, MonBlock
<1> DEFINE Stays == /\ InCopy /\ rd'.copy.tag = rd.copy.tag /\ rd'.blk = rd.blk
                    /\ (rd'.copy.eom => rd.copy.eom)
                    /\ (dmaBuffer.valid => rd'.copy = rd.copy)
                    /\ UNCHANGED <<nextblock, lastmsgttag, dmaBuffer>>
                    /\ FwBegin \/ (\E triggered \in BOOLEAN : FwEnd(triggered))
                       \/ UNCHANGED <<ring, fw, past>>
           FromHead == /\ CopyHead /\ rd'.copy.tag = ring[rd.blk].tag
                       /\ rd'.copy.eom = ring[rd.blk].eom
                       /\ rd'.blk = rd.blk /\ rd.pc = "head"
                       /\ OldReader => ~WentBack(rd'.copy) /\ lastmsgttag' = rd'.copy.tag
                       /\ UNCHANGED <<ring, fw, past, nextblock, dmaBuffer>>
           Taken(c) == /\ FromCopy(c) /\ rd' # Resting /\ dmaBuffer.valid
                       /\ UNCHANGED <<fw, dmaBuffer>>
                       /\ ClearFetched \/ (rd.pc = "cache" /\ UNCHANGED ring)
           FromCache == /\ dmaBuffer.valid /\ OldReader /\ rd.pc \in {"cache", "marks"}
                        /\ nextblock \in dmaBuffer.begin..dmaBuffer.end
                        /\ rd'.copy = dmaBuffer.data[nextblock - dmaBuffer.begin] /\ rd'.copy.eom
                        /\ ~WentBack(rd'.copy) /\ lastmsgttag' = rd'.copy.tag
                        /\ rd'.pc = "check" /\ rd'.blk = rd.blk
                        /\ UNCHANGED <<fw, past, nextblock, dmaBuffer>>
                        /\ ClearFetched \/ (rd.pc = "cache" /\ UNCHANGED ring)
<1>1. ASSUME FwBegin PROVE Stays
  BY <1>1 DEF FwBegin, Host, InCopy
<1>2. ASSUME NEW triggered \in BOOLEAN, FwEnd(triggered) PROVE Stays
  <2>1. rd'.pc = rd.pc /\ rd'.blk = rd.blk /\ rd'.copy = rd.copy
    BY <1>2, FwEndDoes DEF ReadFields
  <2> QED BY <1>2, <2>1 DEF FwEnd, Host, InCopy
<1>3. ASSUME CopyHead PROVE FromHead
  <2>1. PICK c : c = Head1(Empty, ring[rd.blk])
    OBVIOUS
  <2>2. c.eom = ring[rd.blk].eom /\ c.tag = ring[rd.blk].tag
    BY <1>0, <2>1, EmptyBlock, Copying
  <2>3. /\ rd' = [rd EXCEPT !.pc = "words", !.copy = c]
        /\ OldReader => ~WentBack(c) /\ lastmsgttag' = c.tag
        /\ rd.pc = "head" /\ UNCHANGED <<ring, fw, past, nextblock, dmaBuffer>>
    BY <1>3, <2>1, RestingIs DEF CopyHead, Returns, InCopy
  <2>4. rd'.copy = c /\ rd'.blk = rd.blk
    BY <1>0, <2>3 DEF ReadFields
  <2> QED BY <1>3, <2>2, <2>3, <2>4
<1>4. ASSUME CopyWords PROVE Stays
  <2>1. PICK c : c = Tail1(rd.copy, ring[rd.blk])
    OBVIOUS
  <2>2. c.eom = rd.copy.eom /\ c.tag = rd.copy.tag
    BY <1>0, <2>1, Copying
  <2>3. /\ rd' = [rd EXCEPT !.pc = "check", !.copy = c] /\ rd.pc = "words"
        /\ UNCHANGED <<ring, fw, past, nextblock, lastmsgttag, dmaBuffer>>
    BY <1>4, <2>1, RestingIs DEF CopyWords, Returns, InCopy, Host
  <2>4. rd'.copy = c /\ rd'.blk = rd.blk
    BY <1>0, <2>3 DEF ReadFields
  <2>5. InCopy /\ ~dmaBuffer.valid
    BY <2>3 DEF InCopy, StepSound
  <2> QED BY <2>2, <2>3, <2>4, <2>5
<1>5. ASSUME CopyAgain PROVE Stays
  <2>1. /\ rd' = [rd EXCEPT !.pc = "eom"] /\ rd.pc = "check"
        /\ UNCHANGED <<ring, fw, past, nextblock, lastmsgttag, dmaBuffer>>
    BY <1>5, RestingIs DEF CopyAgain, Returns, InCopy, Host
  <2> QED BY <1>0, <2>1 DEF ReadFields, InCopy
<1>6. ASSUME OldStatusAgain PROVE Stays
  <2>1. PICK b : b = IF reader.dma /\ dmaBuffer.valid THEN rd.copy ELSE ring[rd.blk]
    OBVIOUS
  <2>2. PICK c : c = [rd.copy EXCEPT !.eom = b.eom, !.trig = b.trig]
    OBVIOUS
  <2>3. /\ rd' = [rd EXCEPT !.pc = "eom", !.copy = c] /\ rd.pc = "check"
        /\ UNCHANGED <<ring, fw, past, nextblock, lastmsgttag, dmaBuffer>>
    BY <1>6, <2>1, <2>2, RestingIs DEF OldStatusAgain, Returns, InCopy
  <2>4. c.tag = rd.copy.tag
    BY <1>0, <2>2 DEF MonBlock
  <2>5. dmaBuffer.valid => c = rd.copy
    <3>1. dmaBuffer.valid => b = rd.copy
      BY <2>1 DEF StepSound
    <3> QED BY <1>0, <2>2, <3>1 DEF MonBlock
  <2>6. rd'.copy = c /\ rd'.blk = rd.blk /\ InCopy /\ rd.copy.eom
    BY <1>0, <2>3 DEF ReadFields, InCopy, StepSound
  <2> QED BY <2>3, <2>4, <2>5, <2>6
<1>7. ASSUME UNCHANGED MonVars PROVE Stays
  BY <1>7 DEF MonVars, InCopy
<1>8. ASSUME rd.pc = "idle", rd'.pc = rd.pc \/ rd'.pc \in {"clear", "head", "cache"} PROVE FALSE
  BY <1>8 DEF InCopy
<1>9. ASSUME rd' = Resting PROVE FALSE
  BY <1>9, RestingIs DEF InCopy
<1>10. ~Clear_Msg_Blks_Px /\ ~Run_MON_Px /\ ~Stop_Px
  BY <1>0, <1>8 DEF Clear_Msg_Blks_Px, Run_MON_Px, Stop_Px, ReadFields
<1>11. ASSUME NEW who \in {"nios", "irig", "bcm", "rtm", "old", "wide"}, CallReader(who)
       PROVE  FALSE
  BY <1>8, <1>11, RestingIs DEF CallReader, ReadFields
<1>12. ASSUME NEW b \in BlockNums, Get_Message_Px(b) PROVE FALSE
  BY <1>8, <1>12, RestingIs DEF Get_Message_Px, ReadFields
<1>13. ~ClearEom /\ ~ClearBlocks /\ ~OldClearEom /\ ~GetMessageEnds /\ ~NextOfBuffer /\ ~BlockCopied
  BY <1>9, JudgeTyped DEF ClearEom, ClearBlocks, OldClearEom, GetMessageEnds, NextOfBuffer,
     BlockCopied, HandsOver, Returns, MonTypeOK, ReadType
<1>14. ASSUME NEW c \in MonBlock, Taken(c), rd.pc \in {"cache", "marks"},
              nextblock \in dmaBuffer.begin..dmaBuffer.end,
              c = dmaBuffer.data[nextblock - dmaBuffer.begin]
       PROVE  FromCache
  <2>1. /\ c.eom /\ OldReader /\ rd' = [rd EXCEPT !.pc = "check", !.copy = c]
        /\ ~WentBack(c) /\ lastmsgttag' = c.tag /\ UNCHANGED <<nextblock, past>>
    BY <1>14, JudgeTyped DEF FromCopy, Returns
  <2>2. rd'.pc = "check" /\ rd'.blk = rd.blk /\ rd'.copy = c
    BY <1>0, <2>1 DEF ReadFields
  <2> QED BY <1>14, <2>1, <2>2
<1>15. ASSUME Get_DmaMonBlockCopy_Px PROVE FromCache
  <2>1. Cached(rd.blk)
    BY <1>0, <1>15 DEF Get_DmaMonBlockCopy_Px, InCopy, ReadFields
  <2>2. rd.blk = nextblock /\ rd.pc = "cache"
    BY <1>15 DEF Get_DmaMonBlockCopy_Px, StepSound
  <2>3. dmaBuffer.data[nextblock - dmaBuffer.begin] \in MonBlock
    BY <2>1, <2>2, CachedTyped
  <2>4. Taken(dmaBuffer.data[nextblock - dmaBuffer.begin])
    BY <1>9, <1>15, <2>1, <2>2 DEF Get_DmaMonBlockCopy_Px, Cached
  <2> QED BY <1>14, <2>1, <2>2, <2>3, <2>4 DEF Cached
<1>16. ~FetchHeads /\ ~FetchWords /\ ~FetchFails
  BY <1>0 DEF FetchHeads, FetchWords, FetchFails, InCopy, ReadFields
<1>17. ASSUME ClearFetched PROVE FromCache
  <2>1. dmaBuffer.valid /\ rd.pc = "marks" /\ FromCopy(dmaBuffer.data[0])
        /\ UNCHANGED <<fw, dmaBuffer>>
    BY <1>0, <1>17 DEF ClearFetched, InCopy, ReadFields
  <2>2. dmaBuffer.begin = nextblock /\ nextblock \in BlockNums /\ dmaBuffer.begin <= dmaBuffer.end
        /\ dmaBuffer.end \in BlockNums
    BY <2>1 DEF CacheRange, MonTypeOK, HostType, Caches
  <2>3. nextblock - dmaBuffer.begin = 0 /\ nextblock \in dmaBuffer.begin..dmaBuffer.end
    BY <2>2, MonRingAssumption DEF BlockNums
  <2>4. dmaBuffer.data[0] \in MonBlock
    BY MonRingAssumption DEF MonTypeOK, HostType, Caches
  <2>5. Taken(dmaBuffer.data[0])
    BY <1>9, <1>17, <2>1
  <2> QED BY <1>14, <2>1, <2>3, <2>4, <2>5
<1>18. ~Read_Monitor_Block_Px
  BY RestingIs DEF Read_Monitor_Block_Px, InCopy, ReadFields
<1>19. Stays \/ FromHead \/ FromCache
  BY <1>1, <1>2, <1>3, <1>4, <1>5, <1>6, <1>7, <1>10, <1>11, <1>12, <1>13, <1>15, <1>16,
     <1>17, <1>18, HostSteps
<1> QED
  BY <1>19

\* The DMA copy stays a window of the ring that begins at the reader's block.
LEMMA CacheRangeStep ==
    MonTypeOK /\ CacheRange /\ StepSound /\ [MonNext]_MonVars => CacheRange'
<1> SUFFICES ASSUME MonTypeOK, CacheRange, StepSound, [MonNext]_MonVars PROVE CacheRange'
  OBVIOUS
<1>0. dmaBuffer \in Caches /\ DOMAIN rd = ReadFields
  BY DEF MonTypeOK, HostType, ReadType
<1>1. /\ rd'.pc \in {"dma", "dma2", "marks"} => dmaBuffer'.begin = nextblock'
      /\ dmaBuffer'.begin <= dmaBuffer'.end /\ dmaBuffer'.end < dmaBuffer'.begin + CacheBlocks
  <2> DEFINE Goal == /\ rd'.pc \in {"dma", "dma2", "marks"} => dmaBuffer'.begin = nextblock'
                     /\ dmaBuffer'.begin <= dmaBuffer'.end
                     /\ dmaBuffer'.end < dmaBuffer'.begin + CacheBlocks
  <2>1. ASSUME dmaBuffer'.begin = dmaBuffer.begin, dmaBuffer'.end = dmaBuffer.end,
               rd'.pc \in {"dma", "dma2", "marks"} =>
                  rd.pc \in {"dma", "dma2", "marks"} /\ UNCHANGED nextblock
        PROVE  Goal
    BY <2>1 DEF CacheRange
  <2>2. ASSUME UNCHANGED dmaBuffer, rd'.pc \notin {"dma", "dma2", "marks"} PROVE Goal
    BY <2>2 DEF CacheRange
  <2>3. ASSUME NEW triggered \in BOOLEAN, FwEnd(triggered) PROVE Goal
    <3>1. rd'.pc = rd.pc
      BY <2>3, FwEndDoes DEF ReadFields
    <3> QED BY <2>1, <2>3, <3>1 DEF FwEnd, Host
  <2>4. ASSUME FwBegin \/ Run_MON_Px \/ Stop_Px \/ UNCHANGED MonVars PROVE Goal
    BY <2>1, <2>4 DEF FwBegin, Run_MON_Px, Stop_Px, MonVars, Host
  <2>5. ASSUME rd' = Resting, UNCHANGED dmaBuffer PROVE Goal
    BY <2>2, <2>5, RestingIs
  <2>6. ASSUME Clear_Msg_Blks_Px \/ ClearBlocks PROVE Goal
    BY <1>0, <2>2, <2>5, <2>6 DEF Clear_Msg_Blks_Px, ClearBlocks, ReadFields, Host
  <2>7. ASSUME \/ \E who \in {"nios", "irig", "bcm", "rtm", "old", "wide"} : CallReader(who)
               \/ \E b \in BlockNums : Get_Message_Px(b)
               \/ Read_Monitor_Block_Px
        PROVE  Goal
    BY <2>2, <2>7, RestingIs DEF CallReader, Get_Message_Px, Read_Monitor_Block_Px, ReadFields, Host
  <2>8. ASSUME CopyHead PROVE Goal
    <3>1. \/ rd' = Resting
          \/ rd' = [rd EXCEPT !.pc = "words", !.copy = Head1(Empty, ring[rd.blk])]
      BY <2>8 DEF CopyHead, Returns
    <3>2. UNCHANGED dmaBuffer
      BY <2>8 DEF CopyHead
    <3>3. rd' = Resting \/ rd'.pc = "words"
      BY <1>0, <3>1 DEF ReadFields
    <3> QED BY <2>2, <2>5, <3>2, <3>3
  <2>9. ASSUME CopyWords \/ CopyAgain PROVE Goal
    BY <1>0, <2>2, <2>5, <2>9 DEF CopyWords, CopyAgain, Returns, ReadFields, Host
  <2>10. ASSUME ClearEom PROVE Goal
    BY <2>5, <2>10, JudgeTyped DEF ClearEom, MonTypeOK, ReadType
  <2>11. ASSUME GetMessageEnds \/ NextOfBuffer \/ BlockCopied PROVE Goal
    BY <2>5, <2>11 DEF GetMessageEnds, NextOfBuffer, BlockCopied, HandsOver, Returns, Host
  <2>12. ASSUME OldStatusAgain PROVE Goal
    <3>1. rd' = Resting \/ \E c : rd' = [rd EXCEPT !.pc = "eom", !.copy = c]
      BY <2>12 DEF OldStatusAgain, Returns
    <3>2. UNCHANGED dmaBuffer
      BY <2>12 DEF OldStatusAgain
    <3>3. rd' = Resting \/ rd'.pc = "eom"
      BY <1>0, <3>1 DEF ReadFields
    <3> QED BY <2>2, <2>5, <3>2, <3>3
  <2>13. ASSUME OldClearEom PROVE Goal
    BY <2>1, <2>13, OldCleared, RestingIs DEF OldClearEom, HandsOver
  <2>14. ASSUME NEW c \in MonBlock, FromCopy(c), UNCHANGED dmaBuffer PROVE Goal
    <3>1. rd' = Resting \/ rd'.pc = "check"
      BY <1>0, <2>14, FromCopyTyped DEF ReadFields
    <3> QED BY <2>2, <2>5, <2>14, <3>1
  <2>15. ASSUME Get_DmaMonBlockCopy_Px PROVE Goal
    <3>1. CASE Cached(rd.blk)
      BY <2>14, <2>15, <3>1, CachedTyped DEF Get_DmaMonBlockCopy_Px
    <3>2. CASE ~Cached(rd.blk)
      <4>1. /\ dmaBuffer' = [dmaBuffer EXCEPT !.begin = rd.blk, !.end = FetchEnd(rd.blk)]
            /\ UNCHANGED nextblock /\ rd.pc = "cache"
        BY <2>15, <3>2 DEF Get_DmaMonBlockCopy_Px
      <4>2. dmaBuffer'.begin = rd.blk /\ dmaBuffer'.end = FetchEnd(rd.blk)
        BY <1>0, <4>1 DEF Caches
      <4>3. rd.blk = nextblock
        BY <4>1 DEF StepSound
      <4>4. rd.blk <= FetchEnd(rd.blk) /\ FetchEnd(rd.blk) < rd.blk + CacheBlocks
        BY FetchEndIs DEF MonTypeOK, ReadType
      <4> QED BY <4>1, <4>2, <4>3, <4>4
    <3> QED BY <3>1, <3>2
  <2>16. ASSUME FetchHeads PROVE Goal
    BY <2>1, <2>16, HeadsFetched DEF FetchHeads
  <2>17. ASSUME FetchWords PROVE Goal
    BY <2>1, <2>17, WordsFetched DEF FetchWords
  <2>18. ASSUME FetchFails PROVE Goal
    BY <1>0, <2>1, <2>18 DEF FetchFails, Caches
  <2>19. ASSUME ClearFetched PROVE Goal
    <3>1. CASE dmaBuffer.valid
      <4>1. dmaBuffer.data[0] \in MonBlock
        BY <1>0, MonRingAssumption DEF Caches
      <4> QED BY <2>14, <2>19, <3>1, <4>1 DEF ClearFetched
    <3>2. CASE ~dmaBuffer.valid
      BY <1>0, <2>2, <2>19, <3>2 DEF ClearFetched, ReadFields
    <3> QED BY <3>1, <3>2
  <2>20. Goal
    BY <2>3, <2>4, <2>6, <2>7, <2>8, <2>9, <2>10, <2>11, <2>12, <2>13, <2>15, <2>16, <2>17,
       <2>18, <2>19, HostSteps
  <2> QED BY <2>20
<1>2. ASSUME rd'.pc \in {"check", "eom"}, dmaBuffer'.valid
      PROVE  /\ nextblock' \in dmaBuffer'.begin..dmaBuffer'.end
             /\ rd'.copy = dmaBuffer'.data[nextblock' - dmaBuffer'.begin]
  <2>1. InCopy'
    BY <1>2 DEF InCopy
  <2>2. CASE InCopy /\ (dmaBuffer.valid => rd'.copy = rd.copy)
             /\ UNCHANGED <<nextblock, dmaBuffer>>
    <3>1. rd.pc \in {"check", "eom"}
      BY <1>2, <2>2 DEF InCopy, StepSound
    <3> QED BY <1>2, <2>2, <3>1 DEF CacheRange
  <2>3. CASE CopyHead /\ rd.pc = "head" /\ UNCHANGED dmaBuffer
    BY <1>2, <2>3 DEF StepSound
  <2>4. CASE /\ nextblock \in dmaBuffer.begin..dmaBuffer.end
             /\ rd'.copy = dmaBuffer.data[nextblock - dmaBuffer.begin]
             /\ UNCHANGED <<nextblock, dmaBuffer>>
    BY <2>4
  <2> QED BY <2>1, <2>2, <2>3, <2>4, CopyComes
<1> QED
  BY <1>1, <1>2 DEF CacheRange


(***************************************************************************)
(* What is handed over.                                                    *)
(***************************************************************************)
\* The steps that hand a message over; all others hand over none.
LEMMA HandingSteps ==
    ASSUME [MonNext]_MonVars
    PROVE  \/ UNCHANGED MonVars
           \/ out' = NoOut
           \/ /\ HandsOver(rd.copy) /\ rd.pc = "eom"
              /\ \/ ClearEom /\ Judge(rd.copy)
                 \/ GetMessageEnds /\ reader.who = "get"
                 \/ OldClearEom
           \/ /\ \E c : FromCopy(c) /\ Judge(c) /\ HandsOver(c) /\ rd.pc \in {"cache", "marks"}
              /\ Get_DmaMonBlockCopy_Px \/ ClearFetched
           \/ NextOfBuffer /\ HandsOver(Head(lcl)) /\ reader.who = "new"
           \/ \E c : BlockCopied /\ HandsOver(c) /\ rd.pc = "block"
<1>1. ASSUME ClearEom PROVE out' = NoOut \/ (HandsOver(rd.copy) /\ Judge(rd.copy) /\ rd.pc = "eom")
  BY <1>1 DEF ClearEom, Judge, Returns
<1>2. ASSUME NEW c, FromCopy(c) PROVE out' = NoOut \/ (HandsOver(c) /\ Judge(c))
  BY <1>2 DEF FromCopy, Judge, Returns
<1>3. ASSUME Get_DmaMonBlockCopy_Px
      PROVE  out' = NoOut \/ \E c : FromCopy(c) /\ rd.pc \in {"cache", "marks"}
  BY <1>3 DEF Get_DmaMonBlockCopy_Px
<1>4. ASSUME ClearFetched PROVE out' = NoOut \/ \E c : FromCopy(c) /\ rd.pc \in {"cache", "marks"}
  BY <1>4 DEF ClearFetched
<1>5. ASSUME GetMessageEnds PROVE HandsOver(rd.copy) /\ rd.pc = "eom" /\ reader.who = "get"
  BY <1>5 DEF GetMessageEnds
<1>6. ASSUME OldClearEom PROVE HandsOver(rd.copy) /\ rd.pc = "eom"
  BY <1>6 DEF OldClearEom
<1>7. ASSUME NextOfBuffer PROVE HandsOver(Head(lcl)) /\ reader.who = "new"
  BY <1>7 DEF NextOfBuffer
<1>8. ASSUME BlockCopied PROVE out' = NoOut \/ \E c : HandsOver(c) /\ rd.pc = "block"
  BY <1>8 DEF BlockCopied, Returns
<1>9. ASSUME \/ FwBegin \/ \E triggered \in BOOLEAN : FwEnd(triggered)
             \/ Run_MON_Px \/ Stop_Px \/ Clear_Msg_Blks_Px \/ ClearBlocks
             \/ \E who \in {"nios", "irig", "bcm", "rtm", "old", "wide"} : CallReader(who)
             \/ \E b \in BlockNums : Get_Message_Px(b)
      PROVE  out' = NoOut
  BY <1>9 DEF FwBegin, FwEnd, Run_MON_Px, Stop_Px, Clear_Msg_Blks_Px, ClearBlocks, CallReader,
     Get_Message_Px
<1>10. ASSUME \/ CopyHead \/ CopyWords \/ CopyAgain \/ OldStatusAgain \/ FetchHeads
              \/ FetchWords \/ FetchFails \/ Read_Monitor_Block_Px
       PROVE  out' = NoOut
  BY <1>10 DEF CopyHead, CopyWords, CopyAgain, OldStatusAgain, FetchHeads, FetchWords,
     FetchFails, Read_Monitor_Block_Px, Returns
<1>11. \/ UNCHANGED MonVars \/ out' = NoOut \/ ClearEom \/ GetMessageEnds \/ OldClearEom
       \/ Get_DmaMonBlockCopy_Px \/ ClearFetched \/ NextOfBuffer \/ BlockCopied
  BY <1>9, <1>10, HostSteps
<1> QED
  BY <1>1, <1>2, <1>3, <1>4, <1>5, <1>6, <1>7, <1>8, <1>11

\* What HandsOver records.
LEMMA HandedOverIs ==
    ASSUME NEW c, HandsOver(c)
    PROVE  /\ rd' = Resting /\ pend' = NewerThan(c, pend)
           /\ out'.tag = c.tag /\ out'.words = c.words /\ out'.again = rd.again
           /\ out'.prev = past.handed
           /\ out'.due = IF pend = <<>> THEN 0 ELSE Head(pend)
BY DEF HandsOver

\* A copy that mixes two messages is not handed over, but by the readers that
\* do not look again.
LEMMA NeverMixedStep ==
    StepSound /\ CopySound /\ NeverMixed /\ [MonNext]_MonVars => NeverMixed'
<1> SUFFICES ASSUME StepSound, CopySound, NeverMixed, [MonNext]_MonVars PROVE NeverMixed'
  OBVIOUS
<1>0. UNCHANGED reader
  BY ReaderKept
<1>1. CASE UNCHANGED MonVars
  BY <1>1 DEF MonVars, NeverMixed, OldReader
<1>2. CASE out' = NoOut
  BY <1>2 DEF NoOut, NeverMixed
<1>3. CASE HandsOver(rd.copy) /\ rd.pc = "eom"
  <2>1. reader.dma \/ (InCopy /\ ~dmaBuffer.valid)
    BY <1>3 DEF StepSound, InCopy
  <2>2. reader.dma \/ rd.copy.words = rd.copy.tag \/ (OldReader /\ rd.again)
    BY <1>3, <2>1 DEF CopySound
  <2> QED BY <1>0, <1>3, <2>2, HandedOverIs DEF NeverMixed, OldReader
<1>4. CASE rd.pc \in {"cache", "marks"} \/ rd.pc = "block" \/ reader.who = "new"
  BY <1>0, <1>4 DEF StepSound, NeverMixed
<1> QED
  BY <1>1, <1>2, <1>3, <1>4, HandingSteps

(***************************************************************************)
(* A message that has been emptied out of the ring does not come back.     *)
(***************************************************************************)
LEMMA EndedKept ==
    ASSUME MonTypeOK, [MonNext]_MonVars, NEW h \in Nat, Ended(h)
    PROVE  Ended(h)' /\ (fw.writing => h < fw.n)
<1>0. fw.n \in Nat
  BY DEF MonTypeOK, RingType, FwStates
<1>1. ASSUME FwBegin PROVE Ended(h)'
  BY <1>0, <1>1, FwBeginDoes DEF Ended
<1>2. ASSUME NEW triggered \in BOOLEAN, FwEnd(triggered) PROVE Ended(h)'
  BY <1>2, FwEndDoes DEF Ended
<1>3. ASSUME Run_MON_Px PROVE Ended(h)'
  BY <1>3 DEF Run_MON_Px, Ended, MonTypeOK, RingType, FwStates
<1>4. ASSUME UNCHANGED fw PROVE Ended(h)'
  BY <1>4 DEF Ended
<1> QED
  BY <1>1, <1>2, <1>3, <1>4, MonSteps
  DEF Ended, Stop_Px, Clear_Msg_Blks_Px, ClearBlocks, ClearEom, OldClearEom, ClearFetched

\* A block that holds an ended message after a step held it before, or the
\* firmware has just ended it.
LEMMA RingFrom ==
    ASSUME MonTypeOK, CacheRange, [MonNext]_MonVars, NEW b \in BlockNums, ring'[b].eom
    PROVE  \/ ring[b].eom /\ ring'[b].tag = ring[b].tag
           \/ /\ \E triggered \in BOOLEAN : FwEnd(triggered)
              /\ b = fw.blk /\ fw.writing /\ ring'[b].tag = ring[b].tag
<1>1. ASSUME FwBegin PROVE ring[b].eom /\ ring'[b].tag = ring[b].tag
  BY <1>1, FwBeginDoes
<1>2. ASSUME NEW triggered \in BOOLEAN, FwEnd(triggered)
      PROVE  \/ ring[b].eom /\ ring'[b].tag = ring[b].tag
             \/ b = fw.blk /\ fw.writing /\ ring'[b].tag = ring[b].tag
  BY <1>2, FwEndDoes
<1>3. ASSUME ClearBlocks PROVE FALSE
  BY <1>3, BlocksCleared DEF Empty
<1>4. ASSUME ClearEom \/ OldClearEom \/ ClearFetched
      PROVE  ring[b].eom /\ ring'[b].tag = ring[b].tag
  BY <1>4, RingKept
<1>5. ASSUME UNCHANGED ring PROVE ring[b].eom /\ ring'[b].tag = ring[b].tag
  BY <1>5
<1> QED
  BY <1>1, <1>2, <1>3, <1>4, <1>5, MonSteps DEF Run_MON_Px, Stop_Px, Clear_Msg_Blks_Px

\* What is gone stays gone, for the firmware never writes an old message.
LEMMA GoneKept ==
    ASSUME MonTypeOK, CacheRange, RingSound, StepSound, [MonNext]_MonVars,
           NEW h \in Nat, Gone(h),
           dmaBuffer.valid /\ OldReader /\ nextblock \in dmaBuffer.begin..dmaBuffer.end
              /\ rd.pc \in {"cache", "marks"}
              /\ dmaBuffer.data[nextblock - dmaBuffer.begin].eom
              => dmaBuffer.data[nextblock - dmaBuffer.begin].tag # h
    PROVE  Gone(h)'
<1>0. rd.blk \in BlockNums
  BY DEF MonTypeOK, ReadType
<1>1. Ended(h)' /\ (fw.writing => h < fw.n)
  BY EndedKept DEF Gone
<1>2. ASSUME NEW b \in BlockNums, ring'[b].eom PROVE ring'[b].tag # h
  <2>1. CASE ring[b].eom /\ ring'[b].tag = ring[b].tag
    BY <2>1 DEF Gone
  <2>2. CASE b = fw.blk /\ fw.writing /\ ring'[b].tag = ring[b].tag
    <3>1. ring[b].tag = fw.n /\ fw.n \in Nat
      BY <2>2 DEF RingSound, MonTypeOK, RingType, FwStates
    <3> QED BY <1>1, <2>2, <3>1
  <2> QED BY <1>2, <2>1, <2>2, RingFrom
<1>3. ASSUME InCopy', rd'.copy.eom PROVE rd'.copy.tag # h
  <2>1. CASE InCopy /\ rd'.copy.tag = rd.copy.tag /\ rd.copy.eom
    BY <2>1 DEF Gone
  <2>2. CASE rd'.copy.tag = ring[rd.blk].tag /\ ring[rd.blk].eom
    BY <1>0, <2>2 DEF Gone
  <2>3. CASE /\ dmaBuffer.valid /\ OldReader /\ rd.pc \in {"cache", "marks"}
             /\ nextblock \in dmaBuffer.begin..dmaBuffer.end
             /\ rd'.copy = dmaBuffer.data[nextblock - dmaBuffer.begin]
    BY <1>3, <2>3
  <2> QED BY <1>3, <2>1, <2>2, <2>3, CopyComes
<1> QED
  BY <1>1, <1>2, <1>3 DEF Gone

\* A message read from the ring goes from it when its call ends.
LEMMA Emptied ==
    ASSUME MonTypeOK, CacheRange, RingSound, StepSound, CopySound,
           ClearEom \/ OldClearEom, ~dmaBuffer.valid, NEW h, h = rd.copy.tag
    PROVE  Gone(h)' /\ h # 0 /\ h \in Nat /\ Ended(h)
<1>0. h \in Nat /\ rd.pc = "eom" /\ rd' = Resting
  BY JudgeTyped
  DEF MonTypeOK, ReadType, MonBlock, ClearEom, OldClearEom, HandsOver
<1>1. /\ h # 0 /\ Ended(h)
      /\ \A a \in BlockNums : ring[a].eom /\ ring[a].tag = h => a = rd.blk
  BY <1>0 DEF CopySound, StepSound, InCopy
<1>2. Ended(h)'
  <2>1. UNCHANGED fw
    BY DEF ClearEom, OldClearEom
  <2> QED BY <1>1, <2>1 DEF Ended
<1>3. ASSUME NEW b \in BlockNums, ring'[b].eom PROVE ring'[b].tag # h
  <2>1. ring[b].eom /\ ring'[b].tag = ring[b].tag
    BY <1>3, RingKept
  <2>2. b # rd.blk
    BY <1>3, EomCleared
  <2> QED BY <1>1, <2>1, <2>2
<1>4. ~InCopy'
  BY <1>0, RestingIs DEF InCopy
<1> QED
  BY <1>0, <1>1, <1>2, <1>3, <1>4 DEF Gone

\* A message is refused once.
LEMMA RefusedGoneStep ==
    MonTypeOK /\ CacheRange /\ RingSound /\ StepSound /\ CopySound /\ RefusedGone
       /\ [MonNext]_MonVars => RefusedGone'
<1> SUFFICES ASSUME MonTypeOK, CacheRange, RingSound, StepSound, CopySound, RefusedGone,
                    [MonNext]_MonVars
             PROVE  RefusedGone'
  OBVIOUS
<1>9. UNCHANGED reader
  BY ReaderKept
<1> SUFFICES ASSUME ~reader.dma
             PROVE  ~past'.twice /\ Gone(past.refused)'
  BY <1>9 DEF RefusedGone
<1>0. /\ ~past.twice /\ Gone(past.refused) /\ past.refused \in Nat /\ DOMAIN past = PastFields
      /\ ~dmaBuffer.valid /\ rd.pc \notin {"cache", "dma", "dma2", "marks"}
      /\ past.twice \in BOOLEAN
  BY DEF RefusedGone, MonTypeOK, PastType, StepSound
<1>1. ASSUME past'.refused = past.refused, past'.twice = past.twice
      PROVE  ~past'.twice /\ Gone(past.refused)'
  <2>1. PICK h : h = past.refused
    OBVIOUS
  <2>2. Gone(h)'
    BY <1>0, <2>1, GoneKept
  <2> QED BY <1>0, <1>1, <2>1, <2>2 DEF Gone, InCopy, Ended
<1>2. ASSUME FwBegin PROVE past'.refused = past.refused /\ past'.twice = past.twice
  BY <1>2, FwBeginDoes DEF PastFields
<1>3. ASSUME NEW triggered \in BOOLEAN, FwEnd(triggered)
      PROVE  past'.refused = past.refused /\ past'.twice = past.twice
  BY <1>3, FwEndDoes DEF PastFields
<1>4. ASSUME Run_MON_Px \/ ClearBlocks \/ OldClearEom
      PROVE  past'.refused = past.refused /\ past'.twice = past.twice
  <2>1. \/ \E x, y : past' = [past EXCEPT !.handed = x, !.runs = y]
        \/ \E x : past' = [past EXCEPT !.cleared = x]
        \/ \E x, y : past' = [past EXCEPT !.handed = x, !.lapped = y]
    BY <1>4 DEF Run_MON_Px, ClearBlocks, OldClearEom
  <2> QED BY <1>0, <2>1 DEF PastFields
<1>5. ASSUME ClearEom PROVE ~past'.twice /\ Gone(past.refused)'
  <2>1. PICK h : h = rd.copy.tag
    OBVIOUS
  <2>2. Gone(h)' /\ h # past.refused
    BY <1>0, <1>5, <2>1, Emptied DEF Gone, InCopy, ClearEom, StepSound
  <2>3. CASE \E x : past' = [past EXCEPT !.handed = x]
    BY <1>0, <1>1, <2>3 DEF PastFields
  <2>4. CASE UNCHANGED past
    BY <1>1, <2>4
  <2>5. CASE past' = [past EXCEPT !.refused = h, !.twice = @ \/ past.refused = h]
    <3>1. PICK again \in BOOLEAN : again = (past.refused = h)
      OBVIOUS
    <3>2. past' = [past EXCEPT !.refused = h, !.twice = @ \/ again] /\ ~again
      BY <2>2, <2>5, <3>1
    <3>3. past'.refused = h /\ ~past'.twice
      BY <1>0, <3>2 DEF PastFields
    <3> QED BY <2>2, <3>3 DEF Gone, InCopy, Ended
  <2>6. Judge(rd.copy)
    BY <1>5 DEF ClearEom
  <2> QED BY <2>1, <2>3, <2>4, <2>5, <2>6 DEF Judge
<1>6. ASSUME UNCHANGED past PROVE past'.refused = past.refused /\ past'.twice = past.twice
  BY <1>6
<1>7. ASSUME NextOfBuffer \/ BlockCopied
      PROVE  past'.refused = past.refused /\ past'.twice = past.twice
  <2>1. UNCHANGED past \/ \E x : past' = [past EXCEPT !.handed = x]
    BY <1>7 DEF NextOfBuffer, BlockCopied
  <2> QED BY <1>0, <2>1 DEF PastFields
<1>8. /\ ~Get_DmaMonBlockCopy_Px /\ ~FetchHeads /\ ~FetchWords /\ ~FetchFails
      /\ ~ClearFetched
  BY <1>0 DEF Get_DmaMonBlockCopy_Px, FetchHeads, FetchWords, FetchFails, ClearFetched
<1> QED
  BY <1>1, <1>2, <1>3, <1>4, <1>5, <1>6, <1>7, <1>8, HostSteps
  DEF Stop_Px, Clear_Msg_Blks_Px, CallReader, Get_Message_Px, CopyHead, CopyWords, CopyAgain,
     GetMessageEnds, OldStatusAgain, Read_Monitor_Block_Px, MonVars

(***************************************************************************)
(* What the DMA copy holds.                                                *)
(***************************************************************************)
\* What becomes of a copy with END_OF_MSG that has been judged.
LEMMA JudgeIs ==
    ASSUME MonTypeOK, NEW c, Judge(c)
    PROVE  \/ /\ rd' = Resting /\ out' = NoOut
              /\ UNCHANGED <<nextblock, wait_for_trigger, pend>> /\ past'.handed = past.handed
              /\ lastmsgttag' = lastmsgttag \/ (~WentBack(c) /\ lastmsgttag' = c.tag)
              /\ WentBack(c) \/ Untriggered(c)
           \/ /\ rd' = Resting /\ HandsOver(c) /\ ~WentBack(c) /\ ~Untriggered(c)
              /\ TriggerSeen(c) /\ nextblock' = (nextblock + 1) % MonBlocks
              /\ past' = [past EXCEPT !.handed = c.tag] /\ past'.handed = c.tag
              /\ lastmsgttag' = IF reader.who = "irig" THEN lastmsgttag ELSE c.tag
<1>0. DOMAIN past = PastFields
  BY DEF MonTypeOK, PastType
<1>1. CASE WentBack(c)
  <2>1. /\ past' = [past EXCEPT !.refused = c.tag, !.twice = @ \/ past.refused = c.tag]
        /\ rd' = Resting /\ out' = NoOut
        /\ UNCHANGED <<nextblock, lastmsgttag, wait_for_trigger, pend>>
    BY <1>1 DEF Judge, Returns
  <2>2. past'.handed = past.handed
    BY <1>0, <2>1 DEF PastFields
  <2> QED BY <1>1, <2>1, <2>2
<1>2. CASE ~WentBack(c) /\ Untriggered(c)
  <2>1. /\ rd' = Resting /\ out' = NoOut
        /\ UNCHANGED <<nextblock, wait_for_trigger, pend, past>>
        /\ lastmsgttag' = IF reader.who = "irig" THEN lastmsgttag ELSE c.tag
    BY <1>2 DEF Judge, Returns
  <2> QED BY <1>2, <2>1
<1>3. CASE ~WentBack(c) /\ ~Untriggered(c)
  <2>1. /\ HandsOver(c) /\ TriggerSeen(c) /\ nextblock' = (nextblock + 1) % MonBlocks
        /\ past' = [past EXCEPT !.handed = c.tag]
        /\ lastmsgttag' = IF reader.who = "irig" THEN lastmsgttag ELSE c.tag
    BY <1>3 DEF Judge
  <2>2. past'.handed = c.tag /\ rd' = Resting
    BY <1>0, <2>1 DEF PastFields, HandsOver
  <2> QED BY <1>3, <2>1, <2>2
<1> QED
  BY <1>1, <1>2, <1>3

\* The block taken from the DMA copy.
LEMMA FromCopyIs ==
    ASSUME MonTypeOK, NEW c, FromCopy(c)
    PROVE  \/ /\ rd' = Resting \/ (rd'.pc = "check" /\ OldReader)
              /\ out' = NoOut /\ UNCHANGED <<nextblock, wait_for_trigger, pend>>
              /\ past'.handed = past.handed
              /\ lastmsgttag' = lastmsgttag \/ (~WentBack(c) /\ lastmsgttag' = c.tag)
           \/ /\ rd' = Resting /\ HandsOver(c) /\ ~WentBack(c) /\ ~Untriggered(c)
              /\ c.eom /\ ~OldReader
              /\ TriggerSeen(c) /\ nextblock' = (nextblock + 1) % MonBlocks
              /\ past' = [past EXCEPT !.handed = c.tag] /\ past'.handed = c.tag
              /\ lastmsgttag' = IF reader.who = "irig" THEN lastmsgttag ELSE c.tag
<1>0. DOMAIN rd = ReadFields
  BY DEF MonTypeOK, ReadType
<1>1. CASE ~c.eom
  BY <1>1 DEF FromCopy, Returns
<1>2. CASE c.eom /\ ~OldReader
  <2>1. Judge(c)
    BY <1>2 DEF FromCopy
  <2> QED BY <1>2, <2>1, JudgeIs
<1>3. CASE c.eom /\ OldReader /\ WentBack(c)
  BY <1>3 DEF FromCopy, Returns
<1>4. CASE c.eom /\ OldReader /\ ~WentBack(c)
  <2>1. /\ rd' = [rd EXCEPT !.pc = "check", !.copy = c] /\ lastmsgttag' = c.tag
        /\ UNCHANGED <<nextblock, wait_for_trigger, past, pend>> /\ out' = NoOut
    BY <1>4 DEF FromCopy
  <2>2. rd'.pc = "check"
    BY <1>0, <2>1 DEF ReadFields
  <2> QED BY <1>4, <2>1, <2>2
<1> QED
  BY <1>1, <1>2, <1>3, <1>4

\* A call takes the copy of the block it is at.
At == nextblock - dmaBuffer.begin
TakesCopy ==
    /\ dmaBuffer.valid /\ rd.pc \in {"cache", "marks"}
    /\ nextblock \in dmaBuffer.begin..dmaBuffer.end
    /\ FromCopy(dmaBuffer.data[At])
    /\ UNCHANGED <<reader, fw, dmaBuffer>>
    /\ \/ ClearFetched /\ rd.pc = "marks"
       \/ rd.pc = "cache" /\ UNCHANGED ring

\* The message at the front of the copy and what becomes of the rest.
LEMMA CopyTaken ==
    ASSUME MonTypeOK, CacheRange, StepSound, Get_DmaMonBlockCopy_Px \/ ClearFetched
    PROVE  \/ TakesCopy
           \/ /\ rd'.pc = "dma" /\ out' = NoOut /\ Get_DmaMonBlockCopy_Px
              /\ UNCHANGED <<fw, ring, nextblock, lastmsgttag, wait_for_trigger, past, pend>>
           \/ /\ rd'.pc = "head" /\ out' = NoOut /\ ClearFetched /\ ~dmaBuffer.valid
              /\ UNCHANGED <<fw, nextblock, lastmsgttag, wait_for_trigger, past, pend, dmaBuffer>>
<1>0. DOMAIN rd = ReadFields
  BY DEF MonTypeOK, ReadType
<1>1. CASE Get_DmaMonBlockCopy_Px /\ Cached(rd.blk)
  <2>1. rd.pc = "cache" /\ rd.blk = nextblock
    BY <1>1 DEF Get_DmaMonBlockCopy_Px, StepSound
  <2> QED BY <1>1, <2>1 DEF Get_DmaMonBlockCopy_Px, Cached, TakesCopy, At
<1>2. CASE Get_DmaMonBlockCopy_Px /\ ~Cached(rd.blk)
  <2>1. rd'.pc = "dma"
    BY <1>0, <1>2 DEF Get_DmaMonBlockCopy_Px, ReadFields
  <2> QED BY <1>2, <2>1 DEF Get_DmaMonBlockCopy_Px
<1>3. CASE ClearFetched /\ dmaBuffer.valid
  <2>1. FromCopy(dmaBuffer.data[0]) /\ rd.pc = "marks" /\ UNCHANGED <<reader, fw, dmaBuffer>>
    BY <1>3 DEF ClearFetched
  <2>2. dmaBuffer.begin = nextblock /\ nextblock \in BlockNums /\ dmaBuffer.begin <= dmaBuffer.end
        /\ dmaBuffer.end \in BlockNums
    BY <2>1 DEF CacheRange, MonTypeOK, HostType, Caches
  <2>3. At = 0 /\ nextblock \in dmaBuffer.begin..dmaBuffer.end
    BY <2>2, MonRingAssumption DEF BlockNums, At
  <2> QED BY <1>3, <2>1, <2>3 DEF TakesCopy
<1>4. CASE ClearFetched /\ ~dmaBuffer.valid
  <2>1. rd'.pc = "head"
    BY <1>0, <1>4 DEF ClearFetched, ReadFields
  <2> QED BY <1>4, <2>1 DEF ClearFetched
<1> QED
  BY <1>1, <1>2, <1>3, <1>4

\* The block a call is at is the first of the copy's that counts.
LEMMA AtIsLive ==
    ASSUME MonTypeOK, CacheRange, nextblock \in dmaBuffer.begin..dmaBuffer.end
    PROVE  /\ At \in 0..(CacheBlocks - 1) /\ dmaBuffer.begin + At = nextblock
           /\ dmaBuffer.data[At] \in MonBlock
           /\ dmaBuffer.data[At].eom => At \in Live
           /\ dmaBuffer.begin \in Nat /\ dmaBuffer.end \in Nat /\ nextblock \in Nat
<1>1. /\ dmaBuffer.begin \in Nat /\ dmaBuffer.end \in Nat /\ nextblock \in Nat
      /\ dmaBuffer.end < dmaBuffer.begin + CacheBlocks /\ CacheBlocks \in Nat
  BY MonRingAssumption DEF MonTypeOK, HostType, Caches, BlockNums, CacheRange
<1>2. At \in 0..(CacheBlocks - 1) /\ dmaBuffer.begin + At = nextblock
  BY <1>1 DEF At
<1>3. dmaBuffer.data[At] \in MonBlock
  BY <1>2 DEF MonTypeOK, HostType, Caches
<1> QED
  BY <1>1, <1>2, <1>3 DEF Live

\* No block of the ring that is still marked holds a message of the copy, but
\* behind one that the copy does not have.
MarksKept(live, from, R) ==
    \A i \in live : \A b \in BlockNums : R[b].eom /\ R[b].tag = dmaBuffer.data[i].tag =>
        \E j \in 0..i : from <= dmaBuffer.begin + j /\ j \notin live

\* Blocks emptied after a transfer are no longer marked.
LEMMA MarksGone ==
    ASSUME MonTypeOK, CacheRange, CacheSound, ~StaleCopy, TakesCopy
    PROVE  MarksKept(Live, nextblock, ring')
<1>1. CacheFilled
  BY DEF TakesCopy, CacheFilled
<1>2. CASE rd.pc = "cache" /\ UNCHANGED ring
  BY <1>1, <1>2 DEF CacheSound, MarksKept
<1>3. CASE ClearFetched /\ rd.pc = "marks"
  <2> SUFFICES ASSUME NEW i \in Live, NEW b \in BlockNums, ring'[b].eom,
                      ring'[b].tag = dmaBuffer.data[i].tag
               PROVE  \E j \in 0..i : nextblock <= dmaBuffer.begin + j /\ j \notin Live
    BY DEF MarksKept
  <2>1. ring[b].eom /\ ring[b].tag = dmaBuffer.data[i].tag /\ b - dmaBuffer.begin \notin LeadingMarked
    BY <1>3, FetchedCleared
  <2>2. b = dmaBuffer.begin + i
    BY <1>1, <1>3, <2>1 DEF CacheSound
  <2>3. /\ i \in 0..(CacheBlocks - 1) /\ dmaBuffer.begin + i <= dmaBuffer.end
        /\ dmaBuffer.begin = nextblock /\ dmaBuffer.begin \in Nat /\ dmaBuffer.end \in Nat
        /\ CacheBlocks \in Nat
    BY <1>3, MonRingAssumption
    DEF Live, CacheRange, MonTypeOK, HostType, Caches, BlockNums
  <2>4. i \in Fetched /\ b - dmaBuffer.begin = i
    BY <2>2, <2>3 DEF Fetched
  <2>5. PICK j \in 0..i : ~dmaBuffer.data[j].eom
    BY <2>1, <2>4 DEF LeadingMarked
  <2>6. j \notin Live /\ nextblock <= dmaBuffer.begin + j
    BY <2>3, <2>5 DEF Live
  <2> QED BY <2>6
<1> QED
  BY <1>2, <1>3 DEF TakesCopy

\* When the message at the front of the copy is handed over, the rest of the
\* copy stays: the ring has more blocks than the copy.
LEMMA LiveAfter ==
    ASSUME MonTypeOK, CacheRange, HostType', nextblock \in dmaBuffer.begin..dmaBuffer.end,
           dmaBuffer.data[At].eom, nextblock' = (nextblock + 1) % MonBlocks,
           dmaBuffer'.begin = dmaBuffer.begin, dmaBuffer'.end = dmaBuffer.end,
           \A i \in 0..(CacheBlocks - 1) : dmaBuffer'.data[i].eom => dmaBuffer.data[i].eom
    PROVE  /\ Live' \subseteq Live \ {At}
           /\ Live' # {} => nextblock' = nextblock + 1
<1>1. /\ At \in Live /\ dmaBuffer.begin + At = nextblock /\ At \in 0..(CacheBlocks - 1)
      /\ dmaBuffer.begin \in Nat /\ dmaBuffer.end \in Nat /\ nextblock \in Nat
      /\ nextblock \in BlockNums /\ dmaBuffer.end < dmaBuffer.begin + CacheBlocks
      /\ dmaBuffer.end \in BlockNums
  BY AtIsLive DEF MonTypeOK, HostType, Caches, CacheRange
<1>2. nextblock' = IF nextblock = MonBlocks - 1 THEN 0 ELSE nextblock + 1
  BY <1>1, RingOrder
<1>3. CASE nextblock = MonBlocks - 1
  <2>1. dmaBuffer.begin > 0
    BY <1>1, <1>3, MonRingAssumption
  <2>2. Live' = {}
    BY <1>1, <1>2, <1>3, <2>1 DEF Live
  <2> QED BY <2>2
<1>4. CASE nextblock # MonBlocks - 1
  <2>1. nextblock' = nextblock + 1
    BY <1>2, <1>4
  <2>2. ASSUME NEW i \in Live' PROVE i \in Live /\ i # At
    <3>1. /\ i \in 0..(CacheBlocks - 1) /\ dmaBuffer.begin + i \in (nextblock + 1)..dmaBuffer.end
          /\ dmaBuffer.data[i].eom
      BY <1>1, <2>1, <2>2 DEF Live
    <3>2. dmaBuffer.begin + i >= nextblock + 1 /\ dmaBuffer.begin + i <= dmaBuffer.end
      BY <1>1, <2>1, <3>1
    <3>3. nextblock >= dmaBuffer.begin /\ dmaBuffer.begin + i \in nextblock..dmaBuffer.end
      BY <1>1, <3>1, <3>2
    <3> QED BY <1>1, <3>1, <3>2, <3>3 DEF Live
  <2> QED BY <2>1, <2>2
<1> QED
  BY <1>3, <1>4

\* A step that leaves the copy as it is.
LEMMA CacheKept ==
    ASSUME MonTypeOK, CacheRange, RingSound, CacheSound, [MonNext]_MonVars,
           CacheFilled, ~StaleCopy, Live' = Live, nextblock' = nextblock,
           dmaBuffer'.begin = dmaBuffer.begin,
           \A i \in Live : dmaBuffer'.data[i].tag = dmaBuffer.data[i].tag,
           past'.handed = past.handed \/ past'.handed = 0,
           rd'.pc \in {"dma2", "marks"} <=> rd.pc \in {"dma2", "marks"}
    PROVE  CacheSound'
<1>0. \A i \in Live : dmaBuffer.data[i].tag \in Nat
  BY DEF MonTypeOK, HostType, Caches, MonBlock, Live
<1>1. ASSUME NEW i \in Live
      PROVE  /\ dmaBuffer'.data[i].tag # 0 /\ Ended(dmaBuffer.data[i].tag)'
             /\ dmaBuffer'.data[i].tag # past'.handed
             /\ \A j \in Live : dmaBuffer'.data[j].tag = dmaBuffer'.data[i].tag => i = j
             /\ \A b \in BlockNums : ring'[b].eom /\ ring'[b].tag = dmaBuffer'.data[i].tag =>
                   IF rd'.pc \in {"dma2", "marks"} THEN b = dmaBuffer'.begin + i
                   ELSE \E j \in 0..i : nextblock' <= dmaBuffer'.begin + j /\ j \notin Live'
  <2>1. PICK h \in Nat : h = dmaBuffer.data[i].tag
    BY <1>0, <1>1
  <2>2. h # 0 /\ Ended(h) /\ h # past.handed
    BY <1>1, <2>1 DEF CacheSound
  <2>3. Ended(h)' /\ (fw.writing => h < fw.n)
    BY <2>2, EndedKept
  <2>4. Ended(dmaBuffer.data[i].tag)'
    BY <1>1, <2>1, <2>3 DEF Ended
  <2>5. ASSUME NEW b \in BlockNums, ring'[b].eom, ring'[b].tag = dmaBuffer'.data[i].tag
        PROVE  IF rd'.pc \in {"dma2", "marks"} THEN b = dmaBuffer'.begin + i
               ELSE \E j \in 0..i : nextblock' <= dmaBuffer'.begin + j /\ j \notin Live'
    <3>1. ring'[b].tag = h
      BY <1>1, <2>1, <2>5
    <3>2. ring[b].eom /\ ring[b].tag = dmaBuffer.data[i].tag
      <4>1. CASE b = fw.blk /\ fw.writing /\ ring'[b].tag = ring[b].tag
        <5>1. ring[b].tag = fw.n /\ fw.n \in Nat
          BY <4>1 DEF RingSound, MonTypeOK, RingType, FwStates
        <5> QED BY <2>3, <3>1, <4>1, <5>1
      <4> QED BY <2>1, <2>5, <3>1, <4>1, RingFrom
    <3>3. IF rd.pc \in {"dma2", "marks"} THEN b = dmaBuffer.begin + i
          ELSE \E j \in 0..i : nextblock <= dmaBuffer.begin + j /\ j \notin Live
      BY <1>1, <3>2 DEF CacheSound
    <3> QED BY <3>3
  <2>6. \A j \in Live : dmaBuffer'.data[j].tag = dmaBuffer'.data[i].tag => i = j
    BY <1>1 DEF CacheSound
  <2> QED BY <1>1, <2>1, <2>2, <2>4, <2>5, <2>6
<1> QED
  BY <1>1 DEF CacheSound, Ended

\* A step that hands over the message at the front of the copy.
LEMMA CacheMoves ==
    ASSUME MonTypeOK, CacheRange, HostType', CacheSound, CacheFilled, ~StaleCopy,
           nextblock \in dmaBuffer.begin..dmaBuffer.end, dmaBuffer.data[At].eom,
           nextblock' = (nextblock + 1) % MonBlocks,
           dmaBuffer'.begin = dmaBuffer.begin, dmaBuffer'.end = dmaBuffer.end,
           \A i \in 0..(CacheBlocks - 1) : /\ dmaBuffer'.data[i].eom => dmaBuffer.data[i].eom
                                           /\ dmaBuffer'.data[i].tag = dmaBuffer.data[i].tag,
           past'.handed = dmaBuffer.data[At].tag, UNCHANGED fw,
           MarksKept(Live, nextblock, ring'), rd'.pc \notin {"dma2", "marks"}
    PROVE  CacheSound'
<1>1. /\ At \in Live /\ dmaBuffer.begin + At = nextblock /\ At \in 0..(CacheBlocks - 1)
      /\ dmaBuffer.begin \in Nat /\ nextblock \in Nat
      /\ Live' \subseteq Live \ {At} /\ (Live' # {} => nextblock' = nextblock + 1)
  BY AtIsLive, LiveAfter
<1>2. ASSUME NEW i \in Live'
      PROVE  /\ dmaBuffer'.data[i].tag # 0 /\ Ended(dmaBuffer.data[i].tag)'
             /\ dmaBuffer'.data[i].tag # past'.handed
             /\ \A j \in Live' : dmaBuffer'.data[j].tag = dmaBuffer'.data[i].tag => i = j
             /\ \A b \in BlockNums : ring'[b].eom /\ ring'[b].tag = dmaBuffer'.data[i].tag =>
                   \E j \in 0..i : nextblock' <= dmaBuffer'.begin + j /\ j \notin Live'
  <2>1. i \in Live /\ i # At /\ i \in 0..(CacheBlocks - 1) /\ nextblock' = nextblock + 1
    BY <1>1, <1>2 DEF Live
  <2>2. dmaBuffer'.data[i].tag = dmaBuffer.data[i].tag
    BY <2>1
  <2>3. dmaBuffer'.data[i].tag # 0 /\ Ended(dmaBuffer.data[i].tag)'
    BY <2>1, <2>2 DEF CacheSound, Ended
  <2>4. dmaBuffer'.data[i].tag # past'.handed
    BY <1>1, <2>1, <2>2 DEF CacheSound
  <2>5. \A j \in Live' : dmaBuffer'.data[j].tag = dmaBuffer'.data[i].tag => i = j
    <3>1. \A j \in Live' : j \in Live /\ j \in 0..(CacheBlocks - 1)
      BY <1>1 DEF Live
    <3> QED BY <2>1, <2>2, <3>1 DEF CacheSound
  <2>6. ASSUME NEW b \in BlockNums, ring'[b].eom, ring'[b].tag = dmaBuffer'.data[i].tag
        PROVE  \E j \in 0..i : nextblock' <= dmaBuffer'.begin + j /\ j \notin Live'
    <3>1. PICK j \in 0..i : nextblock <= dmaBuffer.begin + j /\ j \notin Live
      BY <2>1, <2>2, <2>6 DEF MarksKept
    <3>2. j # At
      BY <1>1, <3>1
    <3>3. j \in Nat
      BY <2>1, <3>1
    <3>4. nextblock + 1 <= dmaBuffer.begin + j
      BY <1>1, <3>1, <3>2, <3>3 DEF At
    <3> QED BY <1>1, <2>1, <3>1, <3>4
  <2> QED BY <2>3, <2>4, <2>5, <2>6
<1> QED
  BY <1>2 DEF CacheSound, Ended

\* The second half of a transfer leaves the heads as they are.
LEMMA HeadsStay ==
    ASSUME MonTypeOK, CacheRange, FetchWords, NEW i \in 0..(CacheBlocks - 1)
    PROVE  /\ dmaBuffer'.data[i].eom = dmaBuffer.data[i].eom
           /\ dmaBuffer'.data[i].trig = dmaBuffer.data[i].trig
           /\ dmaBuffer'.data[i].tag = dmaBuffer.data[i].tag
           /\ i \in Fetched => dmaBuffer'.data[i].words = ring[dmaBuffer.begin + i].words
<1>1. CASE i \in Fetched
  <2>1. dmaBuffer.data[i] \in MonBlock /\ ring[dmaBuffer.begin + i] \in MonBlock
    BY <1>1, FetchedIs DEF MonTypeOK, HostType, Caches, RingType
  <2> QED BY <1>1, <2>1, WordsFetched, Copying
<1>2. CASE i \notin Fetched
  <2>1. dmaBuffer' = [dmaBuffer EXCEPT !.valid = TRUE, !.data =
           [k \in DOMAIN @ |-> IF k \in Fetched THEN Tail1(@[k], ring[dmaBuffer.begin + k])
                                ELSE @[k]]]
    BY DEF FetchWords
  <2>2. dmaBuffer \in Caches
    BY DEF MonTypeOK, HostType
  <2>3. dmaBuffer'.data[i] = dmaBuffer.data[i]
    BY <1>2, <2>1, <2>2 DEF Caches
  <2> QED BY <1>2, <2>3
<1> QED
  BY <1>1, <1>2

\* CacheSound is kept.
LEMMA CacheSoundStep ==
    /\ MonTypeOK /\ CacheRange /\ RingSound /\ StepSound /\ CacheSound /\ HandedGone
    /\ [MonNext]_MonVars
    => CacheSound'
<1> SUFFICES ASSUME MonTypeOK, CacheRange, RingSound, StepSound, CacheSound, HandedGone,
                    [MonNext]_MonVars
             PROVE  CacheSound'
  OBVIOUS
<1>0. /\ ~StaleCopy' => ~StaleCopy
      /\ UNCHANGED reader /\ HostType' /\ StepSound'
      /\ DOMAIN rd = ReadFields /\ DOMAIN past = PastFields
  BY StaleStays, ReaderKept, HostTypeStep, StepSoundStep DEF MonTypeOK, ReadType, PastType
<1> SUFFICES ASSUME CacheFilled', ~StaleCopy' PROVE CacheSound'
  BY DEF CacheSound
<1>1. ~StaleCopy /\ reader.dma /\ reader.who \notin {"get", "new"}
  BY <1>0 DEF CacheFilled, StepSound
<1>2. ASSUME UNCHANGED <<dmaBuffer, nextblock>>, CacheFilled,
             past'.handed = past.handed \/ past'.handed = 0,
             rd'.pc \in {"dma2", "marks"} <=> rd.pc \in {"dma2", "marks"}
      PROVE  CacheSound'
  <2>1. Live' = Live
    BY <1>2 DEF Live
  <2> QED BY <1>1, <1>2, <2>1, CacheKept
<1>3. ASSUME FwBegin PROVE CacheSound'
  <2>1. past'.handed = past.handed /\ UNCHANGED <<dmaBuffer, nextblock, rd>>
    BY <1>3, FwBeginDoes DEF FwBegin, Host, PastFields
  <2> QED BY <1>2, <2>1 DEF CacheFilled
<1>4. ASSUME NEW triggered \in BOOLEAN, FwEnd(triggered) PROVE CacheSound'
  <2>1. past'.handed = past.handed /\ rd'.pc = rd.pc
    BY <1>4, FwEndDoes DEF PastFields, ReadFields
  <2>2. UNCHANGED <<dmaBuffer, nextblock>>
    BY <1>4 DEF FwEnd, Host
  <2> QED BY <1>2, <2>1, <2>2 DEF CacheFilled
<1>5. ASSUME Run_MON_Px \/ Stop_Px \/ UNCHANGED MonVars PROVE CacheSound'
  <2>1. /\ past'.handed = past.handed \/ past'.handed = 0
        /\ UNCHANGED <<dmaBuffer, nextblock, rd>>
    BY <1>0, <1>5 DEF Run_MON_Px, Stop_Px, MonVars, Host, PastFields
  <2> QED BY <1>2, <2>1 DEF CacheFilled
<1>6. ASSUME \/ Clear_Msg_Blks_Px
             \/ \E who \in {"nios", "irig", "bcm", "rtm", "old", "wide"} : CallReader(who)
      PROVE  CacheSound'
  <2>1. /\ UNCHANGED <<dmaBuffer, past>> /\ rd.pc = "idle"
        /\ rd'.pc \in {"clear", "cache", "head"}
    BY <1>0, <1>6, RestingIs DEF Clear_Msg_Blks_Px, CallReader, Host, ReadFields
  <2>2. UNCHANGED nextblock
    BY <1>1, <1>6, CallDoes DEF Clear_Msg_Blks_Px, Host
  <2> QED BY <1>2, <2>1, <2>2 DEF CacheFilled
<1>7. ASSUME ClearBlocks PROVE CacheSound'
  <2>1. past'.cleared = fw.n
    BY <1>7, BlocksCleared
  <2>2. fw.n = 0
    BY <1>0, <1>1, <2>1 DEF StaleCopy
  <2>3. nextblock' = 0 /\ nextblock = 0 /\ past'.handed = past.handed
    BY <1>1, <1>7, <2>2, BlocksCleared DEF RingSound, HandedGone, PastFields
  <2>4. rd.pc = "clear" /\ rd'.pc = "idle" /\ UNCHANGED dmaBuffer
    BY <1>7, RestingIs DEF ClearBlocks
  <2> QED BY <1>2, <2>3, <2>4 DEF CacheFilled
<1>8. ASSUME rd' = Resting, UNCHANGED <<dmaBuffer, nextblock, past>>, rd.pc \notin {"dma", "dma2", "marks"}
      PROVE  CacheSound'
  BY <1>2, <1>8, RestingIs DEF CacheFilled
<1>9. ASSUME CopyHead \/ CopyWords PROVE FALSE
  <2>1. ~dmaBuffer'.valid
    BY <1>9 DEF CopyHead, CopyWords, Host, StepSound
  <2>2. \/ rd' = Resting \/ \E c : rd' = [rd EXCEPT !.pc = "words", !.copy = c]
        \/ \E c : rd' = [rd EXCEPT !.pc = "check", !.copy = c]
    BY <1>9 DEF CopyHead, CopyWords, Returns
  <2>3. rd'.pc # "dma2"
    BY <1>0, <2>2, RestingIs DEF ReadFields
  <2> QED BY <2>1, <2>3 DEF CacheFilled
<1>10. ASSUME CopyAgain \/ OldStatusAgain PROVE CacheSound'
  <2>1. \/ rd' = Resting \/ rd' = [rd EXCEPT !.pc = "eom"]
        \/ \E c : rd' = [rd EXCEPT !.pc = "eom", !.copy = c]
    BY <1>10 DEF CopyAgain, OldStatusAgain, Returns
  <2>2. rd'.pc \in {"idle", "eom"} /\ rd.pc = "check"
    BY <1>0, <1>10, <2>1, RestingIs DEF ReadFields, CopyAgain, OldStatusAgain
  <2>3. UNCHANGED <<dmaBuffer, nextblock, past>>
    BY <1>10 DEF CopyAgain, OldStatusAgain, Host
  <2> QED BY <1>2, <2>2, <2>3 DEF CacheFilled
<1>11. ASSUME ClearEom PROVE FALSE
  <2>1. ~dmaBuffer'.valid /\ rd' = Resting
    BY <1>11, JudgeTyped DEF ClearEom, StepSound, MonTypeOK, ReadType
  <2> QED BY <2>1, RestingIs DEF CacheFilled
<1>12. ASSUME OldClearEom PROVE CacheSound'
  <2>1. /\ dmaBuffer.valid /\ dmaBuffer'.begin = dmaBuffer.begin
        /\ dmaBuffer'.end = dmaBuffer.end
    BY <1>12, RestingIs, OldCleared DEF OldClearEom, HandsOver, CacheFilled
  <2>2. /\ rd.pc = "eom" /\ nextblock' = (nextblock + 1) % MonBlocks /\ UNCHANGED fw
        /\ rd' = Resting /\ past' = [past EXCEPT !.handed = rd.copy.tag, !.lapped = @ \/ rd.again]
    BY <1>12 DEF OldClearEom, HandsOver
  <2>3. /\ nextblock \in dmaBuffer.begin..dmaBuffer.end /\ rd.copy = dmaBuffer.data[At]
        /\ dmaBuffer.data[At].eom /\ CacheFilled
    BY <2>1, <2>2 DEF CacheRange, StepSound, At, CacheFilled
  <2>4. past'.handed = dmaBuffer.data[At].tag
    BY <1>0, <2>2, <2>3 DEF PastFields
  <2>5. \A i \in 0..(CacheBlocks - 1) : /\ dmaBuffer'.data[i].eom => dmaBuffer.data[i].eom
                                        /\ dmaBuffer'.data[i].tag = dmaBuffer.data[i].tag
    BY <1>12, OldCleared
  <2>6. MarksKept(Live, nextblock, ring')
    <3>1. MarksKept(Live, nextblock, ring)
      BY <1>1, <2>2, <2>3 DEF MarksKept, CacheSound
    <3> QED BY <1>12, <3>1, RingKept DEF MarksKept
  <2>7. rd'.pc \notin {"dma2", "marks"}
    BY <2>2, RestingIs
  <2> QED BY <1>0, <1>1, <2>1, <2>2, <2>3, <2>4, <2>5, <2>6, <2>7, CacheMoves
<1>13. ASSUME Get_DmaMonBlockCopy_Px \/ ClearFetched PROVE CacheSound'
  <2>1. TakesCopy
    BY <1>13, CopyTaken DEF CacheFilled
  <2>2. /\ CacheFilled /\ UNCHANGED <<dmaBuffer, fw>> /\ MarksKept(Live, nextblock, ring')
        /\ nextblock \in dmaBuffer.begin..dmaBuffer.end /\ FromCopy(dmaBuffer.data[At])
    BY <1>1, <2>1, MarksGone DEF TakesCopy, CacheFilled
  <2>3. CASE /\ rd' = Resting \/ (rd'.pc = "check" /\ OldReader)
             /\ UNCHANGED nextblock /\ past'.handed = past.handed
    <3>1. rd'.pc \notin {"dma2", "marks"} /\ Live' = Live
      BY <2>2, <2>3, RestingIs DEF Live
    <3>2. \A i \in Live : dmaBuffer.data[i].tag # 0 /\ Ended(dmaBuffer.data[i].tag)'
      BY <1>1, <2>2 DEF CacheSound, Ended
    <3>3. \A i \in Live : /\ dmaBuffer.data[i].tag # past.handed
                          /\ \A j \in Live : dmaBuffer.data[j].tag = dmaBuffer.data[i].tag => i = j
      BY <1>1, <2>2 DEF CacheSound
    <3>4. \A i \in Live : \A b \in BlockNums : ring'[b].eom /\ ring'[b].tag = dmaBuffer.data[i].tag =>
             \E j \in 0..i : nextblock <= dmaBuffer.begin + j /\ j \notin Live
      BY <2>2 DEF MarksKept
    <3> QED BY <2>2, <2>3, <3>1, <3>2, <3>3, <3>4 DEF CacheSound, Ended
  <2>4. CASE /\ rd' = Resting /\ dmaBuffer.data[At].eom
             /\ nextblock' = (nextblock + 1) % MonBlocks /\ past'.handed = dmaBuffer.data[At].tag
    BY <1>0, <1>1, <2>2, <2>4, RestingIs, CacheMoves
  <2> QED BY <2>2, <2>3, <2>4, FromCopyIs
<1>14. ASSUME FetchHeads PROVE CacheSound'
  <2>1. /\ rd.pc = "dma" /\ UNCHANGED <<nextblock, ring, fw, past>> /\ rd'.pc = "dma2"
    BY <1>0, <1>14 DEF FetchHeads, ReadFields
  <2>2. /\ dmaBuffer'.begin = dmaBuffer.begin /\ dmaBuffer'.end = dmaBuffer.end
        /\ dmaBuffer.begin = nextblock
        /\ \A i \in Fetched :
              dmaBuffer'.data[i] = Head1(dmaBuffer.data[i], ring[dmaBuffer.begin + i])
    BY <1>14, <2>1, HeadsFetched DEF CacheRange
  <2>3. ASSUME NEW i \in Live'
        PROVE  /\ dmaBuffer.begin + i \in BlockNums /\ i \in Nat
               /\ ring[dmaBuffer.begin + i].eom
               /\ dmaBuffer'.data[i].tag = ring[dmaBuffer.begin + i].tag
    <3>1. i \in 0..(CacheBlocks - 1) /\ dmaBuffer.begin + i <= dmaBuffer.end /\ dmaBuffer'.data[i].eom
      BY <2>2, <2>3, MonRingAssumption
      DEF Live, MonTypeOK, HostType, Caches, BlockNums
    <3>2. i \in Fetched /\ i \in Nat
      BY <3>1, MonRingAssumption DEF Fetched, MonTypeOK, HostType, Caches, BlockNums
    <3>3. dmaBuffer.begin + i \in BlockNums /\ dmaBuffer.data[i] \in MonBlock
      BY <3>1, <3>2, FetchedIs DEF MonTypeOK, HostType, Caches
    <3>4. ring[dmaBuffer.begin + i] \in MonBlock
      BY <3>3 DEF MonTypeOK, RingType
    <3> QED BY <2>2, <3>1, <3>2, <3>3, <3>4, Copying
  <2>4. dmaBuffer.begin \in Nat
    BY MonRingAssumption DEF MonTypeOK, HostType, Caches, BlockNums
  <2>5. ASSUME NEW i \in Live'
        PROVE  /\ dmaBuffer'.data[i].tag # 0 /\ Ended(dmaBuffer'.data[i].tag)
               /\ dmaBuffer'.data[i].tag # past.handed
               /\ \A j \in Live' : dmaBuffer'.data[j].tag = dmaBuffer'.data[i].tag => i = j
               /\ \A b \in BlockNums : ring[b].eom /\ ring[b].tag = dmaBuffer'.data[i].tag =>
                     b = dmaBuffer.begin + i
    <3>1. dmaBuffer'.data[i].tag # 0 /\ Ended(dmaBuffer'.data[i].tag)
      BY <2>3, <2>5 DEF RingSound
    <3>2. dmaBuffer'.data[i].tag # past.handed
      BY <1>1, <2>3, <2>5 DEF HandedGone, Gone
    <3>3. ASSUME NEW j \in Live', dmaBuffer'.data[j].tag = dmaBuffer'.data[i].tag PROVE i = j
      <4>1. dmaBuffer.begin + i = dmaBuffer.begin + j
        BY <2>3, <2>5, <3>1, <3>3 DEF RingSound
      <4>2. i \in Nat /\ j \in Nat
        BY <2>3, <2>5, <3>3
      <4> QED BY <2>4, <4>1, <4>2
    <3>4. \A b \in BlockNums : ring[b].eom /\ ring[b].tag = dmaBuffer'.data[i].tag =>
             b = dmaBuffer.begin + i
      BY <2>3, <2>5, <3>1 DEF RingSound
    <3> QED BY <3>1, <3>2, <3>3, <3>4
  <2>6. ASSUME NEW i \in Live' PROVE Ended(dmaBuffer.data[i].tag)'
    BY <2>1, <2>5, <2>6 DEF Ended
  <2> QED BY <2>1, <2>2, <2>5, <2>6 DEF CacheSound, Ended
<1>15. ASSUME FetchWords PROVE CacheSound'
  <2>1. /\ rd.pc = "dma2" /\ UNCHANGED <<nextblock, past>> /\ rd'.pc = "marks" /\ CacheFilled
    BY <1>0, <1>15 DEF FetchWords, ReadFields, CacheFilled
  <2>2. /\ dmaBuffer'.begin = dmaBuffer.begin /\ dmaBuffer'.end = dmaBuffer.end
        /\ \A i \in 0..(CacheBlocks - 1) : /\ dmaBuffer'.data[i].eom = dmaBuffer.data[i].eom
                                           /\ dmaBuffer'.data[i].tag = dmaBuffer.data[i].tag
    BY <1>15, WordsFetched, HeadsStay
  <2>3. Live' = Live
    BY <2>1, <2>2 DEF Live
  <2>4. \A i \in Live : dmaBuffer'.data[i].tag = dmaBuffer.data[i].tag
    BY <2>2 DEF Live
  <2> QED BY <1>1, <2>1, <2>2, <2>3, <2>4, CacheKept
<1>16. ~FetchFails
  BY <1>0 DEF FetchFails, CacheFilled, ReadFields, MonTypeOK, HostType, Caches
<1>17. ASSUME \/ \E b \in BlockNums : Get_Message_Px(b)
              \/ GetMessageEnds \/ NextOfBuffer \/ Read_Monitor_Block_Px \/ BlockCopied
       PROVE  FALSE
  BY <1>1, <1>17 DEF Get_Message_Px, GetMessageEnds, NextOfBuffer, Read_Monitor_Block_Px,
     BlockCopied, StepSound
<1> QED
  BY <1>3, <1>4, <1>5, <1>6, <1>7, <1>9, <1>10, <1>11, <1>12, <1>13, <1>14, <1>15, <1>16, <1>17,
     HostSteps

(***************************************************************************)
(* The message last handed over.                                           *)
(***************************************************************************)
\* It is gone from the ring, by whichever way it was read.
LEMMA TakenGone ==
    ASSUME MonTypeOK, CacheRange, CacheSound, CacheFilled, ~StaleCopy,
           nextblock \in dmaBuffer.begin..dmaBuffer.end, dmaBuffer.data[At].eom,
           MarksKept(Live, nextblock, ring'), UNCHANGED fw, rd' = Resting,
           NEW h, h = dmaBuffer.data[At].tag
    PROVE  Gone(h)' /\ h # 0 /\ h \in Nat /\ Ended(h)
<1>1. /\ At \in Live /\ dmaBuffer.begin + At = nextblock /\ At \in 0..(CacheBlocks - 1)
      /\ dmaBuffer.begin \in Nat /\ nextblock \in Nat /\ dmaBuffer.data[At] \in MonBlock
  BY AtIsLive
<1>2. h # 0 /\ Ended(h) /\ h \in Nat
  BY <1>1 DEF CacheSound, MonBlock
<1>3. Ended(h)'
  BY <1>2 DEF Ended
<1>4. ASSUME NEW b \in BlockNums, ring'[b].eom PROVE ring'[b].tag # h
  <2> SUFFICES ASSUME ring'[b].tag = h PROVE FALSE
    OBVIOUS
  <2>1. PICK j \in 0..At : nextblock <= dmaBuffer.begin + j /\ j \notin Live
    BY <1>1, <1>4 DEF MarksKept
  <2>2. j = At
    BY <1>1, <2>1
  <2> QED BY <1>1, <2>1, <2>2
<1>5. ~InCopy'
  BY RestingIs DEF InCopy
<1> QED
  BY <1>2, <1>3, <1>4, <1>5 DEF Gone

\* What a step does to the message last handed over.
HandedKept == /\ past'.handed = past.handed
              /\ fw'.n = 0 => nextblock' = 0
              /\ reader.who # "irig" /\ ~reader.ignore => lastmsgttag' >= lastmsgttag
HandedNow(h) == /\ past'.handed = h /\ Gone(h)' /\ h # 0 /\ h \in Nat /\ Ended(h) /\ fw'.n = fw.n
                /\ reader.who # "irig" /\ ~reader.ignore => lastmsgttag' >= h

\* A step hands over a message or leaves the last one.
LEMMA HandedSteps ==
    ASSUME MonTypeOK, CacheRange, RingSound, StepSound, CopySound, CacheSound, HandedGone,
           [MonNext]_MonVars, reader.who \notin {"new", "get"}, ~StaleCopy
    PROVE  HandedKept \/ (\E h : HandedNow(h)) \/ Run_MON_Px
<1>0. /\ DOMAIN past = PastFields /\ lastmsgttag \in Nat /\ fw.n \in Nat
      /\ rd.copy \in MonBlock /\ rd.copy.tag \in Nat
      /\ fw.n = 0 => nextblock = 0
  BY DEF MonTypeOK, PastType, HostType, RingType, FwStates, ReadType, MonBlock, HandedGone
<1>1. ASSUME past'.handed = past.handed, UNCHANGED <<fw, nextblock, lastmsgttag>> PROVE HandedKept
  BY <1>0, <1>1 DEF HandedKept
<1>2. ASSUME FwBegin PROVE HandedKept
  <2>1. past'.handed = past.handed /\ fw'.n = fw.n + 1
    BY <1>2, FwBeginDoes DEF PastFields
  <2> QED BY <1>0, <1>2, <2>1 DEF FwBegin, Host, HandedKept
<1>3. ASSUME NEW triggered \in BOOLEAN, FwEnd(triggered) PROVE HandedKept
  <2>1. past'.handed = past.handed /\ fw'.n = fw.n
    BY <1>3, FwEndDoes DEF PastFields
  <2> QED BY <1>0, <1>3, <2>1 DEF FwEnd, Host, HandedKept
<1>4. ASSUME ClearBlocks PROVE HandedKept
  <2>1. past'.handed = past.handed /\ nextblock' = fw.blk /\ UNCHANGED <<fw, lastmsgttag>>
    BY <1>4, BlocksCleared DEF PastFields, ClearBlocks
  <2> QED BY <1>0, <2>1 DEF RingSound, HandedKept
<1>5. ASSUME CopyHead PROVE HandedKept
  <2>1. UNCHANGED <<fw, nextblock, past>>
    BY <1>5 DEF CopyHead
  <2>2. PICK c : c = Head1(Empty, ring[rd.blk])
    OBVIOUS
  <2>3. c.tag \in Nat
    BY <2>2, EmptyBlock, Copying DEF MonTypeOK, RingType, ReadType, MonBlock
  <2>4. \/ lastmsgttag' = lastmsgttag
        \/ OldReader /\ ~WentBack(c) /\ lastmsgttag' = c.tag
    BY <1>5, <2>2 DEF CopyHead
  <2> QED BY <1>0, <2>1, <2>3, <2>4 DEF HandedKept, WentBack
<1>6. ASSUME ClearEom PROVE HandedKept \/ \E h : HandedNow(h)
  <2>1. Judge(rd.copy) /\ ~dmaBuffer.valid /\ UNCHANGED fw /\ rd.pc = "eom"
    BY <1>6 DEF ClearEom, StepSound
  <2>2. CASE /\ UNCHANGED nextblock /\ past'.handed = past.handed
             /\ lastmsgttag' = lastmsgttag \/ (~WentBack(rd.copy) /\ lastmsgttag' = rd.copy.tag)
    BY <1>0, <2>1, <2>2 DEF HandedKept, WentBack
  <2>3. CASE /\ past'.handed = rd.copy.tag
             /\ lastmsgttag' = IF reader.who = "irig" THEN lastmsgttag ELSE rd.copy.tag
    <3>1. PICK h : h = rd.copy.tag
      OBVIOUS
    <3>2. Gone(h)' /\ h # 0 /\ h \in Nat /\ Ended(h)
      BY <1>6, <2>1, <3>1, Emptied
    <3>3. HandedNow(h)
      BY <2>1, <2>3, <3>1, <3>2 DEF HandedNow
    <3> QED BY <3>3
  <2> QED BY <2>1, <2>2, <2>3, JudgeIs
<1>7. ASSUME OldClearEom PROVE \E h : HandedNow(h)
  <2>1. /\ past' = [past EXCEPT !.handed = rd.copy.tag, !.lapped = @ \/ rd.again]
        /\ UNCHANGED <<fw, lastmsgttag>> /\ rd.pc = "eom" /\ OldReader /\ rd' = Resting
    BY <1>7 DEF OldClearEom, HandsOver
  <2>2. past'.handed = rd.copy.tag
    BY <1>0, <2>1 DEF PastFields
  <2>3. lastmsgttag = rd.copy.tag
    BY <2>1 DEF HandedGone, InCopy
  <2>4. PICK h : h = rd.copy.tag
    OBVIOUS
  <2>5. CASE ~dmaBuffer.valid
    <3>1. Gone(h)' /\ h # 0 /\ h \in Nat /\ Ended(h)
      BY <1>7, <2>4, <2>5, Emptied
    <3>2. HandedNow(h)
      BY <1>0, <2>1, <2>2, <2>3, <2>4, <3>1 DEF HandedNow
    <3> QED BY <3>2
  <2>6. CASE dmaBuffer.valid
    <3>1. /\ nextblock \in dmaBuffer.begin..dmaBuffer.end /\ rd.copy = dmaBuffer.data[At]
          /\ dmaBuffer.data[At].eom /\ CacheFilled
      BY <2>1, <2>6 DEF CacheRange, StepSound, At, CacheFilled
    <3>2. MarksKept(Live, nextblock, ring')
      <4>1. MarksKept(Live, nextblock, ring)
        BY <2>1, <3>1 DEF MarksKept, CacheSound
      <4> QED BY <1>7, <4>1, RingKept DEF MarksKept
    <3>3. Gone(h)' /\ h # 0 /\ h \in Nat /\ Ended(h)
      BY <2>1, <2>4, <3>1, <3>2, TakenGone
    <3>4. HandedNow(h)
      BY <1>0, <2>1, <2>2, <2>3, <2>4, <3>3 DEF HandedNow
    <3> QED BY <3>4
  <2> QED BY <2>5, <2>6
<1>8. ASSUME Get_DmaMonBlockCopy_Px \/ ClearFetched PROVE HandedKept \/ \E h : HandedNow(h)
  <2>1. CASE UNCHANGED <<fw, nextblock, lastmsgttag, past>>
    BY <1>1, <2>1
  <2>2. CASE TakesCopy
    <3>1. /\ CacheFilled /\ UNCHANGED <<dmaBuffer, fw>> /\ MarksKept(Live, nextblock, ring')
          /\ nextblock \in dmaBuffer.begin..dmaBuffer.end /\ FromCopy(dmaBuffer.data[At])
      BY <2>2, MarksGone DEF TakesCopy, CacheFilled
    <3>2. PICK c : c = dmaBuffer.data[At]
      OBVIOUS
    <3>3. c \in MonBlock /\ c.tag \in Nat
      BY <3>1, <3>2, AtIsLive DEF MonBlock
    <3>4. CASE /\ UNCHANGED nextblock /\ past'.handed = past.handed
               /\ lastmsgttag' = lastmsgttag \/ (~WentBack(c) /\ lastmsgttag' = c.tag)
      BY <1>0, <3>1, <3>3, <3>4 DEF HandedKept, WentBack
    <3>5. CASE /\ past'.handed = c.tag /\ rd' = Resting /\ c.eom
               /\ lastmsgttag' = IF reader.who = "irig" THEN lastmsgttag ELSE c.tag
      <4>1. PICK h : h = c.tag
        OBVIOUS
      <4>2. Gone(h)' /\ h # 0 /\ h \in Nat /\ Ended(h)
        BY <3>1, <3>2, <3>5, <4>1, TakenGone
      <4>3. HandedNow(h)
        BY <3>1, <3>5, <4>1, <4>2 DEF HandedNow
      <4> QED BY <4>3
    <3> QED BY <3>1, <3>2, <3>4, <3>5, FromCopyIs
  <2> QED BY <1>8, <2>1, <2>2, CopyTaken
<1>9. ASSUME FetchFails PROVE HandedKept
  <2>1. past'.handed = past.handed /\ UNCHANGED <<fw, nextblock, lastmsgttag>>
    BY <1>0, <1>9 DEF FetchFails, PastFields
  <2> QED BY <1>1, <2>1
<1>10. ASSUME \/ Stop_Px \/ Clear_Msg_Blks_Px
              \/ CopyWords \/ CopyAgain \/ OldStatusAgain \/ FetchHeads \/ FetchWords
              \/ UNCHANGED MonVars
       PROVE  HandedKept
  <2>1. UNCHANGED <<fw, nextblock, lastmsgttag, past>>
    BY <1>10 DEF Stop_Px, Clear_Msg_Blks_Px, CopyWords, CopyAgain, OldStatusAgain,
       FetchHeads, FetchWords, Host, MonVars
  <2> QED BY <1>1, <2>1
<1>11. ASSUME \/ \E b \in BlockNums : Get_Message_Px(b)
              \/ GetMessageEnds \/ NextOfBuffer \/ Read_Monitor_Block_Px \/ BlockCopied
       PROVE  FALSE
  BY <1>11 DEF Get_Message_Px, GetMessageEnds, NextOfBuffer, Read_Monitor_Block_Px,
     BlockCopied, StepSound
<1>12. ASSUME NEW who \in {"nios", "irig", "bcm", "rtm", "old", "wide"}, CallReader(who)
       PROVE  HandedKept
  BY <1>0, <1>12, CallDoes DEF CallReader, HandedKept
<1> QED
  BY <1>2, <1>3, <1>4, <1>5, <1>6, <1>7, <1>8, <1>9, <1>10, <1>11, <1>12, HostSteps

\* HandedGone is kept.
LEMMA HandedGoneStep ==
    /\ MonTypeOK /\ CacheRange /\ RingSound /\ StepSound /\ CopySound /\ CacheSound /\ HandedGone
    /\ [MonNext]_MonVars
    => HandedGone'
<1> SUFFICES ASSUME MonTypeOK, CacheRange, RingSound, StepSound, CopySound, CacheSound,
                    HandedGone, [MonNext]_MonVars
             PROVE  HandedGone'
  OBVIOUS
<1>0. /\ ~StaleCopy' => ~StaleCopy
      /\ UNCHANGED reader /\ DOMAIN past = PastFields
      /\ HostType'
  BY StaleStays, ReaderKept, HostTypeStep DEF MonTypeOK, PastType
<1> SUFFICES ASSUME reader.who \notin {"new", "get"}, ~StaleCopy'
             PROVE  /\ Gone(past.handed)'
                    /\ reader.who # "irig" /\ ~reader.ignore => past'.handed <= lastmsgttag'
                    /\ OldReader /\ InCopy' => lastmsgttag' = rd'.copy.tag
                    /\ fw'.n = 0 => nextblock' = 0
  BY <1>0 DEF HandedGone, OldReader
<1>1. /\ ~StaleCopy /\ Gone(past.handed) /\ past.handed \in Nat /\ lastmsgttag \in Nat
      /\ lastmsgttag' \in Nat
      /\ reader.who # "irig" /\ ~reader.ignore => past.handed <= lastmsgttag
      /\ OldReader /\ InCopy => lastmsgttag = rd.copy.tag
      /\ fw.n = 0 => nextblock = 0
  BY <1>0 DEF HandedGone, MonTypeOK, PastType, HostType
<1>2. OldReader /\ InCopy' => lastmsgttag' = rd'.copy.tag
  BY <1>1, CopyComes
<1>3. CASE HandedKept
  <2>1. PICK h : h = past.handed
    OBVIOUS
  <2>2. Gone(h)'
    <3>1. dmaBuffer.valid /\ OldReader /\ nextblock \in dmaBuffer.begin..dmaBuffer.end
             /\ rd.pc \in {"cache", "marks"} /\ dmaBuffer.data[At].eom
             => dmaBuffer.data[At].tag # h
      BY <1>1, <2>1, AtIsLive DEF CacheSound, CacheFilled
    <3> QED BY <1>1, <2>1, <3>1, GoneKept DEF At
  <2>3. Gone(past.handed)'
    BY <1>3, <2>1, <2>2 DEF Gone, Ended, InCopy, HandedKept
  <2> QED BY <1>1, <1>2, <1>3, <2>3 DEF HandedKept
<1>4. CASE \E h : HandedNow(h)
  <2>1. PICK h : HandedNow(h)
    BY <1>4
  <2>2. Gone(past.handed)'
    BY <2>1 DEF HandedNow, Gone, Ended, InCopy
  <2>3. fw'.n # 0
    BY <2>1 DEF HandedNow, Ended, MonTypeOK, RingType, FwStates
  <2> QED BY <1>2, <2>1, <2>2, <2>3 DEF HandedNow
<1>5. CASE Run_MON_Px
  <2>1. /\ past'.handed = 0 /\ lastmsgttag' = 0 /\ rd.pc = "idle" /\ UNCHANGED <<rd, ring, nextblock>>
        /\ fw'.n = fw.n /\ fw'.writing = fw.writing
    BY <1>0, <1>5 DEF Run_MON_Px, PastFields, MonTypeOK, RingType, FwStates
  <2>2. Gone(past.handed)'
    <3>1. fw.writing => 0 < fw.n
      BY DEF RingSound, MonTypeOK, RingType, FwStates
    <3>2. 0 <= fw.n
      BY DEF MonTypeOK, RingType, FwStates
    <3>3. \A b \in BlockNums : ring[b].eom => ring[b].tag # 0
      BY DEF RingSound
    <3>4. ~InCopy'
      BY <2>1 DEF InCopy
    <3> QED BY <2>1, <3>1, <3>2, <3>3, <3>4 DEF Gone, Ended
  <2> QED BY <1>1, <1>2, <2>1, <2>2
<1> QED
  BY <1>1, <1>3, <1>4, <1>5, HandedSteps

\* The monitor before its first start has its types.
LEMMA MonTypeInit == MonInit => MonTypeOK
<1> SUFFICES ASSUME MonInit PROVE MonTypeOK
  OBVIOUS
<1>1. 0 \in BlockNums /\ Empty \in MonBlock
  BY RestingIs, EmptyBlock
<1>2. RingType
  <2>1. fw \in FwStates /\ ring \in [BlockNums -> MonBlock]
    BY <1>1 DEF MonInit, FwStates
  <2>2. Sequential \in BOOLEAN
    BY DEF Sequential
  <2> QED BY <2>1, <2>2 DEF MonInit, RingType
<1>3. HostType
  BY <1>1 DEF MonInit, HostType, Caches
<1>4. ReadType
  BY <1>1, RestingIs DEF MonInit, ReadType, ReadSteps
<1>5. PastType
  BY DEF MonInit, PastType, PastFields
<1> QED
  BY <1>2, <1>3, <1>4, <1>5 DEF MonTypeOK

\* And nothing in its blocks.
LEMMA MonBaseInit == MonInit => MonBase
<1> SUFFICES ASSUME MonInit PROVE MonBase
  OBVIOUS
<1>1. MonTypeOK
  BY MonTypeInit
<1>2. /\ \A b \in BlockNums : ring[b] = Empty
      /\ fw.n = 0 /\ fw.blk = 0 /\ ~fw.writing /\ fw.stored = 0 /\ past.cleared = 0
      /\ rd.pc = "idle" /\ ~dmaBuffer.valid /\ dmaBuffer.begin = 0 /\ dmaBuffer.end = 0
  BY RestingIs DEF MonInit
<1>3. CacheRange
  BY <1>2, MonRingAssumption DEF CacheRange
<1>4. RingSound
  BY <1>2 DEF RingSound, Empty
<1>5. StepSound /\ CopySound
  BY <1>2 DEF StepSound, CopySound, InCopy
<1> QED
  BY <1>1, <1>3, <1>4, <1>5 DEF MonBase

\* MonBase is kept.
LEMMA MonBaseStep == MonBase /\ [MonNext]_MonVars => MonBase'
BY RingTypeStep, HostTypeStep, ReadTypeStep, PastTypeStep, CacheRangeStep, RingSoundStep,
   StepSoundStep, CopySoundStep DEF MonBase, MonTypeOK


(***************************************************************************)
(* Numbers round the ring.                                                 *)
(***************************************************************************)
LEMMA Quotient ==
    ASSUME NEW N \in Nat \ {0}, NEW x \in Nat
    PROVE  x % N \in 0..(N - 1) /\ \E q \in Nat : x = q * N + (x % N)
<1>1. x \div N \in Nat
  BY SMTT(30)
<1>2. x = (x \div N) * N + (x % N)
  BY SMTT(30)
<1>3. x % N \in 0..(N - 1)
  BY SMTT(30)
<1> QED
  BY <1>1, <1>2, <1>3

\* The remainder of a multiple of N and a little more.
LEMMA Remainder ==
    ASSUME NEW N \in Nat \ {0}, NEW q \in Nat, NEW r \in 0..(N - 1)
    PROVE  (q * N + r) % N = r
BY SMTT(30)

\* k blocks further on.
LEMMA Further ==
    ASSUME NEW N \in Nat \ {0}, NEW x \in Nat, NEW k \in 0..(N - 1)
    PROVE  (x + k) % N = IF (x % N) + k < N THEN (x % N) + k ELSE (x % N) + k - N
<1>1. PICK r \in 0..(N - 1) : r = x % N
  BY Quotient
<1>2. PICK q \in Nat : x = q * N + r
  BY <1>1, Quotient
<1>3. CASE r + k < N
  <2>1. r + k \in 0..(N - 1)
    BY <1>3
  <2>2. (q * N + (r + k)) % N = r + k
    BY <2>1, Remainder
  <2>3. q * N \in Nat
    OBVIOUS
  <2>4. x + k = q * N + (r + k)
    BY <1>2, <2>3
  <2> QED BY <1>1, <1>3, <2>2, <2>4
<1>4. CASE ~(r + k < N)
  <2>1. r + k - N \in 0..(N - 1) /\ q + 1 \in Nat
    BY <1>4
  <2>2. ((q + 1) * N + (r + k - N)) % N = r + k - N
    BY <2>1, Remainder
  <2>3. q * N \in Nat
    OBVIOUS
  <2>4. (q + 1) * N = q * N + N
    OBVIOUS
  <2>5. x + k = (q + 1) * N + (r + k - N)
    BY <1>2, <2>3, <2>4
  <2> QED BY <1>1, <1>4, <2>2, <2>5
<1> QED
  BY <1>3, <1>4

\* What is left when the oldest of the messages not handed over is.
LEMMA NewerIsTail ==
    ASSUME NEW s \in Seq(Nat), s # <<>>, \A i, j \in 1..Len(s) : i < j => s[i] < s[j],
           NEW c, c.tag = s[1], c.words = s[1]
    PROVE  NewerThan(c, s) = Tail(s)
<1>1. Len(s) \in Nat /\ 1 \in 1..Len(s) /\ \A i \in 1..Len(s) : s[i] \in Nat
  OBVIOUS
<1> DEFINE Cut(k) == \A i \in 1..Len(s) : i > k <=> s[i] > c.tag /\ s[i] > c.words
<1>2. Cut(1)
  <2>1. ASSUME NEW i \in 1..Len(s) PROVE i > 1 <=> s[i] > s[1]
    BY <1>1, <2>1
  <2> QED BY <2>1
<1>3. ASSUME NEW k \in 0..Len(s), Cut(k) PROVE k = 1
  <2>1. ~(1 > k)
    BY <1>1, <1>3
  <2>2. CASE k > 1
    <3>1. k \in 1..Len(s)
      BY <2>2
    <3>2. s[k] > s[1]
      BY <1>1, <2>2, <3>1
    <3> QED BY <1>3, <3>1, <3>2
  <2> QED BY <2>1, <2>2
<1>4. 1 \in 0..Len(s)
  BY <1>1
<1> DEFINE K == CHOOSE k \in 0..Len(s) : Cut(k)
<1>5. K = 1
  BY <1>2, <1>3, <1>4
<1>6. NewerThan(c, s) = SubSeq(s, 2, Len(s))
  <2>1. NewerThan(c, s) = SubSeq(s, K + 1, Len(s))
    BY DEF NewerThan
  <2> HIDE DEF K
  <2> QED BY <1>5, <2>1
<1>7. SubSeq(s, 2, Len(s)) = Tail(s)
  BY <1>1
<1> QED
  BY <1>6, <1>7

\* The ring as the firmware sees it.
LEMMA BehindIs ==
    ASSUME MonTypeOK, NEW b \in BlockNums
    PROVE  /\ Behind(b) \in 1..MonBlocks /\ b \in Nat /\ fw.blk \in Nat /\ MonBlocks \in Nat
           /\ b < MonBlocks /\ fw.blk < MonBlocks
           /\ Behind(b) = MonBlocks <=> b = fw.blk
           /\ fw'.blk = fw.blk => Behind(b)' = Behind(b)
           /\ fw'.blk = (fw.blk + 1) % MonBlocks =>
                 Behind(b)' = IF b = fw.blk THEN 1 ELSE Behind(b) + 1
<1>1. /\ b \in 0..(MonBlocks - 1) /\ fw.blk \in 0..(MonBlocks - 1) /\ MonBlocks \in Nat
      /\ fw.blk \in BlockNums
  BY MonRingAssumption DEF BlockNums, MonTypeOK, RingType, FwStates
<1>2. /\ Behind(b) \in 1..MonBlocks
      /\ Behind(b) = MonBlocks <=> b = fw.blk
  BY <1>1 DEF Behind
<1>3. fw'.blk = fw.blk => Behind(b)' = Behind(b)
  BY DEF Behind
<1>4. ASSUME fw'.blk = (fw.blk + 1) % MonBlocks
      PROVE  Behind(b)' = IF b = fw.blk THEN 1 ELSE Behind(b) + 1
  <2>1. fw'.blk = IF fw.blk = MonBlocks - 1 THEN 0 ELSE fw.blk + 1
    BY <1>1, <1>4, RingOrder
  <2> QED BY <1>1, <2>1 DEF Behind
<1> QED
  BY <1>1, <1>2, <1>3, <1>4

\* d blocks on in the ring, without going round it.
LEMMA BehindOn ==
    ASSUME MonTypeOK, NEW b \in BlockNums, NEW d \in Nat, b + d < MonBlocks
    PROVE  /\ b + d \in BlockNums
           /\ d < Behind(b) => Behind(b + d) = Behind(b) - d
           /\ d > 0 /\ Behind(b + d) <= Behind(b) => d < Behind(b)
<1>1. b \in 0..(MonBlocks - 1) /\ fw.blk \in 0..(MonBlocks - 1) /\ MonBlocks \in Nat
  BY MonRingAssumption DEF BlockNums, MonTypeOK, RingType, FwStates
<1> QED
  BY <1>1 DEF Behind, BlockNums

\* The next block.
LEMMA BehindNext ==
    ASSUME MonTypeOK, NEW b \in BlockNums, NEW c, c = (b + 1) % MonBlocks
    PROVE  /\ c \in BlockNums
           /\ IF Behind(b) = 1 THEN c = fw.blk ELSE Behind(c) = Behind(b) - 1
<1>1. /\ b \in 0..(MonBlocks - 1) /\ fw.blk \in 0..(MonBlocks - 1) /\ MonBlocks \in Nat
  BY MonRingAssumption DEF BlockNums, MonTypeOK, RingType, FwStates
<1>2. c = IF b = MonBlocks - 1 THEN 0 ELSE b + 1
  BY RingOrder
<1> QED
  BY <1>1, <1>2 DEF Behind, BlockNums

(***************************************************************************)
(* Before anything has run.                                                *)
(***************************************************************************)
LEMMA OldKept ==
    ASSUME MonTypeOK, [MonNext]_MonVars
    PROVE  Clear_Msg_Blks_Px \/ rd'.old = rd.old \/ rd'.old = FALSE
<1>0. DOMAIN rd = ReadFields
  BY DEF MonTypeOK, ReadType
<1>1. ASSUME NEW triggered \in BOOLEAN, FwEnd(triggered) PROVE rd'.old = rd.old
  BY <1>1, FwEndDoes DEF ReadFields
<1>2. ASSUME FwBegin \/ Run_MON_Px \/ Stop_Px \/ UNCHANGED MonVars PROVE rd'.old = rd.old
  BY <1>2 DEF FwBegin, Run_MON_Px, Stop_Px, MonVars
<1>3. ASSUME ClearBlocks \/ GetMessageEnds \/ OldClearEom \/ NextOfBuffer \/ BlockCopied
      PROVE  rd'.old = FALSE
  BY <1>3, RestingIs DEF ClearBlocks, GetMessageEnds, OldClearEom, NextOfBuffer, BlockCopied,
     HandsOver, Returns
<1>4. ASSUME \/ \E who \in {"nios", "irig", "bcm", "rtm", "old", "wide"} : CallReader(who)
             \/ \E b \in BlockNums : Get_Message_Px(b)
             \/ Read_Monitor_Block_Px
      PROVE  rd'.old = FALSE
  BY <1>4, RestingIs DEF CallReader, Get_Message_Px, Read_Monitor_Block_Px, ReadFields
<1>5. ASSUME ClearEom PROVE rd'.old = FALSE
  BY <1>5, RestingIs DEF ClearEom, Judge, HandsOver, Returns
<1>6. ASSUME CopyHead \/ CopyWords \/ CopyAgain \/ OldStatusAgain
      PROVE  rd'.old = FALSE \/ rd'.old = rd.old
  <2>1. \/ rd' = Resting
        \/ \E p, c : rd' = [rd EXCEPT !.pc = p, !.copy = c]
        \/ \E p : rd' = [rd EXCEPT !.pc = p]
    BY <1>6 DEF CopyHead, CopyWords, CopyAgain, OldStatusAgain, Returns
  <2> QED BY <1>0, <2>1, RestingIs DEF ReadFields
<1>7. ASSUME NEW c, FromCopy(c) PROVE rd'.old = FALSE \/ rd'.old = rd.old
  <2>1. rd' = Resting \/ rd' = [rd EXCEPT !.pc = "check", !.copy = c]
    BY <1>7 DEF FromCopy, Judge, HandsOver, Returns
  <2> QED BY <1>0, <2>1, RestingIs DEF ReadFields
<1>8. ASSUME Get_DmaMonBlockCopy_Px \/ ClearFetched PROVE rd'.old = FALSE \/ rd'.old = rd.old
  <2>1. \/ \E c : FromCopy(c)
        \/ \E p : rd' = [rd EXCEPT !.pc = p]
    BY <1>8 DEF Get_DmaMonBlockCopy_Px, ClearFetched
  <2> QED BY <1>0, <1>7, <2>1 DEF ReadFields
<1>9. ASSUME FetchHeads \/ FetchWords \/ FetchFails PROVE rd'.old = rd.old
  <2>1. \E p : rd' = [rd EXCEPT !.pc = p]
    BY <1>9 DEF FetchHeads, FetchWords, FetchFails
  <2> QED BY <1>0, <2>1 DEF ReadFields
<1> QED
  BY <1>1, <1>2, <1>3, <1>4, <1>5, <1>6, <1>8, <1>9, HostSteps

\* The trigger is waited for from the start of the monitor on.
LEMMA WaitKept ==
    ASSUME MonTypeOK, [MonNext]_MonVars
    PROVE  Run_MON_Px \/ (wait_for_trigger' => wait_for_trigger)
<1>1. ASSUME NEW c, TriggerSeen(c) PROVE wait_for_trigger' => wait_for_trigger
  BY <1>1 DEF TriggerSeen
<1>2. ASSUME NEW c, Judge(c) \/ FromCopy(c) PROVE wait_for_trigger' => wait_for_trigger
  BY <1>1, <1>2, JudgeIs, FromCopyIs
<1>3. ASSUME ClearEom \/ Get_DmaMonBlockCopy_Px \/ ClearFetched
      PROVE  wait_for_trigger' => wait_for_trigger
  <2>1. UNCHANGED wait_for_trigger \/ \E c : Judge(c) \/ FromCopy(c)
    BY <1>3 DEF ClearEom, Get_DmaMonBlockCopy_Px, ClearFetched
  <2> QED BY <1>2, <2>1
<1>4. ASSUME OldStatusAgain PROVE wait_for_trigger' => wait_for_trigger
  <2>1. UNCHANGED wait_for_trigger \/ \E c : TriggerSeen(c)
    BY <1>4 DEF OldStatusAgain
  <2> QED BY <1>1, <2>1
<1>5. Run_MON_Px \/ ClearEom \/ Get_DmaMonBlockCopy_Px \/ ClearFetched \/ OldStatusAgain
      \/ UNCHANGED wait_for_trigger
  BY HostSteps DEF FwBegin, FwEnd, Stop_Px, Clear_Msg_Blks_Px, ClearBlocks,
     CallReader, Get_Message_Px, CopyHead, CopyWords, CopyAgain, GetMessageEnds,
     OldClearEom, FetchHeads, FetchWords, FetchFails, NextOfBuffer,
     Read_Monitor_Block_Px, BlockCopied, MonVars, Host
<1> QED
  BY <1>3, <1>4, <1>5

\* FreshSound is kept.
LEMMA FreshSoundStep == MonCopies /\ FreshSound /\ [MonNext]_MonVars => FreshSound'
<1> SUFFICES ASSUME MonCopies, FreshSound, [MonNext]_MonVars PROVE FreshSound'
  OBVIOUS
<1>0. /\ MonTypeOK /\ CacheRange /\ RingSound /\ StepSound /\ CopySound /\ HandedGone /\ CacheSound
      /\ UNCHANGED reader /\ fw.n \in Nat /\ past.runs \in Nat /\ fw \in FwStates
      /\ past.cleared \in Nat /\ rd.old \in BOOLEAN
  BY ReaderKept DEF MonCopies, MonBase, MonTypeOK, RingType, FwStates, PastType, ReadType
<1>1. fw'.n = 0 => \A b \in BlockNums : ~ring'[b].trig
  <2>1. ASSUME FwBegin PROVE fw'.n # 0
    BY <1>0, <2>1, FwBeginDoes
  <2>2. ASSUME NEW triggered \in BOOLEAN, FwEnd(triggered) PROVE fw'.n # 0
    BY <1>0, <2>2, FwEndDoes DEF RingSound
  <2>3. ASSUME ClearBlocks PROVE \A b \in BlockNums : ~ring'[b].trig
    BY <1>0, <2>3, BlocksCleared DEF Empty
  <2>4. ASSUME ClearEom \/ OldClearEom PROVE fw'.n # 0
    <3>1. UNCHANGED fw /\ rd.pc = "eom" /\ rd.copy.eom
      BY <1>0, <2>4 DEF ClearEom, OldClearEom, StepSound
    <3>2. CASE ~dmaBuffer.valid
      BY <1>0, <3>1, <3>2 DEF CopySound, InCopy, Ended, MonTypeOK, ReadType, MonBlock
    <3>3. CASE dmaBuffer.valid
      <4>1. /\ nextblock \in dmaBuffer.begin..dmaBuffer.end /\ rd.copy = dmaBuffer.data[At]
            /\ CacheFilled
        BY <1>0, <3>1, <3>3 DEF CacheRange, At, CacheFilled
      <4>2. At \in Live /\ dmaBuffer.data[At] \in MonBlock
        BY <1>0, <3>1, <4>1, AtIsLive
      <4>3. fw.n = 0 => ~StaleCopy
        BY <1>0 DEF RingSound, StaleCopy
      <4> QED BY <1>0, <3>1, <4>1, <4>2, <4>3 DEF CacheSound, Ended, MonBlock
    <3> QED BY <3>2, <3>3
  <2>5. ASSUME ClearFetched PROVE fw'.n = fw.n /\ \A b \in BlockNums : ring'[b].trig = ring[b].trig
    BY <1>0, <2>5, FetchedCleared DEF ClearFetched
  <2>6. ASSUME Run_MON_Px PROVE fw'.n = fw.n /\ UNCHANGED ring
    BY <1>0, <2>6 DEF Run_MON_Px, FwStates
  <2>7. ASSUME Stop_Px \/ Clear_Msg_Blks_Px \/ UNCHANGED <<reader, ring, fw, start>>
        PROVE  fw'.n = fw.n /\ UNCHANGED ring
    BY <2>7 DEF Stop_Px, Clear_Msg_Blks_Px
  <2> QED BY <2>1, <2>2, <2>3, <2>4, <2>5, <2>6, <2>7, MonSteps DEF FreshSound
<1>2. ASSUME Sequential, past'.runs = 0 PROVE ~start' /\ ~rd'.old /\ fw'.n = 0 /\ ~fw'.writing
  <2>1. ~Run_MON_Px /\ past.runs = 0
    <3>1. ASSUME Run_MON_Px PROVE past'.runs = past.runs + 1
      <4>1. past' = [past EXCEPT !.handed = 0, !.runs = @ + 1]
        BY <3>1 DEF Run_MON_Px
      <4> QED BY <1>0, <4>1 DEF MonTypeOK, PastType, PastFields
    <3> QED BY <1>0, <1>2, <3>1, PastKept
  <2>2. ~start /\ ~rd.old /\ fw.n = 0 /\ ~fw.writing
    BY <1>2, <2>1 DEF FreshSound
  <2>3. ~FwBegin /\ ~(\E triggered \in BOOLEAN : FwEnd(triggered))
    BY <2>2 DEF FwBegin, FwEnd
  <2>4. CASE Clear_Msg_Blks_Px
    <3>1. ~start' /\ rd' = [rd EXCEPT !.pc = "clear", !.old = start] /\ UNCHANGED fw
      BY <2>4 DEF Clear_Msg_Blks_Px
    <3>2. rd'.old = start
      BY <1>0, <3>1 DEF MonTypeOK, ReadType, ReadFields
    <3> QED BY <2>2, <3>1, <3>2
  <2>5. CASE ~Clear_Msg_Blks_Px
    <3>1. ~rd'.old
      BY <1>0, <2>2, <2>5, OldKept
    <3>2. UNCHANGED fw /\ ~start'
      <4>1. ASSUME ClearBlocks PROVE UNCHANGED fw /\ ~start'
        BY <2>2, <4>1 DEF ClearBlocks
      <4>2. ASSUME ClearEom \/ OldClearEom \/ ClearFetched PROVE UNCHANGED <<fw, start>>
        BY <4>2 DEF ClearEom, OldClearEom, ClearFetched
      <4>3. ASSUME Stop_Px PROVE UNCHANGED fw /\ ~start'
        BY <4>3 DEF Stop_Px
      <4> QED BY <2>1, <2>2, <2>3, <2>5, <4>1, <4>2, <4>3, MonSteps
    <3> QED BY <2>2, <3>1, <3>2
  <2> QED BY <2>4, <2>5
<1>3. wait_for_trigger' => reader.trig # "none"
  <2>1. CASE Run_MON_Px
    BY <2>1 DEF Run_MON_Px
  <2>2. CASE ~Run_MON_Px
    BY <1>0, <2>2, WaitKept DEF FreshSound
  <2> QED BY <2>1, <2>2
<1>4. fw'.armed => reader.trig # "none" /\ Sequential
  <2>1. ASSUME Run_MON_Px PROVE fw'.armed => reader.trig # "none" /\ Sequential
    BY <1>0, <2>1 DEF Run_MON_Px, FwStates
  <2>2. ASSUME FwBegin PROVE fw'.armed = fw.armed
    BY <1>0, <2>2, FwBeginDoes
  <2>3. ASSUME NEW triggered \in BOOLEAN, FwEnd(triggered) PROVE fw'.armed => fw.armed
    BY <1>0, <2>3, FwEndDoes
  <2>4. ASSUME \/ Stop_Px \/ Clear_Msg_Blks_Px \/ ClearBlocks \/ ClearEom \/ OldClearEom
               \/ ClearFetched \/ UNCHANGED <<reader, ring, fw, start>>
        PROVE  UNCHANGED fw
    BY <2>4 DEF Stop_Px, Clear_Msg_Blks_Px, ClearBlocks, ClearEom, OldClearEom, ClearFetched
  <2> QED BY <2>1, <2>2, <2>3, <2>4, MonSteps DEF FreshSound
<1> QED
  BY <1>0, <1>1, <1>2, <1>3, <1>4 DEF FreshSound, Sequential

(***************************************************************************)
(* The message handed over is the oldest one not handed over yet.          *)
(***************************************************************************)
Due(c) == pend # <<>> /\ c.tag = pend[1] /\ c.words = pend[1]

\* What a reader without a DMA copy hands over is the oldest message.
LEMMA DueDirect ==
    ASSUME MonInv, Good, ClearEom, ~Untriggered(rd.copy)
    PROVE  Due(rd.copy)
<1>1. /\ rd.pc = "eom" /\ ~OldReader /\ rd.copy.eom /\ ~dmaBuffer.valid /\ InCopy
      /\ reader.who # "new"
  BY DEF MonInv, MonCopies, MonBase, ClearEom, StepSound, InCopy
<1>2. rd.copy.words = rd.copy.tag
  BY <1>1 DEF MonInv, MonCopies, MonBase, CopySound
<1>3. ~Stray(rd.copy)
  BY DEF Stray, Untriggered
<1>4. pend # <<>> /\ rd.copy.tag = pend[1]
  BY <1>1, <1>3 DEF MonInv, WindowSound, CopyWindow
<1> QED
  BY <1>2, <1>4 DEF Due

\* A message taken from the DMA copy.
LEMMA DueTaken ==
    ASSUME MonInv, Good, dmaBuffer.valid, rd.pc \notin {"dma", "dma2"}, reader.who # "new",
           nextblock \in dmaBuffer.begin..dmaBuffer.end, dmaBuffer.data[At].eom,
           ~Stray(dmaBuffer.data[At])
    PROVE  Due(dmaBuffer.data[At])
<1>1. /\ At \in Live /\ dmaBuffer.begin + At = nextblock /\ nextblock \in Nat
      /\ dmaBuffer.begin \in Nat /\ At \in Nat
  BY AtIsLive DEF MonInv, MonCopies, MonBase
<1>2. CacheFilled
  BY DEF CacheFilled
<1>3. Pending(At) /\ dmaBuffer.data[At].words = dmaBuffer.data[At].tag
  BY <1>1, <1>2 DEF MonInv, WindowSound, CacheWindow
<1>4. dmaBuffer.begin + At - nextblock = 0
  BY <1>1
<1>5. 0 < Len(pend) /\ dmaBuffer.data[At].tag = pend[0 + 1]
  BY <1>3, <1>4 DEF Pending
<1> QED
  BY <1>3, <1>5 DEF Due

\* So is what an old reader does.
LEMMA DueOld ==
    ASSUME MonInv, Good, OldClearEom, ~rd.again
    PROVE  Due(rd.copy)
<1>1. /\ rd.pc = "eom" /\ OldReader /\ rd.copy.eom /\ InCopy /\ reader.who # "new"
  BY DEF MonInv, MonCopies, MonBase, OldClearEom, StepSound, InCopy
<1>2. pend # <<>> /\ rd.copy.tag = pend[1] /\ ~Stray(rd.copy)
  BY <1>1 DEF MonInv, WindowSound, CopyWindow
<1>3. CASE ~dmaBuffer.valid
  BY <1>1, <1>2, <1>3 DEF MonInv, MonCopies, MonBase, CopySound, Due
<1>4. CASE dmaBuffer.valid
  <2>1. nextblock \in dmaBuffer.begin..dmaBuffer.end /\ rd.copy = dmaBuffer.data[At]
    BY <1>1, <1>4 DEF MonInv, MonCopies, MonBase, CacheRange, At
  <2> QED BY <1>1, <1>2, <1>4, <2>1, DueTaken
<1> QED
  BY <1>3, <1>4

\* Blocks whose counters follow one another pass the block reader's test.
LEMMA IntactIs ==
    ASSUME NEW s \in Seq(MonBlock), s # <<>>, GoodAt(s, 1),
           \A i \in 2..Len(s) : FollowsAt(s, i)
    PROVE  Intact(s) = s
<1>0. Len(s) \in Nat /\ Len(s) >= 1
  OBVIOUS
<1>1. FirstGood(s) = 1
  <2> DEFINE P(i) == (i <= Len(s) => GoodAt(s, i)) /\ \A j \in 1..(i - 1) : ~GoodAt(s, j)
  <2>1. 1 \in 1..(Len(s) + 1) /\ P(1)
    BY <1>0
  <2>2. ASSUME NEW i \in 1..(Len(s) + 1), P(i) PROVE i = 1
    <3>1. i > 1 => 1 \in 1..(i - 1)
      BY <1>0
    <3> QED BY <1>0, <2>2, <3>1
  <2> DEFINE K == CHOOSE i \in 1..(Len(s) + 1) : P(i)
  <2>3. K = 1
    BY <2>1, <2>2
  <2>4. FirstGood(s) = K
    BY DEF FirstGood
  <2> HIDE DEF K
  <2> QED BY <2>3, <2>4
<1>2. FirstGap(s, 1) = Len(s) + 1
  <2> DEFINE P(k) == (k <= Len(s) => ~FollowsAt(s, k)) /\ \A j \in (1 + 1)..(k - 1) : FollowsAt(s, j)
  <2>1. Len(s) + 1 \in (1 + 1)..(Len(s) + 1) /\ P(Len(s) + 1)
    BY <1>0
  <2>2. ASSUME NEW k \in (1 + 1)..(Len(s) + 1), P(k) PROVE k = Len(s) + 1
    BY <1>0, <2>2
  <2> DEFINE K == CHOOSE k \in (1 + 1)..(Len(s) + 1) : P(k)
  <2>3. K = Len(s) + 1
    BY <2>1, <2>2
  <2>4. FirstGap(s, 1) = K
    BY DEF FirstGap
  <2> HIDE DEF K
  <2> QED BY <2>3, <2>4
<1>3. Intact(s) = SubSeq(s, 1, Len(s))
  BY <1>0, <1>1, <1>2 DEF Intact
<1>4. SubSeq(s, 1, Len(s)) = s
  BY <1>0
<1> QED
  BY <1>3, <1>4

\* The blocks read stay as they are while they are copied.
Read == [i \in DOMAIN rd.bufs |-> Tail1(rd.bufs[i], ring[rd.first + i - 1])]

\* The blocks the block reader copied are the oldest messages, if it accepts them.
LEMMA ReadIs ==
    ASSUME MonInv, Good, BlockCopied
    PROVE  /\ reader.who = "new" /\ rd.pc = "block"
           /\ Read \in Seq(MonBlock) /\ Len(Read) = Len(rd.bufs) /\ Read # <<>>
           /\ Len(Read) \in Nat /\ Len(Read) >= 1 /\ Len(Read) <= Len(pend)
           /\ \A i \in 1..Len(Read) : /\ Read[i].eom /\ Read[i].tag = pend[i]
                                      /\ Read[i].words = pend[i]
                                      /\ Read[i].cnt = lastCountRead + i - 1
           /\ Intact(Read) = Read
<1>0. rd.pc = "block" /\ reader.who = "new" /\ MonTypeOK /\ RingSound
  BY DEF BlockCopied, MonInv, MonCopies, MonBase, StepSound
<1>1. /\ Len(pend) < MonBlocks /\ lcl = <<>> /\ lastCountRead \in Nat
      /\ fw.stored = lastCountRead + Len(pend) - Len(lcl)
      /\ \A b \in BlockNums : Behind(b) <= Len(pend) =>
            ring[b].eom /\ ring[b].cnt = fw.stored - Behind(b)
      /\ rd.first \in BlockNums /\ Behind(rd.first) = Len(pend)
      /\ rd.cc \in Nat /\ rd.cc >= lastCountRead /\ rd.cc < lastCountRead + MonBlocks
      /\ rd.bufs \in Seq(MonBlock) /\ rd.bufs # <<>> /\ Len(rd.bufs) <= Len(pend)
      /\ rd.first + Len(rd.bufs) <= MonBlocks
      /\ \A i \in 1..Len(rd.bufs) : rd.bufs[i].eom /\ rd.bufs[i].tag = pend[i]
  BY <1>0 DEF MonInv, NewSound
<1>2. /\ pend \in Seq(Nat)
      /\ \A b \in BlockNums : Behind(b) <= Len(pend) =>
            ring[b].tag = pend[Len(pend) - Behind(b) + 1]
  BY DEF MonInv, PendSound
<1>3. /\ Len(pend) \in Nat /\ Len(rd.bufs) \in Nat /\ Len(rd.bufs) >= 1
      /\ DOMAIN rd.bufs = 1..Len(rd.bufs) /\ rd.first \in Nat /\ MonBlocks \in Nat
      /\ Len(lcl) = 0
  BY <1>1, <1>2, MonRingAssumption DEF BlockNums
<1>4. ASSUME NEW i \in 1..Len(rd.bufs)
      PROVE  /\ Read[i] \in MonBlock /\ Read[i].eom /\ Read[i].tag = pend[i]
             /\ Read[i].words = pend[i] /\ Read[i].cnt = lastCountRead + i - 1
  <2>1. PICK d \in Nat : d = i - 1 /\ d < Len(rd.bufs)
    BY <1>3
  <2>2. /\ rd.first + d \in BlockNums /\ Behind(rd.first + d) = Len(pend) - d
        /\ rd.first + i - 1 = rd.first + d
    <3>1. rd.first + d < MonBlocks /\ d < Behind(rd.first) /\ rd.first + i - 1 = rd.first + d
      BY <1>1, <1>3, <2>1
    <3> QED BY <1>0, <1>1, <2>1, <3>1, BehindOn
  <2>3. PICK b \in BlockNums : b = rd.first + i - 1 /\ Behind(b) = Len(pend) - d
    BY <2>2
  <2>4. ring[b].tag = pend[i] /\ ring[b].cnt = lastCountRead + i - 1
    <3>1. Behind(b) <= Len(pend) /\ Len(pend) - Behind(b) + 1 = i
      BY <1>3, <2>1, <2>3
    <3>2. ring[b].tag = pend[i] /\ ring[b].cnt = fw.stored - Behind(b)
      BY <1>1, <1>2, <3>1
    <3> QED BY <1>1, <1>3, <2>1, <2>3, <3>2
  <2>5. Read[i] = Tail1(rd.bufs[i], ring[b])
    BY <1>3, <2>3 DEF Read
  <2>6. rd.bufs[i] \in MonBlock /\ ring[b] \in MonBlock /\ ring[b].words = ring[b].tag
    BY <1>0, <1>1, <1>3 DEF MonTypeOK, RingType, RingSound
  <2>7. /\ Read[i] \in MonBlock /\ Read[i].eom = rd.bufs[i].eom /\ Read[i].tag = rd.bufs[i].tag
        /\ Read[i].words = ring[b].words /\ Read[i].cnt = ring[b].cnt
    BY <2>5, <2>6, Copying
  <2> QED BY <1>1, <2>4, <2>6, <2>7
<1>5. Read \in Seq(MonBlock) /\ Len(Read) = Len(rd.bufs) /\ Read # <<>>
  <2>1. Read = [i \in 1..Len(rd.bufs) |-> Read[i]]
    BY <1>3 DEF Read
  <2>2. \A i \in 1..Len(rd.bufs) : Read[i] \in MonBlock
    BY <1>4
  <2> HIDE DEF Read
  <2>3. Read \in Seq(MonBlock)
    BY <1>3, <2>1, <2>2
  <2>4. Len(Read) = Len(rd.bufs)
    BY <1>3, <2>1
  <2> QED BY <1>3, <2>3, <2>4
<1>6. GoodAt(Read, 1)
  <2>1. ~Overwritten(rd.cc)
    BY <1>1, <1>3 DEF Overwritten
  <2>2. BaseCount = lastCountRead
    BY <2>1 DEF BaseCount
  <2>3. Read[1].cnt = lastCountRead /\ Read[1].eom
    BY <1>1, <1>3, <1>4
  <2>4. lastCountRead < lastCountRead + MonBlocks
    BY <1>1, <1>3, MonRingAssumption
  <2> QED BY <2>2, <2>3, <2>4 DEF GoodAt
<1>7. ASSUME NEW i \in 2..Len(Read) PROVE FollowsAt(Read, i)
  <2>1. i \in 1..Len(rd.bufs) /\ i - 1 \in 1..Len(rd.bufs)
    BY <1>3, <1>5
  <2>2. PICK j \in 1..Len(rd.bufs) : j = i - 1
    BY <2>1
  <2>3. /\ Read[i].cnt = lastCountRead + i - 1 /\ Read[i].eom
        /\ Read[j].cnt = lastCountRead + j - 1
    BY <1>4, <2>1
  <2> QED BY <1>1, <1>3, <2>1, <2>2, <2>3 DEF FollowsAt
<1>8. Intact(Read) = Read
  BY <1>5, <1>6, <1>7, IntactIs
<1> QED
  BY <1>0, <1>1, <1>3, <1>4, <1>5, <1>8

\* It hands over the first of them.
LEMMA DueBlock ==
    ASSUME MonInv, Good, BlockCopied
    PROVE  /\ Due(Head(Read)) /\ HandsOver(Head(Read)) /\ lcl' = Tail(Read)
           /\ lastCountRead' = lastCountRead + Len(Read)
<1>1. /\ Read \in Seq(MonBlock) /\ Read # <<>> /\ Intact(Read) = Read
      /\ Len(Read) \in Nat /\ Len(Read) >= 1 /\ Len(Read) <= Len(pend)
      /\ Read[1].tag = pend[1] /\ Read[1].words = pend[1]
      /\ Read[Len(Read)].cnt = lastCountRead + Len(Read) - 1
  BY ReadIs
<1>2. Head(Read) = Read[1]
  BY <1>1
<1>3. Due(Head(Read))
  BY <1>1, <1>2 DEF Due
<1>4. /\ HandsOver(Head(Intact(Read))) /\ lcl' = Tail(Intact(Read))
      /\ lastCountRead' = Last(Intact(Read)).cnt + 1
  <2>1. Intact(Read) # <<>>
    BY <1>1
  <2> QED BY <2>1 DEF BlockCopied, Read
<1>5. lastCountRead' = Read[Len(Read)].cnt + 1
  BY <1>1, <1>4 DEF Last
<1>6. lastCountRead \in Nat
  BY ReadIs DEF MonInv, NewSound
<1> QED
  BY <1>1, <1>3, <1>4, <1>5, <1>6

\* And later those in its buffer.
LEMMA DueBuffer ==
    ASSUME MonInv, Good, NextOfBuffer
    PROVE  Due(Head(lcl)) /\ HandsOver(Head(lcl)) /\ lcl' = Tail(lcl) /\ lcl # <<>>
<1>1. /\ HandsOver(Head(lcl)) /\ lcl' = Tail(lcl) /\ lcl # <<>> /\ reader.who = "new"
  BY DEF NextOfBuffer
<1>2. /\ lcl \in Seq(MonBlock) /\ Len(lcl) <= Len(pend) /\ pend \in Seq(Nat)
      /\ \A i \in 1..Len(lcl) : lcl[i].tag = pend[i] /\ lcl[i].words = pend[i]
  BY <1>1 DEF MonInv, NewSound, PendSound
<1>3. Head(lcl) = lcl[1] /\ 1 \in 1..Len(lcl) /\ pend # <<>>
  BY <1>1, <1>2
<1> QED
  BY <1>1, <1>2, <1>3 DEF Due

(***************************************************************************)
(* The messages stored and not handed over.                                *)
(***************************************************************************)
\* What a step does to them.
TagsKept == /\ UNCHANGED fw
            /\ \A b \in BlockNums : ring'[b].tag = ring[b].tag
PendKept == /\ UNCHANGED pend /\ (reader.who # "new" => UNCHANGED nextblock)
            /\ fw'.blk = fw.blk /\ fw'.n = fw.n /\ fw'.writing = fw.writing
            /\ \A b \in BlockNums : ring'[b].tag = ring[b].tag
PendOut == \E c : /\ Due(c) /\ HandsOver(c) /\ TagsKept
                  /\ reader.who # "new" => nextblock' = (nextblock + 1) % MonBlocks
                  /\ reader.who # "new" => past'.handed = c.tag

\* A step adds to the messages not handed over, takes the oldest or leaves them.
LEMMA PendSteps ==
    ASSUME MonInv, [MonNext]_MonVars, Good, Good'
    PROVE  \/ FwBegin \/ \E triggered \in BOOLEAN : FwEnd(triggered)
           \/ ClearBlocks \/ PendOut \/ (PendKept /\ (out' = NoOut \/ UNCHANGED MonVars))
<1>0. /\ MonTypeOK /\ CacheRange /\ RingSound /\ StepSound /\ CopySound
      /\ reader.who # "get" /\ ~CutShort /\ UNCHANGED reader
  BY ReaderKept DEF MonInv, MonCopies, MonBase, Good
<1>1. ASSUME Run_MON_Px PROVE PendKept /\ out' = NoOut
  <2>1. fw' = [fw EXCEPT !.armed = reader.trig # "none"] /\ UNCHANGED <<ring, pend, nextblock>>
        /\ out' = NoOut
    BY <1>1 DEF Run_MON_Px
  <2> QED BY <1>0, <2>1 DEF PendKept, MonTypeOK, RingType, FwStates
<1>2. ASSUME UNCHANGED <<pend, nextblock, fw, ring>>, out' = NoOut \/ UNCHANGED MonVars
      PROVE  PendKept /\ (out' = NoOut \/ UNCHANGED MonVars)
  BY <1>2 DEF PendKept
<1>3. ASSUME \/ Stop_Px \/ Clear_Msg_Blks_Px
             \/ \E who \in {"nios", "irig", "bcm", "rtm", "old", "wide"} : CallReader(who)
             \/ CopyHead \/ CopyWords \/ CopyAgain \/ OldStatusAgain
             \/ FetchHeads \/ FetchWords \/ FetchFails
             \/ Read_Monitor_Block_Px \/ UNCHANGED MonVars
      PROVE  PendKept /\ (out' = NoOut \/ UNCHANGED MonVars)
  <2>1. ASSUME \/ Stop_Px \/ Clear_Msg_Blks_Px
               \/ \E who \in {"nios", "irig", "bcm", "rtm", "old", "wide"} : CallReader(who)
               \/ Read_Monitor_Block_Px \/ UNCHANGED MonVars
        PROVE  UNCHANGED <<pend, nextblock, fw, ring>> /\ (out' = NoOut \/ UNCHANGED MonVars)
    BY <1>0, <2>1, CallDoes
    DEF Stop_Px, Clear_Msg_Blks_Px, CallReader, Read_Monitor_Block_Px, MonVars, Host
  <2>2. ASSUME CopyHead \/ CopyWords \/ CopyAgain \/ OldStatusAgain
        PROVE  UNCHANGED <<pend, nextblock, fw, ring>> /\ out' = NoOut
    BY <2>2 DEF CopyHead, CopyWords, CopyAgain, OldStatusAgain, Returns, Host
  <2>3. ASSUME FetchHeads \/ FetchWords \/ FetchFails
        PROVE  UNCHANGED <<pend, nextblock, fw, ring>> /\ out' = NoOut
    BY <2>3 DEF FetchHeads, FetchWords, FetchFails
  <2> QED BY <1>2, <1>3, <2>1, <2>2, <2>3
<1>4. ASSUME ClearEom PROVE PendOut \/ (PendKept /\ out' = NoOut)
  <2>1. Judge(rd.copy) /\ TagsKept
    BY <1>0, <1>4, RingKept DEF ClearEom, TagsKept
  <2>2. CASE UNCHANGED <<nextblock, pend>> /\ out' = NoOut
    BY <2>1, <2>2 DEF PendKept, TagsKept
  <2>3. CASE /\ HandsOver(rd.copy) /\ ~Untriggered(rd.copy) /\ past'.handed = rd.copy.tag
             /\ nextblock' = (nextblock + 1) % MonBlocks
    BY <1>4, <2>1, <2>3, DueDirect DEF PendOut
  <2> QED BY <1>0, <2>1, <2>2, <2>3, JudgeIs
<1>5. ASSUME OldClearEom PROVE PendOut
  <2>1. /\ HandsOver(rd.copy) /\ nextblock' = (nextblock + 1) % MonBlocks /\ OldReader
        /\ past' = [past EXCEPT !.handed = rd.copy.tag, !.lapped = @ \/ rd.again]
    BY <1>5 DEF OldClearEom
  <2>2. ~rd.again
    <3>1. past'.lapped = (past.lapped \/ rd.again)
      BY <1>0, <2>1 DEF MonTypeOK, PastType, PastFields
    <3> QED BY <3>1 DEF Good
  <2>3. TagsKept
    BY <1>0, <1>5, RingKept DEF TagsKept
  <2>4. past'.handed = rd.copy.tag
    BY <1>0, <2>1 DEF MonTypeOK, PastType, PastFields
  <2> QED BY <1>5, <2>1, <2>2, <2>3, <2>4, DueOld DEF PendOut
<1>6. ASSUME Get_DmaMonBlockCopy_Px \/ ClearFetched PROVE PendOut \/ (PendKept /\ out' = NoOut)
  <2>1. TagsKept \/ Get_DmaMonBlockCopy_Px
    BY <1>0, <1>6, RingKept DEF TagsKept
  <2>2. CASE /\ rd'.pc = "dma" /\ out' = NoOut
             /\ UNCHANGED <<fw, ring, nextblock, lastmsgttag, wait_for_trigger, past, pend>>
    BY <1>2, <2>2 DEF PendKept
  <2>3. CASE /\ rd'.pc = "head" /\ out' = NoOut /\ ClearFetched
             /\ UNCHANGED <<fw, nextblock, lastmsgttag, wait_for_trigger, past, pend, dmaBuffer>>
    <3>1. TagsKept
      BY <1>0, <2>3, RingKept DEF TagsKept
    <3> QED BY <2>3, <3>1 DEF PendKept, TagsKept
  <2>4. CASE TakesCopy
    <3>1. TagsKept
      BY <1>0, <2>4, RingKept DEF TagsKept, TakesCopy
    <3>2. PICK c : c = dmaBuffer.data[At]
      OBVIOUS
    <3>3. FromCopy(c) /\ dmaBuffer.valid /\ rd.pc \in {"cache", "marks"}
          /\ nextblock \in dmaBuffer.begin..dmaBuffer.end
      BY <2>4, <3>2 DEF TakesCopy
    <3>4. CASE out' = NoOut /\ UNCHANGED <<nextblock, pend>>
      BY <3>1, <3>4 DEF PendKept, TagsKept
    <3>5. CASE /\ HandsOver(c) /\ past'.handed = c.tag /\ ~Untriggered(c) /\ c.eom
               /\ nextblock' = (nextblock + 1) % MonBlocks
      <4>1. reader.who # "new"
        BY <1>0, <3>3 DEF StepSound
      <4>2. ~Stray(c)
        BY <3>5 DEF Stray, Untriggered
      <4>3. Due(c)
        BY <3>2, <3>3, <3>5, <4>1, <4>2, DueTaken
      <4> QED BY <3>1, <3>5, <4>3 DEF PendOut
    <3> QED BY <1>0, <3>3, <3>4, <3>5, FromCopyIs
  <2> QED BY <1>0, <1>6, <2>2, <2>3, <2>4, CopyTaken
<1>7. ASSUME NextOfBuffer PROVE PendOut
  <2>1. reader.who = "new" /\ UNCHANGED <<fw, ring>>
    BY <1>7 DEF NextOfBuffer
  <2> QED BY <1>7, <2>1, DueBuffer DEF PendOut, TagsKept
<1>8. ASSUME BlockCopied PROVE PendOut
  <2>1. reader.who = "new" /\ UNCHANGED <<fw, ring>>
    BY <1>0, <1>8 DEF BlockCopied, StepSound
  <2> QED BY <1>8, <2>1, DueBlock DEF PendOut, TagsKept
<1>9. ~(\E b \in BlockNums : Get_Message_Px(b)) /\ ~GetMessageEnds
  BY <1>0 DEF Get_Message_Px, GetMessageEnds
<1> QED
  BY <1>1, <1>3, <1>4, <1>5, <1>6, <1>7, <1>8, <1>9, HostSteps

\* The oldest is taken and the others stay.
LEMMA PendOutDoes ==
    ASSUME MonInv, Good, NEW c, Due(c), HandsOver(c)
    PROVE  /\ pend' = Tail(pend) /\ pend' \in Seq(Nat) /\ Len(pend') = Len(pend) - 1
           /\ Len(pend) \in Nat /\ Len(pend) >= 1
           /\ \A i \in 1..Len(pend') : i + 1 \in 1..Len(pend) /\ pend'[i] = pend[i + 1]
           /\ out'.tag = c.tag /\ out'.due = c.tag
<1>1. /\ pend \in Seq(Nat) /\ pend # <<>> /\ c.tag = pend[1] /\ c.words = pend[1]
      /\ \A i, j \in 1..Len(pend) : i < j => pend[i] < pend[j]
  BY DEF Due, MonInv, PendSound
<1>2. pend' = Tail(pend)
  BY <1>1, NewerIsTail, HandedOverIs
<1>3. out'.tag = c.tag /\ out'.due = c.tag
  BY <1>1, HandedOverIs
<1> QED
  BY <1>1, <1>2, <1>3

\* PendSound is kept.
LEMMA PendSoundStep == MonInv /\ [MonNext]_MonVars => PendSound'
<1> SUFFICES ASSUME MonInv, [MonNext]_MonVars, Good' PROVE PendSound'
  BY DEF PendSound
<1>0. /\ Good /\ MonTypeOK /\ CacheRange /\ RingSound /\ StepSound /\ CopySound
      /\ UNCHANGED reader /\ fw.n \in Nat /\ fw.blk \in BlockNums /\ nextblock \in BlockNums
      /\ MonBlocks \in Nat
  BY ReaderKept, GoodBefore, MonRingAssumption
  DEF MonInv, MonCopies, MonBase, MonTypeOK, RingType, FwStates, HostType
<1>1. /\ pend \in Seq(Nat) /\ Len(pend) <= MonBlocks /\ Len(pend) \in Nat
      /\ \A i \in 1..Len(pend) : pend[i] # 0 /\ Ended(pend[i]) /\ pend[i] \in Nat
      /\ \A i, j \in 1..Len(pend) : i < j => pend[i] < pend[j]
      /\ \A b \in BlockNums : Behind(b) <= Len(pend) =>
            ring[b].tag = pend[Len(pend) - Behind(b) + 1]
      /\ reader.who # "new" =>
            IF pend = <<>> THEN nextblock = fw.blk ELSE Behind(nextblock) = Len(pend)
  BY <1>0 DEF MonInv, PendSound
<1>2. ASSUME NEW i \in 1..Len(pend) PROVE Ended(pend[i])' \/ ~UNCHANGED pend
  <2>1. PICK h \in Nat : h = pend[i]
    BY <1>1
  <2>2. Ended(h)'
    BY <1>0, <1>1, <2>1, EndedKept
  <2> QED BY <2>1, <2>2 DEF Ended
<1>3. CASE FwBegin
  <2>1. /\ UNCHANGED <<pend, nextblock>> /\ fw'.blk = fw.blk
        /\ \A b \in BlockNums : b # fw.blk => ring'[b] = ring[b]
        /\ past'.lapped = (past.lapped \/ Len(pend) >= MonBlocks)
    BY <1>0, <1>3, FwBeginDoes DEF FwBegin, Host
  <2>2. Len(pend) < MonBlocks
    <3>1. ~past'.lapped
      BY DEF Good
    <3>2. ~(Len(pend) >= MonBlocks)
      BY <2>1, <3>1
    <3> QED BY <1>0, <1>1, <3>2
  <2>3. \A b \in BlockNums : Behind(b) <= Len(pend) =>
            ring'[b].tag = pend[Len(pend) - Behind(b) + 1]
    <3> SUFFICES ASSUME NEW b \in BlockNums, Behind(b) <= Len(pend)
                 PROVE  ring'[b].tag = pend[Len(pend) - Behind(b) + 1]
      OBVIOUS
    <3>1. b # fw.blk
      BY <1>0, <1>1, <2>2, BehindIs
    <3> QED BY <1>1, <2>1, <3>1
  <2>4. \A b \in BlockNums : Behind(b)' = Behind(b)
    BY <1>0, <2>1, BehindIs
  <2>5. \A i \in 1..Len(pend) : Ended(pend[i])'
    BY <1>2, <2>1
  <2> QED BY <1>0, <1>1, <2>1, <2>3, <2>4, <2>5 DEF PendSound, Behind
<1>4. CASE PendKept
  <2>1. /\ UNCHANGED pend /\ (reader.who # "new" => UNCHANGED nextblock) /\ fw'.blk = fw.blk
        /\ \A b \in BlockNums : ring'[b].tag = ring[b].tag
    BY <1>4 DEF PendKept
  <2>2. \A b \in BlockNums : Behind(b)' = Behind(b)
    BY <1>0, <2>1, BehindIs
  <2>3. \A i \in 1..Len(pend) : Ended(pend[i])'
    BY <1>2, <2>1
  <2> QED BY <1>0, <1>1, <2>1, <2>2, <2>3 DEF PendSound, Behind
<1>5. CASE \E triggered \in BOOLEAN : FwEnd(triggered)
  <2>1. PICK triggered \in BOOLEAN : FwEnd(triggered)
    BY <1>5
  <2>2. /\ fw.writing /\ ~fw'.writing /\ fw'.n = fw.n /\ UNCHANGED nextblock
        /\ \A b \in BlockNums : ring'[b].tag = ring[b].tag
    <3>1. ring'[fw.blk].tag = ring[fw.blk].tag /\ \A b \in BlockNums : b # fw.blk => ring'[b] = ring[b]
      BY <1>0, <2>1, FwEndDoes
    <3> QED BY <1>0, <2>1, <3>1, FwEndDoes DEF FwEnd, Host
  <2>3. CASE fw.armed /\ ~triggered
    <3>1. UNCHANGED pend /\ fw'.blk = fw.blk
      BY <1>0, <2>1, <2>3, FwEndDoes
    <3>2. \A b \in BlockNums : Behind(b)' = Behind(b)
      BY <1>0, <3>1, BehindIs
    <3>3. \A i \in 1..Len(pend) : Ended(pend[i])'
      BY <1>2, <3>1
    <3> QED BY <1>0, <1>1, <2>2, <3>1, <3>2, <3>3 DEF PendSound, Behind
  <2>4. CASE ~(fw.armed /\ ~triggered)
    <3>1. pend' = Append(pend, fw.n) /\ fw'.blk = (fw.blk + 1) % MonBlocks
      BY <1>0, <2>1, <2>4, FwEndDoes
    <3>2. /\ ring[fw.blk].tag = fw.n /\ fw.n # 0
          /\ \A i \in 1..Len(pend) : pend[i] < fw.n
      BY <1>0, <1>1, <2>2 DEF RingSound, Ended
    <3>3. Len(pend) < MonBlocks
      <4>1. CASE Len(pend) = MonBlocks
        <5>1. Behind(fw.blk) = MonBlocks /\ 1 \in 1..Len(pend)
          BY <1>0, <4>1, BehindIs, MonRingAssumption
        <5>2. ring[fw.blk].tag = pend[1]
          BY <1>0, <1>1, <4>1, <5>1
        <5> QED BY <1>0, <1>1, <3>2, <5>1, <5>2
      <4> QED BY <1>0, <1>1, <4>1
    <3>4. /\ pend' \in Seq(Nat) /\ Len(pend') = Len(pend) + 1 /\ pend'[Len(pend) + 1] = fw.n
          /\ \A i \in 1..Len(pend) : pend'[i] = pend[i]
      BY <1>0, <1>1, <3>1
    <3>5. \A b \in BlockNums : Behind(b)' = IF b = fw.blk THEN 1 ELSE Behind(b) + 1
      BY <1>0, <3>1, BehindIs
    <3>6. ASSUME NEW i \in 1..Len(pend')
          PROVE  pend'[i] # 0 /\ pend'[i] <= fw.n /\ (i < Len(pend') => pend'[i] < fw.n)
      <4>1. i \in 1..Len(pend) \/ i = Len(pend) + 1
        BY <1>1, <3>4
      <4>2. CASE i = Len(pend) + 1
        <5>1. pend'[i] = fw.n
          BY <3>4, <4>2
        <5> QED BY <1>0, <3>2, <3>4, <4>2, <5>1
      <4>3. CASE i \in 1..Len(pend)
        <5>1. pend'[i] = pend[i] /\ pend[i] < fw.n
          BY <3>2, <3>4, <4>3
        <5>2. pend[i] # 0 /\ pend[i] \in Nat
          BY <1>1, <4>3
        <5> QED BY <1>0, <5>1, <5>2
      <4> QED BY <4>1, <4>2, <4>3
    <3>7. ASSUME NEW i \in 1..Len(pend'), NEW j \in 1..Len(pend'), i < j PROVE pend'[i] < pend'[j]
      <4>1. CASE j \in 1..Len(pend)
        <5>1. i \in 1..Len(pend)
          BY <1>1, <3>7, <4>1
        <5> QED BY <1>1, <3>4, <3>7, <4>1, <5>1
      <4>2. CASE j = Len(pend) + 1
        BY <1>1, <3>4, <3>6, <3>7, <4>2
      <4> QED BY <1>1, <3>4, <4>1, <4>2
    <3>8. ASSUME NEW b \in BlockNums, Behind(b)' <= Len(pend')
          PROVE  ring'[b].tag = pend'[Len(pend') - Behind(b)' + 1]
      <4>1. CASE b = fw.blk
        <5>1. Behind(b)' = 1
          BY <3>5, <4>1
        <5>2. Len(pend') - Behind(b)' + 1 = Len(pend) + 1
          BY <1>1, <3>4, <5>1
        <5> QED BY <2>2, <3>2, <3>4, <4>1, <5>2
      <4>2. CASE b # fw.blk
        <5>1. /\ Behind(b)' = Behind(b) + 1 /\ Behind(b) \in 1..MonBlocks
          BY <1>0, <3>5, <4>2, BehindIs
        <5>2. /\ Behind(b) <= Len(pend) /\ Len(pend) - Behind(b) + 1 \in 1..Len(pend)
              /\ Len(pend') - Behind(b)' + 1 = Len(pend) - Behind(b) + 1
          <6>1. Len(pend') = Len(pend) + 1 /\ Len(pend) \in Nat
            BY <1>1, <3>4
          <6>2. Behind(b) + 1 <= Len(pend')
            BY <3>8, <5>1
          <6> QED BY <5>1, <6>1, <6>2
        <5>3. ring[b].tag = pend[Len(pend) - Behind(b) + 1]
          BY <1>1, <5>2
        <5>4. pend'[Len(pend) - Behind(b) + 1] = pend[Len(pend) - Behind(b) + 1]
          BY <3>4, <5>2
        <5> QED BY <2>2, <5>2, <5>3, <5>4
      <4> QED BY <4>1, <4>2
    <3>9. reader.who # "new" => pend' # <<>> /\ Behind(nextblock)' = Len(pend')
      <4>1. pend' # <<>>
        BY <1>1, <3>4
      <4>2. CASE pend = <<>> /\ reader.who # "new"
        BY <1>0, <1>1, <2>2, <3>4, <3>5, <4>1, <4>2
      <4>3. CASE pend # <<>> /\ reader.who # "new"
        <5>1. nextblock # fw.blk
          BY <1>0, <1>1, <3>3, <4>3, BehindIs
        <5> QED BY <1>0, <1>1, <2>2, <3>4, <3>5, <4>1, <4>3, <5>1
      <4> QED BY <4>1, <4>2, <4>3
    <3>10. \A i \in 1..Len(pend') : Ended(pend[i])' /\ pend'[i] # 0
      BY <2>2, <3>6 DEF Ended
    <3>11. Len(pend') <= MonBlocks
      BY <1>0, <1>1, <3>3, <3>4
    <3>12. /\ \A b \in BlockNums : Behind(b)' <= Len(pend') =>
                ring'[b].tag = pend'[Len(pend') - Behind(b)' + 1]
           /\ \A i, j \in 1..Len(pend') : i < j => pend'[i] < pend'[j]
      BY <3>7, <3>8
    <3> QED BY <1>0, <2>2, <3>4, <3>9, <3>10, <3>11, <3>12 DEF PendSound, Behind
  <2> QED BY <2>3, <2>4
<1>6. CASE ClearBlocks
  <2>1. pend' = <<>> /\ nextblock' = fw.blk /\ UNCHANGED fw
    BY <1>0, <1>6, BlocksCleared DEF ClearBlocks
  <2>2. Len(pend') = 0
    BY <2>1
  <2>3. \A b \in BlockNums : ~(Behind(b)' <= Len(pend'))
    BY <1>0, <2>1, <2>2, BehindIs
  <2> QED BY <1>0, <2>1, <2>2, <2>3 DEF PendSound, Behind
<1>7. CASE PendOut
  <2>1. PICK c : /\ Due(c) /\ HandsOver(c) /\ TagsKept
                 /\ reader.who # "new" => nextblock' = (nextblock + 1) % MonBlocks
    BY <1>7 DEF PendOut
  <2>2. /\ pend' \in Seq(Nat) /\ Len(pend') = Len(pend) - 1 /\ Len(pend) >= 1
        /\ \A i \in 1..Len(pend') : i + 1 \in 1..Len(pend) /\ pend'[i] = pend[i + 1]
    BY <1>0, <2>1, PendOutDoes
  <2>3. UNCHANGED fw /\ \A b \in BlockNums : ring'[b].tag = ring[b].tag /\ Behind(b)' = Behind(b)
    BY <1>0, <2>1, BehindIs DEF TagsKept
  <2>4. ASSUME NEW b \in BlockNums, Behind(b)' <= Len(pend')
        PROVE  ring'[b].tag = pend'[Len(pend') - Behind(b)' + 1]
    <3>1. Behind(b)' = Behind(b) /\ Behind(b) \in 1..MonBlocks
      BY <1>0, <2>3, BehindIs
    <3>2. PICK i \in 1..Len(pend') : i = Len(pend') - Behind(b) + 1
      <4>1. Len(pend') \in Nat
        BY <2>2
      <4>2. Behind(b) <= Len(pend')
        BY <2>4, <3>1
      <4>3. Len(pend') - Behind(b) + 1 \in 1..Len(pend')
        BY <3>1, <4>1, <4>2
      <4> QED BY <4>3
    <3>3. i + 1 = Len(pend) - Behind(b) + 1 /\ Behind(b) <= Len(pend)
      <4>1. Len(pend') = Len(pend) - 1 /\ Len(pend) \in Nat
        BY <1>1, <2>2
      <4>2. Behind(b) <= Len(pend')
        BY <2>4, <3>1
      <4> QED BY <3>1, <3>2, <4>1, <4>2
    <3>4. ring[b].tag = pend[Len(pend) - Behind(b) + 1]
      BY <1>1, <3>3
    <3>5. ring'[b].tag = ring[b].tag /\ pend'[i] = pend[i + 1]
      BY <2>2, <2>3, <3>2
    <3> QED BY <3>1, <3>2, <3>3, <3>4, <3>5
  <2>5. \A i, j \in 1..Len(pend') : i < j => pend'[i] < pend'[j]
    <3> SUFFICES ASSUME NEW i \in 1..Len(pend'), NEW j \in 1..Len(pend'), i < j
                 PROVE  pend'[i] < pend'[j]
      OBVIOUS
    <3>1. i + 1 \in 1..Len(pend) /\ j + 1 \in 1..Len(pend) /\ i + 1 < j + 1
      BY <2>2
    <3> QED BY <1>1, <2>2, <3>1
  <2>6. \A i \in 1..Len(pend') : pend'[i] # 0 /\ Ended(pend[i])'
    BY <1>1, <2>2, <2>3 DEF Ended
  <2>7. reader.who # "new" =>
           IF pend' = <<>> THEN nextblock' = fw'.blk ELSE Behind(nextblock)' = Len(pend')
    <3> SUFFICES ASSUME reader.who # "new"
                 PROVE  IF pend' = <<>> THEN nextblock' = fw'.blk
                        ELSE Behind(nextblock)' = Len(pend')
      OBVIOUS
    <3>1. Behind(nextblock) = Len(pend) /\ nextblock' = (nextblock + 1) % MonBlocks
      BY <1>1, <2>1, <2>2
    <3>2. PICK c1 : c1 = (nextblock + 1) % MonBlocks
      OBVIOUS
    <3>3. /\ c1 \in BlockNums
          /\ IF Behind(nextblock) = 1 THEN c1 = fw.blk ELSE Behind(c1) = Behind(nextblock) - 1
      BY <1>0, <3>2, BehindNext
    <3>4. Behind(nextblock)' = Behind(c1)
      BY <2>3, <3>1, <3>2 DEF Behind
    <3>5. pend' = <<>> <=> Len(pend) = 1
      BY <1>1, <2>2
    <3> QED BY <1>1, <2>2, <2>3, <3>1, <3>2, <3>3, <3>4, <3>5
  <2>8. Len(pend') <= MonBlocks
    BY <1>0, <1>1, <2>2
  <2>9. \A b \in BlockNums : Behind(b)' <= Len(pend') =>
            ring'[b].tag = pend'[Len(pend') - Behind(b)' + 1]
    BY <2>4
  <2> QED BY <1>0, <2>2, <2>5, <2>6, <2>7, <2>8, <2>9 DEF PendSound, Behind
<1> QED
  BY <1>0, <1>3, <1>4, <1>5, <1>6, <1>7, PendSteps

\* A message handed over is newer than the one before it.
LEMMA HandedIsNewer ==
    ASSUME MonCopies, [MonNext]_MonVars, out' # NoOut, ~StaleCopy, ~reader.ignore,
           reader.who \notin {"irig", "new", "get"}
    PROVE  out'.tag > out'.prev \/ UNCHANGED MonVars
<1>0. /\ MonTypeOK /\ CacheRange /\ RingSound /\ StepSound /\ CopySound /\ HandedGone
      /\ CacheSound /\ past.handed \in Nat /\ lastmsgttag \in Nat /\ past.handed <= lastmsgttag
  BY DEF MonCopies, MonBase, MonTypeOK, PastType, HostType, HandedGone
<1>1. ASSUME NEW c, HandsOver(c), c.tag \in Nat, c.tag >= lastmsgttag, c.tag # past.handed
      PROVE  out'.tag > out'.prev
  <2>1. out'.tag = c.tag /\ out'.prev = past.handed
    BY <1>1, HandedOverIs
  <2> QED BY <1>0, <1>1, <2>1
<1>2. CASE HandsOver(rd.copy) /\ rd.pc = "eom"
  <2>1. rd.copy.eom /\ rd.copy.tag \in Nat /\ InCopy
    BY <1>0, <1>2 DEF StepSound, InCopy, MonTypeOK, ReadType, MonBlock
  <2>2. rd.copy.tag # past.handed
    BY <1>0, <2>1 DEF HandedGone, Gone
  <2>3. CASE OldReader
    <3>1. lastmsgttag = rd.copy.tag
      BY <1>0, <2>1, <2>3 DEF HandedGone
    <3> QED BY <1>0, <1>1, <1>2, <2>1, <2>2, <3>1
  <2>4. CASE Judge(rd.copy)
    <3>1. ~WentBack(rd.copy)
      BY <2>4 DEF Judge, Returns
    <3> QED BY <1>0, <1>1, <1>2, <2>1, <2>2, <3>1 DEF WentBack
  <2>5. OldReader \/ Judge(rd.copy) \/ UNCHANGED MonVars
    BY <1>2, HandingSteps DEF OldClearEom
  <2> QED BY <2>3, <2>4, <2>5
<1>3. CASE TakesCopy
  <2>1. /\ CacheFilled /\ nextblock \in dmaBuffer.begin..dmaBuffer.end
        /\ FromCopy(dmaBuffer.data[At])
    BY <1>3 DEF TakesCopy, CacheFilled
  <2>2. PICK c : c = dmaBuffer.data[At]
    OBVIOUS
  <2>3. HandsOver(c) /\ ~WentBack(c) /\ c.eom
    BY <1>0, <2>1, <2>2, FromCopyIs
  <2>4. c.tag # past.handed /\ c.tag \in Nat
    BY <1>0, <2>1, <2>2, <2>3, AtIsLive DEF CacheSound, MonBlock
  <2> QED BY <1>0, <1>1, <2>3, <2>4 DEF WentBack
<1>4. CASE Get_DmaMonBlockCopy_Px \/ ClearFetched
  BY <1>0, <1>3, <1>4, CopyTaken
<1> QED
  BY <1>0, <1>2, <1>4, HandingSteps DEF StepSound

\* ... and, until the firmware has come round, the oldest.
LEMMA HandedIsDue ==
    ASSUME MonInv, [MonNext]_MonVars, out' # NoOut, Good'
    PROVE  out'.tag = out'.due \/ UNCHANGED MonVars
<1>0. Good
  BY GoodBefore DEF MonInv, MonCopies, MonBase
<1>1. PendOut \/ UNCHANGED MonVars
  <2>1. ASSUME NEW triggered \in BOOLEAN, FwEnd(triggered) PROVE out' = NoOut
    BY <2>1 DEF FwEnd
  <2> QED BY <1>0, <2>1, PendSteps DEF FwBegin, ClearBlocks
<1>2. CASE PendOut
  BY <1>0, <1>2, PendOutDoes DEF PendOut
<1> QED
  BY <1>1, <1>2

\* Each message handed over is the oldest, and newer than the one before.
LEMMA HandedInOrderStep == MonInv /\ HandedInOrder /\ [MonNext]_MonVars => HandedInOrder'
<1> SUFFICES ASSUME MonInv, HandedInOrder, [MonNext]_MonVars,
                    out' # NoOut, reader'.who # "get", ~StaleCopy'
             PROVE  /\ \/ past'.lapped \/ past'.failed
                       \/ past'.runs > 1 /\ reader'.trig # "none"
                       \/ CutShort'
                       \/ out'.tag = out'.due
                    /\ reader'.who \notin {"irig", "new"} /\ ~reader'.ignore =>
                          out'.tag > out'.prev
  BY DEF HandedInOrder
<1>1. /\ UNCHANGED reader /\ ~StaleCopy /\ MonCopies
  BY ReaderKept, StaleStays DEF MonInv, MonCopies, MonBase
<1>2. CASE UNCHANGED MonVars
  BY <1>1, <1>2 DEF HandedInOrder, MonVars, CutShort
<1>3. CASE ~UNCHANGED MonVars
  <2>1. ASSUME ~past'.lapped, ~past'.failed, ~(past'.runs > 1 /\ reader'.trig # "none"),
               ~CutShort'
        PROVE  out'.tag = out'.due
    <3>1. Good'
      BY <2>1 DEF Good
    <3> QED BY <1>3, <3>1, HandedIsDue
  <2>2. ASSUME reader.who \notin {"irig", "new"}, ~reader.ignore PROVE out'.tag > out'.prev
    BY <1>1, <1>3, <2>2, HandedIsNewer
  <2> QED BY <1>1, <2>1, <2>2
<1> QED
  BY <1>2, <1>3

(***************************************************************************)
(* The copy made by DMA from one step to the next.                         *)
(***************************************************************************)
\* Its first message is handed over.
CacheMovesOn ==
    /\ nextblock \in dmaBuffer.begin..dmaBuffer.end /\ dmaBuffer.data[At].eom
    /\ rd.pc \notin {"dma", "dma2"} /\ nextblock' = (nextblock + 1) % MonBlocks
    /\ dmaBuffer'.begin = dmaBuffer.begin
    /\ Live' \subseteq Live \ {At} /\ (Live' # {} => nextblock' = nextblock + 1)
    /\ \A i \in 0..(CacheBlocks - 1) : /\ dmaBuffer'.data[i].trig = dmaBuffer.data[i].trig
                                       /\ dmaBuffer'.data[i].tag = dmaBuffer.data[i].tag
                                       /\ dmaBuffer'.data[i].words = dmaBuffer.data[i].words

\* Where the blocks of a copy come from.
LEMMA CacheComes ==
    ASSUME MonTypeOK, CacheRange, StepSound, [MonNext]_MonVars, CacheFilled'
    PROVE  \/ FetchHeads
           \/ FetchWords /\ CacheFilled /\ rd'.pc # "dma2"
           \/ ClearBlocks /\ CacheFilled /\ UNCHANGED dmaBuffer
           \/ /\ CacheFilled /\ UNCHANGED <<dmaBuffer, nextblock>>
              /\ rd'.pc # "dma2" => rd.pc # "dma2"
           \/ CacheFilled /\ CacheMovesOn
<1>0. /\ DOMAIN rd = ReadFields /\ HostType' /\ UNCHANGED reader
  BY HostTypeStep, ReaderKept DEF MonTypeOK, ReadType
<1> DEFINE Stays == /\ CacheFilled /\ UNCHANGED <<dmaBuffer, nextblock>>
                    /\ rd'.pc # "dma2" => rd.pc # "dma2"
<1>1. ASSUME UNCHANGED <<dmaBuffer, nextblock>>, rd'.pc = rd.pc PROVE Stays
  BY <1>1 DEF CacheFilled
<1>2. ASSUME UNCHANGED <<dmaBuffer, nextblock>>, rd'.pc # "dma2", rd.pc \notin {"dma", "dma2"}
      PROVE  Stays
  BY <1>2 DEF CacheFilled
<1>3. ASSUME FwBegin \/ Run_MON_Px \/ Stop_Px \/ UNCHANGED MonVars PROVE Stays
  BY <1>1, <1>3 DEF FwBegin, Run_MON_Px, Stop_Px, MonVars, Host
<1>4. ASSUME NEW triggered \in BOOLEAN, FwEnd(triggered) PROVE Stays
  <2>1. rd'.pc = rd.pc
    BY <1>4, FwEndDoes DEF ReadFields
  <2> QED BY <1>1, <1>4, <2>1 DEF FwEnd, Host
<1>5. ASSUME \/ Clear_Msg_Blks_Px
             \/ \E who \in {"nios", "irig", "bcm", "rtm", "old", "wide"} : CallReader(who)
             \/ \E b \in BlockNums : Get_Message_Px(b)
             \/ Read_Monitor_Block_Px
      PROVE  Stays
  <2>1. UNCHANGED dmaBuffer /\ rd.pc = "idle"
    BY <1>5 DEF Clear_Msg_Blks_Px, CallReader, Get_Message_Px, Read_Monitor_Block_Px, Host
  <2>2. rd'.pc \in {"clear", "cache", "head", "block"}
    BY <1>0, <1>5, RestingIs
    DEF Clear_Msg_Blks_Px, CallReader, Get_Message_Px, Read_Monitor_Block_Px, ReadFields
  <2>3. dmaBuffer.valid
    BY <2>1, <2>2 DEF CacheFilled
  <2>4. UNCHANGED nextblock
    BY <1>5, <2>3, CallDoes
    DEF Clear_Msg_Blks_Px, Get_Message_Px, Read_Monitor_Block_Px, Host, StepSound
  <2> QED BY <1>2, <2>1, <2>2, <2>4
<1>6. ASSUME ClearBlocks PROVE CacheFilled /\ UNCHANGED dmaBuffer
  BY <1>6, RestingIs DEF ClearBlocks, CacheFilled
<1>7. ASSUME CopyHead \/ CopyWords \/ CopyAgain \/ OldStatusAgain PROVE Stays
  <2>1. \/ rd' = Resting \/ \E c : rd' = [rd EXCEPT !.pc = "words", !.copy = c]
        \/ \E c : rd' = [rd EXCEPT !.pc = "check", !.copy = c]
        \/ \E c : rd' = [rd EXCEPT !.pc = "eom", !.copy = c]
        \/ rd' = [rd EXCEPT !.pc = "eom"]
    BY <1>7 DEF CopyHead, CopyWords, CopyAgain, OldStatusAgain, Returns
  <2>2. rd'.pc \in {"idle", "words", "check", "eom"}
    BY <1>0, <2>1, RestingIs DEF ReadFields
  <2>3. UNCHANGED <<dmaBuffer, nextblock>> /\ rd.pc \in {"head", "words", "check"}
    BY <1>7 DEF CopyHead, CopyWords, CopyAgain, OldStatusAgain, Host
  <2> QED BY <1>2, <2>2, <2>3
<1>8. ASSUME ClearEom PROVE FALSE
  <2>1. ~dmaBuffer'.valid /\ rd' = Resting
    BY <1>8, JudgeTyped DEF ClearEom, StepSound, MonTypeOK, ReadType
  <2> QED BY <2>1, RestingIs DEF CacheFilled
<1>9. ASSUME GetMessageEnds \/ NextOfBuffer \/ BlockCopied PROVE Stays
  <2>1. rd' = Resting
    BY <1>9 DEF GetMessageEnds, NextOfBuffer, BlockCopied, HandsOver, Returns
  <2>2. UNCHANGED <<dmaBuffer, nextblock>> /\ rd.pc \in {"eom", "idle", "block"}
    BY <1>9 DEF GetMessageEnds, NextOfBuffer, BlockCopied, Host
  <2> QED BY <1>2, <2>1, <2>2, RestingIs
<1>10. ASSUME NEW c, c = dmaBuffer.data[At], nextblock \in dmaBuffer.begin..dmaBuffer.end,
              c.eom, nextblock' = (nextblock + 1) % MonBlocks,
              rd.pc \notin {"dma", "dma2"}, dmaBuffer.valid,
              dmaBuffer'.begin = dmaBuffer.begin, dmaBuffer'.end = dmaBuffer.end,
              \A i \in 0..(CacheBlocks - 1) : /\ dmaBuffer'.data[i].eom => dmaBuffer.data[i].eom
                                              /\ dmaBuffer'.data[i].trig = dmaBuffer.data[i].trig
                                              /\ dmaBuffer'.data[i].tag = dmaBuffer.data[i].tag
                                              /\ dmaBuffer'.data[i].words = dmaBuffer.data[i].words
       PROVE  CacheFilled /\ CacheMovesOn
  <2>1. Live' \subseteq Live \ {At} /\ (Live' # {} => nextblock' = nextblock + 1)
    BY <1>0, <1>10, LiveAfter
  <2> QED BY <1>10, <2>1 DEF CacheFilled, CacheMovesOn
<1>11. ASSUME OldClearEom PROVE CacheFilled /\ CacheMovesOn
  <2>1. /\ dmaBuffer.valid /\ dmaBuffer'.begin = dmaBuffer.begin
        /\ dmaBuffer'.end = dmaBuffer.end
    BY <1>11, RestingIs, OldCleared DEF OldClearEom, HandsOver, CacheFilled
  <2>2. rd.pc = "eom" /\ nextblock' = (nextblock + 1) % MonBlocks
    BY <1>11 DEF OldClearEom
  <2>3. PICK c : c = dmaBuffer.data[At]
    OBVIOUS
  <2>4. nextblock \in dmaBuffer.begin..dmaBuffer.end /\ c.eom
    BY <2>1, <2>2, <2>3 DEF CacheRange, StepSound, At
  <2>5. \A i \in 0..(CacheBlocks - 1) : /\ dmaBuffer'.data[i].eom => dmaBuffer.data[i].eom
                                        /\ dmaBuffer'.data[i].trig = dmaBuffer.data[i].trig
                                        /\ dmaBuffer'.data[i].tag = dmaBuffer.data[i].tag
                                        /\ dmaBuffer'.data[i].words = dmaBuffer.data[i].words
    BY <1>11, OldCleared
  <2> QED BY <1>10, <2>1, <2>2, <2>3, <2>4, <2>5
<1>12. ASSUME Get_DmaMonBlockCopy_Px \/ ClearFetched
       PROVE  Stays \/ (CacheFilled /\ CacheMovesOn)
  <2>1. TakesCopy
    BY <1>12, CopyTaken DEF CacheFilled
  <2>2. /\ dmaBuffer.valid /\ rd.pc \in {"cache", "marks"} /\ UNCHANGED dmaBuffer
        /\ nextblock \in dmaBuffer.begin..dmaBuffer.end /\ FromCopy(dmaBuffer.data[At])
    BY <2>1 DEF TakesCopy
  <2>3. PICK c : c = dmaBuffer.data[At]
    OBVIOUS
  <2>4. CASE (rd' = Resting \/ rd'.pc = "check") /\ UNCHANGED nextblock
    BY <1>2, <2>2, <2>4, RestingIs
  <2>5. CASE c.eom /\ nextblock' = (nextblock + 1) % MonBlocks
    BY <1>10, <2>2, <2>3, <2>5
  <2> QED BY <2>2, <2>3, <2>4, <2>5, FromCopyIs
<1>13. ASSUME FetchWords PROVE CacheFilled /\ rd'.pc # "dma2"
  BY <1>0, <1>13 DEF FetchWords, ReadFields, CacheFilled
<1>14. ~FetchFails
  BY <1>0 DEF FetchFails, CacheFilled, ReadFields, MonTypeOK, HostType, Caches
<1> QED
  BY <1>3, <1>4, <1>5, <1>6, <1>7, <1>8, <1>9, <1>11, <1>12, <1>13, <1>14, HostSteps

\* The heads of a copy that has just been fetched are those of the ring.
LEMMA HeadsAre ==
    ASSUME MonTypeOK, CacheRange, FetchHeads
    PROVE  /\ rd.pc = "dma" /\ rd'.pc = "dma2" /\ UNCHANGED <<nextblock, ring, fw, past, pend,
                                                             wait_for_trigger, reader>>
           /\ dmaBuffer'.begin = nextblock /\ dmaBuffer'.end = dmaBuffer.end
           /\ \A i \in Live' :
                 /\ nextblock + i \in BlockNums /\ i \in Nat /\ nextblock \in Nat
                 /\ ring[nextblock + i].eom
                 /\ dmaBuffer'.data[i].tag = ring[nextblock + i].tag
                 /\ dmaBuffer'.data[i].trig = ring[nextblock + i].trig
<1>0. DOMAIN rd = ReadFields
  BY DEF MonTypeOK, ReadType
<1>1. /\ rd.pc = "dma" /\ rd'.pc = "dma2" /\ UNCHANGED <<nextblock, ring, fw, past, pend,
                                                        wait_for_trigger, reader>>
  BY <1>0 DEF FetchHeads, ReadFields
<1>2. /\ dmaBuffer'.begin = dmaBuffer.begin /\ dmaBuffer'.end = dmaBuffer.end
      /\ dmaBuffer.begin = nextblock
      /\ \A i \in Fetched :
            dmaBuffer'.data[i] = Head1(dmaBuffer.data[i], ring[dmaBuffer.begin + i])
  BY <1>1, HeadsFetched DEF CacheRange
<1>3. ASSUME NEW i \in Live'
      PROVE  /\ nextblock + i \in BlockNums /\ i \in Nat /\ nextblock \in Nat
             /\ ring[nextblock + i].eom
             /\ dmaBuffer'.data[i].tag = ring[nextblock + i].tag
             /\ dmaBuffer'.data[i].trig = ring[nextblock + i].trig
  <2>1. i \in 0..(CacheBlocks - 1) /\ dmaBuffer.begin + i <= dmaBuffer.end /\ dmaBuffer'.data[i].eom
    BY <1>1, <1>2, <1>3, MonRingAssumption
    DEF Live, MonTypeOK, HostType, Caches, BlockNums
  <2>2. i \in Fetched /\ i \in Nat /\ nextblock \in Nat
    BY <2>1, MonRingAssumption DEF Fetched, MonTypeOK, HostType, Caches, BlockNums
  <2>3. dmaBuffer.begin + i \in BlockNums /\ dmaBuffer.data[i] \in MonBlock
    BY <2>1, <2>2, FetchedIs DEF MonTypeOK, HostType, Caches
  <2>4. ring[dmaBuffer.begin + i] \in MonBlock
    BY <2>3 DEF MonTypeOK, RingType
  <2> QED BY <1>2, <2>1, <2>2, <2>3, <2>4, Copying
<1> QED
  BY <1>1, <1>2, <1>3

(***************************************************************************)
(* Waiting for the trigger.                                                *)
(***************************************************************************)
\* The wait ends with a message that carries it.
LEMMA WaitSteps ==
    ASSUME MonTypeOK, CacheRange, StepSound, [MonNext]_MonVars
    PROVE  \/ Run_MON_Px \/ UNCHANGED wait_for_trigger
           \/ /\ reader.trig = "after"
              /\ \/ /\ InCopy /\ ~dmaBuffer.valid /\ UNCHANGED dmaBuffer
                    /\ rd.copy.trig \/ \E b \in BlockNums : ring[b].trig
                 \/ CacheFilled /\ At \in Live /\ dmaBuffer.data[At].trig
<1>0. rd.blk \in BlockNums /\ wait_for_trigger \in BOOLEAN
  BY DEF MonTypeOK, ReadType, HostType
<1>1. ASSUME NEW c, TriggerSeen(c) PROVE UNCHANGED wait_for_trigger \/ (reader.trig = "after" /\ c.trig)
  BY <1>0, <1>1 DEF TriggerSeen
<1> DEFINE Direct == /\ InCopy /\ ~dmaBuffer.valid /\ UNCHANGED dmaBuffer
                     /\ rd.copy.trig \/ \E b \in BlockNums : ring[b].trig
           Copied == CacheFilled /\ At \in Live /\ dmaBuffer.data[At].trig
           Ends == reader.trig = "after" /\ (Direct \/ Copied)
<1>2. ASSUME ClearEom PROVE UNCHANGED wait_for_trigger \/ Ends
  <2>1. Judge(rd.copy) /\ InCopy /\ ~dmaBuffer.valid /\ UNCHANGED dmaBuffer
    BY <1>2 DEF ClearEom, InCopy, StepSound
  <2> QED BY <1>1, <2>1, JudgeIs
<1>3. ASSUME Get_DmaMonBlockCopy_Px \/ ClearFetched PROVE UNCHANGED wait_for_trigger \/ Ends
  <2>1. CASE TakesCopy
    <3>1. /\ CacheFilled /\ nextblock \in dmaBuffer.begin..dmaBuffer.end
          /\ FromCopy(dmaBuffer.data[At])
      BY <2>1 DEF TakesCopy, CacheFilled
    <3>2. PICK c : c = dmaBuffer.data[At]
      OBVIOUS
    <3>3. UNCHANGED wait_for_trigger \/ (TriggerSeen(c) /\ c.eom)
      BY <3>1, <3>2, FromCopyIs
    <3> QED BY <1>1, <3>1, <3>2, <3>3, AtIsLive
  <2> QED BY <1>3, <2>1, CopyTaken
<1>4. ASSUME OldStatusAgain PROVE UNCHANGED wait_for_trigger \/ Ends
  <2>1. PICK c : /\ c = [rd.copy EXCEPT
                           !.eom = IF reader.dma /\ dmaBuffer.valid THEN rd.copy.eom ELSE ring[rd.blk].eom,
                           !.trig = IF reader.dma /\ dmaBuffer.valid THEN rd.copy.trig ELSE ring[rd.blk].trig]
    OBVIOUS
  <2>2. UNCHANGED wait_for_trigger \/ TriggerSeen(c)
    BY <1>4, <2>1 DEF OldStatusAgain
  <2>3. /\ InCopy /\ UNCHANGED dmaBuffer /\ rd.pc = "check"
        /\ c.trig = IF reader.dma /\ dmaBuffer.valid THEN rd.copy.trig ELSE ring[rd.blk].trig
    BY <1>4, <2>1 DEF OldStatusAgain, InCopy, MonTypeOK, ReadType, MonBlock
  <2>4. CASE ~dmaBuffer.valid
    BY <1>0, <1>1, <2>2, <2>3, <2>4
  <2>5. CASE dmaBuffer.valid
    <3>1. /\ nextblock \in dmaBuffer.begin..dmaBuffer.end /\ rd.copy = dmaBuffer.data[At]
          /\ CacheFilled /\ reader.dma /\ rd.copy.eom
      BY <2>3, <2>5 DEF CacheRange, At, CacheFilled, StepSound
    <3> QED BY <1>1, <2>2, <2>3, <2>5, <3>1, AtIsLive
  <2> QED BY <2>4, <2>5
<1>5. Run_MON_Px \/ ClearEom \/ Get_DmaMonBlockCopy_Px \/ ClearFetched \/ OldStatusAgain
      \/ UNCHANGED wait_for_trigger
  BY HostSteps DEF FwBegin, FwEnd, Stop_Px, Clear_Msg_Blks_Px, ClearBlocks,
     CallReader, Get_Message_Px, CopyHead, CopyWords, CopyAgain, GetMessageEnds,
     OldClearEom, FetchHeads, FetchWords, FetchFails, NextOfBuffer,
     Read_Monitor_Block_Px, BlockCopied, MonVars, Host
<1> QED
  BY <1>2, <1>3, <1>4, <1>5

\* The steps after which a call holds a copy.
LEMMA CopyingSteps ==
    ASSUME MonTypeOK, [MonNext]_MonVars, InCopy'
    PROVE  \/ FwBegin \/ \E triggered \in BOOLEAN : FwEnd(triggered)
           \/ CopyHead \/ CopyWords \/ CopyAgain \/ OldStatusAgain
           \/ Get_DmaMonBlockCopy_Px \/ ClearFetched
           \/ UNCHANGED MonVars
<1>0. DOMAIN rd = ReadFields
  BY DEF MonTypeOK, ReadType
<1>1. ASSUME \/ Run_MON_Px \/ Stop_Px \/ Clear_Msg_Blks_Px \/ ClearBlocks
             \/ \E who \in {"nios", "irig", "bcm", "rtm", "old", "wide"} : CallReader(who)
             \/ \E b \in BlockNums : Get_Message_Px(b)
             \/ ClearEom \/ GetMessageEnds \/ OldClearEom
             \/ FetchHeads \/ FetchWords \/ FetchFails
             \/ NextOfBuffer \/ Read_Monitor_Block_Px \/ BlockCopied
      PROVE  FALSE
  <2>1. ~(UNCHANGED rd /\ rd.pc = "idle")
    BY DEF InCopy
  <2>3. CASE ClearEom \/ GetMessageEnds \/ OldClearEom \/ NextOfBuffer \/ BlockCopied \/ ClearBlocks
    <3>1. rd' = Resting
      BY <2>3 DEF ClearEom, Judge, GetMessageEnds, OldClearEom, NextOfBuffer, BlockCopied,
         ClearBlocks, HandsOver, Returns
    <3> QED BY <3>1, RestingIs DEF InCopy
  <2>4. CASE \/ Clear_Msg_Blks_Px \/ Read_Monitor_Block_Px
             \/ \E who \in {"nios", "irig", "bcm", "rtm", "old", "wide"} : CallReader(who)
             \/ \E b \in BlockNums : Get_Message_Px(b)
    <3>1. rd'.pc \in {"clear", "cache", "head", "block"}
      BY <1>0, <2>4, RestingIs
      DEF Clear_Msg_Blks_Px, CallReader, Get_Message_Px, Read_Monitor_Block_Px, ReadFields
    <3> QED BY <3>1 DEF InCopy
  <2>5. CASE FetchHeads \/ FetchWords \/ FetchFails
    <3>1. rd'.pc \in {"dma2", "marks"}
      BY <1>0, <2>5 DEF FetchHeads, FetchWords, FetchFails, ReadFields
    <3> QED BY <3>1 DEF InCopy
  <2>6. CASE Run_MON_Px \/ Stop_Px
    BY <2>1, <2>6 DEF Run_MON_Px, Stop_Px
  <2> QED BY <1>1, <2>3, <2>4, <2>5, <2>6
<1> QED
  BY <1>1, HostSteps

\* Where the trigger bit of a copy comes from.
LEMMA CopyTrigger ==
    ASSUME MonTypeOK, CacheRange, StepSound, [MonNext]_MonVars, InCopy'
    PROVE  \/ InCopy /\ rd'.copy.trig = rd.copy.trig
           \/ \E b \in BlockNums : rd'.copy.trig = ring[b].trig
           \/ CacheFilled /\ At \in Live /\ rd'.copy.trig = dmaBuffer.data[At].trig
<1>0. /\ rd.blk \in BlockNums /\ DOMAIN rd = ReadFields /\ rd.copy \in MonBlock
      /\ \A b \in BlockNums : ring[b] \in MonBlock
  BY DEF MonTypeOK, ReadType, RingType
<1> DEFINE Stays == InCopy /\ rd'.copy.trig = rd.copy.trig
           Comes == \E b \in BlockNums : rd'.copy.trig = ring[b].trig
<1>1. ASSUME InCopy, dmaBuffer.valid, rd'.copy = rd.copy PROVE Stays
  BY <1>1
<1>2. ASSUME FwBegin \/ UNCHANGED MonVars PROVE Stays
  BY <1>2 DEF FwBegin, InCopy, MonVars
<1>3. ASSUME NEW triggered \in BOOLEAN, FwEnd(triggered) PROVE Stays
  <2>1. rd'.pc = rd.pc /\ rd'.copy = rd.copy
    BY <1>3, FwEndDoes DEF ReadFields
  <2> QED BY <2>1 DEF InCopy
<1>4. ASSUME CopyHead PROVE Comes
  <2>1. PICK c : c = Head1(Empty, ring[rd.blk])
    OBVIOUS
  <2>2. rd' = [rd EXCEPT !.pc = "words", !.copy = c]
    BY <1>4, <2>1, RestingIs DEF CopyHead, Returns, InCopy
  <2>3. rd'.copy = c
    BY <1>0, <2>2 DEF ReadFields
  <2> QED BY <1>0, <2>1, <2>3, EmptyBlock, Copying
<1>5. ASSUME CopyWords PROVE Stays
  <2>1. PICK c : c = Tail1(rd.copy, ring[rd.blk])
    OBVIOUS
  <2>2. rd' = [rd EXCEPT !.pc = "check", !.copy = c] /\ InCopy
    BY <1>5, <2>1, RestingIs DEF CopyWords, Returns, InCopy
  <2>3. rd'.copy = c
    BY <1>0, <2>2 DEF ReadFields
  <2> QED BY <1>0, <2>1, <2>2, <2>3, Copying
<1>6. ASSUME CopyAgain PROVE Stays
  <2>1. rd' = [rd EXCEPT !.pc = "eom"] /\ InCopy
    BY <1>6, RestingIs DEF CopyAgain, Returns, InCopy
  <2> QED BY <1>0, <2>1 DEF ReadFields
<1>7. ASSUME OldStatusAgain PROVE Stays \/ Comes
  <2>1. PICK b : b \in {rd.copy, ring[rd.blk]} /\ rd' = [rd EXCEPT !.pc = "eom",
                     !.copy = [rd.copy EXCEPT !.eom = b.eom, !.trig = b.trig]]
    BY <1>7, RestingIs DEF OldStatusAgain, Returns, InCopy
  <2>2. rd'.copy.trig = b.trig
    BY <1>0, <2>1 DEF ReadFields, MonBlock
  <2>3. InCopy
    BY <1>7 DEF OldStatusAgain, InCopy
  <2> QED BY <1>0, <2>1, <2>2, <2>3
<1>8. ASSUME Get_DmaMonBlockCopy_Px \/ ClearFetched
      PROVE  CacheFilled /\ At \in Live /\ rd'.copy.trig = dmaBuffer.data[At].trig
  <2>1. /\ dmaBuffer.valid /\ rd.pc \in {"cache", "marks"}
        /\ nextblock \in dmaBuffer.begin..dmaBuffer.end
        /\ rd'.copy = dmaBuffer.data[At] /\ rd'.copy.eom
    BY <1>8, CopyComes DEF At, InCopy, Get_DmaMonBlockCopy_Px, ClearFetched, CopyHead
  <2> QED BY <2>1, AtIsLive DEF CacheFilled
<1> QED
  BY <1>2, <1>3, <1>4, <1>5, <1>6, <1>7, <1>8, CopyingSteps

\* What a step does to a block's marks.
LEMMA RingMarks ==
    ASSUME MonTypeOK, CacheRange, [MonNext]_MonVars, NEW b \in BlockNums
    PROVE  \/ ring'[b].trig = ring[b].trig
                 /\ (ring'[b].eom => ring[b].eom /\ ring'[b].tag = ring[b].tag)
           \/ ~ring'[b].trig /\ ~ring'[b].eom
           \/ InCopy /\ ring'[b].trig = rd.copy.trig /\ ~ring'[b].eom
           \/ b = fw.blk /\ \E triggered \in BOOLEAN : FwEnd(triggered) /\ ring'[b].trig = triggered
<1>1. ASSUME FwBegin PROVE ring'[b] = ring[b] \/ (~ring'[b].trig /\ ~ring'[b].eom)
  BY <1>1, FwBeginDoes
<1>2. ASSUME NEW triggered \in BOOLEAN, FwEnd(triggered)
      PROVE  ring'[b] = ring[b] \/ (b = fw.blk /\ ring'[b].trig = triggered)
  BY <1>2, FwEndDoes
<1>3. ASSUME ClearBlocks PROVE ~ring'[b].trig /\ ~ring'[b].eom
  BY <1>3, BlocksCleared DEF Empty
<1>4. ASSUME ClearEom \/ OldClearEom
      PROVE  ring'[b] = ring[b] \/ (InCopy /\ ring'[b].trig = rd.copy.trig /\ ~ring'[b].eom)
  <2>1. InCopy
    BY <1>4 DEF ClearEom, OldClearEom, InCopy
  <2> QED BY <1>4, <2>1, EomCleared
<1>5. ASSUME ClearFetched
      PROVE  /\ ring'[b].trig = ring[b].trig
             /\ ring'[b].eom => ring[b].eom /\ ring'[b].tag = ring[b].tag
  BY <1>5, FetchedCleared
<1>6. ASSUME Run_MON_Px \/ Stop_Px \/ Clear_Msg_Blks_Px \/ UNCHANGED <<reader, ring, fw, start>>
      PROVE  ring' = ring
  BY <1>6 DEF Run_MON_Px, Stop_Px, Clear_Msg_Blks_Px
<1> QED
  BY <1>1, <1>2, <1>3, <1>4, <1>5, <1>6, MonSteps

\* Before the first message there is nothing to read.
LEMMA NothingYet ==
    ASSUME MonCopies, ~StaleCopy, fw.n = 0
    PROVE  /\ \A b \in BlockNums : ~ring[b].eom
           /\ CacheFilled => Live = {}
<1>1. /\ RingSound /\ CacheSound /\ MonTypeOK
  BY DEF MonCopies, MonBase
<1>2. ASSUME NEW b \in BlockNums, ring[b].eom PROVE FALSE
  BY <1>1, <1>2 DEF RingSound, Ended, MonTypeOK, RingType, MonBlock
<1>3. ASSUME CacheFilled, NEW i \in Live PROVE FALSE
  <2>1. dmaBuffer.data[i].tag # 0 /\ Ended(dmaBuffer.data[i].tag)
    BY <1>1, <1>3 DEF CacheSound
  <2>2. dmaBuffer.data[i].tag \in Nat
    BY <1>1, <1>3 DEF Live, MonTypeOK, HostType, Caches, MonBlock
  <2> QED BY <1>1, <2>1, <2>2 DEF Ended
<1> QED
  BY <1>2, <1>3

\* A monitor with a trigger is started once, before the first message.
LEMMA FirstRun ==
    ASSUME MonInv, Run_MON_Px, Good', reader.trig # "none"
    PROVE  fw.n = 0
<1>1. past' = [past EXCEPT !.handed = 0, !.runs = @ + 1] /\ UNCHANGED reader /\ Sequential
  BY DEF Run_MON_Px
<1>2. past'.runs = past.runs + 1 /\ past.runs \in Nat
  BY <1>1 DEF MonInv, MonCopies, MonBase, MonTypeOK, PastType, PastFields
<1>3. past.runs = 0
  BY <1>1, <1>2 DEF Good
<1> QED
  BY <1>1, <1>3 DEF MonInv, FreshSound

\* The firmware begins to wait for the trigger only when the monitor is started.
LEMMA ArmedFrom ==
    ASSUME MonTypeOK, CacheRange, [MonNext]_MonVars
    PROVE  Run_MON_Px \/ (fw'.armed => fw.armed)
<1>1. ASSUME FwBegin PROVE fw'.armed = fw.armed
  BY <1>1, FwBeginDoes
<1>2. ASSUME NEW triggered \in BOOLEAN, FwEnd(triggered) PROVE fw'.armed => fw.armed
  BY <1>2, FwEndDoes
<1>3. ASSUME \/ Stop_Px \/ Clear_Msg_Blks_Px \/ ClearBlocks \/ ClearEom \/ OldClearEom
             \/ ClearFetched \/ UNCHANGED <<reader, ring, fw, start>>
      PROVE  UNCHANGED fw
  BY <1>3 DEF Stop_Px, Clear_Msg_Blks_Px, ClearBlocks, ClearEom, OldClearEom, ClearFetched
<1> QED
  BY <1>1, <1>2, <1>3, MonSteps

\* Only the first message is awaited with the trigger, so none that the
\* program can still come to carries it.
NoTriggerYet == /\ \A b \in BlockNums : ~ring[b].trig
                /\ InCopy => ~rd.copy.trig
                /\ CacheFilled => \A i \in Live : ~dmaBuffer.data[i].trig

\* Until it comes no block or copy carries it.
LEMMA NoTriggerStep ==
    ASSUME MonInv, [MonNext]_MonVars, Good, Good', NoTriggerYet, fw'.armed, reader.trig = "after",
           ~Run_MON_Px
    PROVE  NoTriggerYet'
<1>0. /\ MonTypeOK /\ CacheRange /\ RingSound /\ StepSound /\ HandedGone /\ MonCopies
      /\ reader.who # "get" /\ ~StaleCopy /\ DOMAIN past = PastFields
  BY DEF MonInv, MonCopies, MonBase, Good, MonTypeOK, PastType
<1>1. ASSUME NEW b \in BlockNums PROVE ~ring'[b].trig
  <2>1. ASSUME NEW triggered \in BOOLEAN, FwEnd(triggered) PROVE ~triggered
    BY <1>0, <2>1, FwEndDoes
  <2> QED BY <1>0, <1>1, <2>1, RingMarks DEF NoTriggerYet
<1>2. ASSUME InCopy' PROVE ~rd'.copy.trig
  BY <1>0, <1>2, CopyTrigger DEF NoTriggerYet
<1>3. ASSUME CacheFilled', NEW i \in Live' PROVE ~dmaBuffer'.data[i].trig
  <2>1. CASE FetchHeads
    BY <1>0, <1>3, <2>1, HeadsAre DEF NoTriggerYet
  <2>2. CASE FetchWords /\ CacheFilled
    <3>1. UNCHANGED nextblock /\ i \in 0..(CacheBlocks - 1)
      BY <1>3, <2>2 DEF FetchWords, Live
    <3>2. /\ dmaBuffer'.begin = dmaBuffer.begin /\ dmaBuffer'.end = dmaBuffer.end
          /\ dmaBuffer'.data[i].eom = dmaBuffer.data[i].eom
          /\ dmaBuffer'.data[i].trig = dmaBuffer.data[i].trig
      BY <1>0, <2>2, <3>1, WordsFetched, HeadsStay
    <3>3. i \in Live
      BY <1>3, <3>1, <3>2 DEF Live
    <3> QED BY <2>2, <3>2, <3>3 DEF NoTriggerYet
  <2>3. CASE ClearBlocks /\ CacheFilled /\ UNCHANGED dmaBuffer
    <3>1. past'.cleared = fw.n /\ UNCHANGED reader /\ nextblock' = fw.blk /\ rd.pc = "clear"
      BY <1>0, <2>3, BlocksCleared DEF ClearBlocks
    <3>2. reader.dma /\ reader.who # "new"
      BY <1>0, <2>3, <3>1 DEF CacheFilled, StepSound
    <3>3. fw.n = 0
      BY <3>1, <3>2 DEF Good, StaleCopy
    <3>4. nextblock' = nextblock
      BY <1>0, <3>1, <3>2, <3>3 DEF RingSound, HandedGone
    <3>5. i \in Live
      BY <1>3, <2>3, <3>4 DEF Live
    <3> QED BY <1>0, <2>3, <3>3, <3>5, NothingYet
  <2>4. CASE CacheFilled /\ UNCHANGED <<dmaBuffer, nextblock>>
    BY <1>3, <2>4 DEF NoTriggerYet, Live
  <2>5. CASE CacheFilled /\ CacheMovesOn
    <3>1. i \in Live /\ i \in 0..(CacheBlocks - 1)
      BY <1>3, <2>5 DEF CacheMovesOn, Live
    <3> QED BY <2>5, <3>1 DEF NoTriggerYet, CacheMovesOn
  <2> QED BY <1>0, <1>3, <2>1, <2>2, <2>3, <2>4, <2>5, CacheComes
<1> QED
  BY <1>1, <1>2, <1>3 DEF NoTriggerYet

\* ArmedSound is kept.
LEMMA ArmedSoundStep == MonInv /\ [MonNext]_MonVars => ArmedSound'
<1> SUFFICES ASSUME MonInv, [MonNext]_MonVars, Good', fw'.armed
             PROVE  wait_for_trigger' /\ (reader'.trig = "after" => NoTriggerYet')
  BY DEF ArmedSound, NoTriggerYet
<1>0. /\ MonTypeOK /\ CacheRange /\ RingSound /\ StepSound /\ MonCopies /\ Good /\ ~StaleCopy
      /\ UNCHANGED reader
  BY GoodBefore, ReaderKept DEF MonInv, MonCopies, MonBase, Good
<1>1. CASE Run_MON_Px
  <2>1. /\ wait_for_trigger' = (reader.trig # "none") /\ fw' = [fw EXCEPT !.armed = reader.trig # "none"]
        /\ rd.pc = "idle" /\ UNCHANGED <<ring, nextblock, dmaBuffer, rd>>
    BY <1>1 DEF Run_MON_Px
  <2>2. reader.trig # "none"
    BY <1>0, <2>1 DEF MonTypeOK, RingType, FwStates
  <2>3. fw.n = 0
    BY <1>1, <2>2, FirstRun
  <2>4. \A b \in BlockNums : ~ring'[b].trig
    BY <2>1, <2>3 DEF MonInv, FreshSound
  <2>5. ~InCopy' /\ (CacheFilled' => Live' = {})
    BY <1>0, <2>1, <2>3, NothingYet DEF InCopy, CacheFilled, Live
  <2> QED BY <2>1, <2>2, <2>4, <2>5 DEF NoTriggerYet
<1>2. CASE ~Run_MON_Px
  <2>1. fw.armed
    BY <1>0, <1>2, ArmedFrom
  <2>2. wait_for_trigger /\ (reader.trig = "after" => NoTriggerYet)
    BY <1>0, <2>1 DEF MonInv, ArmedSound, NoTriggerYet
  <2>3. wait_for_trigger'
    BY <1>0, <1>2, <2>2, WaitSteps DEF NoTriggerYet
  <2> QED BY <1>0, <1>2, <2>2, <2>3, NoTriggerStep
<1> QED
  BY <1>1, <1>2

(***************************************************************************)
(* What the readers can still come to is what is not handed over yet.      *)
(***************************************************************************)
\* The block the reader is at holds the oldest message not handed over.
LEMMA ReaderIsBehind ==
    ASSUME MonInv, Good, reader.who # "new", NEW i \in Nat, nextblock + i < MonBlocks,
           \/ Behind(nextblock + i) <= Len(pend) \/ i < Len(pend)
    PROVE  /\ nextblock + i \in BlockNums /\ i < Len(pend)
           /\ ring[nextblock + i].tag = pend[i + 1]
<1>0. /\ MonTypeOK /\ nextblock \in BlockNums /\ nextblock \in Nat /\ pend \in Seq(Nat)
      /\ Len(pend) \in Nat /\ Len(pend) <= MonBlocks
      /\ \A b \in BlockNums : Behind(b) <= Len(pend) =>
            ring[b].tag = pend[Len(pend) - Behind(b) + 1]
      /\ IF pend = <<>> THEN nextblock = fw.blk ELSE Behind(nextblock) = Len(pend)
  BY DEF MonInv, MonCopies, MonBase, PendSound, MonTypeOK, HostType, BlockNums
<1>1. /\ nextblock + i \in BlockNums
      /\ i < Behind(nextblock) => Behind(nextblock + i) = Behind(nextblock) - i
      /\ i > 0 /\ Behind(nextblock + i) <= Behind(nextblock) => i < Behind(nextblock)
  BY <1>0, BehindOn
<1>2. PICK b \in BlockNums : b = nextblock + i
  BY <1>1
<1>3. Behind(b) \in 1..MonBlocks
  BY <1>0, BehindIs
<1>4. Len(pend) > 0
  BY <1>0, <1>2, <1>3
<1>5. Behind(nextblock) = Len(pend)
  BY <1>0, <1>4
<1>6. i < Len(pend)
  BY <1>0, <1>1, <1>4, <1>5
<1>7. Behind(b) = Len(pend) - i
  BY <1>1, <1>2, <1>5, <1>6
<1>8. Len(pend) - Behind(b) + 1 = i + 1 /\ Behind(b) <= Len(pend)
  BY <1>0, <1>6, <1>7
<1> QED
  BY <1>0, <1>1, <1>2, <1>6, <1>8

\* The message handed over is gone from the ring.
LEMMA FirstGone ==
    ASSUME MonInv, [MonNext]_MonVars, Good, Good', PendOut, reader.who # "new",
           NEW b \in BlockNums, ring'[b].eom
    PROVE  ring'[b].tag # pend[1]
<1>1. PICK c : Due(c) /\ past'.handed = c.tag
  BY DEF PendOut
<1>2. /\ MonTypeOK /\ CacheRange /\ RingSound /\ StepSound /\ CopySound /\ CacheSound /\ HandedGone
      /\ UNCHANGED reader /\ ~StaleCopy' /\ reader.who # "get"
  BY ReaderKept DEF MonInv, MonCopies, MonBase, Good
<1>3. HandedGone'
  BY <1>2, HandedGoneStep
<1>4. Gone(past.handed)'
  BY <1>2, <1>3 DEF HandedGone
<1> QED
  BY <1>1, <1>4 DEF Gone, Due

\* What is marked in the ring stays accounted for.
LEMMA RingWindowStep ==
    ASSUME MonInv, [MonNext]_MonVars, Good, Good', reader.who # "new"
    PROVE  RingWindow'
<1>0. /\ MonTypeOK /\ CacheRange /\ RingSound /\ RingWindow /\ MonCopies /\ ~StaleCopy
      /\ UNCHANGED reader /\ fw.blk \in BlockNums /\ pend \in Seq(Nat) /\ Len(pend) \in Nat
      /\ FreshSound
  BY ReaderKept DEF MonInv, MonCopies, MonBase, WindowSound, MonTypeOK, RingType, FwStates,
     PendSound, Good
<1> SUFFICES ASSUME NEW b \in BlockNums, ring'[b].eom
             PROVE  \/ Behind(b)' <= Len(pend')
                    \/ b = fw'.blk /\ fw'.armed /\ ~ring'[b].trig
  BY DEF RingWindow
<1>1. Behind(b) \in 1..MonBlocks /\ (b = fw.blk <=> Behind(b) = MonBlocks) /\ MonBlocks \in Nat
  BY <1>0, BehindIs
<1>8. ring[b].eom => Behind(b) <= Len(pend) \/ b = fw.blk
  BY <1>0 DEF RingWindow
<1>2. ASSUME NEW triggered \in BOOLEAN, FwEnd(triggered)
      PROVE  Behind(b)' <= Len(pend') \/ (b = fw'.blk /\ fw'.armed /\ ~ring'[b].trig)
  <2>1. CASE fw.armed /\ ~triggered
    <3>1. /\ fw'.blk = fw.blk /\ fw'.armed /\ UNCHANGED pend /\ ~ring'[fw.blk].trig
          /\ b # fw.blk => ring'[b] = ring[b]
      BY <1>0, <1>2, <2>1, FwEndDoes
    <3>2. Behind(b)' = Behind(b)
      BY <1>0, <3>1, BehindIs
    <3> QED BY <1>0, <1>8, <3>1, <3>2
  <2>2. CASE ~(fw.armed /\ ~triggered)
    <3>1. /\ fw'.blk = (fw.blk + 1) % MonBlocks /\ pend' = Append(pend, fw.n)
          /\ b # fw.blk => ring'[b] = ring[b]
      BY <1>0, <1>2, <2>2, FwEndDoes
    <3>2. Len(pend') = Len(pend) + 1
      BY <1>0, <3>1
    <3>3. Behind(b)' = IF b = fw.blk THEN 1 ELSE Behind(b) + 1
      BY <1>0, <3>1, BehindIs
    <3>4. CASE b = fw.blk
      BY <1>0, <3>2, <3>3, <3>4
    <3>5. CASE b # fw.blk
      <4>1. Behind(b) <= Len(pend)
        BY <1>8, <3>1, <3>5
      <4> QED BY <1>0, <1>1, <3>2, <3>3, <3>5, <4>1
    <3> QED BY <3>4, <3>5
  <2> QED BY <2>1, <2>2
<1>3. ASSUME ~(\E triggered \in BOOLEAN : FwEnd(triggered))
      PROVE  ring[b].eom /\ ring'[b].tag = ring[b].tag /\ ring'[b].trig = ring[b].trig
  BY <1>0, <1>3, RingMarks
<1>4. CASE FwBegin
  <2>1. fw'.blk = fw.blk /\ fw'.armed = fw.armed /\ b # fw.blk /\ UNCHANGED pend
    BY <1>0, <1>4, FwBeginDoes DEF FwBegin
  <2>2. ~(\E triggered \in BOOLEAN : FwEnd(triggered))
    BY <1>4 DEF FwBegin, FwEnd
  <2>3. Behind(b)' = Behind(b)
    BY <1>0, <2>1, BehindIs
  <2> QED BY <1>0, <1>3, <2>1, <2>2, <2>3 DEF RingWindow
<1>5. CASE ClearBlocks
  BY <1>0, <1>5, BlocksCleared DEF Empty
<1>6. CASE PendOut
  <2>1. PICK c : Due(c) /\ HandsOver(c) /\ TagsKept
    BY <1>6 DEF PendOut
  <2>2. UNCHANGED fw /\ ring'[b].tag = ring[b].tag
    BY <2>1 DEF TagsKept
  <2>3. ~(\E triggered \in BOOLEAN : FwEnd(triggered))
    BY <1>0, <2>2, FwEndDoes
  <2>4. Len(pend') = Len(pend) - 1 /\ Len(pend) >= 1
    BY <2>1, PendOutDoes
  <2>5. Behind(b)' = Behind(b)
    BY <1>0, <2>2, BehindIs
  <2>6. Behind(b) <= Len(pend) => Behind(b) <= Len(pend) - 1
    <3> SUFFICES ASSUME Behind(b) = Len(pend) PROVE FALSE
      BY <1>0, <1>1
    <3>1. Len(pend) - Behind(b) + 1 = 1
      BY <1>0
    <3>2. ring[b].tag = pend[1]
      BY <1>0, <3>1 DEF MonInv, PendSound
    <3> QED BY <1>6, <2>2, <3>2, FirstGone
  <2> QED BY <1>0, <1>3, <2>2, <2>3, <2>4, <2>5, <2>6 DEF RingWindow
<1>7. CASE PendKept
  <2>1. UNCHANGED pend /\ fw'.blk = fw.blk /\ fw'.writing = fw.writing
    BY <1>7 DEF PendKept
  <2>2. ~(\E triggered \in BOOLEAN : FwEnd(triggered))
    BY <1>0, <2>1, FwEndDoes
  <2>3. Behind(b)' = Behind(b)
    BY <1>0, <2>1, BehindIs
  <2>4. fw.armed => fw'.armed
    <3>1. CASE Run_MON_Px
      <4>1. fw' = [fw EXCEPT !.armed = reader.trig # "none"]
        BY <3>1 DEF Run_MON_Px
      <4> QED BY <1>0, <4>1 DEF MonTypeOK, RingType, FwStates, FreshSound
    <3>2. CASE ~Run_MON_Px
      <4>1. ~FwBegin
        BY <1>0, <2>1, FwBeginDoes
      <4>2. UNCHANGED fw
        BY <2>2, <3>2, <4>1, MonSteps
        DEF Stop_Px, Clear_Msg_Blks_Px, ClearBlocks, ClearEom, OldClearEom, ClearFetched
      <4> QED BY <4>2
    <3> QED BY <3>1, <3>2
  <2> QED BY <1>0, <1>3, <2>1, <2>2, <2>3, <2>4 DEF RingWindow
<1> QED
  BY <1>2, <1>4, <1>5, <1>6, <1>7, PendSteps

(***************************************************************************)
(* What a call in progress has copied.                                     *)
(***************************************************************************)
\* The copy stays as it is.
LEMMA CopyWindowKept ==
    ASSUME CopyWindow, UNCHANGED <<wait_for_trigger, reader>>, InCopy, rd.copy.eom,
           rd'.copy.tag = rd.copy.tag, rd'.copy.trig = rd.copy.trig,
           pend # <<>> => pend' # <<>> /\ pend'[1] = pend[1],
           OldReader => rd'.pc = rd.pc \/ (rd'.pc # "eom" /\ rd.pc # "eom"),
           rd.again => rd'.again
    PROVE  CopyWindow'
BY DEF CopyWindow, Stray, Sequential, OldReader

\* What a call copies is the oldest message.
LEMMA CopyWindowStep ==
    ASSUME MonInv, [MonNext]_MonVars, Good, Good', reader.who # "new"
    PROVE  CopyWindow'
<1>0. /\ MonTypeOK /\ CacheRange /\ RingSound /\ StepSound /\ CopySound /\ WindowSound
      /\ RingWindow /\ CopyWindow /\ CacheWindow /\ UNCHANGED reader
      /\ pend \in Seq(Nat) /\ Len(pend) \in Nat /\ nextblock \in BlockNums /\ nextblock \in Nat
      /\ DOMAIN rd = ReadFields /\ rd.blk \in BlockNums /\ rd.copy \in MonBlock
      /\ FreshSound /\ ArmedSound /\ \A b \in BlockNums : ring[b] \in MonBlock
  BY ReaderKept DEF MonInv, MonCopies, MonBase, WindowSound, MonTypeOK, RingType, HostType, ReadType,
     BlockNums, PendSound, Good
<1> SUFFICES ASSUME InCopy', rd'.copy.eom PROVE CopyWindow'
  BY DEF CopyWindow
<1>1. ASSUME NEW triggered \in BOOLEAN, FwEnd(triggered) PROVE CopyWindow'
  <2>1. /\ rd'.pc = rd.pc /\ rd'.copy = rd.copy /\ (rd.again => rd'.again)
        /\ pend' = pend \/ pend' = Append(pend, fw.n)
    BY <1>1, <1>0, FwEndDoes DEF ReadFields
  <2>2. UNCHANGED wait_for_trigger /\ InCopy /\ rd.copy.eom
    BY <1>1, <2>1 DEF FwEnd, Host, InCopy
  <2>3. pend # <<>> => pend' # <<>> /\ pend'[1] = pend[1]
    BY <1>0, <2>1
  <2> QED BY <1>0, <2>1, <2>2, <2>3, CopyWindowKept
<1>2. ASSUME FwBegin \/ UNCHANGED MonVars PROVE CopyWindow'
  <2>1. UNCHANGED <<rd, pend, wait_for_trigger>>
    BY <1>2 DEF FwBegin, Host, MonVars
  <2>2. InCopy /\ rd.copy.eom
    BY <2>1 DEF InCopy
  <2> QED BY <1>0, <2>1, <2>2, CopyWindowKept
<1>3. CASE CopyHead
  <2>1. PICK c : c = Head1(Empty, ring[rd.blk])
    OBVIOUS
  <2>2. rd' = [rd EXCEPT !.pc = "words", !.copy = c] /\ rd.blk = nextblock
    BY <1>0, <1>3, <2>1, RestingIs DEF CopyHead, Returns, InCopy, StepSound, Good
  <2>3. rd'.copy = c /\ rd'.pc = "words"
    BY <1>0, <2>2 DEF ReadFields
  <2>4. /\ c.tag = ring[nextblock].tag /\ c.eom = ring[nextblock].eom
        /\ c.trig = ring[nextblock].trig
    BY <1>0, <2>1, <2>2, EmptyBlock, Copying
  <2>5. UNCHANGED <<pend, wait_for_trigger>>
    BY <1>3, <2>1, RestingIs DEF CopyHead, Returns
  <2>6. \/ Behind(nextblock) <= Len(pend)
        \/ nextblock = fw.blk /\ fw.armed /\ ~c.trig
    BY <1>0, <2>3, <2>4 DEF RingWindow
  <2>7. CASE Behind(nextblock) <= Len(pend)
    <3>1. PICK i \in Nat : i = 0 /\ nextblock + i = nextblock /\ nextblock + i < MonBlocks
      BY <1>0, MonRingAssumption DEF BlockNums
    <3>2. 0 < Len(pend) /\ ring[nextblock].tag = pend[0 + 1]
      BY <1>0, <2>7, <3>1, ReaderIsBehind
    <3>3. pend # <<>> /\ rd'.copy.tag = pend[1]
      BY <1>0, <2>3, <2>4, <3>2
    <3> QED BY <2>3, <2>5, <3>3 DEF CopyWindow
  <2>8. CASE nextblock = fw.blk /\ fw.armed /\ ~c.trig
    <3>1. wait_for_trigger /\ Sequential
      BY <1>0, <2>8 DEF ArmedSound, FreshSound
    <3>2. Stray(rd.copy)'
      BY <1>0, <2>3, <2>5, <2>8, <3>1 DEF Stray, Sequential
    <3> QED BY <2>3, <3>2 DEF CopyWindow
  <2> QED BY <2>6, <2>7, <2>8
<1>4. CASE CopyWords
  <2>1. PICK c : c = Tail1(rd.copy, ring[rd.blk])
    OBVIOUS
  <2>2. /\ rd' = [rd EXCEPT !.pc = "check", !.copy = c] /\ rd.pc = "words" /\ rd.copy.eom
        /\ UNCHANGED <<pend, wait_for_trigger>>
    BY <1>4, <2>1, RestingIs DEF CopyWords, Returns, InCopy, Host
  <2>3. rd'.copy = c /\ rd'.pc = "check" /\ rd'.again = rd.again /\ InCopy
    BY <1>0, <2>2 DEF ReadFields, InCopy
  <2>4. c.tag = rd.copy.tag /\ c.trig = rd.copy.trig
    BY <1>0, <2>1, Copying
  <2> QED BY <1>0, <2>2, <2>3, <2>4, CopyWindowKept
<1>5. CASE CopyAgain
  <2>1. /\ rd' = [rd EXCEPT !.pc = "eom"] /\ rd.pc = "check" /\ ~OldReader
        /\ UNCHANGED <<pend, wait_for_trigger>>
    BY <1>5, RestingIs DEF CopyAgain, Returns, InCopy, Host
  <2>2. rd'.copy = rd.copy /\ rd'.again = rd.again /\ InCopy
    BY <1>0, <2>1 DEF ReadFields, InCopy
  <2>3. rd.copy.eom
    BY <2>2
  <2> QED BY <1>0, <2>1, <2>2, <2>3, CopyWindowKept
<1>6. CASE OldStatusAgain
  <2>1. PICK b : b = IF reader.dma /\ dmaBuffer.valid THEN rd.copy ELSE ring[rd.blk]
    OBVIOUS
  <2>2. PICK c : c = [rd.copy EXCEPT !.eom = b.eom, !.trig = b.trig]
    OBVIOUS
  <2>3. c.eom = b.eom /\ c.trig = b.trig /\ c.tag = rd.copy.tag
    BY <1>0, <2>1, <2>2 DEF MonBlock
  <2>4. /\ rd.pc = "check" /\ OldReader /\ ~Untriggered(c) /\ c.eom
        /\ rd' = [rd EXCEPT !.pc = "eom", !.copy = c] /\ TriggerSeen(c) /\ UNCHANGED pend
    BY <1>6, <2>1, <2>2, RestingIs DEF OldStatusAgain, Returns, InCopy
  <2>5. rd'.copy = c /\ rd'.pc = "eom" /\ rd'.again = rd.again /\ InCopy /\ rd.copy.eom
    BY <1>0, <2>4 DEF ReadFields, InCopy, StepSound
  <2>6. ~Stray(rd.copy)'
    BY <1>0, <2>4, <2>5 DEF Stray, Untriggered, TriggerSeen, Sequential
  <2>7. (pend # <<>> /\ rd.copy.tag = pend[1]) \/ Stray(rd.copy)
    BY <1>0, <2>4, <2>5 DEF CopyWindow
  <2>8. CASE pend # <<>> /\ rd.copy.tag = pend[1]
    BY <2>3, <2>4, <2>5, <2>6, <2>8 DEF CopyWindow
  <2>9. CASE Stray(rd.copy)
    <3>1. c.trig /\ ~rd.copy.trig
      BY <2>4, <2>9 DEF Stray, Untriggered
    <3>2. ~dmaBuffer.valid /\ b = ring[rd.blk]
      BY <1>0, <2>1, <2>3, <3>1 DEF StepSound
    <3>3. ring[rd.blk].tag # rd.copy.tag /\ ring[rd.blk].eom
      BY <1>0, <2>3, <2>4, <2>5, <3>1, <3>2 DEF CopySound
    <3>4. rd.again
      BY <1>0, <2>4, <2>5, <3>2, <3>3 DEF CopySound
    <3> QED BY <1>0, <2>4, <2>5, <2>6, <3>4 DEF CopyWindow, OldReader
  <2> QED BY <2>7, <2>8, <2>9
<1>7. CASE Get_DmaMonBlockCopy_Px \/ ClearFetched
  <2>1. /\ dmaBuffer.valid /\ OldReader /\ rd.pc \in {"cache", "marks"}
        /\ nextblock \in dmaBuffer.begin..dmaBuffer.end
        /\ rd'.copy = dmaBuffer.data[At] /\ rd'.copy.eom /\ rd'.pc = "check"
    BY <1>0, <1>7, CopyComes DEF At, InCopy, Get_DmaMonBlockCopy_Px, ClearFetched, CopyHead
  <2>2. TakesCopy
    BY <1>0, <1>7, <2>1, CopyTaken DEF InCopy
  <2>3. PICK c : c = dmaBuffer.data[At] /\ FromCopy(c)
    BY <2>2 DEF TakesCopy
  <2>4. UNCHANGED <<pend, wait_for_trigger>>
    BY <1>0, <2>1, <2>3, FromCopyIs, RestingIs
  <2>5. /\ At \in Live /\ dmaBuffer.begin + At - nextblock = 0 /\ CacheFilled
    BY <1>0, <2>1, AtIsLive DEF CacheFilled
  <2>6. \/ 0 < Len(pend) /\ c.tag = pend[0 + 1]
        \/ Stray(c)
    BY <1>0, <2>3, <2>5 DEF CacheWindow, Pending
  <2>7. CASE 0 < Len(pend) /\ c.tag = pend[0 + 1]
    <3>1. pend # <<>> /\ c.tag = pend[1]
      BY <1>0, <2>7
    <3> QED BY <2>1, <2>3, <2>4, <3>1 DEF CopyWindow
  <2>8. CASE Stray(c)
    <3>1. Stray(rd.copy)'
      BY <1>0, <2>1, <2>3, <2>4, <2>8 DEF Stray, Sequential
    <3> QED BY <2>1, <3>1 DEF CopyWindow
  <2> QED BY <2>6, <2>7, <2>8
<1> QED
  BY <1>0, <1>1, <1>2, <1>3, <1>4, <1>5, <1>6, <1>7, CopyingSteps

(***************************************************************************)
(* What the copy made by DMA holds.                                        *)
(***************************************************************************)
NotStored(i, live) == /\ Stray(dmaBuffer.data[i])
                      /\ reader.trig = "after" => \A j \in live : ~dmaBuffer.data[j].trig

\* A message passed over stays one while the wait goes on.
LEMMA WaitGoesOn ==
    ASSUME MonInv, [MonNext]_MonVars, Good', CacheFilled, NEW i \in Live, NotStored(i, Live)
    PROVE  wait_for_trigger' = wait_for_trigger
<1>0. /\ MonTypeOK /\ CacheRange /\ StepSound /\ MonCopies /\ Good /\ ~StaleCopy /\ FreshSound
      /\ UNCHANGED reader
  BY GoodBefore, ReaderKept DEF MonInv, MonCopies, MonBase, Good
<1>1. CASE Run_MON_Px
  <2>1. reader.trig # "none"
    BY <1>0 DEF NotStored, Stray, FreshSound
  <2>2. Live = {}
    BY <1>0, <1>1, <2>1, FirstRun, NothingYet
  <2> QED BY <2>2
<1>2. CASE ~Run_MON_Px
  <2>1. ~(InCopy /\ ~dmaBuffer.valid)
    BY <1>0 DEF CacheFilled, InCopy
  <2> QED BY <1>0, <1>2, <2>1, WaitSteps DEF NotStored
<1> QED
  BY <1>1, <1>2

\* The blocks of the copy still to be read are behind the reader.
LEMMA LiveIs ==
    ASSUME MonTypeOK, NEW i \in Live
    PROVE  /\ i \in 0..(CacheBlocks - 1) /\ i \in Nat /\ nextblock \in Nat
           /\ dmaBuffer.begin \in Nat /\ dmaBuffer.end \in Nat /\ dmaBuffer.end < MonBlocks
           /\ nextblock <= dmaBuffer.begin + i /\ dmaBuffer.begin + i <= dmaBuffer.end
           /\ dmaBuffer.begin + i - nextblock \in Nat
<1>1. /\ nextblock \in Nat /\ dmaBuffer.begin \in Nat /\ dmaBuffer.end \in Nat
      /\ dmaBuffer.end < MonBlocks
  BY MonRingAssumption DEF MonTypeOK, HostType, Caches, BlockNums
<1>2. i \in 0..(CacheBlocks - 1) /\ dmaBuffer.begin + i \in nextblock..dmaBuffer.end
  BY DEF Live
<1>3. i \in Nat
  BY <1>2, MonRingAssumption
<1> QED
  BY <1>1, <1>2, <1>3

\* The DMA copy holds the messages the reader will come to.
LEMMA CacheWindowStep ==
    ASSUME MonInv, [MonNext]_MonVars, Good, Good', reader.who # "new"
    PROVE  CacheWindow'
<1>0. /\ MonTypeOK /\ CacheRange /\ RingSound /\ StepSound /\ MonCopies /\ ~StaleCopy
      /\ RingWindow /\ CacheWindow /\ UNCHANGED reader /\ reader.who # "get"
      /\ pend \in Seq(Nat) /\ Len(pend) \in Nat /\ nextblock \in BlockNums /\ nextblock \in Nat
      /\ FreshSound /\ ArmedSound /\ HandedGone /\ dmaBuffer.begin \in Nat
      /\ dmaBuffer.end \in Nat
      /\ MonBlocks \in Nat
  BY ReaderKept, MonRingAssumption DEF MonInv, MonCopies, MonBase, WindowSound, MonTypeOK, HostType,
     BlockNums, PendSound, Good, Caches
<1> SUFFICES ASSUME CacheFilled', NEW i \in Live'
             PROVE  \/ /\ Pending(i)'
                       /\ rd'.pc # "dma2" => dmaBuffer'.data[i].words = dmaBuffer'.data[i].tag
                    \/ NotStored(i, Live)'
  BY DEF CacheWindow, NotStored
<1>1. i \in 0..(CacheBlocks - 1) /\ i \in Nat
  BY MonRingAssumption DEF Live
<1>2. CASE FetchHeads
  <2>1. /\ rd'.pc = "dma2" /\ UNCHANGED <<nextblock, ring, fw, past, pend, wait_for_trigger>>
        /\ dmaBuffer'.begin = nextblock
        /\ nextblock + i \in BlockNums /\ ring[nextblock + i].eom
        /\ dmaBuffer'.data[i].tag = ring[nextblock + i].tag
        /\ dmaBuffer'.data[i].trig = ring[nextblock + i].trig
        /\ \A j \in Live' : nextblock + j \in BlockNums /\ dmaBuffer'.data[j].trig = ring[nextblock + j].trig
    BY <1>0, <1>2, HeadsAre
  <2>2. PICK b \in BlockNums : b = nextblock + i
    BY <2>1
  <2>3. b < MonBlocks
    BY <1>0 DEF BlockNums
  <2>4. CASE Behind(b) <= Len(pend)
    <3>1. i < Len(pend) /\ ring[b].tag = pend[i + 1]
      BY <1>0, <1>1, <2>2, <2>3, <2>4, ReaderIsBehind
    <3>2. dmaBuffer'.begin + i - nextblock' = i
      BY <1>0, <1>1, <2>1
    <3>3. Pending(i)'
      BY <2>1, <2>2, <3>1, <3>2 DEF Pending
    <3> QED BY <2>1, <3>3
  <2>5. CASE b = fw.blk /\ fw.armed /\ ~ring[b].trig
    <3>1. wait_for_trigger /\ Sequential /\ (reader.trig = "after" => \A a \in BlockNums : ~ring[a].trig)
      BY <1>0, <2>5 DEF ArmedSound, FreshSound
    <3>2. /\ ~dmaBuffer'.data[i].trig /\ wait_for_trigger' /\ Sequential'
          /\ reader'.trig = "after" => \A j \in Live' : ~dmaBuffer'.data[j].trig
      BY <1>0, <2>1, <2>2, <2>5, <3>1 DEF Sequential
    <3> QED BY <3>2 DEF NotStored, Stray
  <2> QED BY <1>0, <2>1, <2>2, <2>4, <2>5 DEF RingWindow
<1>3. CASE FetchWords /\ CacheFilled
  <2>1. UNCHANGED <<nextblock, pend, wait_for_trigger, ring>> /\ rd.pc = "dma2"
    BY <1>3 DEF FetchWords
  <2>2. /\ dmaBuffer'.begin = dmaBuffer.begin /\ dmaBuffer'.end = dmaBuffer.end
        /\ dmaBuffer.begin = nextblock
        /\ \A j \in 0..(CacheBlocks - 1) : /\ dmaBuffer'.data[j].eom = dmaBuffer.data[j].eom
                                           /\ dmaBuffer'.data[j].trig = dmaBuffer.data[j].trig
                                           /\ dmaBuffer'.data[j].tag = dmaBuffer.data[j].tag
                                           /\ j \in Fetched => dmaBuffer'.data[j].words = ring[dmaBuffer.begin + j].words
    BY <1>0, <1>3, <2>1, WordsFetched, HeadsStay DEF CacheRange
  <2>3. Live' = Live
    BY <2>1, <2>2 DEF Live
  <2>4. \A j \in Live : j \in 0..(CacheBlocks - 1)
    BY DEF Live
  <2>5. CASE Pending(i)
    <3>1. Pending(i)'
      BY <1>1, <2>1, <2>2, <2>5 DEF Pending
    <3>2. i < Len(pend) /\ dmaBuffer.data[i].tag = pend[i + 1]
      <4>1. dmaBuffer.begin + i - nextblock = i
        BY <1>0, <1>1, <2>2
      <4> QED BY <2>5, <4>1 DEF Pending
    <3>3. dmaBuffer.begin + i <= dmaBuffer.end /\ dmaBuffer.end < MonBlocks
      BY <1>0, <2>3, LiveIs
    <3>4. i \in Fetched /\ nextblock + i < MonBlocks
      BY <1>0, <1>1, <2>2, <3>3 DEF Fetched
    <3>5. nextblock + i \in BlockNums /\ ring[nextblock + i].tag = pend[i + 1]
      BY <1>0, <1>1, <3>2, <3>4, ReaderIsBehind
    <3>6. dmaBuffer'.data[i].words = dmaBuffer'.data[i].tag
      BY <1>0, <1>1, <2>2, <3>2, <3>4, <3>5 DEF RingSound
    <3> QED BY <3>1, <3>6
  <2>6. CASE NotStored(i, Live)
    BY <1>0, <1>1, <2>1, <2>2, <2>3, <2>4, <2>6 DEF NotStored, Stray, Sequential
  <2> QED BY <1>0, <1>3, <2>3, <2>5, <2>6 DEF CacheWindow, NotStored
<1>4. CASE ClearBlocks /\ CacheFilled /\ UNCHANGED dmaBuffer
  <2>1. past'.cleared = fw.n /\ nextblock' = fw.blk /\ rd.pc = "clear"
    BY <1>0, <1>4, BlocksCleared DEF ClearBlocks
  <2>2. reader.dma
    BY <1>0, <1>4, <2>1 DEF CacheFilled, StepSound
  <2>3. fw.n = 0
    BY <1>0, <2>1, <2>2 DEF Good, StaleCopy
  <2>4. nextblock' = nextblock
    BY <1>0, <2>1, <2>3 DEF RingSound, HandedGone
  <2>5. i \in Live
    BY <1>4, <2>4 DEF Live
  <2> QED BY <1>0, <1>4, <2>3, <2>5, NothingYet
<1>5. CASE /\ CacheFilled /\ UNCHANGED <<dmaBuffer, nextblock>> /\ ~ClearBlocks
           /\ rd'.pc # "dma2" => rd.pc # "dma2"
  <2>1. Live' = Live
    BY <1>5 DEF Live
  <2>2. CASE Pending(i) /\ (rd.pc # "dma2" => dmaBuffer.data[i].words = dmaBuffer.data[i].tag)
    <3>1. /\ Len(pend') \in Nat /\ Len(pend') >= Len(pend)
          /\ \A k \in 1..Len(pend) : pend'[k] = pend[k]
      <4>1. FwBegin \/ PendKept => UNCHANGED pend
        BY DEF FwBegin, PendKept
      <4>2. ASSUME NEW triggered \in BOOLEAN, FwEnd(triggered)
            PROVE  pend' = pend \/ pend' = Append(pend, fw.n)
        BY <1>0, <4>2, FwEndDoes
      <4>3. ~PendOut
        <5> SUFFICES ASSUME PendOut PROVE FALSE
          OBVIOUS
        <5>1. nextblock' = (nextblock + 1) % MonBlocks
          BY <1>0 DEF PendOut
        <5>2. nextblock' # nextblock
          BY <1>0, <5>1, RingOrder, MonRingAssumption DEF BlockNums
        <5> QED BY <1>5, <5>2
      <4>4. pend' = pend \/ pend' = Append(pend, fw.n)
        BY <1>0, <1>5, <4>1, <4>2, <4>3, PendSteps DEF PendKept, FwBegin
      <4> QED BY <1>0, <4>4
    <3>2. i \in Live /\ dmaBuffer.begin + i - nextblock \in Nat
      BY <1>0, <2>1, LiveIs
    <3>3. PICK d \in Nat : d = dmaBuffer.begin + i - nextblock
      BY <3>2
    <3>4. d < Len(pend) /\ dmaBuffer.data[i].tag = pend[d + 1]
      BY <2>2, <3>3 DEF Pending
    <3>5. d < Len(pend') /\ d + 1 \in 1..Len(pend)
      BY <1>0, <3>1, <3>4
    <3>6. pend'[d + 1] = pend[d + 1]
      BY <3>1, <3>5
    <3>7. Pending(i)'
      BY <1>5, <3>3, <3>4, <3>5, <3>6 DEF Pending
    <3> QED BY <1>5, <2>2, <3>7
  <2>3. CASE NotStored(i, Live)
    <3>1. wait_for_trigger' = wait_for_trigger
      BY <1>5, <2>1, <2>3, WaitGoesOn
    <3> QED BY <1>0, <1>5, <2>1, <2>3, <3>1 DEF NotStored, Stray, Sequential
  <2> QED BY <1>0, <1>5, <2>1, <2>2, <2>3 DEF CacheWindow, NotStored
<1>6. CASE CacheFilled /\ CacheMovesOn /\ ~ClearBlocks
  <2>1. /\ i \in Live /\ i # At /\ Live' \subseteq Live /\ nextblock' = nextblock + 1
        /\ dmaBuffer'.begin = dmaBuffer.begin /\ rd.pc # "dma2"
        /\ \A j \in 0..(CacheBlocks - 1) : /\ dmaBuffer'.data[j].trig = dmaBuffer.data[j].trig
                                           /\ dmaBuffer'.data[j].tag = dmaBuffer.data[j].tag
                                           /\ dmaBuffer'.data[j].words = dmaBuffer.data[j].words
    BY <1>6 DEF CacheMovesOn
  <2>2. \A j \in Live : j \in 0..(CacheBlocks - 1)
    BY DEF Live
  <2>3. CASE Pending(i) /\ dmaBuffer.data[i].words = dmaBuffer.data[i].tag
    <3> DEFINE d == dmaBuffer.begin + i - nextblock
    <3>1. d \in Nat /\ d # 0 /\ dmaBuffer'.begin + i - nextblock' = d - 1
      <4>1. d \in Nat
        BY <1>0, <2>1, LiveIs
      <4>2. d # 0
        <5>1. i # nextblock - dmaBuffer.begin
          BY <2>1 DEF At
        <5>2. dmaBuffer.begin \in Nat /\ nextblock \in Nat /\ i \in Nat
          BY <1>0, <1>1, <2>1
        <5> QED BY <5>1, <5>2
      <4>3. dmaBuffer.begin \in Nat /\ nextblock \in Nat /\ i \in Nat
        BY <1>0, <1>1, <2>1
      <4>4. dmaBuffer'.begin + i - nextblock' = dmaBuffer.begin + i - (nextblock + 1)
        BY <2>1
      <4> QED BY <4>1, <4>2, <4>3, <4>4
    <3>2. d < Len(pend) /\ dmaBuffer.data[i].tag = pend[d + 1]
      BY <2>3 DEF Pending
    <3>3. /\ Len(pend') = Len(pend) - 1
          /\ \A k \in 1..Len(pend') : k + 1 \in 1..Len(pend) /\ pend'[k] = pend[k + 1]
      <4>1. PICK c : Due(c) /\ HandsOver(c)
        <5>1. nextblock' # nextblock
          BY <1>0, <2>1
        <5>2. ASSUME NEW triggered \in BOOLEAN PROVE ~FwEnd(triggered)
          BY <5>1, <5>2 DEF FwEnd, Host
        <5> QED BY <1>0, <1>6, <5>1, <5>2, PendSteps DEF FwBegin, Host, PendKept, PendOut
      <4> QED BY <1>0, <4>1, PendOutDoes
    <3>4. d \in 1..Len(pend') /\ (d - 1) + 1 = d
      BY <1>0, <3>1, <3>2, <3>3
    <3> HIDE DEF d
    <3>5. d - 1 < Len(pend') /\ pend'[(d - 1) + 1] = pend[d + 1]
      BY <1>0, <3>3, <3>4
    <3>6. Pending(i)'
      BY <1>1, <2>1, <3>1, <3>2, <3>5 DEF Pending
    <3> QED BY <1>1, <2>1, <2>3, <3>6
  <2>4. CASE NotStored(i, Live)
    <3>1. wait_for_trigger' = wait_for_trigger
      BY <1>6, <2>1, <2>4, WaitGoesOn
    <3> QED BY <1>0, <1>1, <2>1, <2>2, <2>4, <3>1 DEF NotStored, Stray, Sequential
  <2> QED BY <1>0, <1>6, <2>1, <2>3, <2>4 DEF CacheWindow, NotStored
<1>7. ClearBlocks /\ CacheFilled => ClearBlocks /\ CacheFilled /\ UNCHANGED dmaBuffer
  BY DEF ClearBlocks
<1> QED
  BY <1>0, <1>2, <1>3, <1>4, <1>5, <1>6, <1>7, CacheComes

\* WindowSound is kept.
LEMMA WindowSoundStep == MonInv /\ [MonNext]_MonVars => WindowSound'
<1> SUFFICES ASSUME MonInv, [MonNext]_MonVars, Good', reader'.who # "new"
             PROVE  RingWindow' /\ CopyWindow' /\ CacheWindow'
  BY DEF WindowSound
<1>1. Good /\ UNCHANGED reader
  BY GoodBefore, ReaderKept DEF MonInv, MonCopies, MonBase
<1> QED
  BY <1>1, RingWindowStep, CopyWindowStep, CacheWindowStep

(***************************************************************************)
(* The block reader.                                                       *)
(***************************************************************************)
LEMMA NewSteps ==
    ASSUME MonInv, [MonNext]_MonVars, Good, reader.who = "new"
    PROVE  \/ FwBegin \/ \E triggered \in BOOLEAN : FwEnd(triggered)
           \/ ClearBlocks \/ NextOfBuffer \/ Read_Monitor_Block_Px \/ BlockCopied
           \/ /\ UNCHANGED <<ring, lcl, lastCountRead, pend>>
              /\ fw'.blk = fw.blk /\ fw'.stored = fw.stored
              /\ UNCHANGED rd \/ rd'.pc = "clear"
<1>0. /\ StepSound /\ DOMAIN rd = ReadFields /\ fw \in FwStates
      /\ rd.pc \notin {"cache", "dma", "dma2", "marks", "head", "words", "check", "eom"}
  BY DEF MonInv, MonCopies, MonBase, StepSound, MonTypeOK, ReadType, RingType
<1>1. ASSUME Run_MON_Px \/ Stop_Px \/ UNCHANGED MonVars
      PROVE  /\ UNCHANGED <<ring, lcl, lastCountRead, pend, rd>>
             /\ fw'.blk = fw.blk /\ fw'.stored = fw.stored
  BY <1>0, <1>1 DEF Run_MON_Px, Stop_Px, MonVars, Host, FwStates
<1>2. ASSUME Clear_Msg_Blks_Px
      PROVE  /\ UNCHANGED <<ring, lcl, lastCountRead, pend, fw>> /\ rd'.pc = "clear"
  BY <1>0, <1>2 DEF Clear_Msg_Blks_Px, Host, ReadFields
<1>3. ASSUME NEW who \in {"nios", "irig", "bcm", "rtm", "old", "wide"}, CallReader(who) PROVE FALSE
  BY <1>3 DEF CallReader
<1>4. ASSUME NEW b \in BlockNums, Get_Message_Px(b) PROVE FALSE
  BY <1>4 DEF Get_Message_Px
<1>5. ~CopyHead /\ ~CopyWords /\ ~CopyAgain /\ ~ClearEom /\ ~GetMessageEnds
  BY <1>0 DEF CopyHead, CopyWords, CopyAgain, ClearEom, GetMessageEnds
<1>6. /\ ~OldStatusAgain /\ ~OldClearEom /\ ~Get_DmaMonBlockCopy_Px
      /\ ~FetchHeads /\ ~FetchWords /\ ~FetchFails /\ ~ClearFetched
  BY <1>0 DEF OldStatusAgain, OldClearEom, Get_DmaMonBlockCopy_Px, FetchHeads, FetchWords,
     FetchFails, ClearFetched
<1> QED
  BY <1>1, <1>2, <1>3, <1>4, <1>5, <1>6, HostSteps

\* Where the block reader begins: at the oldest message it has not read.
LEMMA FirstIs ==
    ASSUME MonTypeOK, NEW s \in Nat, NEW r \in Nat, NEW n \in Nat, n < MonBlocks, n >= 1,
           s = r + n, fw.blk = s % MonBlocks, NEW first, first = r % MonBlocks
    PROVE  first \in BlockNums /\ Behind(first) = n
<1>1. MonBlocks \in Nat \ {0} /\ n \in 0..(MonBlocks - 1) /\ MonBlocks - 1 \in Nat
  BY MonRingAssumption
<1>2. first \in 0..(MonBlocks - 1)
  BY <1>1, Quotient
<1>3. fw.blk = IF first + n < MonBlocks THEN first + n ELSE first + n - MonBlocks
  BY <1>1, Further
<1> QED
  BY <1>1, <1>2, <1>3 DEF Behind, BlockNums

\* The firmware's message count and the reader's.
NewCounts ==
    /\ Len(pend) < MonBlocks /\ fw.blk = fw.stored % MonBlocks
    /\ lcl \in Seq(MonBlock) /\ Len(lcl) <= Len(pend)
    /\ lastCountRead \in Nat /\ fw.stored = lastCountRead + Len(pend) - Len(lcl)
    /\ \A i \in 1..Len(lcl) : lcl[i].tag = pend[i] /\ lcl[i].words = pend[i]
    /\ \A b \in BlockNums : Behind(b) <= Len(pend) =>
          ring[b].eom /\ ring[b].cnt = fw.stored - Behind(b)
NewBlock ==
    /\ lcl = <<>> /\ rd.first \in BlockNums /\ Behind(rd.first) = Len(pend)
    /\ rd.cc \in Nat /\ rd.cc >= lastCountRead /\ rd.cc < lastCountRead + MonBlocks
    /\ rd.bufs \in Seq(MonBlock) /\ rd.bufs # <<>> /\ Len(rd.bufs) <= Len(pend)
    /\ rd.first + Len(rd.bufs) <= MonBlocks
    /\ \A i \in 1..Len(rd.bufs) : rd.bufs[i].eom /\ rd.bufs[i].tag = pend[i]

\* A message is stored.
LEMMA NewStored ==
    ASSUME MonInv, Good, Good', NewCounts, reader.who = "new", NEW triggered \in BOOLEAN,
           FwEnd(triggered), ~(fw.armed /\ ~triggered)
    PROVE  NewCounts' /\ (NewBlock => NewBlock')
<1>0. /\ MonTypeOK /\ fw.blk \in BlockNums /\ fw.stored \in Nat /\ pend \in Seq(Nat)
      /\ Len(pend) \in Nat /\ MonBlocks \in Nat \ {0} /\ MonBlocks > 1
      /\ Len(lcl) \in Nat
  BY MonRingAssumption DEF MonInv, MonCopies, MonBase, MonTypeOK, RingType, FwStates, PendSound,
     NewCounts
<1>1. /\ \A b \in BlockNums : b # fw.blk => ring'[b] = ring[b]
      /\ ring'[fw.blk].eom /\ ring'[fw.blk].cnt = fw.stored
      /\ fw'.blk = (fw.blk + 1) % MonBlocks /\ fw'.stored = fw.stored + 1
      /\ pend' = Append(pend, fw.n)
      /\ past'.lapped = (past.lapped \/ (reader.who = "new" /\ Len(pend) + 1 >= MonBlocks))
      /\ \A f \in ReadFields \ {"again"} : rd'[f] = rd[f]
  BY <1>0, FwEndDoes
<1>2. UNCHANGED <<lcl, lastCountRead>>
  BY DEF FwEnd, Host
<1>3. /\ Len(pend') = Len(pend) + 1 /\ \A i \in 1..Len(pend) : pend'[i] = pend[i]
  BY <1>0, <1>1
<1>4. Len(pend) + 1 < MonBlocks
  <2>1. ~past'.lapped
    BY DEF Good
  <2>2. ~(Len(pend) + 1 >= MonBlocks)
    BY <1>1, <2>1
  <2> QED BY <1>0, <2>2
<1>5. fw'.blk = fw'.stored % MonBlocks
  <2>1. 1 \in 0..(MonBlocks - 1)
    BY <1>0
  <2>2. (fw.stored + 1) % MonBlocks = IF (fw.stored % MonBlocks) + 1 < MonBlocks
                                      THEN (fw.stored % MonBlocks) + 1
                                      ELSE (fw.stored % MonBlocks) + 1 - MonBlocks
    BY <1>0, <2>1, Further
  <2>3. fw.blk = fw.stored % MonBlocks
    BY DEF NewCounts
  <2>4. fw'.blk = IF fw.blk = MonBlocks - 1 THEN 0 ELSE fw.blk + 1
    BY <1>0, <1>1, RingOrder
  <2>5. fw.blk \in 0..(MonBlocks - 1)
    BY <1>0 DEF BlockNums
  <2> QED BY <1>0, <1>1, <2>2, <2>3, <2>4, <2>5
<1>6. ASSUME NEW b \in BlockNums
      PROVE  /\ Behind(b) \in 1..MonBlocks
             /\ Behind(b)' = IF b = fw.blk THEN 1 ELSE Behind(b) + 1
             /\ Behind(b) = MonBlocks <=> b = fw.blk
  BY <1>0, <1>1, BehindIs
<1>7. ASSUME NEW b \in BlockNums, Behind(b)' <= Len(pend')
      PROVE  ring'[b].eom /\ ring'[b].cnt = fw'.stored - Behind(b)'
  <2>1. CASE b = fw.blk
    BY <1>0, <1>1, <1>6, <2>1
  <2>2. CASE b # fw.blk
    <3>1. Behind(b)' = Behind(b) + 1 /\ Behind(b) <= Len(pend) /\ Behind(b) \in Nat
      BY <1>0, <1>3, <1>6, <1>7, <2>2
    <3>2. ring[b].eom /\ ring[b].cnt = fw.stored - Behind(b)
      BY <3>1 DEF NewCounts
    <3>3. ring'[b].eom /\ ring'[b].cnt = fw.stored - Behind(b)
      BY <1>1, <2>2, <3>2
    <3>4. fw'.stored - Behind(b)' = fw.stored - Behind(b)
      BY <1>0, <1>1, <3>1
    <3> QED BY <3>3, <3>4
  <2> QED BY <2>1, <2>2
<1>8. /\ lcl' \in Seq(MonBlock) /\ Len(lcl') <= Len(pend') /\ lastCountRead' \in Nat
      /\ fw'.stored = lastCountRead' + Len(pend') - Len(lcl')
      /\ \A i \in 1..Len(lcl') : lcl'[i].tag = pend'[i] /\ lcl'[i].words = pend'[i]
  BY <1>0, <1>1, <1>2, <1>3 DEF NewCounts
<1>9. NewCounts'
  BY <1>0, <1>3, <1>4, <1>5, <1>7, <1>8 DEF NewCounts
<1>10. ASSUME NewBlock PROVE NewBlock'
  <2>1. rd'.first = rd.first /\ rd'.cc = rd.cc /\ rd'.bufs = rd.bufs
    BY <1>1 DEF ReadFields
  <2>2. Behind(rd.first)' = Len(pend')
    <3>1. rd.first \in BlockNums /\ Behind(rd.first) = Len(pend)
      BY <1>10 DEF NewBlock
    <3>2. PICK b \in BlockNums : b = rd.first
      BY <3>1
    <3>3. Behind(b)' = Behind(b) + 1
      BY <1>0, <1>4, <1>6, <3>1, <3>2
    <3> QED BY <1>3, <2>1, <3>1, <3>2, <3>3 DEF Behind
  <2>3. Len(rd.bufs) \in Nat /\ Len(rd.bufs) <= Len(pend)
    BY <1>10 DEF NewBlock
  <2>4. \A i \in 1..Len(rd.bufs) : rd.bufs[i].eom /\ rd.bufs[i].tag = pend'[i]
    BY <1>0, <1>3, <1>10, <2>3 DEF NewBlock
  <2>5. Len(rd.bufs) <= Len(pend')
    BY <1>0, <1>3, <2>3
  <2> QED BY <1>2, <1>10, <2>1, <2>2, <2>4, <2>5 DEF NewBlock
<1> QED
  BY <1>9, <1>10

\* A message is handed over from the buffer or from the blocks just read.
LEMMA NewHanded ==
    ASSUME MonInv, Good, NewCounts, reader.who = "new", NextOfBuffer \/ BlockCopied
    PROVE  NewCounts'
<1>0. /\ MonTypeOK /\ pend \in Seq(Nat) /\ Len(pend) \in Nat /\ fw.stored \in Nat
      /\ UNCHANGED <<fw, ring>> /\ lastCountRead \in Nat /\ Len(lcl) \in Nat
      /\ MonBlocks \in Nat
  <2>1. MonTypeOK /\ MonBlocks \in Nat
    BY MonRingAssumption DEF MonInv, MonCopies, MonBase
  <2>2. pend \in Seq(Nat) /\ Len(pend) \in Nat
    BY DEF MonInv, PendSound
  <2>3. fw.stored \in Nat
    BY <2>1 DEF MonTypeOK, RingType, FwStates
  <2>4. UNCHANGED <<fw, ring>>
    BY DEF NextOfBuffer, BlockCopied
  <2>5. lastCountRead \in Nat /\ Len(lcl) \in Nat
    BY DEF NewCounts
  <2> QED BY <2>1, <2>2, <2>3, <2>4, <2>5
<1>1. ASSUME Len(pend') = Len(pend) - 1, Len(pend) >= 1,
             lcl' \in Seq(MonBlock), Len(lcl') <= Len(pend'), lastCountRead' \in Nat,
             fw.stored = lastCountRead' + Len(pend') - Len(lcl'),
             \A i \in 1..Len(lcl') : lcl'[i].tag = pend'[i] /\ lcl'[i].words = pend'[i]
      PROVE  NewCounts'
  <2>1. \A b \in BlockNums : Behind(b)' = Behind(b) /\ Behind(b) \in Nat
    BY <1>0, BehindIs
  <2>2. \A b \in BlockNums : Behind(b)' <= Len(pend') =>
           ring'[b].eom /\ ring'[b].cnt = fw'.stored - Behind(b)'
    <3> SUFFICES ASSUME NEW b \in BlockNums, Behind(b)' <= Len(pend')
                 PROVE  ring'[b].eom /\ ring'[b].cnt = fw'.stored - Behind(b)'
      OBVIOUS
    <3>1. Behind(b)' = Behind(b) /\ Behind(b) <= Len(pend)
      BY <1>0, <1>1, <2>1
    <3> QED BY <1>0, <3>1 DEF NewCounts
  <2>3. Len(pend') < MonBlocks /\ fw'.blk = fw'.stored % MonBlocks
    BY <1>0, <1>1 DEF NewCounts
  <2> QED BY <1>0, <1>1, <2>2, <2>3 DEF NewCounts
<1>2. CASE NextOfBuffer
  <2>1. /\ Due(Head(lcl)) /\ HandsOver(Head(lcl)) /\ lcl' = Tail(lcl) /\ lcl # <<>>
        /\ UNCHANGED lastCountRead
    BY <1>2, DueBuffer DEF NextOfBuffer
  <2>2. /\ Len(pend') = Len(pend) - 1 /\ Len(pend) >= 1
        /\ \A i \in 1..Len(pend') : pend'[i] = pend[i + 1]
    BY <2>1, PendOutDoes
  <2>3. /\ lcl \in Seq(MonBlock) /\ Len(lcl) <= Len(pend)
        /\ fw.stored = lastCountRead + Len(pend) - Len(lcl)
        /\ \A i \in 1..Len(lcl) : lcl[i].tag = pend[i] /\ lcl[i].words = pend[i]
    BY DEF NewCounts
  <2>4. /\ lcl' \in Seq(MonBlock) /\ Len(lcl') = Len(lcl) - 1 /\ Len(lcl) >= 1
        /\ \A i \in 1..Len(lcl') : lcl'[i] = lcl[i + 1] /\ i + 1 \in 1..Len(lcl)
    BY <2>1, <2>3
  <2>5. ASSUME NEW i \in 1..Len(lcl') PROVE lcl'[i].tag = pend'[i] /\ lcl'[i].words = pend'[i]
    <3>1. lcl'[i] = lcl[i + 1] /\ lcl[i + 1].tag = pend[i + 1] /\ lcl[i + 1].words = pend[i + 1]
      BY <2>3, <2>4
    <3>2. i \in 1..Len(pend')
      BY <1>0, <2>2, <2>3, <2>4
    <3> QED BY <2>2, <3>1, <3>2
  <2> QED BY <1>0, <1>1, <2>1, <2>2, <2>3, <2>4, <2>5
<1>3. CASE BlockCopied
  <2>1. /\ Due(Head(Read)) /\ HandsOver(Head(Read)) /\ lcl' = Tail(Read)
        /\ lastCountRead' = lastCountRead + Len(Read)
    BY <1>3, DueBlock
  <2>2. /\ Len(pend') = Len(pend) - 1 /\ Len(pend) >= 1
        /\ \A i \in 1..Len(pend') : pend'[i] = pend[i + 1]
    BY <2>1, PendOutDoes
  <2>3. /\ Read \in Seq(MonBlock) /\ Read # <<>> /\ Len(Read) \in Nat
        /\ Len(Read) >= 1 /\ Len(Read) <= Len(pend)
        /\ \A i \in 1..Len(Read) : Read[i].tag = pend[i] /\ Read[i].words = pend[i]
    BY <1>3, ReadIs
  <2>4. Len(lcl) = 0 /\ fw.stored = lastCountRead + Len(pend)
    <3>1. lcl = <<>>
      BY <1>3 DEF MonInv, NewSound, BlockCopied
    <3> QED BY <1>0, <3>1 DEF NewCounts
  <2> HIDE DEF Read
  <2>5. /\ lcl' \in Seq(MonBlock) /\ Len(lcl') = Len(Read) - 1
        /\ \A i \in 1..Len(lcl') : lcl'[i] = Read[i + 1] /\ i + 1 \in 1..Len(Read)
    BY <2>1, <2>3
  <2>6. ASSUME NEW i \in 1..Len(lcl') PROVE lcl'[i].tag = pend'[i] /\ lcl'[i].words = pend'[i]
    <3>1. lcl'[i] = Read[i + 1] /\ Read[i + 1].tag = pend[i + 1] /\ Read[i + 1].words = pend[i + 1]
      BY <2>3, <2>5
    <3>2. i \in 1..Len(pend')
      BY <1>0, <2>2, <2>3, <2>5
    <3> QED BY <2>2, <3>1, <3>2
  <2>7. /\ Len(lcl') <= Len(pend') /\ lastCountRead' \in Nat
        /\ fw.stored = lastCountRead' + Len(pend') - Len(lcl')
    BY <1>0, <2>1, <2>2, <2>3, <2>4, <2>5
  <2> QED BY <1>0, <1>1, <2>2, <2>5, <2>6, <2>7
<1> QED
  BY <1>2, <1>3

\* The blocks the count asks for.
LEMMA NewRead ==
    ASSUME MonInv, Good, NewCounts, reader.who = "new", Read_Monitor_Block_Px
    PROVE  NewCounts' /\ NewBlock'
<1>0. /\ MonTypeOK /\ pend \in Seq(Nat) /\ Len(pend) \in Nat /\ fw.stored \in Nat
      /\ lcl = <<>> /\ fw.stored # lastCountRead /\ lastCountRead \in Nat
      /\ UNCHANGED <<fw, ring, pend, lcl, lastCountRead>> /\ MonBlocks \in Nat
      /\ \A b \in BlockNums : ring[b] \in MonBlock
  BY MonRingAssumption DEF MonInv, MonCopies, MonBase, PendSound, NewCounts, Read_Monitor_Block_Px, Host,
     MonTypeOK, RingType, FwStates
<1>1. NewCounts'
  BY <1>0 DEF NewCounts, Behind
<1>2. /\ Len(pend) < MonBlocks /\ fw.stored = lastCountRead + Len(pend) /\ Len(pend) >= 1
  <2>1. Len(lcl) = 0
    BY <1>0
  <2>2. Len(pend) < MonBlocks /\ fw.stored = lastCountRead + Len(pend) - Len(lcl)
    BY DEF NewCounts
  <2> QED BY <1>0, <2>1, <2>2
<1>3. ~Overwritten(fw.stored)
  BY <1>0, <1>2 DEF Overwritten
<1>4. PICK first : first = FirstEntry(fw.stored)
  OBVIOUS
<1>5. first \in BlockNums /\ Behind(first) = Len(pend)
  <2>1. first = lastCountRead % MonBlocks
    BY <1>3, <1>4 DEF FirstEntry
  <2>2. fw.blk = fw.stored % MonBlocks
    BY DEF NewCounts
  <2> QED BY <1>0, <1>2, <2>1, <2>2, FirstIs
<1>6. PICK n : n = ToRead(fw.stored)
  OBVIOUS
<1>7. n \in Nat /\ n >= 1 /\ n <= Len(pend) /\ first + n <= MonBlocks /\ first \in Nat
  <2>1. PICK room : room = BankEnd(first) - first + 1
    OBVIOUS
  <2>2. room \in Nat /\ room >= 1 /\ first + room <= MonBlocks /\ first \in Nat
    <3>1. PICK e \in BlockNums : e = BankEnd(first) /\ first <= e
      BY <1>5, BankEndIs
    <3>2. e \in Nat /\ e <= MonBlocks - 1 /\ first \in Nat
      BY <1>0, <1>5, <3>1 DEF BlockNums
    <3> QED BY <1>0, <2>1, <3>1, <3>2
  <2>3. n = IF fw.stored - lastCountRead > room THEN room ELSE fw.stored - lastCountRead
    BY <1>3, <1>4, <1>6, <2>1 DEF ToRead
  <2> QED BY <1>0, <1>2, <2>2, <2>3
<1>8. PICK bufs : bufs = [i \in 1..n |-> Head1(Empty, ring[first + i - 1])]
  OBVIOUS
<1>9. ASSUME NEW i \in 1..n PROVE bufs[i] \in MonBlock /\ bufs[i].eom /\ bufs[i].tag = pend[i]
  <2>1. PICK d \in Nat : d = i - 1 /\ d < n
    BY <1>7
  <2>2. first + d \in BlockNums /\ Behind(first + d) = Len(pend) - d /\ first + i - 1 = first + d
    <3>1. first + d < MonBlocks /\ d < Behind(first) /\ first + i - 1 = first + d
      BY <1>0, <1>5, <1>7, <2>1
    <3> QED BY <1>0, <1>5, <2>1, <3>1, BehindOn
  <2>3. PICK b \in BlockNums : b = first + i - 1 /\ Behind(b) = Len(pend) - d
    BY <2>2
  <2>4. Behind(b) <= Len(pend) /\ Len(pend) - Behind(b) + 1 = i
    BY <1>0, <1>7, <2>1, <2>3
  <2>5. ring[b].tag = pend[i]
    BY <2>4 DEF MonInv, PendSound
  <2>6. ring[b].eom
    BY <2>4 DEF NewCounts
  <2>7. bufs[i] = Head1(Empty, ring[b])
    BY <1>8, <2>3
  <2> QED BY <1>0, <2>5, <2>6, <2>7, EmptyBlock, Copying
<1>10. bufs \in Seq(MonBlock) /\ Len(bufs) = n /\ bufs # <<>>
  <2>1. bufs = [i \in 1..n |-> bufs[i]]
    BY <1>8
  <2>2. bufs \in [1..n -> MonBlock]
    BY <1>9, <2>1
  <2> QED BY <1>7, <2>2
<1>11. rd'.first = first /\ rd'.cc = fw.stored /\ rd'.bufs = bufs
  <2>1. rd' = [Resting EXCEPT !.pc = "block", !.cc = fw.stored, !.first = first, !.bufs = bufs]
    BY <1>4, <1>6, <1>8 DEF Read_Monitor_Block_Px
  <2> QED BY <2>1 DEF Resting
<1>12. Behind(rd.first)' = Behind(first)
  BY <1>0, <1>11 DEF Behind
<1>13. NewBlock'
  BY <1>0, <1>2, <1>5, <1>7, <1>9, <1>10, <1>11, <1>12 DEF NewBlock
<1> QED
  BY <1>1, <1>13

\* NewSound is kept.
LEMMA NewSoundStep == MonInv /\ [MonNext]_MonVars => NewSound'
<1> SUFFICES ASSUME MonInv, [MonNext]_MonVars, Good', reader'.who = "new"
             PROVE  NewCounts' /\ (rd'.pc = "block" => NewBlock')
  BY DEF NewSound, NewCounts, NewBlock
<1>0. /\ Good /\ UNCHANGED reader /\ reader.who = "new" /\ MonTypeOK /\ RingSound /\ StepSound
      /\ pend \in Seq(Nat) /\ Len(pend) \in Nat /\ DOMAIN rd = ReadFields
      /\ fw.blk \in BlockNums /\ MonBlocks \in Nat /\ fw.n \in Nat /\ fw.stored \in Nat
  BY GoodBefore, ReaderKept, MonRingAssumption
  DEF MonInv, MonCopies, MonBase, PendSound, MonTypeOK, ReadType, RingType, FwStates
<1>1. NewCounts /\ (rd.pc = "block" => NewBlock)
  BY <1>0 DEF MonInv, NewSound, NewCounts, NewBlock
\* Blocks that are not pending do not matter.
<1>2. ASSUME UNCHANGED <<lcl, lastCountRead, pend>>, fw'.blk = fw.blk, fw'.stored = fw.stored,
             \A b \in BlockNums : b # fw.blk => ring'[b] = ring[b],
             /\ rd'.pc = "block" => rd.pc = "block" /\ rd'.first = rd.first /\ rd'.cc = rd.cc
                                    /\ rd'.bufs = rd.bufs
      PROVE  NewCounts' /\ (rd'.pc = "block" => NewBlock')
  <2>1. \A b \in BlockNums : Behind(b)' = Behind(b) /\ (Behind(b) <= Len(pend) => b # fw.blk)
    <3>1. Len(pend) < MonBlocks
      BY <1>1 DEF NewCounts
    <3>2. \A b \in BlockNums : Behind(b)' = Behind(b) /\ (Behind(b) = MonBlocks <=> b = fw.blk)
      BY <1>0, <1>2, BehindIs
    <3>3. \A b \in BlockNums : b = fw.blk => ~(Behind(b) <= Len(pend))
      BY <1>0, <3>1, <3>2
    <3> QED BY <3>2, <3>3
  <2>2. NewCounts'
    BY <1>1, <1>2, <2>1 DEF NewCounts
  <2>3. rd'.pc = "block" => NewBlock'
    BY <1>1, <1>2 DEF NewBlock, Behind
  <2> QED BY <2>2, <2>3
<1>3. CASE FwBegin
  <2>1. /\ UNCHANGED <<lcl, lastCountRead, pend, rd>>
    BY <1>3 DEF FwBegin, Host
  <2> QED BY <1>0, <1>2, <1>3, <2>1, FwBeginDoes
<1>4. ASSUME NEW triggered \in BOOLEAN, FwEnd(triggered)
      PROVE  NewCounts' /\ (rd'.pc = "block" => NewBlock')
  <2>1. CASE fw.armed /\ ~triggered
    <3>1. /\ rd'.pc = rd.pc /\ rd'.first = rd.first /\ rd'.cc = rd.cc /\ rd'.bufs = rd.bufs
          /\ fw'.blk = fw.blk /\ fw'.stored = fw.stored /\ UNCHANGED pend
          /\ \A b \in BlockNums : b # fw.blk => ring'[b] = ring[b]
      BY <1>0, <1>4, <2>1, FwEndDoes DEF ReadFields
    <3>2. UNCHANGED <<lcl, lastCountRead>>
      BY <1>4 DEF FwEnd, Host
    <3> QED BY <1>2, <3>1, <3>2
  <2>2. CASE ~(fw.armed /\ ~triggered)
    <3>1. rd'.pc = rd.pc
      BY <1>0, <1>4, FwEndDoes DEF ReadFields
    <3> QED BY <1>0, <1>1, <1>4, <2>2, <3>1, NewStored
  <2> QED BY <2>1, <2>2
<1>5. CASE ClearBlocks
  <2>1. /\ past'.cleared = fw.n /\ pend' = <<>> /\ rd' = Resting
        /\ UNCHANGED <<fw, lcl, lastCountRead>>
    BY <1>0, <1>5, BlocksCleared DEF ClearBlocks
  <2>2. fw.n = 0
    BY <1>0, <2>1 DEF Good, StaleCopy
  <2>3. Len(pend) = 0
    <3> SUFFICES ASSUME Len(pend) # 0 PROVE FALSE
      OBVIOUS
    <3>1. 1 \in 1..Len(pend)
      BY <1>0
    <3>2. pend[1] # 0 /\ Ended(pend[1]) /\ pend[1] \in Nat
      BY <1>0, <3>1 DEF MonInv, PendSound
    <3> QED BY <2>2, <3>2 DEF Ended
  <2>4. Len(pend') = 0
    BY <2>1
  <2>5. \A b \in BlockNums : ~(Behind(b)' <= Len(pend'))
    BY <1>0, <2>1, <2>4, BehindIs
  <2>6. Len(lcl) \in Nat /\ Len(lcl) = 0
    BY <1>1, <2>3 DEF NewCounts
  <2>7. NewCounts'
    BY <1>0, <1>1, <2>1, <2>3, <2>4, <2>5, <2>6 DEF NewCounts
  <2> QED BY <2>1, <2>7, RestingIs
<1>6. CASE NextOfBuffer \/ BlockCopied
  <2>1. \E c : HandsOver(c)
    BY <1>0, <1>6, DueBuffer, DueBlock
  <2>2. rd'.pc = "idle"
    BY <2>1, HandedOverIs, RestingIs
  <2> QED BY <1>0, <1>1, <1>6, <2>2, NewHanded
<1>7. CASE Read_Monitor_Block_Px
  BY <1>0, <1>1, <1>7, NewRead
<1>8. CASE /\ UNCHANGED <<ring, lcl, lastCountRead, pend>>
           /\ fw'.blk = fw.blk /\ fw'.stored = fw.stored
           /\ UNCHANGED rd \/ rd'.pc = "clear"
  BY <1>2, <1>8
<1> QED
  BY <1>0, <1>3, <1>4, <1>5, <1>6, <1>7, <1>8, NewSteps

(***************************************************************************)
(* The invariant.                                                          *)
(***************************************************************************)
LEMMA MonInvInit == MonInit => MonInv /\ HandedInOrder /\ RefusedGone
<1> SUFFICES ASSUME MonInit PROVE MonInv /\ HandedInOrder /\ RefusedGone
  OBVIOUS
<1>0. MonBase
  BY MonBaseInit
<1>1. /\ \A b \in BlockNums : ~ring[b].eom /\ ~ring[b].trig
      /\ fw.n = 0 /\ ~fw.writing /\ fw.blk = 0 /\ fw.stored = 0 /\ ~fw.armed
      /\ rd.pc = "idle" /\ ~rd.old /\ ~wait_for_trigger /\ nextblock = 0 /\ lastmsgttag = 0
      /\ lastCountRead = 0 /\ lcl = <<>> /\ pend = <<>> /\ out = NoOut
      /\ past.handed = 0 /\ past.refused = 0 /\ ~past.twice /\ start = ~Sequential
      /\ ~dmaBuffer.valid
  BY RestingIs DEF MonInit, Empty
<1>2. ~InCopy /\ ~CacheFilled
  BY <1>1 DEF InCopy, CacheFilled
<1>3. HandedGone /\ CacheSound /\ RefusedGone
  BY <1>1, <1>2 DEF HandedGone, CacheSound, RefusedGone, Gone, Ended
<1>4. MonTypeOK /\ MonBlocks \in Nat \ {0} /\ Len(pend) = 0 /\ pend \in Seq(Nat) /\ Len(lcl) = 0
      /\ lcl \in Seq(MonBlock)
  BY <1>0, <1>1, MonRingAssumption DEF MonBase
<1>5. \A b \in BlockNums : ~(Behind(b) <= Len(pend))
  BY <1>4, BehindIs
<1>6. PendSound
  BY <1>1, <1>4, <1>5 DEF PendSound
<1>7. FreshSound /\ ArmedSound
  BY <1>1, <1>2 DEF FreshSound, ArmedSound
<1>8. WindowSound
  BY <1>1, <1>2 DEF WindowSound, RingWindow, CopyWindow, CacheWindow
<1>9. NewSound
  <2>1. fw.blk = fw.stored % MonBlocks
    <3>1. 0 \in 0..(MonBlocks - 1) /\ 0 * MonBlocks + 0 = 0
      BY <1>4
    <3>2. (0 * MonBlocks + 0) % MonBlocks = 0
      BY <1>4, <3>1, Remainder
    <3> QED BY <1>1, <3>1, <3>2
  <2> QED BY <1>1, <1>4, <1>5, <2>1 DEF NewSound
<1>10. HandedInOrder
  BY <1>1 DEF HandedInOrder
<1> QED
  BY <1>0, <1>3, <1>6, <1>7, <1>8, <1>9, <1>10 DEF MonInv, MonCopies

\* MonInv is inductive.
LEMMA MonInvStep == MonInv /\ [MonNext]_MonVars => MonInv'
<1> SUFFICES ASSUME MonInv, [MonNext]_MonVars PROVE MonInv'
  OBVIOUS
<1>1. MonCopies /\ MonBase /\ MonTypeOK /\ CacheRange /\ RingSound /\ StepSound /\ CopySound
      /\ HandedGone /\ CacheSound /\ FreshSound
  BY DEF MonInv, MonCopies, MonBase
<1>2. MonBase' /\ HandedGone' /\ CacheSound'
  BY <1>1, MonBaseStep, HandedGoneStep, CacheSoundStep
<1>3. PendSound' /\ FreshSound' /\ ArmedSound'
  BY <1>1, PendSoundStep, FreshSoundStep, ArmedSoundStep
<1>4. WindowSound' /\ NewSound'
  BY WindowSoundStep, NewSoundStep
<1> QED
  BY <1>2, <1>3, <1>4 DEF MonInv, MonCopies

(***************************************************************************)
(* The monitor.                                                            *)
(***************************************************************************)
\* Whatever the firmware does during a call, the message handed over is one
\* message, but for the readers named in the property (Read_Block_Px and the
\* second look of Get_Next_Mon_Message_Px in monseq.c), for a ring and a copy
\* of any size and any number of messages.
THEOREM MonNeverMixes == MonSpec => []NeverMixed
<1>1. MonInit => MonBase /\ NeverMixed
  BY MonBaseInit DEF MonInit, NoOut, NeverMixed
<1>2. MonBase /\ NeverMixed /\ [MonNext]_MonVars => (MonBase /\ NeverMixed)'
  BY MonBaseStep, NeverMixedStep DEF MonBase
<1> QED
  BY <1>1, <1>2, PTL DEF MonSpec

\* A message refused because its time tag went back is not refused again, for
\* its END_OF_MSG is gone from the ring (Get_Next_Mon_Message_Px).
THEOREM MonRefusesOnce == MonSpec => []RefusedOnce
<1>1. MonInit => MonBase /\ RefusedGone
  <2> SUFFICES ASSUME MonInit PROVE MonBase /\ RefusedGone
    OBVIOUS
  <2>1. MonBase
    BY MonBaseInit
  <2>2. /\ \A b \in BlockNums : ~ring[b].eom
        /\ fw.n = 0 /\ ~fw.writing /\ rd.pc = "idle" /\ past.refused = 0 /\ ~past.twice
    BY RestingIs DEF MonInit, Empty
  <2> QED BY <2>1, <2>2 DEF RefusedGone, Gone, Ended, InCopy
<1>2. MonBase /\ RefusedGone /\ [MonNext]_MonVars => (MonBase /\ RefusedGone)'
  BY MonBaseStep, RefusedGoneStep DEF MonBase
<1>3. MonBase /\ RefusedGone => RefusedOnce
  BY DEF MonBase, RefusedGone, RefusedOnce
<1> QED
  BY <1>1, <1>2, <1>3, PTL DEF MonSpec

\* Until the firmware laps the reader, a transfer fails or the ring is cleared
\* under a copy that stays, every stored message is handed over, in order, by
\* the direct readers, through the DMA copy and by the block reader alike; after
\* a lap none goes back; and a refused message is refused once.  The 32-bit reader
\* in a ring longer than the regular one, which it goes round too early (CutShort),
\* need not hand over everything, but does not go back either.
THEOREM MonFollowsBus == MonSpec => []MonitorFollowsBus
<1>1. MonInit => MonInv /\ HandedInOrder /\ RefusedGone
  BY MonInvInit
<1>2. MonInv /\ HandedInOrder /\ RefusedGone /\ [MonNext]_MonVars
      => (MonInv /\ HandedInOrder /\ RefusedGone)'
  BY MonInvStep, HandedInOrderStep, RefusedGoneStep DEF MonInv, MonCopies, MonBase
<1>3. MonInv /\ HandedInOrder /\ RefusedGone => MonitorFollowsBus
  BY DEF MonInv, MonCopies, MonBase, RefusedGone, RefusedOnce, MonitorFollowsBus
<1> QED
  BY <1>1, <1>2, <1>3, PTL DEF MonSpec
=============================================================================

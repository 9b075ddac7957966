----------------------------- MODULE PxTransfer -----------------------------
(***************************************************************************)
(* mPerformDMARead and mPerformDMAWrite of deviceio.c: a transfer between  *)
(* a buffer and a module's memory is done in up to three pieces, because   *)
(* the hardware moves aligned units of eight bytes only: up to the next    *)
(* boundary by the processor, the middle by DMA (by the processor when     *)
(* shorter than 16 bytes), the rest by the processor.  With a repeat code  *)
(* every unit of that width is at the same address.                        *)
(*                                                                         *)
(* A byte moved is a pair: its place in the buffer and its place in the    *)
(* module's memory.  Modules start at multiples of eight.                  *)
(***************************************************************************)
EXTENDS Integers, FiniteSets

CONSTANTS
    Offsets,      \* pAddressOnCard
    TransferLens, \* dwLengthInBytes
    LongChunk     \* FOUR_K_BYTES of PerformLongDMARead

\* Pieces of a long read have a length that mPerformDMARead accepts.
ASSUME TransferAssumption ==
    /\ Offsets \subseteq Nat /\ TransferLens \subseteq Nat
    /\ LongChunk \in Nat \ {0} /\ LongChunk % 8 = 0

VARIABLES
    req,          \* the call: long, write, afdx, code (0 none, else unit in bytes),
                  \* off, len
    sent,         \* bytes asked for so far, all unless the call is long
    stage,        \* what it does next, or how it ended
    left,         \* dwLengthInBytes, as it goes down
    bufPos,       \* pBuffer, from the caller's
    modPos,       \* dwModOffset
    moved         \* bytes moved so far

TransferVars == <<req, sent, stage, left, bufPos, modPos, moved>>

\* n bytes from the two places on.
Span(buf, place, n) == {<<buf + i, place + i>> : i \in 0..(n - 1)}
\* n bytes of the buffer, all of them at one unit of w bytes.
Repeat(buf, place, n, w) == {<<buf + i, place + (i % w)>> : i \in 0..(n - 1)}

\* The parameters are checked.
Accepts(r) == \/ r.code = 2 /\ r.len % 2 = 0
              \/ r.code = 4 /\ r.len % 4 = 0
              \/ r.code \in {0, 8} /\ (r.len % 8 = 0 \/ r.afdx)
\* Bytes up to the boundary: the last bytes of one double word, then, when
\* there are four or more, a whole one.
ToBoundary == 8 - (modPos % 8)
DoubleWord == 4 * (modPos \div 4)
AlignPieceSameWord ==
    LET part == IF ToBoundary >= 4 THEN ToBoundary - 4 ELSE ToBoundary
    IN Span(bufPos, DoubleWord + 4 - part, part)
         \cup (IF ToBoundary >= 4 THEN Span(bufPos + part, DoubleWord, 4) ELSE {})
AlignPiece ==
    LET part == IF ToBoundary >= 4 THEN ToBoundary - 4 ELSE ToBoundary
        full == IF part > 0 THEN DoubleWord + 4 ELSE DoubleWord
    IN Span(bufPos, DoubleWord + 4 - part, part)
         \cup (IF ToBoundary >= 4 THEN Span(bufPos + part, full, 4) ELSE {})

\* A length smaller than the piece goes below zero, an unsigned value.
Align ==
    /\ stage = "align" /\ req.code = 0
    /\ \/ /\ modPos % 8 = 0
          /\ stage' = "middle"
          /\ UNCHANGED <<left, bufPos, modPos, moved>>
       \/ /\ modPos % 8 # 0
          /\ moved' = moved \cup AlignPiece
          /\ stage' = IF left < ToBoundary THEN "wild" ELSE "middle"
          /\ left' = left - ToBoundary
          /\ bufPos' = bufPos + ToBoundary
          /\ modPos' = modPos + ToBoundary
    /\ UNCHANGED <<req, sent>>
\* With a repeat code the units over eight bytes go first.  The byte offset is
\* added to a pointer to words or double words.
RepeatLeading ==
    /\ stage = "align" /\ req.code # 0
    /\ stage' = "middle"
    /\ LET n == IF req.code = 8 THEN 0 ELSE left % 8
       IN /\ moved' = moved \cup Repeat(bufPos, modPos * req.code, n, req.code)
          /\ left' = left - n
          /\ bufPos' = bufPos + n
    /\ UNCHANGED <<req, sent, modPos>>

\* The middle: whole units of eight.  Of less than 16 bytes the processor moves
\* words (double words on AFDX), beginning with the one that the offset lies in,
\* with a repeat code all at one address; more goes through the driver, which
\* may move less.  With no middle the count that is then compared was never set.
Rest == IF left % 8 = 0 THEN "ok" ELSE "leftover"
UnitMoved == IF req.afdx THEN 4 ELSE 2
UnitStart == modPos - (modPos % UnitMoved)
Whole == left - (left % 8)
MiddleByHand ==
    /\ stage = "middle" /\ Whole > 0 /\ Whole < 16
    /\ moved' = moved \cup IF req.code = 0 THEN Span(bufPos, UnitStart, Whole)
                           ELSE Repeat(bufPos, UnitStart, Whole, UnitMoved)
    /\ stage' = Rest
    /\ UNCHANGED <<req, sent, left, bufPos, modPos>>
MiddleByDma ==
    /\ stage = "middle" /\ Whole >= 16
    /\ \/ /\ moved' = moved \cup IF req.code = 0 THEN Span(bufPos, modPos, Whole)
                                 ELSE Repeat(bufPos, modPos, Whole, req.code)
          /\ stage' = Rest
       \/ /\ stage' = "failed"
          /\ UNCHANGED moved
    /\ UNCHANGED <<req, sent, left, bufPos, modPos>>
NoMiddle ==
    /\ stage = "middle" /\ Whole = 0
    /\ stage' \in {Rest, "failed"}
    /\ UNCHANGED <<req, sent, left, bufPos, modPos, moved>>

\* The rest: two double words are looked at.  A write of no more than four
\* bytes puts as many again into the second.
LeftPiece ==
    LET n == left % 8  b == bufPos + Whole  c == DoubleWord + Whole
    IN Span(b, c, n) \cup IF req.write /\ n <= 4 THEN Span(b + n, c + 4, n) ELSE {}
Leftover ==
    /\ stage = "leftover"
    /\ moved' = moved \cup LeftPiece
    /\ stage' = "ok"
    /\ UNCHANGED <<req, sent, left, bufPos, modPos>>

\* PerformLongDMARead cuts a long read into pieces.
Chunk(n) == IF req.long /\ n > LongChunk THEN LongChunk ELSE n
PerformLongDMARead ==
    /\ stage = "ok" /\ sent < req.len
    /\ stage' = "align"
    /\ left' = Chunk(req.len - sent)
    /\ sent' = sent + left'
    /\ bufPos' = sent /\ modPos' = req.off + sent
    /\ UNCHANGED <<req, moved>>

TransferInit ==
    /\ req \in [long : BOOLEAN, write : BOOLEAN, afdx : BOOLEAN, code : {0, 2, 4, 8},
                off : Offsets, len : TransferLens]
    /\ req.long => ~req.write /\ ~req.afdx /\ req.code = 0
    /\ stage = IF Accepts(req) THEN "align" ELSE "refused"
    /\ left = Chunk(req.len) /\ sent = Chunk(req.len) /\ bufPos = 0 /\ modPos = req.off
    /\ moved = {}
TransferNext == Align \/ RepeatLeading \/ MiddleByHand \/ MiddleByDma \/ NoMiddle \/ Leftover
                \/ PerformLongDMARead
TransferSpec == TransferInit /\ [][TransferNext]_TransferVars

-----------------------------------------------------------------------------
\* What was asked for.
Wanted == IF req.code = 0 THEN Span(0, req.off, req.len)
          ELSE Repeat(0, req.off, req.len, req.code)
\* A read that reports success has moved the bytes asked for and no others,
\* wherever the boundaries lie and however it was cut; a write too, but one whose
\* last piece has at most four bytes also writes the double word after them.
\* With a repeat code this is so when the units over eight bytes are none or at
\* address zero, and the rest goes by DMA or in the processor's own units, one of
\* which begins at the address.
RepeatKnownGood ==
    /\ req.len % 8 = 0 \/ (req.off = 0 /\ req.code # 8)
    /\ req.len >= 16 \/ (req.code = UnitMoved /\ req.off % UnitMoved = 0)
TransferExact ==
    stage = "ok" /\ sent = req.len =>
        /\ req.code = 0 => /\ Wanted \subseteq moved
                           /\ \/ moved = Wanted
                              \/ req.write /\ (req.off + req.len) % 8 \in 1..4
        /\ req.code # 0 /\ RepeatKnownGood => moved = Wanted
=============================================================================

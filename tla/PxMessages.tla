---------------------------- MODULE PxMessages ----------------------------
(***************************************************************************)
(* The bus controller's message blocks and instruction stack as the        *)
(* library lays them out in the dual port RAM of a module whose board is   *)
(* stopped: Create_1553_Message_Px, Re_Create_Message_Px, the routines     *)
(* that alter or read a message, Create_Frame_Px and the routines that     *)
(* alter an entry of a frame.                                              *)
(*                                                                         *)
(* `mem' holds the words of the message blocks and of the registers that   *)
(* lie between two of them.  Of a control word it keeps the command code   *)
(* (the low four bits) and the bus bit, of a command word the word count   *)
(* (the low five bits) and the T/R bit; data words are 0.  A message is    *)
(* its entry of the host's tables msgalloc and commandtype.  Calls that    *)
(* return an error without changing anything are not steps.                *)
(***************************************************************************)
EXTENDS Integers, Sequences, FiniteSets

CONSTANTS
    Blocks,      \* the four message blocks: base address and size in words
    Cards,       \* the kinds of card: small (AMD on PCMCIA), expanded block mode,
                 \* an Intel whose firmware counts gaps in 250 ns
    Commands,    \* the calls' arguments: type, data[0] and data[1]
    Gaps,        \* gap times a frame entry may be given
    MsgMax,      \* MSGMAX
    MaxFrames,   \* MAXFRAMES
    StackLen,    \* entries of the instruction stack
    MaxCalls     \* bound on the calls of one behaviour

VARIABLES
    card,        \* the card the library was initialised for
    mem,         \* words of the message blocks in the dual port RAM
    msgs,        \* msgalloc and commandtype of the ids 1 .. nextid-1
    msgblock,    \* msg_block: the block being filled
    nextmsg,     \* nextmsg: the next free word of it
    stack,       \* the instruction stack
    nextstack,   \* index of the next free stack entry
    frames,      \* framealloc of the frames 0 .. nextframe-1
    freq,        \* frequencyModeON
    calls,       \* calls made so far
    touched,     \* history: the message the last call was about, the words it used
    entries,     \* history: the stack entries the last call named and changed
    sound        \* history: no call so far was one of the known strays

MsgVars == <<card, mem, msgs, msgblock, nextmsg, stack, nextstack, frames,
             freq, calls, touched, entries, sound>>

RT2BC == 0
BC2RT == 1
RT2RT == 2
MODE == 3
BRD_RCV == 4
BRD_RT2RT == 5
BRD_MODE == 6
SKIP == 7
JUMP == 8
MINOR_FRAME == 15
XMT_BUS_A == 128
CTL_SEND_ONCE == 8

Code(w) == w % 16                       \* COMMAND_CODE of a control word
WithCode(w, c) == w - Code(w) + c
Low3(w) == w % 8                        \* the `& 7' of the routines below
WordCount(w) == IF w % 32 = 0 THEN 32 ELSE w % 32
Transmits(w) == (w \div 1024) % 2 = 1   \* T/R bit of a command word

Ids == 1..Len(msgs)
BlockEnd(b) == Blocks[b].base + Blocks[b].size

\* gset.c lays the blocks out upwards; registers may lie between two of them.
ASSUME MsgAssumption ==
    /\ Blocks \in [1..4 -> [base : Nat, size : Nat]]
    /\ \A b \in 1..3 : BlockEnd(b) <= Blocks[b + 1].base
    /\ \A c \in Commands : c.type \in Nat /\ c.d0 \in Nat /\ c.d1 \in Nat
    /\ MsgMax \in Nat /\ MaxFrames \in Nat /\ StackLen \in Nat

\* No message is touched, no stack entry named.
NoTouch == [id |-> 0, words |-> {}]
NoEntry == [named |-> {}, changed |-> {}]

Call == calls < MaxCalls /\ calls' = calls + 1

(***************************************************************************)
(* Creating messages.                                                      *)
(***************************************************************************)
\* The switch on the command type: the T/R bits a type demands.
ValidCommand(type, d0, d1) ==
    CASE type \in {MINOR_FRAME, MODE, BRD_MODE} -> TRUE
      [] type \in {BRD_RCV, BC2RT} -> ~Transmits(d0)
      [] type = RT2BC -> Transmits(d0)
      [] type \in {BRD_RT2RT, RT2RT} -> ~Transmits(d0) /\ Transmits(d1)
      [] OTHER -> FALSE

\* Mutant of MessageSize: the second command word of BRD_RT2RT forgotten.
MessageSizeShort(type, d0) ==
    CASE type = MINOR_FRAME -> 0
      [] type \in {MODE, BRD_MODE} -> 3
      [] type = RT2RT -> WordCount(d0) + 4
      [] type = BRD_RCV -> WordCount(d0) + 1
      [] OTHER -> WordCount(d0) + 2

\* Words of a message after its control word.
MessageSize(type, d0) ==
    CASE type = MINOR_FRAME -> 0
      [] type \in {MODE, BRD_MODE} -> 3
      [] type = RT2RT -> WordCount(d0) + 4
      [] type = BRD_RT2RT -> WordCount(d0) + 3
      [] type = BRD_RCV -> WordCount(d0) + 1
      [] OTHER -> WordCount(d0) + 2

Fits(pos, size) == pos.ptr + size + 1 <= BlockEnd(pos.block)

\* One `if (msg_block == b)' of the allocator: on to the next block when the
\* message does not fit and the card has that block.
Advance(pos, b, size, has) ==
    IF pos.block = b /\ ~Fits(pos, size) /\ has
    THEN [block |-> b + 1, ptr |-> Blocks[b + 1].base]
    ELSE pos

Place(size) ==
    LET one == Advance([block |-> msgblock, ptr |-> nextmsg], 1, size, TRUE)
        two == Advance(one, 2, size, ~card.small)
    IN  Advance(two, 3, size, card.expanded)

\* Words of a message at p: control word, data[0], data[1], data words.
Written(m, p, control, size, d0, d1) ==
    [a \in DOMAIN m |-> CASE a = p -> control
                          [] a = p + 1 /\ size > 0 -> d0
                          [] a = p + 2 /\ size > 1 -> d1
                          [] a > p + 2 /\ a <= p + size -> 0
                          [] OTHER -> m[a]]

Create_1553_Message ==
    /\ Call
    /\ Len(msgs) + 1 < MsgMax
    /\ \E c \in Commands :
         LET size == MessageSize(c.type, c.d0)
             pos == Place(size)
         IN  /\ ValidCommand(c.type, c.d0, c.d1)
             /\ msgblock' = pos.block
             /\ IF Fits(pos, size)
                THEN /\ msgs' = Append(msgs, [addr |-> pos.ptr, type |-> c.type])
                     /\ mem' = Written(mem, pos.ptr, XMT_BUS_A + c.type, size, c.d0, c.d1)
                     /\ nextmsg' = pos.ptr + size + 1
                     /\ touched' = [id |-> Len(msgs) + 1,
                                    words |-> pos.ptr .. pos.ptr + size]
                ELSE /\ nextmsg' = pos.ptr       \* msgnospace
                     /\ touched' = NoTouch
                     /\ UNCHANGED <<msgs, mem>>
    /\ entries' = NoEntry
    /\ UNCHANGED <<card, stack, nextstack, frames, freq, sound>>

\* The first word after message i: the next message's, or the first free one.
NextPtr(i) == IF i = Len(msgs) THEN nextmsg ELSE msgs[i + 1].addr

\* The size the routine computes: unlike its switch, its comparisons take
\* the type with the flags the caller may add to it.
ReSize(cmdtype, d0) == IF cmdtype < 16 THEN MessageSize(cmdtype, d0)
                       ELSE WordCount(d0) + 2

\* The calls that are known to leave their message's words.
FlaggedTooSmall(c, size) == size < MessageSize(c.type, c.d0)
OverRegisters(p, size) ==
    \E b \in 1..3 : /\ p < BlockEnd(b) /\ p + size >= BlockEnd(b)
                    /\ BlockEnd(b) < Blocks[b + 1].base
LiveJump(i) == msgs[i].type = JUMP /\ Code(mem[msgs[i].addr]) = JUMP
OneWord(i) == msgs[i].type = MINOR_FRAME

Re_Create_Message ==
    /\ Call
    /\ \E i \in Ids, c \in Commands, flags \in {0, XMT_BUS_A} :
         LET cmdtype == c.type + flags
             size == ReSize(cmdtype, c.d0)
             p == msgs[i].addr
         IN  /\ ValidCommand(c.type, c.d0, c.d1)
             /\ p + size + 1 <= NextPtr(i)
             /\ msgs' = [msgs EXCEPT ![i].type = cmdtype]
             /\ mem' = Written(mem, p, cmdtype, size, c.d0, c.d1)
             /\ touched' = [id |-> i, words |-> p .. p + size]
             /\ sound' = (sound /\ ~FlaggedTooSmall(c, size)
                               /\ ~OverRegisters(p, size))
    /\ entries' = NoEntry
    /\ UNCHANGED <<card, msgblock, nextmsg, stack, nextstack, frames, freq>>

(***************************************************************************)
(* Using a message.                                                        *)
(***************************************************************************)
\* The type Alter_Message_Px, Read_Message_Px and Insert_Msg_Err_Px act on.
ActingType(i) == LET t == Low3(mem[msgs[i].addr])
                 IN  IF t = SKIP THEN msgs[i].type ELSE t

AlteredWords(i) ==
    LET p == msgs[i].addr
        t == ActingType(i)
        wc == WordCount(mem[p + 1])
        first == IF t \in {RT2RT, BRD_RT2RT} THEN p + 3 ELSE p + 2
        count == CASE t \in {MODE, BRD_MODE} -> 2
                   [] t = BRD_RCV -> wc
                   [] t = RT2RT -> wc + 2
                   [] OTHER -> wc + 1
    IN  first .. first + count - 1

Alter_Message ==
    /\ Call
    /\ \E i \in Ids :
         /\ ActingType(i) \notin {JUMP, MINOR_FRAME}
         /\ mem' = [a \in DOMAIN mem |-> IF a \in AlteredWords(i) THEN 0 ELSE mem[a]]
         /\ touched' = [id |-> i, words |-> AlteredWords(i)]
         /\ sound' = (sound /\ ~LiveJump(i))
    /\ entries' = NoEntry
    /\ UNCHANGED <<card, msgs, msgblock, nextmsg, stack, nextstack, frames, freq>>

\* Alter_Cmd_Px rewrites the RT and subaddress bits of the command word.
Alter_Cmd ==
    /\ Call
    /\ \E i \in Ids :
         /\ touched' = [id |-> i, words |-> {msgs[i].addr + 1}]
         /\ sound' = (sound /\ ~OneWord(i))
    /\ entries' = NoEntry
    /\ UNCHANGED <<card, mem, msgs, msgblock, nextmsg, stack, nextstack,
                   frames, freq>>

\* Words returned for the message at p, taken to be of type t.
ReadWords(p, t) ==
    LET wc == WordCount(mem[p + 1])
        count == CASE t = MODE -> 3
                   [] t = BRD_MODE -> 2
                   [] t = BRD_RCV -> wc + 1
                   [] t = RT2RT -> wc + 4
                   [] t = BRD_RT2RT -> wc + 3
                   [] OTHER -> wc + 2
    IN  IF t = JUMP THEN p .. p + 1 ELSE p + 1 .. p + count

Read_Message ==
    /\ Call
    /\ \E i \in Ids :
         /\ ActingType(i) # MINOR_FRAME
         /\ touched' = [id |-> i, words |-> ReadWords(msgs[i].addr, ActingType(i))]
         /\ sound' = (sound /\ ~LiveJump(i))
    /\ entries' = NoEntry
    /\ UNCHANGED <<card, mem, msgs, msgblock, nextmsg, stack, nextstack,
                   frames, freq>>

\* Get_BC_Msgentry_Px finds the message through the frame's entry; the id of
\* a skipped one is looked up by its address.
Get_BC_Msgentry ==
    /\ Call
    /\ \E f \in DOMAIN frames : \E k \in 0 .. frames[f].msgcnt - 1 :
         LET p == stack[frames[f].first + k].ptr
             i == CHOOSE j \in Ids : msgs[j].addr = p
             t == IF Low3(mem[p]) = SKIP THEN msgs[i].type ELSE Low3(mem[p])
         IN  /\ \E j \in Ids : msgs[j].addr = p
             /\ t # MINOR_FRAME
             /\ touched' = [id |-> i, words |-> ReadWords(p, t)]
             /\ sound' = (sound /\ ~LiveJump(i))
    /\ entries' = NoEntry
    /\ UNCHANGED <<card, mem, msgs, msgblock, nextmsg, stack, nextstack,
                   frames, freq>>

\* Control word changes of Set_Skip_Px, Set_Restore_Px and Send_Msg_Once_Px.
PutCode(i, code) == mem' = [mem EXCEPT ![msgs[i].addr] = WithCode(@, code)]

Set_Skip ==
    /\ Call
    /\ \E i \in Ids : /\ PutCode(i, SKIP)
                      /\ touched' = [id |-> i, words |-> {msgs[i].addr}]
    /\ entries' = NoEntry
    /\ UNCHANGED <<card, msgs, msgblock, nextmsg, stack, nextstack, frames,
                   freq, sound>>

Restorable(i) == msgs[i].type < SKIP /\ Code(mem[msgs[i].addr]) = SKIP

Set_Restore ==
    /\ Call
    /\ \E i \in Ids : /\ Restorable(i)
                      /\ PutCode(i, msgs[i].type)
                      /\ touched' = [id |-> i, words |-> {msgs[i].addr}]
    /\ entries' = NoEntry
    /\ UNCHANGED <<card, msgs, msgblock, nextmsg, stack, nextstack, frames,
                   freq, sound>>

\* CTL_SEND_ONCE is the bit that otherwise makes a jump.
Send_Msg_Once ==
    /\ Call
    /\ freq
    /\ \E i \in Ids : /\ Restorable(i)
                      /\ PutCode(i, msgs[i].type + CTL_SEND_ONCE)
                      /\ touched' = [id |-> i, words |-> {msgs[i].addr}]
    /\ entries' = NoEntry
    /\ UNCHANGED <<card, msgs, msgblock, nextmsg, stack, nextstack, frames,
                   freq, sound>>

\* Set_Jump_Px turns the message into a jump to a frame: its two words are
\* the frame's byte offset in the stack (eight bytes an entry) and a count.
Set_Jump ==
    /\ Call
    /\ \E i \in Ids, f \in DOMAIN frames :
         LET p == msgs[i].addr
             w == WithCode(mem[p], JUMP)
         IN  /\ \E cnt \in 0 .. frames[f].msgcnt :
                  mem' = [mem EXCEPT ![p] = w,
                                     ![p + 1] = (8 * frames[f].first) % 2048,
                                     ![p + 2] = IF cnt = 0 THEN frames[f].msgcnt ELSE cnt]
             /\ msgs' = [msgs EXCEPT ![i].type = JUMP]
             /\ touched' = [id |-> i, words |-> p .. p + 2]
             /\ sound' = (sound /\ ~OneWord(i))
    /\ entries' = NoEntry
    /\ UNCHANGED <<card, msgblock, nextmsg, stack, nextstack, frames, freq>>

(***************************************************************************)
(* Frames.                                                                 *)
(***************************************************************************)
\* The longest prefix of the ids that Create_Frame_Px writes to the stack:
\* it stops at an id never created, at the end of the stack and, before the
\* first entry, when there are MAXFRAMES frames.
Accepted(idl) ==
    LET good(n) == /\ Len(frames) < MaxFrames
                   /\ \A k \in 1..n : idl[k] \in Ids /\ nextstack + k <= StackLen
    IN  CHOOSE n \in 0..Len(idl) :
           good(n) /\ (n = Len(idl) \/ ~good(n + 1))

\* A zero id ends the frame; a frame of no messages passes every check.
Create_Frame ==
    /\ Call
    /\ \E idl \in UNION {[1..n -> 1..MsgMax] : n \in 0..2}, gap \in Gaps :
         LET n == IF idl = <<>> THEN 0
                  ELSE IF Len(frames) >= MaxFrames THEN 0 ELSE Accepted(idl)
         IN  /\ stack' = [e \in DOMAIN stack |->
                   IF e \in nextstack .. nextstack + n - 1
                   THEN [ptr |-> msgs[idl[e - nextstack + 1]].addr,
                         gap |-> gap, func |-> {}]
                   ELSE stack[e]]
             /\ IF n = Len(idl)
                THEN /\ frames' = Append(frames, [first |-> nextstack, msgcnt |-> n])
                     /\ nextstack' = nextstack + n
                ELSE UNCHANGED <<frames, nextstack>>    \* an error return
    /\ entries' = NoEntry
    /\ touched' = NoTouch
    /\ UNCHANGED <<card, mem, msgs, msgblock, nextmsg, freq, sound>>

\* The entry reached by the routines below: they add half of the frame's
\* byte offset to a pointer to stack entries of eight bytes.
EntryReached(f, k) == 4 * frames[f].first + k

\* What the routines share: entry k of frame f is changed as new says.
\* Only a k beyond the frame is refused; a negative one is not.
Contents == {stack[x] : x \in DOMAIN stack}
ChangeEntry(new) ==
    /\ Call
    /\ \E f \in DOMAIN frames : \E k \in -StackLen .. frames[f].msgcnt - 1 :
         LET e == EntryReached(f, k)
         IN  /\ stack' = [x \in DOMAIN stack |->
                            IF x = e THEN new[stack[x]] ELSE stack[x]]
             /\ entries' = [named |-> {frames[f].first + k}, changed |-> {e}]
    /\ touched' = NoTouch
    /\ UNCHANGED <<card, mem, msgs, msgblock, nextmsg, nextstack, frames, freq,
                   sound>>

\* The function bits share a word with the gap: they are kept, but not by the
\* branch for an Intel that counts in 250 ns.
Alter_IMG ==
    \E g \in Gaps :
       ChangeEntry([s \in Contents |->
                      [ptr |-> s.ptr, gap |-> g,
                       func |-> IF card.img250 THEN {} ELSE s.func]])
Alter_MsgSendTime ==
    \E t \in Gaps : ChangeEntry([s \in Contents |-> [s EXCEPT !.gap = t]])

\* One function bit of the entry on or off.
PutFunc(bit) ==
    \E on \in BOOLEAN :
       ChangeEntry([s \in Contents |->
                      [s EXCEPT !.func = IF on THEN @ \cup {bit} ELSE @ \ {bit}]])

Set_Interrupt_On_Msg == PutFunc("interrupt")
Enable_Checksum == PutFunc("checksum")
Enable_Checksum_Error == PutFunc("checksum error")

Clear_Frame ==
    /\ Call
    /\ frames # <<>>
    /\ frames' = <<>> /\ nextstack' = 0
    /\ touched' = NoTouch /\ entries' = NoEntry
    /\ UNCHANGED <<card, mem, msgs, msgblock, nextmsg, stack, freq, sound>>

\* Mutant of Clear_Card: nextframe is not reset.
Clear_CardKeepingFrames ==
    /\ Call
    /\ msgs # <<>>
    /\ msgs' = <<>>
    /\ msgblock' = 1 /\ nextmsg' = Blocks[1].base
    /\ touched' = NoTouch /\ entries' = NoEntry
    /\ UNCHANGED <<card, mem, stack, nextstack, frames, freq, sound>>

Clear_Card ==
    /\ Call
    /\ msgs # <<>>
    /\ msgs' = <<>> /\ frames' = <<>>
    /\ msgblock' = 1 /\ nextmsg' = Blocks[1].base
    /\ nextstack' = 0
    /\ touched' = NoTouch /\ entries' = NoEntry
    /\ UNCHANGED <<card, mem, stack, freq, sound>>

Set_Frequency_Mode ==
    /\ Call
    /\ freq' = ~freq
    /\ touched' = NoTouch /\ entries' = NoEntry
    /\ UNCHANGED <<card, mem, msgs, msgblock, nextmsg, stack, nextstack,
                   frames, sound>>

\* Set_Mode_Px(BC_MODE) clears the tables and the dual port RAM.
MsgInit ==
    /\ card \in Cards
    /\ mem = [a \in Blocks[1].base .. BlockEnd(4) + 1 |-> 0]
    /\ msgs = <<>> /\ msgblock = 1 /\ nextmsg = Blocks[1].base
    /\ stack = [e \in 0 .. StackLen - 1 |-> [ptr |-> 0, gap |-> 0, func |-> {}]]
    /\ nextstack = 0 /\ frames = <<>>
    /\ freq = FALSE
    /\ calls = 0 /\ touched = NoTouch /\ entries = NoEntry /\ sound = TRUE

MsgNext ==
    \/ Create_1553_Message \/ Re_Create_Message
    \/ Alter_Message \/ Alter_Cmd \/ Read_Message \/ Get_BC_Msgentry
    \/ Set_Skip \/ Set_Restore \/ Send_Msg_Once \/ Set_Jump
    \/ Create_Frame \/ Alter_IMG \/ Alter_MsgSendTime
    \/ Set_Interrupt_On_Msg \/ Enable_Checksum \/ Enable_Checksum_Error
    \/ Clear_Frame \/ Clear_Card \/ Set_Frequency_Mode

(***************************************************************************)
(* Properties.                                                             *)
(***************************************************************************)
BlockWords == UNION {Blocks[b].base .. BlockEnd(b) - 1 : b \in 1..4}
OwnWords(i) == (msgs[i].addr .. NextPtr(i) - 1) \cap BlockWords

\* A call about a message uses the words of that message only, inside the
\* message blocks, whatever was created, re-created, skipped, restored or
\* turned into a jump before: the sizes Create_1553_Message_Px reserves, the
\* ones Re_Create_Message_Px accepts and the counts that Alter_Message_Px,
\* Read_Message_Px and Get_BC_Msgentry_Px take from the dual port RAM agree.
\* The four kinds of call that do stray (FlaggedTooSmall, OverRegisters,
\* LiveJump, OneWord) end the promise.
StaysInside ==
    sound /\ touched.id \in Ids => touched.words \subseteq OwnWords(touched.id)

\* Every entry of every frame is the address of a message that still exists:
\* Clear_Card_Px and Clear_Frame_Px leave no frame behind, and a call of
\* Create_Frame_Px that fails half way spoils no frame created before.
FramesNameMessages ==
    \A f \in DOMAIN frames : \A k \in 0 .. frames[f].msgcnt - 1 :
       \E i \in Ids : stack[frames[f].first + k].ptr = msgs[i].addr

\* The routines that change an entry of a frame change the entry they are
\* asked to (the comment of Alter_IMG: "Entry within the frame, i.e., 0 for
\* the first message in the frame").
AltersNamedEntry == entries.changed \subseteq entries.named

MsgSpec == MsgInit /\ [][MsgNext]_MsgVars
=============================================================================

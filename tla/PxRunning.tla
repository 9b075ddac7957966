----------------------------- MODULE PxRunning -----------------------------
(***************************************************************************)
(* The bus controller while the board executes: the host starts frames,    *)
(* halts, skips and restores messages, turns one into a jump and reads     *)
(* status words, one access of the dual port RAM per step; the firmware    *)
(* walks the instruction stack.  The firmware is not in the repository: it *)
(* is modelled by what the library relies on.  It takes an instruction in  *)
(* one step (stack entry, control word and, of a jump, both words), waits  *)
(* while the halt bit is set, holds NO_ALTER in the entry's status word    *)
(* while it sends the message, and stores the result there afterwards.     *)
(***************************************************************************)
EXTENDS Integers, Sequences, Functions

CONSTANTS
    Stack,        \* the message id in each entry of the instruction stack
    FrameTable,   \* framealloc: first entry and message count of each frame
    Counts,       \* the message counts the host passes, an int each
    MaxHost,      \* bound on the host's calls
    MaxFetch      \* bound on the instructions the board takes

VARIABLES
    ctl,          \* control word of each message: command code and halt bit
    cmd,          \* commandtype of each message
    words,        \* the words after a jump's control word: pointer and count
    status,       \* message status word of each stack entry
    regs,         \* pointer, instruction_counter, start, the async registers
    curstack,     \* curstack: entry the status search starts at, 0 for NULL
    board,        \* the firmware: entry, instructions left, message being sent
    host,         \* the host's call and how far it has come
    wiped,        \* history: entries whose NO_ALTER a late clearing overwrote
    loose,        \* history: the board loaded registers half written
    negative,     \* history: a routine let a negative count through
    hostCalls, fetches

RunVars == <<ctl, cmd, words, status, regs, curstack, board, host, wiped,
             loose, negative, hostCalls, fetches>>

Entries == DOMAIN Stack
MsgIds == Range(Stack)
Frames == DOMAIN FrameTable
First(f) == FrameTable[f].first
MsgCnt(f) == FrameTable[f].msgcnt

\* Create_Frame_Px puts the messages of a frame one after the other.
ASSUME FrameAssumption ==
    /\ Stack \in Seq(Nat)
    /\ \A f \in Frames : /\ First(f) \in Nat \ {0} /\ MsgCnt(f) \in Nat
                          /\ First(f) + MsgCnt(f) - 1 <= Len(Stack)

\* msgcnt is a usint, the routines' parameter an int.
UShort == 0..65535
ASSUME CountsAssumption ==
    Counts \subseteq Int /\ \A f \in Frames : MsgCnt(f) \in UShort

\* The count a routine stores in 16 bits: 0 (FULLFRAME) is the whole frame's.
\* Only counts greater than the frame's are refused, so -1 is stored as 65535.
Stored(f, n) == IF n = 0 THEN MsgCnt(f) ELSE n % 65536

Idle == [step |-> "idle", id |-> 0, frame |-> 0, cnt |-> 0, was |-> FALSE,
         orig |-> "MSG", entry |-> 0]

\* A call begins: the host is between calls.
Begin == host = Idle /\ hostCalls < MaxHost /\ hostCalls' = hostCalls + 1

(***************************************************************************)
(* Starting frames.                                                        *)
(***************************************************************************)
\* Start_Frame_Px: the pointer (and curstack), then the counter.
Start_Frame ==
    /\ Begin
    /\ \E f \in Frames, n \in Counts :
         /\ n <= MsgCnt(f) /\ negative' = (negative \/ n < 0)
         /\ regs' = [regs EXCEPT !.pointer = First(f)]
         /\ curstack' = First(f)
         /\ host' = [Idle EXCEPT !.step = "counter",
                                 !.cnt = Stored(f, n)]
    /\ UNCHANGED <<ctl, cmd, words, status, board, wiped, loose, fetches>>

Start_FrameCounter ==
    /\ host.step = "counter"
    /\ regs' = [regs EXCEPT !.counter = host.cnt]
    /\ host' = Idle
    /\ UNCHANGED <<ctl, cmd, words, status, curstack, board, wiped, loose,
                   negative, hostCalls, fetches>>

\* Run_BC_Px returns etimeout unless it finds the board halted.
Run_BC ==
    /\ Begin
    /\ ~board.running
    /\ \E loop \in BOOLEAN : regs' = [regs EXCEPT !.start = IF loop THEN "loop" ELSE "once"]
    /\ UNCHANGED <<ctl, cmd, words, status, curstack, board, host, wiped, loose,
                   negative, fetches>>

\* Likewise the two registers of the async frame.
Select_Async_Frame ==
    /\ Begin
    /\ \E f \in Frames, n \in Counts :
         /\ n <= MsgCnt(f) /\ negative' = (negative \/ n < 0)
         /\ regs' = [regs EXCEPT !.asyncPtr = First(f)]
         /\ host' = [Idle EXCEPT !.step = "async count",
                                 !.cnt = Stored(f, n)]
    /\ UNCHANGED <<ctl, cmd, words, status, curstack, board, wiped, loose,
                   fetches>>

Select_Async_FrameCount ==
    /\ host.step = "async count"
    /\ regs' = [regs EXCEPT !.asyncNum = host.cnt]
    /\ host' = Idle
    /\ UNCHANGED <<ctl, cmd, words, status, curstack, board, wiped, loose,
                   negative, hostCalls, fetches>>

Send_Async_Frame ==
    /\ Begin
    /\ regs.asyncNum >= 1
    /\ regs' = [regs EXCEPT !.asyncStart = TRUE]
    /\ UNCHANGED <<ctl, cmd, words, status, curstack, board, host, wiped, loose,
                   negative, fetches>>

(***************************************************************************)
(* Status words.                                                           *)
(***************************************************************************)
\* Get_Msg_Status_Px: the first entry from curstack on that holds the id; if
\* there is none the loop ends at the last entry of the stack.
Found(id) ==
    LET there == {e \in Entries : e >= curstack /\ Stack[e] = id}
    IN  IF there = {} THEN Len(Stack)
        ELSE CHOOSE e \in there : \A x \in there : e <= x

\* The status is read here; unless it is 0 or NO_ALTER a later write clears it.
Get_Msg_Status ==
    /\ Begin
    /\ curstack # 0
    /\ \E id \in MsgIds :
         LET e == Found(id)
         IN  host' = IF status[e] = "done"
                     THEN [Idle EXCEPT !.step = "clear", !.entry = e]
                     ELSE Idle
    /\ UNCHANGED <<ctl, cmd, words, status, regs, curstack, board, wiped, loose,
                   negative, fetches>>

\* Get_Msgentry_Status_Px: the entry of the frame itself.
Get_Msgentry_Status ==
    /\ Begin
    /\ \E f \in Frames : \E k \in 0 .. MsgCnt(f) - 1 :
         LET e == First(f) + k
         IN  host' = IF status[e] = "done"
                     THEN [Idle EXCEPT !.step = "clear", !.entry = e]
                     ELSE Idle
    /\ UNCHANGED <<ctl, cmd, words, status, regs, curstack, board, wiped, loose,
                   negative, fetches>>

\* The write of 0 that ends both; the board may have stored NO_ALTER since.
ClearStatus ==
    /\ host.step \in {"clear", "jump clear"}
    /\ status' = [status EXCEPT ![host.entry] = "zero"]
    /\ wiped' = IF status[host.entry] = "noalter" THEN wiped \cup {host.entry} ELSE wiped
    /\ host' = IF host.step = "clear" THEN Idle
               ELSE [host EXCEPT !.step = "jump pointer"]
    /\ UNCHANGED <<ctl, cmd, words, regs, curstack, board, loose, negative,
                   hostCalls, fetches>>

(***************************************************************************)
(* Control words.                                                          *)
(***************************************************************************)
Set_HaltLive ==
    /\ Begin
    /\ \E id \in MsgIds : ctl' = [ctl EXCEPT ![id].halt = TRUE]
    /\ UNCHANGED <<cmd, words, status, regs, curstack, board, host, wiped,
                   loose, negative, fetches>>

Set_ContinueLive ==
    /\ Begin
    /\ \E id \in MsgIds : ctl' = [ctl EXCEPT ![id].halt = FALSE]
    /\ UNCHANGED <<cmd, words, status, regs, curstack, board, host, wiped,
                   loose, negative, fetches>>

Set_SkipLive ==
    /\ Begin
    /\ \E id \in MsgIds : ctl' = [ctl EXCEPT ![id].code = "SKIP"]
    /\ UNCHANGED <<cmd, words, status, regs, curstack, board, host, wiped,
                   loose, negative, fetches>>

Set_RestoreLive ==
    /\ Begin
    /\ \E id \in MsgIds :
         /\ cmd[id] # "JUMP"
         /\ ctl[id].code = "SKIP"
         /\ ctl' = [ctl EXCEPT ![id].code = cmd[id]]
    /\ UNCHANGED <<cmd, words, status, regs, curstack, board, host, wiped,
                   loose, negative, fetches>>

(***************************************************************************)
(* Set_Jump_Px, one access a step.                                         *)
(***************************************************************************)
\* Mutant of Set_JumpLive: the halt bit is left as it was.
Set_JumpLiveUnhalted ==
    /\ Begin
    /\ \E id \in MsgIds, f \in Frames, n \in Counts :
         /\ n <= MsgCnt(f) /\ negative' = (negative \/ n < 0)
         /\ ctl' = [ctl EXCEPT ![id].code = "JUMP"]
         /\ host' = [Idle EXCEPT !.step = "jump check", !.id = id, !.frame = f,
                                 !.cnt = Stored(f, n),
                                 !.was = ctl[id].halt, !.orig = ctl[id].code]
    /\ UNCHANGED <<cmd, words, status, regs, curstack, board, wiped, loose,
                   fetches>>

\* The control word becomes JUMP with the halt bit set.
Set_JumpLive ==
    /\ Begin
    /\ \E id \in MsgIds, f \in Frames, n \in Counts :
         /\ n <= MsgCnt(f) /\ negative' = (negative \/ n < 0)
         /\ ctl' = [ctl EXCEPT ![id] = [code |-> "JUMP", halt |-> TRUE]]
         /\ host' = [Idle EXCEPT !.step = "jump check", !.id = id, !.frame = f,
                                 !.cnt = Stored(f, n),
                                 !.was = ctl[id].halt, !.orig = ctl[id].code]
    /\ UNCHANGED <<cmd, words, status, regs, curstack, board, wiped, loose,
                   fetches>>

\* Mutant of Set_JumpLiveCheck: NO_ALTER is taken for any other status.
Set_JumpLiveCheckBlind ==
    /\ host.step = "jump check"
    /\ host' = [host EXCEPT !.entry = Found(host.id), !.step = "jump pointer"]
    /\ UNCHANGED <<ctl, cmd, words, status, regs, curstack, board, wiped, loose,
                   negative, hostCalls, fetches>>

\* BC_Check_Alter_Msg_Px; its error frm_nostack is not looked at.
Set_JumpLiveCheck ==
    /\ host.step = "jump check"
    /\ LET e == Found(host.id)
           seen == IF curstack = 0 THEN "zero" ELSE status[e]
       IN  host' = [host EXCEPT !.entry = e,
                       !.step = CASE seen = "noalter" -> "jump undo"
                                  [] seen = "done" -> "jump clear"
                                  [] OTHER -> "jump pointer"]
    /\ UNCHANGED <<ctl, cmd, words, status, regs, curstack, board, wiped, loose,
                   negative, hostCalls, fetches>>

Set_JumpLiveUndo ==
    /\ host.step = "jump undo"
    /\ ctl' = [ctl EXCEPT ![host.id] = [code |-> host.orig, halt |-> host.was]]
    /\ host' = Idle
    /\ UNCHANGED <<cmd, words, status, regs, curstack, board, wiped, loose,
                   negative, hostCalls, fetches>>

Set_JumpLivePointer ==
    /\ host.step = "jump pointer"
    /\ words' = [words EXCEPT ![host.id].ptr = First(host.frame)]
    /\ cmd' = [cmd EXCEPT ![host.id] = "JUMP"]
    /\ host' = [host EXCEPT !.step = "jump count"]
    /\ UNCHANGED <<ctl, status, regs, curstack, board, wiped, loose, negative,
                   hostCalls, fetches>>

Set_JumpLiveCount ==
    /\ host.step = "jump count"
    /\ words' = [words EXCEPT ![host.id].cnt = host.cnt]
    /\ host' = IF host.was THEN Idle ELSE [host EXCEPT !.step = "jump go"]
    /\ UNCHANGED <<ctl, cmd, status, regs, curstack, board, wiped, loose,
                   negative, hostCalls, fetches>>

Set_JumpLiveGo ==
    /\ host.step = "jump go"
    /\ ctl' = [ctl EXCEPT ![host.id].halt = FALSE]
    /\ host' = Idle
    /\ UNCHANGED <<cmd, words, status, regs, curstack, board, wiped, loose,
                   negative, hostCalls, fetches>>

(***************************************************************************)
(* The firmware.                                                           *)
(***************************************************************************)
Load == [board EXCEPT !.running = TRUE, !.at = regs.pointer, !.left = regs.counter]
Halfway == host.step = "counter"

BoardStart ==
    /\ regs.start # "none"
    /\ regs.pointer # 0
    /\ board' = [Load EXCEPT !.loop = (regs.start = "loop")]
    /\ regs' = [regs EXCEPT !.start = "none"]
    /\ loose' = Halfway
    /\ UNCHANGED <<ctl, cmd, words, status, curstack, host, wiped, negative,
                   hostCalls, fetches>>

\* An async frame is sent between two messages of the frame.
BoardAsync ==
    /\ board.running /\ board.sending = 0 /\ regs.asyncStart
    /\ board.left > 0 /\ board.back = <<>>
    /\ board' = [board EXCEPT !.at = regs.asyncPtr, !.left = regs.asyncNum,
                              !.back = <<board.at, board.left>>]
    /\ regs' = [regs EXCEPT !.asyncStart = FALSE]
    /\ loose' = (loose \/ host.step = "async count")
    /\ UNCHANGED <<ctl, cmd, words, status, curstack, host, wiped, negative,
                   hostCalls, fetches>>

\* The next instruction: skipped, a jump taken, or a message begun.
BoardFetch ==
    /\ board.running /\ board.sending = 0 /\ board.left > 0
    /\ board.at \in Entries
    /\ fetches < MaxFetch /\ fetches' = fetches + 1
    /\ LET id == Stack[board.at]
           word == ctl[id]
       IN  /\ ~word.halt
           /\ CASE word.code = "SKIP" ->
                     /\ board' = [board EXCEPT !.at = @ + 1, !.left = @ - 1]
                     /\ UNCHANGED status
                [] word.code = "JUMP" ->
                     /\ board' = [board EXCEPT !.at = words[id].ptr, !.left = words[id].cnt]
                     /\ UNCHANGED status
                [] OTHER ->
                     /\ board' = [board EXCEPT !.sending = board.at]
                     /\ status' = [status EXCEPT ![board.at] = "noalter"]
    /\ UNCHANGED <<ctl, cmd, words, regs, curstack, host, wiped, loose,
                   negative, hostCalls>>

BoardSent ==
    /\ board.sending # 0
    /\ status' = [status EXCEPT ![board.sending] = "done"]
    /\ board' = [board EXCEPT !.sending = 0, !.at = @ + 1, !.left = @ - 1]
    /\ wiped' = wiped \ {board.sending}
    /\ UNCHANGED <<ctl, cmd, words, regs, curstack, host, loose, negative,
                   hostCalls, fetches>>

\* The end of a frame: back to the frame an async one interrupted, round
\* again, or halted.
BoardEnd ==
    /\ board.running /\ board.sending = 0 /\ board.left = 0
    /\ board' = CASE board.back # <<>> ->
                       [board EXCEPT !.at = board.back[1], !.left = board.back[2],
                                     !.back = <<>>]
                  [] board.back = <<>> /\ board.loop -> Load
                  [] OTHER -> [board EXCEPT !.running = FALSE]
    /\ loose' = IF board.back = <<>> /\ board.loop THEN Halfway ELSE loose
    /\ UNCHANGED <<ctl, cmd, words, status, regs, curstack, host, wiped,
                   negative, hostCalls, fetches>>

RunInit ==
    /\ ctl = [id \in MsgIds |-> [code |-> "MSG", halt |-> FALSE]]
    /\ cmd = [id \in MsgIds |-> "MSG"]
    /\ words = [id \in MsgIds |-> [ptr |-> 0, cnt |-> 0]]
    /\ status = [e \in Entries |-> "zero"]
    /\ regs = [pointer |-> 0, counter |-> 0, start |-> "none",
               asyncPtr |-> 0, asyncNum |-> 0, asyncStart |-> FALSE]
    /\ curstack = 0
    /\ board = [running |-> FALSE, at |-> 0, left |-> 0, sending |-> 0,
                loop |-> FALSE, back |-> <<>>]
    /\ host = Idle
    /\ wiped = {} /\ loose = FALSE /\ negative = FALSE
    /\ hostCalls = 0 /\ fetches = 0

RunNext ==
    \/ Start_Frame \/ Start_FrameCounter \/ Run_BC
    \/ Select_Async_Frame \/ Select_Async_FrameCount \/ Send_Async_Frame
    \/ Get_Msg_Status \/ Get_Msgentry_Status \/ ClearStatus
    \/ Set_HaltLive \/ Set_ContinueLive \/ Set_SkipLive \/ Set_RestoreLive
    \/ Set_JumpLive \/ Set_JumpLiveCheck \/ Set_JumpLiveUndo \/ Set_JumpLivePointer
    \/ Set_JumpLiveCount \/ Set_JumpLiveGo
    \/ BoardStart \/ BoardAsync \/ BoardFetch \/ BoardSent \/ BoardEnd

RunSpec == RunInit /\ [][RunNext]_RunVars

(***************************************************************************)
(* Properties.                                                             *)
(***************************************************************************)
\* The one entry of the message is an entry the status search reaches, and
\* the board's NO_ALTER in it was not overwritten.
Guarded(id) ==
    \E e \in Entries : /\ Stack[e] = id /\ e >= curstack /\ e \notin wiped
                       /\ \A x \in Entries \ {e} : Stack[x] # id

\* Set_Jump_Px never writes into a message that the board is sending: with
\* the halt bit set before the check of NO_ALTER, the board cannot begin the
\* message between the check and the writes.  The check looks at the first
\* entry from curstack on, so the promise is for messages it can see.
JumpWhole ==
    host.step \in {"jump pointer", "jump count"} /\ Guarded(host.id)
        => board.sending = 0 \/ Stack[board.sending] # host.id

\* n instructions from entry e on are inside a frame; what the board has left
\* to execute is.
InOneFrame(e, n) == \E f \in Frames : First(f) <= e /\ e + n <= First(f) + MsgCnt(f)
InsideFrame == InOneFrame(board.at, board.left)

\* The board stays inside the frame it was sent to: it never takes a jump of
\* which only one word is new, nor runs past a frame's last entry.  Excepted are
\* the board's loading of registers half written (Start_Frame_Px and
\* Select_Async_Frame_Px write a pointer and a count one after the other), and
\* everything after a negative count, which all three routines accept although
\* their comments speak of a number of messages within the frame.
RunsWholeFrames == board.running /\ ~loose /\ ~negative => InsideFrame
=============================================================================

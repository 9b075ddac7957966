-------------------------------- MODULE Codec --------------------------------
(***************************************************************************)
(* What happens to a text on its way through the system, with the sizes of *)
(* the code: a message is at most 32 words of two bytes.                   *)
(*                                                                         *)
(*   command:  platform create_frameid -> module -> bus -> icu             *)
(*   answer:   irst -> icu load_datablk -> module -> bus -> platform       *)
(*                                                                         *)
(* The conversions only ask of a byte whether it is zero, so one text per  *)
(* length, with byte i equal to i, stands for all of that length.          *)
(***************************************************************************)
EXTENDS Integers, Sequences, Bitwise, SequencesExt

CONSTANTS
    Lengths,         \* lengths of the configured texts, at most 64 (text[65])
    RtAddresses,     \* values of RT_Addr
    CommandSubAddresses     \* values of SubAddress that command_handler accepts

ASSUME LengthsAssumption == Lengths \subseteq 0..64
ASSUME AddressesAssumption ==
    RtAddresses \subseteq 0..31 /\ CommandSubAddresses \subseteq 0..255

CW_RECEIVE == 0
CW_TRANSMIT == 1
MaxWords == 32

VARIABLES hop, path, text, rt, sa,
    command,         \* the command word on the bus
    words,           \* the data words on the bus
    out              \* bytes icu forwards, or characters platform prints

CodecVars == <<hop, path, text, rt, sa, command, words, out>>

TextOf(n) == [i \in 1..n |-> i]

CodecInit ==
    /\ hop = "start"
    /\ path \in {"command", "answer"}
    /\ \E n \in Lengths : text = TextOf(n)
    /\ rt \in RtAddresses /\ sa \in CommandSubAddresses
    /\ command = 0 /\ words = <<>> /\ out = <<>>

-----------------------------------------------------------------------------
ByteAt(s, i) == IF i <= Len(s) THEN s[i] ELSE 0

\* Mutant of add_text: the bytes of a word are exchanged.
add_textSwapped(s, size) ==
    [j \in 1..size |-> ByteAt(s, 2 * j) * 256 + ByteAt(s, 2 * j - 1)]

\* Two characters to a word, the first in the high byte; the rest of the buffer
\* keeps the zeros of memset.
add_text(s, size) ==
    [j \in 1..size |-> ByteAt(s, 2 * j - 1) * 256 + ByteAt(s, 2 * j)]

\* Command_Word_Px; 32 words are encoded as 0, the 16 bits are not checked.
Command_Word(rtnum, type, subaddr, wordcount) ==
    ((((rtnum * 2048) | (type * 1024)) | (subaddr * 32))
       | (IF wordcount = MaxWords THEN 0 ELSE wordcount)) % 65536

\* The word count of a command word, 0 standing for 32.
WordCount(cw) == IF cw % 32 = 0 THEN MaxWords ELSE cw % 32

\* Parse_CommandWord_Px.
Parse_CommandWord(cw) ==
    [rt |-> cw \div 2048, dir |-> (cw \div 1024) % 2, sa |-> (cw \div 32) % 32]

\* rt_1553_thread: both bytes of every word, the high byte first.
Unpack(w, count) ==
    [i \in 1..(2 * count) |->
        IF i % 2 = 1 THEN w[(i + 1) \div 2] \div 256 ELSE w[i \div 2] % 256]

\* read_msg: characters up to the first zero byte.
UpToNul(s) ==
    SubSeq(s, 1, SelectInSeq(s \o <<0>>, LAMBDA b : b = 0) - 1)

-----------------------------------------------------------------------------
(* command *)

\* create_frameid: the text is packed from msgdata[0] on, then the command word
\* is stored in msgdata[0]; Create_1553_Message_Px checks the T/R bit and takes
\* the words that follow the command word as data.
PlatformCreate ==
    /\ hop = "start" /\ path = "command"
    /\ LET wordcount == (Len(text) + 1) \div 2
           cw == Command_Word(rt, CW_RECEIVE, sa, wordcount)
           msgdata == [add_text(text, 34) EXCEPT ![1] = cw]
       IN /\ command' = cw
          /\ words' = SubSeq(msgdata, 2, 1 + WordCount(cw))
          /\ hop' = IF (cw \div 1024) % 2 = 1 THEN "refused" ELSE "bus"
    /\ UNCHANGED <<path, text, rt, sa, out>>

\* The addressed RT's thread reads wordCount words and forwards their bytes.
IcuForward ==
    /\ hop = "bus" /\ path = "command"
    /\ Parse_CommandWord(command).dir = CW_RECEIVE
    /\ out' = Unpack(words, WordCount(command))
    /\ hop' = "done"
    /\ UNCHANGED <<path, text, rt, sa, command, words>>

-----------------------------------------------------------------------------
(* answer *)

\* irst sends strlen(text) bytes; icu's load_datablk packs them into a cleared
\* block of 32 words, which the module returns to a TRANSMIT command.
IcuLoad ==
    /\ hop = "start" /\ path = "answer"
    /\ LET cw == Command_Word(rt, CW_TRANSMIT, sa, MaxWords) IN
       /\ command' = cw
       /\ words' = SubSeq(add_text(text, MaxWords), 1, WordCount(cw))
       /\ hop' = IF (cw \div 1024) % 2 = 0 THEN "refused" ELSE "bus"
    /\ UNCHANGED <<path, text, rt, sa, out>>

PlatformRead ==
    /\ hop = "bus" /\ path = "answer"
    /\ out' = UpToNul(Unpack(words, WordCount(command)))
    /\ hop' = "done"
    /\ UNCHANGED <<path, text, rt, sa, command, words>>

CodecNext == PlatformCreate \/ IcuForward \/ IcuLoad \/ PlatformRead

-----------------------------------------------------------------------------
\* irst's text is printed by platform exactly as configured, for every length
\* from 0 to 64 (add_text of icu against read_msg of platform).
AnswerArrives == hop = "done" /\ path = "answer" => out = text

\* The characters of a command after its first word reach icu, and what icu
\* forwards is an end of the configured text, without a gap and in order, then
\* zeros; its length is even and that of the command word. Whether the first two
\* characters are among it is left to CommandTextArrives.
CommandTailArrives ==
    hop = "done" /\ path = "command" =>
        /\ IsSuffix(SubSeq(text, 3, Len(text)), UpToNul(out))
        /\ IsSuffix(UpToNul(out), text)
        /\ \A i \in 1..Len(out) : out[i] = 0 => \A j \in i..Len(out) : out[j] = 0
        /\ Len(out) = 2 * WordCount(command)
        /\ Len(text) > 0 => Len(out) \in {Len(text), Len(text) + 1}

\* The text configured for a command reaches icu whole, as the sample log of
\* README.md shows for a text of 23 characters; create_frameid packs it from
\* msgdata[0] on, where the command word is stored over its first characters.
CommandTextArrives ==
    hop = "done" /\ path = "command" => UpToNul(out) = text

\* The command word addresses the configured RT and subaddress and carries the
\* direction and the number of words, for the subaddresses of the standard.
CommandWordDecodes ==
    hop \in {"bus", "done"} =>
        /\ Parse_CommandWord(command) =
             [rt |-> rt, sa |-> sa,
              dir |-> IF path = "command" THEN CW_RECEIVE ELSE CW_TRANSMIT]
        /\ Len(words) = WordCount(command)

\* A message arrives: an answer whole, a command from its second word on, and
\* its command word.
MessageArrives == AnswerArrives /\ CommandTailArrives /\ CommandWordDecodes
=============================================================================

------------------------------- MODULE Config -------------------------------
(***************************************************************************)
(* Reading config.ini: command_handler of platform (icu's and irst's have  *)
(* the same send_command and get_command sections), driven line by line by *)
(* ini_parse, and the first use of the result: the thread that divides     *)
(* 1000 by every message's Rate.                                           *)
(*                                                                         *)
(* A line is a section, a field name and an integer; -1 stands for a value *)
(* parse_int_checked cannot parse.  A message starts as zeros (memset).    *)
(***************************************************************************)
EXTENDS Integers, Sequences, SequencesExt

CONSTANTS
    Sections,    \* numbers N of [send_command_N] and [get_command_N]
    Values,      \* values that occur in a file
    MaxLines     \* bound on the length of a file

Kinds == {"send", "get"}
Names == {"OpCode", "Rate"}
Lines == [kind : Kinds, sec : Sections, name : Names, value : Values]

ASSUME ConfigAssumption == MaxLines \in Nat /\ Values \subseteq Int

VARIABLES
    file,        \* the lines read so far
    cmds,        \* messages_tx and messages_rx
    last,        \* last_section of either kind; 0 is the empty string
    error,       \* ini_parse: number of the first line the handler refused
    stage

ConfigVars == <<file, cmds, last, error, stage>>

Blank == [n \in Names |-> 0]

ConfigInit ==
    /\ file = <<>>
    /\ cmds = [k \in Kinds |-> <<>>]
    /\ last = [k \in Kinds |-> 0]
    /\ error = 0
    /\ stage = "parse"

\* The ranges command_handler passes: Rate 1..1000, OpCode 0..255.
parse_int_checked(name, value) ==
    value \in (IF name = "Rate" THEN 1..1000 ELSE 0..255)

\* Mutant of NewList: a section with a number seen before is not a new one.
NewListByMaximum(l) ==
    IF l.sec > last[l.kind] THEN Append(cmds[l.kind], Blank) ELSE cmds[l.kind]

\* A line of another section than the previous line of its kind opens a message.
NewList(l) ==
    IF last[l.kind] # l.sec THEN Append(cmds[l.kind], Blank) ELSE cmds[l.kind]

\* command_handler for one line; ini_parse notes the first failure and goes on.
command_handler(l) ==
    /\ stage = "parse" /\ Len(file) < MaxLines
    /\ LET list == NewList(l)
           ok == parse_int_checked(l.name, l.value)
       IN /\ cmds' = [cmds EXCEPT ![l.kind] =
                        IF ok THEN [list EXCEPT ![Len(list)][l.name] = l.value]
                        ELSE list]
          /\ error' = IF ~ok /\ error = 0 THEN Len(file) + 1 ELSE error
    /\ last' = [last EXCEPT ![l.kind] = l.sec]
    /\ file' = Append(file, l)
    /\ UNCHANGED stage

\* End of file; main only looks for a negative result, which means that the
\* file could not be opened.
MainGoesOn ==
    /\ stage = "parse"
    /\ stage' = "loop"
    /\ UNCHANGED <<file, cmds, last, error>>

OpenFails ==
    /\ stage = "parse" /\ file = <<>>
    /\ stage' = "exit1"
    /\ UNCHANGED <<file, cmds, last, error>>

\* First pass of platform's loop: 1000 / msg->rate for every message of both
\* lists (icu and irst divide for the messages they send).
FirstPass ==
    /\ stage = "loop"
    /\ stage' = IF \E k \in Kinds : \E i \in 1..Len(cmds[k]) : cmds[k][i]["Rate"] = 0
             THEN "SIGFPE" ELSE "running"
    /\ UNCHANGED <<file, cmds, last, error>>

ConfigNext ==
    \/ \E l \in Lines : command_handler(l)
    \/ MainGoesOn \/ OpenFails \/ FirstPass

-----------------------------------------------------------------------------
(* Reference: the messages a file describes. *)

LinesOf(k) == SelectSeq(file, LAMBDA l : l.kind = k)

\* Positions in LinesOf(k) where a new section begins.
Starts(k) ==
    LET s == LinesOf(k)
    IN SetToSortSeq({p \in 1..Len(s) : p = 1 \/ s[p].sec # s[p - 1].sec}, <)

\* The value of field n of the i-th message: the last acceptable one between
\* the start of its section and the next start.
FieldOf(k, i, n) ==
    LET s == LinesOf(k)
        starts == Append(Starts(k), Len(s) + 1)
        own == SelectSeq(SubSeq(s, starts[i], starts[i + 1] - 1),
                 LAMBDA l : l.name = n /\ parse_int_checked(n, l.value))
    IN IF own = <<>> THEN 0 ELSE Last(own).value

\* The lists command_handler builds with its static last_section and current are
\* the ones the file describes, however sections of both kinds interleave; and
\* the loop gets past its first divisions only if the file gives every message an
\* acceptable Rate: a missing or refused one is 0, and the division ends it.
ListsMatchFile ==
    \A k \in Kinds :
        /\ Len(cmds[k]) = Len(Starts(k))
        /\ \A i \in 1..Len(cmds[k]) :
             /\ \A n \in Names : cmds[k][i][n] = FieldOf(k, i, n)
             /\ stage = "running" => FieldOf(k, i, "Rate") # 0
=============================================================================

----------------------------- MODULE PxSettings -----------------------------
(***************************************************************************)
(* The routines that set one property of a module by changing a field of a *)
(* register in the dual port RAM.  A register is the set of its bits that  *)
(* are 1, so `w & ~m' is w \ m and `w | v' is w \cup v.  Many fields share *)
(* a register: the control word of a message, bcProtocolOptions, the       *)
(* `active' byte of an RT, the control word of an RT/subaddress, the       *)
(* moduleFunction of the monitor.  Field says which bits of which register *)
(* the board takes each setting from; the masks below are the ones each    *)
(* routine uses.  Times are numbers: what is stored is compared with what  *)
(* was asked for.  One message, one subaddress and the RTs 5 and 31 stand  *)
(* for the arrays.  Calls that return an error are not steps.              *)
(***************************************************************************)
EXTENDS Integers, Sequences

CONSTANTS
    Modules,        \* kinds of module: processor, single function, and whether
                    \* an Intel's firmware (3.5 on) counts gaps in 250 ns
    Modes,          \* values of board_config explored
    Given,          \* the times and numbers given to each routine, in its unit
    MaxSettings     \* bound on the calls of one behaviour

Times == {"resptime", "amplitude", "rtresp", "ttagres", "frame", "gap", "minor",
          "counter"}

\* Four routines do not check their argument: they are given what their
\* registers can hold, at most what fits an int.  Start_Frame_Px counts
\* messages of a frame.
ASSUME GivenAssumption ==
    /\ \A t \in Times : Given[t] \subseteq Nat
    /\ \A ns \in Given["rtresp"] : ns >= 4000 /\ ns <= 43679
    /\ \A t \in Given["frame"] : t <= 665714687
    /\ \A us \in Given["minor"] : us >= 1 /\ us <= 2147483647
    /\ \A n \in Given["counter"] : n <= 65535

VARIABLES
    module,         \* the kind of module
    mode,           \* board_config
    reg,            \* registers as sets of bits
    num,            \* pairs of registers that hold a converted number
    asked,          \* history: last value asked for, <<>> if none or withdrawn
    told,           \* history: the same for the numbers
    trig,           \* host: triggers and trig_mode
    settings        \* calls made so far

SetVars == <<module, mode, reg, num, asked, told, trig, settings>>

\* The bits of a number that are 1, by the weight of each.
Weight == <<1, 2, 4, 8, 16, 32, 64, 128, 256, 512, 1024, 2048, 4096, 8192,
            16384, 32768>>
Bits(n) == {b \in 0..15 : (n \div Weight[b + 1]) % 2 = 1}
Word == 0..15
Byte == 0..7

\* Where the board finds each setting.
Field ==
    [retry |-> <<"control", 4..6>>, bus |-> <<"control", {7}>>,
     errors |-> <<"control", (8..12) \cup {14}>>, halt |-> <<"control", {13}>>,
     stop |-> <<"control", {15}>>,
     bitcnt |-> <<"bit", 0..3>>, zerocross |-> <<"bit", 4..7>>,
     bc1553a |-> <<"bcprot", {0}>>, nosrq |-> <<"bcprot", {1}>>,
     syncerr |-> <<"bcprot", {2}>>, res250 |-> <<"bcprot", {3}>>, skipimg |-> <<"bcprot", {4}>>,
     frequency |-> <<"bcprot", {5}>>,
     run |-> <<"start", {0}>>, replaying |-> <<"boardopt", {11}>>,
     replay |-> <<"replay", Byte>>, ttagsync |-> <<"ttagsendsync", Word>>,
     syncpat |-> <<"sync_pattern", Word>>,
     errword |-> <<"err_word_index", Word>>, errbit |-> <<"err_bit_index", Word>>,
     interrupt |-> <<"interpt", Byte>>, rtint |-> <<"int_cond", Byte>>,
     hdrexists |-> <<"header_exists", Word>>, hdrval |-> <<"header_val", Word>>,
     clr1 |-> <<"ttagclr1", Byte>>, clr17 |-> <<"ttagclr17", Byte>>,
     expanded |-> <<"modfn", {0}>>, enhanced |-> <<"modfn", {1}>>,
     perRT |-> <<"modfn", {2}>>, irig |-> <<"modfn", {3}>>,
     active |-> <<"active5", 0..1>>, rtbus |-> <<"active5", 2..3>>,
     immed |-> <<"active5", {4}>>, broadint |-> <<"active31", {1}>>,
     status |-> <<"status", Word>>,
     invalid |-> <<"rtprot", {0}>>, rt1553a |-> <<"rtprot", {1}>>,
     inteom |-> <<"rtid", {0}>>, interr |-> <<"rtid", {1}>>,
     illegal |-> <<"rtid", {2}>>, inactive |-> <<"rtid", {3}>>,
     dbuffer |-> <<"rtid", {4}>>, upper |-> <<"rtid", {6}>>,
     busy |-> <<"rtid", {7}>>, buffers |-> <<"rtid", 8..11>>,
     block |-> <<"blk_lookup", Byte>>,
     modecode |-> <<"mode_code", Byte>>, rterrors |-> <<"err_inject", Byte>>,
     wdcnt |-> <<"word_count", Byte>>, builtin |-> <<"built_in_test", Word>>,
     vector |-> <<"vector", Word>>, checksum |-> <<"checksum_flag", Word>>,
     trigmode |-> <<"trig_ctl", {3, 4, 7}>>, triggers |-> <<"trig_ctl", 0..1>>,
     broad |-> <<"broad_ctl", Word>>, concurrent |-> <<"mon_connect", Byte>>,
     monresp |-> <<"response_time", Word>>, monrespa |-> <<"resptime_1553a", Word>>,
     interval |-> <<"interval_int", Word>>, cnttrig |-> <<"cnt_trigger", Byte>>,
     per1553a |-> <<"modePerRT", Word>>, mon1553a |-> <<"x1553a", Word>>,
     lkupblk |-> <<"lookup", 0..6>>, lkupint |-> <<"lookup", {7}>>]

Settings == DOMAIN Field
Registers == {Field[s][1] : s \in Settings}

\* One call: setting s, the bits the routine clears and the bits it sets.
Change(s, clear, set) ==
    /\ settings < MaxSettings /\ settings' = settings + 1
    /\ reg' = [reg EXCEPT ![Field[s][1]] = (@ \ clear) \cup set]
    /\ asked' = [asked EXCEPT ![s] = <<set>>]
    /\ UNCHANGED <<module, mode, num, told, trig>>

\* A call that also ends an earlier setting, which the routine overrides.
ChangeEnding(s, clear, set, ended) ==
    /\ settings < MaxSettings /\ settings' = settings + 1
    /\ reg' = [reg EXCEPT ![Field[s][1]] = (@ \ clear) \cup set]
    /\ asked' = [x \in Settings |-> IF x = s THEN <<set>>
                                    ELSE IF x \in ended THEN <<>> ELSE asked[x]]
    /\ UNCHANGED <<module, mode, num, told, trig>>

\* A flag: its bit on or off, the other bits kept.
Flag(s, mask) == \E on \in BOOLEAN : Change(s, mask, IF on THEN mask ELSE {})

\* A time: what is stored of it.
Store(t, value, stored) ==
    /\ settings < MaxSettings /\ settings' = settings + 1
    /\ num' = [num EXCEPT ![t] = stored]
    /\ told' = [told EXCEPT ![t] = <<value>>]
    /\ UNCHANGED <<module, mode, reg, asked, trig>>

BC == mode = "BC_RT"
RT == mode = "RT"
Mon == mode \in {"MON_BLOCK", "MON_LOOKUP"}

(***************************************************************************)
(* Bus controller: the control word of a message.                          *)
(***************************************************************************)
Set_Bus == BC /\ \E channel \in {0, 128} : Change("bus", {7}, Bits(channel))
Set_Halt == BC /\ Change("halt", {}, {13})
Set_Continue == BC /\ Change("halt", {13}, {})
Set_Stop_On_Error == BC /\ Change("stop", {}, {15})

\* Mutant of Set_Retry: the mask leaves out the alternate bus bit and takes
\* the transmit bus instead.
Set_RetryOff ==
    /\ BC
    /\ \E n \in 0..3, alt \in {0, 64} :
          Change("retry", {4, 5, 7}, Bits(alt) \cup Bits(16 * n))

Set_Retry ==
    /\ BC
    /\ \E n \in 0..3, alt \in {0, 64} :
          Change("retry", 4..6, Bits(alt) \cup Bits(16 * n))

\* An error in a message that is not a receive goes to the data words.
Insert_Msg_Err ==
    /\ BC /\ ~module.single
    /\ \E flags \in {0, 16384, 4096, 768}, receive \in BOOLEAN :
          Change("errors", (8..12) \cup {14},
                 IF flags = 0 \/ receive THEN Bits(flags) ELSE Bits(flags) \cup {8})

(***************************************************************************)
(* Bus controller: registers.                                              *)
(***************************************************************************)
Set_Bit_Cnt ==
    /\ ~module.single
    /\ \E offset \in -3..3 :
          \/ BC /\ Change("bitcnt", 0..3, Bits(offset + 3))
          \/ RT /\ Change("bitcnt", Word, Bits(
                    CASE offset = -3 -> 5 [] offset = -2 -> 0 [] offset = -1 -> 2
                      [] offset = 0 -> 3 [] offset = 1 -> 4 [] offset = 2 -> 1
                      [] OTHER -> 6))

Newer == module.proc # "AMD"        \* and a firmware revision of 0x1a or more

Set_Zero_Cross ==
    /\ BC /\ Newer /\ ~module.single
    /\ \E type \in (0..10) \ {7} : Change("zerocross", 4..7, Bits(16 * type))

Set_Word_Cnt ==
    /\ BC /\ ~module.single
    /\ \E offset \in -3..3 : Change("wdcnt", Word, Bits(offset % 256))

Enable_SRQ_Support == BC /\ Flag("nosrq", {1})
Set_Frequency == BC /\ Flag("frequency", {5})
Set_IMG_On_Skip == BC /\ module.proc = "NIOS" /\ Flag("skipimg", {4})

\* The pattern register; the enable bit is set with it and never cleared.
Set_Sync_Pattern ==
    /\ BC /\ Newer
    /\ settings < MaxSettings /\ settings' = settings + 1
    /\ \E pattern \in {0, 63} :
         /\ reg' = [reg EXCEPT !.bcprot = @ \cup {2}, !.sync_pattern = Bits(pattern)]
         /\ asked' = [asked EXCEPT !.syncpat = <<Bits(pattern)>>, !.syncerr = <<{2}>>]
    /\ UNCHANGED <<module, mode, num, told, trig>>

Set_Error_Location ==
    /\ BC /\ Newer /\ ~module.single
    /\ settings < MaxSettings /\ settings' = settings + 1
    /\ \E w \in {0, 31}, b \in {0, 16} :
         /\ reg' = [reg EXCEPT !.err_word_index = Bits(w), !.err_bit_index = Bits(b)]
         /\ asked' = [asked EXCEPT !.errword = <<Bits(w)>>, !.errbit = <<Bits(b)>>]
    /\ UNCHANGED <<module, mode, num, told, trig>>

Set_Replay == BC /\ \E flag \in {0, 1} : Change("replay", Byte, Bits(flag))
Send_Timetag_Sync == BC /\ \E flag \in {0, 1} : Change("ttagsync", Word, Bits(flag))

\* Which flags are valid depends on the mode; in RT mode another register.
Set_Interrupt ==
    \/ BC /\ \E flag \in {0, 2, 62} : Change("interrupt", Byte, Bits(flag))
    \/ RT /\ \E flag \in {0, 1, 3} : Change("rtint", Byte, Bits(flag))
    \/ mode = "MON_LOOKUP" /\ \E flag \in {0, 2} : Change("interrupt", Byte, Bits(flag))
    \/ mode = "MON_BLOCK" /\ \E flag \in {0, 15} : Change("interrupt", Byte, Bits(flag))

(***************************************************************************)
(* Any mode.                                                               *)
(***************************************************************************)
Restart == Change("run", {}, {0})

\* Stop_Px also ends a replay that is under way.
Stop ==
    /\ settings < MaxSettings /\ settings' = settings + 1
    /\ reg' = [reg EXCEPT !.start = @ \ {0},
                 !.boardopt = IF reg.replay = {0} /\ Newer THEN @ \ {11} ELSE @]
    /\ asked' = [asked EXCEPT !.run = <<{}>>]
    /\ UNCHANGED <<module, mode, num, told, trig>>

Set_Header_Exists ==
    \/ Mon /\ \E v \in {0, 256, 1, 257} : Change("hdrexists", Word, Bits(v))
    \/ BC /\ \E enable \in {0, 1} : Change("hdrexists", Word, Bits(256 * enable))
    \/ RT /\ \E enable \in {0, 1} : Change("hdrexists", Word, Bits(enable))

Set_Header_Value == \E v \in {0, 4660} : Change("hdrval", Word, Bits(v))

Enable_1553A_Support ==
    \/ BC /\ Flag("bc1553a", {0})
    \/ RT /\ Flag("rt1553a", {1})
    \/ Mon /\ \E flag \in {0, 1} : Change("mon1553a", Word, Bits(flag))

Clear_Timetag_Sync ==
    \E flag \in {0, 1} : \/ Change("clr1", Byte, Bits(flag))
                         \/ Change("clr17", Byte, Bits(flag))

Set_Expanded_Block_Mode == Flag("expanded", {0})

(***************************************************************************)
(* Remote terminal.                                                        *)
(***************************************************************************)
\* An RT's byte: interrupt and active bits cleared, then set; in BC/RT mode
\* the active bit only.  The interrupt bit of RT 31 is the one that
\* Set_Broad_Interrupt_Px sets: here it takes the new value.
RT31Byte(set) ==
    /\ settings < MaxSettings /\ settings' = settings + 1
    /\ reg' = [reg EXCEPT !.active31 = (@ \ (0..1)) \cup set]
    /\ asked' = [asked EXCEPT !.broadint = <<set \cap {1}>>]
    /\ UNCHANGED <<module, mode, num, told, trig>>

Set_RT_Active ==
    \/ RT /\ \E set \in {{0}, 0..1} : Change("active", 0..1, set)
    \/ RT /\ ~module.single /\ \E set \in {{0}, 0..1} : RT31Byte(set)
    \/ BC /\ ~module.single /\ Change("active", {}, {0})

Set_RT_Nonactive ==
    /\ ~module.single
    /\ \/ RT /\ (Change("active", 0..1, {}) \/ RT31Byte({}))
       \/ BC /\ Change("active", {0}, {})

Set_Broad_Interrupt == RT /\ Flag("broadint", {1})

Set_RT_Active_Bus ==
    RT /\ \E bus \in 0..3 : Change("rtbus", 2..3, Bits(4 * bus))

\* The status words tried.
StatusWords == {0, 10240}

\* The status word and whether it is for one message only.
Set_1553Status ==
    /\ RT
    /\ settings < MaxSettings /\ settings' = settings + 1
    /\ \E v \in StatusWords, once \in BOOLEAN :
         LET immed == IF once THEN {4} ELSE {}
         IN  /\ reg' = [reg EXCEPT !.active5 = (@ \ {4}) \cup immed, !.status = Bits(v)]
             /\ asked' = [asked EXCEPT !.status = <<Bits(v)>>, !.immed = <<immed>>]
    /\ UNCHANGED <<module, mode, num, told, trig>>

\* Flag 1 sets the bit; for flag 0 the routine writes the register & ~flag,
\* which clears nothing.
Set_Invalid_Data_Res ==
    RT /\ (Change("invalid", {}, {0}) \/ Change("invalid", {}, {}))

Set_Mode_Addr ==
    (RT \/ Mon) /\ \E flag \in 0..2 : Change("modecode", Byte, Bits(flag))

Set_RT_Errors ==
    RT /\ ~module.single /\ \E e \in {0, 246} : Change("rterrors", Byte, Bits(e))

Set_RT_Interrupt == RT /\ Change("rtint", Byte, {1})
Reset_RT_Interrupt == RT /\ Change("rtint", Byte, {})
Set_Bit == RT /\ \E v \in {0, 4660} : Change("builtin", Word, Bits(v))
Set_Vector == RT /\ \E v \in {0, 4660} : Change("vector", Word, Bits(v))

Set_Wd_Cnt_Err ==
    RT /\ ~module.single /\ \E offset \in -3..3 : Change("wdcnt", Byte, Bits(offset % 256))

Set_Checksum_Blocks == RT /\ \E n \in {0, 199} : Change("checksum", Word, Bits(n))

\* The control word of an RT/subaddress.
Set_RTid_Interrupt == RT /\ (Flag("inteom", {0}) \/ Flag("interr", {1}))
Set_RTid_Status == RT /\ (Flag("illegal", {2}) \/ Flag("inactive", {3}) \/ Flag("busy", {7}))
Set_SAid_Illegal == RT /\ module.single /\ Flag("illegal", {2})

\* The number of buffers; the mask takes the board's buffer pointer too.
Set_RTid_Multibuf ==
    /\ RT
    /\ \E n \in {0, 2, 16} :
         /\ n > 0 => 4 \notin reg.rtid
         /\ Change("buffers", 8..15, IF n > 0 THEN Bits(256 * (n - 1)) ELSE {})

Reset_RTid_Multibuf == RT /\ Change("buffers", 12..15, reg.rtid \cap (8..11))

\* The block's low byte, and the bit that selects the upper half of them.
LowByte(n) == Bits(n % 256)
UpperHalf(n) == IF n > 255 THEN {6} ELSE {}

AssignBlock(n, more) ==
    /\ settings < MaxSettings /\ settings' = settings + 1
    /\ reg' = [reg EXCEPT !.rtid = (@ \ {6}) \cup more \cup UpperHalf(n),
                 !.blk_lookup = LowByte(n)]
    /\ asked' = [asked EXCEPT !.dbuffer = IF more = {} THEN @ ELSE <<more>>,
                   !.block = <<LowByte(n)>>, !.upper = <<UpperHalf(n)>>]
    /\ UNCHANGED <<module, mode, num, told, trig>>

Assign_RT_Data == RT /\ \E n \in {3, 300} : AssignBlock(n, {})

Assign_DB_Datablk ==
    \/ RT /\ Change("dbuffer", 4..5, {})
    \/ RT /\ \E n \in {4, 300} : AssignBlock(n, {4})

(***************************************************************************)
(* Bus monitor.                                                            *)
(***************************************************************************)
Set_IRIG_TimeTag_Mode == mode = "MON_BLOCK" /\ Flag("irig", {3})
Set_Enhanced_Mon == mode = "MON_BLOCK" /\ Flag("enhanced", {1})

\* Each RT of its own kind; the bit that says so is never cleared.
Enable_Mon_1553A_Support ==
    /\ mode = "MON_BLOCK"
    /\ settings < MaxSettings /\ settings' = settings + 1
    /\ \E v \in {10, 11} :
         /\ reg' = [reg EXCEPT !.modfn = @ \cup {2}, !.modePerRT = Bits(v)]
         /\ asked' = [asked EXCEPT !.perRT = <<{2}>>, !.per1553a = <<Bits(v)>>]
    /\ UNCHANGED <<module, mode, num, told, trig>>

\* A trigger on or off: the host keeps triggers and trig_mode, and without a
\* trigger the register says STORE_ALL.
SetTrigger(t) ==
    /\ mode = "MON_BLOCK"
    /\ settings < MaxSettings /\ settings' = settings + 1
    /\ \E on \in BOOLEAN :
         LET now == IF on THEN trig.set \cup {t} ELSE trig.set \ {t}
         IN  /\ trig' = [trig EXCEPT !.set = now]
             /\ reg' = [reg EXCEPT !.trig_ctl = IF now = {} THEN {2} ELSE now \cup trig.mode]
             /\ asked' = [asked EXCEPT
                            !.trigmode = IF now = {} \/ @ = <<>> THEN <<>> ELSE <<trig.mode>>,
                            !.triggers = <<now>>]
    /\ UNCHANGED <<module, mode, num, told>>

Set_Trigger1 == SetTrigger(0)
Set_Trigger2 == SetTrigger(1)

\* STORE_ONLY or STORE_AFTER, with or without STATUS_TRIGGER.
Set_Trigger_Mode ==
    /\ mode = "MON_BLOCK"
    /\ settings < MaxSettings /\ settings' = settings + 1
    /\ \E m \in {Bits(8), Bits(16), Bits(136)} :
         /\ reg' = [reg EXCEPT !.trig_ctl = (@ \cap (0..1)) \cup m]
         /\ trig' = [trig EXCEPT !.mode = m]
         /\ asked' = [asked EXCEPT !.trigmode = <<m>>]
    /\ UNCHANGED <<module, mode, num, told>>

\* One byte: a block above 255 of an expanded monitor loses its high bits.
Set_Cnt_Trig ==
    mode = "MON_BLOCK" /\ \E n \in {0, 199, 255} : Change("cnttrig", Byte, Bits(n % 256))
Set_Message_Interval_Interrupt_Value ==
    mode = "MON_BLOCK" /\ Newer /\ \E n \in {0, 500} : Change("interval", Word, Bits(n))
Set_Broad_Ctl == Mon /\ \E flag \in {0, 1} : Change("broad", Word, Bits(flag))
Set_MON_Concurrent == Mon /\ \E v \in {0, 2} : Change("concurrent", Byte, Bits(v))
Set_Mon_Response_Time == Mon /\ \E t \in {0, 120} : Change("monresp", Word, Bits(t))
Set_Mon_Response_Time_1553A == Mon /\ \E t \in {0, 90} : Change("monrespa", Word, Bits(t))

\* The byte of the lookup table; Assign_Blk_Px writes all of it.
Assign_Blk ==
    /\ mode = "MON_LOOKUP"
    /\ \E n \in {0, 127} : ChangeEnding("lkupblk", Byte, Bits(n), {"lkupint"})
Enable_Lkup_Int == mode = "MON_LOOKUP" /\ Flag("lkupint", {7})

(***************************************************************************)
(* Times.                                                                  *)
(***************************************************************************)
Set_BC_Resp ==
    /\ BC
    /\ \E t \in Given["resptime"] :
         /\ t \in 2000..(IF module.single THEN 12000 ELSE 32000)
         /\ Store("resptime", t, <<(t \div 155) % 256, 0>>)

Set_Var_Amp ==
    /\ BC \/ RT
    /\ ~module.single
    /\ \E mv \in Given["amplitude"] :
         /\ mv \div 30 <= 255
         /\ Store("amplitude", mv, <<(mv \div 30) % 256, 0>>)

Set_RT_Resp_Time ==
    /\ RT \/ (BC /\ ~module.single)
    /\ \E ns \in Given["rtresp"] :
         /\ module.single => ns <= 12000
         /\ Store("rtresp", ns, <<((ns - 4000) \div 155) % 256, 0>>)

Set_Timetag_Res ==
    /\ RT \/ Mon
    /\ \E r \in Given["ttagres"] :
         /\ r \in 4..1024
         /\ Store("ttagres", r, <<(((r + 2) \div 4) - 1) % 256, 0>>)

\* A time as a multiplier and a count of 155 ns: frames and message gaps.
TimesOf155(t) == LET m == t \div 10158
                 IN  <<m % 65536, (((t \div (m + 1)) * 1000) \div 155) % 65536>>

Set_Frame_Time == BC /\ \E t \in Given["frame"] : Store("frame", t, TimesOf155(t))

\* A gap as a count of 250 ns, its upper half in the multiplier's word.
CountOf250(t) == <<((4 * t) \div 65536) % 65536, (4 * t) % 65536>>

\* The calibration, meant for nanoseconds: a NIOS takes it off microseconds.
Calibrated(t) == IF t >= 30000 THEN t - 4000 ELSE t

AlterGapNios(t) ==
    /\ 3 \in reg["bcprot"] /\ module.proc = "NIOS"
    /\ Store("gap", t, CountOf250(Calibrated(t)))

Intel250 == module.img250 /\ module.proc = "INTEL"

\* The option that the firmware looks at is set with the first gap.
AlterGapIntel(t) ==
    /\ Intel250
    /\ settings < MaxSettings /\ settings' = settings + 1
    /\ reg' = [reg EXCEPT !.bcprot = @ \cup {3}]
    /\ asked' = [asked EXCEPT !.res250 = <<{3}>>]
    /\ num' = [num EXCEPT !.gap = CountOf250(t)]
    /\ told' = [told EXCEPT !.gap = <<t>>]
    /\ UNCHANGED <<module, mode, trig>>

AlterGapOther(t) ==
    /\ ~(3 \in reg["bcprot"] /\ module.proc = "NIOS") /\ ~Intel250
    /\ Store("gap", t, TimesOf155(t))

AlterGapTo(t) == AlterGapNios(t) \/ AlterGapIntel(t) \/ AlterGapOther(t)

\* Mutant of AlterGap: MAX_IMG is not enforced.
AlterGapUnchecked == BC /\ \E t \in Given["gap"] : AlterGapTo(t)

MAX_IMG == 83204178
AlterGap == BC /\ \E t \in Given["gap"] : t <= MAX_IMG /\ AlterGapTo(t)

\* A minor frame time as a multiplier and a count of microseconds.
MinorTimeOf(us) == LET m == (us - 1) \div 65535 + 1
                   IN  <<m % 65536, (us \div m) % 65536>>

Set_Minor_Frame_Time ==
    BC /\ \E us \in Given["minor"] : Store("minor", us, MinorTimeOf(us))

\* The instruction counter is stored with its bytes exchanged.
Swapped(n) == (n \div 256) + 256 * (n % 256)
StartCount == BC /\ \E n \in Given["counter"] : Store("counter", n, <<Swapped(n), 0>>)

\* What the stored numbers mean to the board (and to the Get_ routines), and
\* how far from the time asked for they may be.
Get_Minor_Frame_Time == num["minor"][1] * num["minor"][2]
Get_Instruction_Counter == Swapped(num["counter"][1])
\* Bits 13 to 15 of img_mult, next to the multiplier, belong to other settings.
GapMultiplier == num["gap"][1] % 8192
In250 == 3 \in reg["bcprot"]
GapTime == IF In250 THEN (GapMultiplier * 65536 + num["gap"][2]) \div 4
           ELSE (GapMultiplier + 1) * ((num["gap"][2] * 155) \div 1000)

Meaning(t) ==
    CASE t = "resptime" -> num[t][1] * 155
      [] t = "amplitude" -> num[t][1] * 30
      [] t = "rtresp" -> num[t][1] * 155 + 4000
      [] t = "ttagres" -> (num[t][1] + 1) * 4
      [] t = "frame" -> (num[t][1] + 1) * ((num[t][2] * 155) \div 1000)
      [] t = "gap" -> GapTime
      [] t = "minor" -> Get_Minor_Frame_Time
      [] t = "counter" -> Get_Instruction_Counter

Tolerance(t) ==
    CASE t \in {"resptime", "rtresp"} -> 154
      [] t = "amplitude" -> 29
      [] t = "ttagres" -> 2
      [] t = "gap" /\ In250 -> 0
      [] t = "frame" \/ (t = "gap" /\ ~In250) -> 2 * num[t][1] + 1
      [] t = "minor" -> num[t][1] - 1
      [] t = "counter" -> 0

\* What Set_Mode_Px leaves in the registers.
SetInit ==
    /\ module \in Modules /\ mode \in Modes
    /\ reg = [r \in Registers |->
                CASE r = "bit" /\ mode = "BC_RT" -> {0, 1}
                  [] r = "control" -> {7}
                  [] r = "boardopt" -> {11}
                  [] r = "bcprot" /\ module.proc = "NIOS" -> {3}
                  [] OTHER -> {}]
    /\ num = [t \in Times |-> <<0, 0>>]
    /\ asked = [s \in Settings |-> IF s # "res250" \/ Intel250 THEN <<>>
                                   ELSE IF module.proc = "NIOS" THEN <<{3}>>
                                   ELSE <<{}>>]
    /\ told = [t \in Times |-> <<>>]
    /\ trig = [set |-> {}, mode |-> {}]
    /\ settings = 0

SetNext ==
    \/ Set_Bus \/ Set_Halt \/ Set_Continue \/ Set_Stop_On_Error \/ Set_Retry
    \/ Insert_Msg_Err \/ Set_Bit_Cnt \/ Set_Zero_Cross \/ Set_Word_Cnt
    \/ Enable_SRQ_Support \/ Set_Frequency \/ Set_IMG_On_Skip
    \/ Set_Sync_Pattern \/ Set_Error_Location \/ Set_Replay
    \/ Send_Timetag_Sync \/ Set_Interrupt \/ Restart \/ Stop
    \/ Set_Header_Exists \/ Set_Header_Value \/ Enable_1553A_Support
    \/ Clear_Timetag_Sync \/ Set_Expanded_Block_Mode
    \/ Set_RT_Active \/ Set_RT_Nonactive \/ Set_Broad_Interrupt
    \/ Set_RT_Active_Bus \/ Set_1553Status \/ Set_Invalid_Data_Res
    \/ Set_Mode_Addr \/ Set_RT_Errors \/ Set_RT_Interrupt \/ Reset_RT_Interrupt
    \/ Set_Bit \/ Set_Vector \/ Set_Wd_Cnt_Err \/ Set_Checksum_Blocks
    \/ Set_RTid_Interrupt \/ Set_RTid_Status \/ Set_SAid_Illegal
    \/ Set_RTid_Multibuf \/ Reset_RTid_Multibuf \/ Assign_RT_Data
    \/ Assign_DB_Datablk \/ Set_IRIG_TimeTag_Mode \/ Set_Enhanced_Mon
    \/ Enable_Mon_1553A_Support \/ Set_Trigger1 \/ Set_Trigger2
    \/ Set_Trigger_Mode \/ Set_Cnt_Trig \/ Set_Message_Interval_Interrupt_Value
    \/ Set_Broad_Ctl \/ Set_MON_Concurrent \/ Set_Mon_Response_Time
    \/ Set_Mon_Response_Time_1553A \/ Assign_Blk \/ Enable_Lkup_Int
    \/ Set_BC_Resp \/ Set_Var_Amp \/ Set_RT_Resp_Time \/ Set_Timetag_Res
    \/ Set_Frame_Time \/ AlterGap \/ Set_Minor_Frame_Time \/ StartCount

SetSpec == SetInit /\ [][SetNext]_SetVars

(***************************************************************************)
(* Properties.                                                             *)
(***************************************************************************)
\* What was asked of Set_Invalid_Data_Res_Px with flag 0.
Unanswered(s) == s = "invalid" /\ asked[s] = <<{}>>

\* Every setting that a call accepted stays in force, whatever is set
\* afterwards through the same register: no routine's mask touches a
\* neighbouring field or leaves old bits of its own.  Excepted is flag 0 of
\* Set_Invalid_Data_Res_Px.
BitsHold ==
    \A s \in Settings :
       asked[s] # <<>> /\ ~Unanswered(s) => reg[Field[s][1]] \cap Field[s][2] = asked[s][1]

\* The comment of Set_Invalid_Data_Res: flag "1 = respond, 0 = do not respond".
InvalidDataAnswered ==
    asked["invalid"] # <<>> => reg["rtprot"] \cap {0} = asked["invalid"][1]

Kept(t) == /\ told[t][1] - Meaning(t) <= Tolerance(t)
           /\ Meaning(t) - told[t][1] <= Tolerance(t)

\* A gap from which AlterGapNios has taken the calibration.
Shortened(t) == t = "gap" /\ module.proc = "NIOS" /\ told[t][1] >= 30000

\* Every time that a call accepted is what the board and the Get_ routines
\* make of the registers, to within the unit the registers count in: no
\* quotient overflows its byte or word at the ends of its range, and no
\* multiplier reaches into the bits beside it.  Excepted are the gaps of 30 ms
\* and more of a NIOS module, for which the code is at odds with the comment of
\* Alter_IMG ("New intermessage gap time in microseconds").
TimesHold == \A t \in Times : told[t] # <<>> /\ ~Shortened(t) => Kept(t)
=============================================================================

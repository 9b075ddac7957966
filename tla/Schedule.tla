------------------------------ MODULE Schedule ------------------------------
(***************************************************************************)
(* The transmit loop icu (transmit_data), irst (transmit_data) and         *)
(* platform (bc_1553_thread) have in common, with its clock: the time is   *)
(* read once per pass, every message whose interval has elapsed is sent    *)
(* and stamped with the time read, and a pass that sent nothing sleeps.    *)
(* Sending takes up to SendMax and the sleep up to SleepMax milliseconds.  *)
(***************************************************************************)
EXTENDS Integers, FiniteSets

CONSTANTS
    N,           \* number of messages
    Rate,        \* Rate[i]: messages per second, as configured
    Second,      \* milliseconds in a second: 1000 in the code
    SendMax,     \* longest send
    SleepMax,    \* longest usleep(1000)
    Horizon      \* bound on the time modelled

ASSUME CountAssumption == N \in Nat \ {0}
ASSUME RateAssumption == Second \in Nat \ {0} /\ Rate \in [1..N -> 1..Second]
ASSUME TimesAssumption ==
    SendMax \in Nat /\ SleepMax \in Nat \ {0} /\ Horizon \in Nat

VARIABLES
    now,              \* CLOCK_MONOTONIC since start_time, in milliseconds
    elapsed_ms,       \* the time read for this pass
    i,                \* loop index; N + 1 after the last message
    pc,
    frame_executed,
    last_time,        \* last_time[m] of each message
    sentCount         \* history: how often each message has been sent

paceVars == <<now, elapsed_ms, i, pc, frame_executed, last_time, sentCount>>

Msgs == 1..N

\* Mutant of Interval: one message too many fits into the second.
IntervalShort(m) == Second \div (Rate[m] + 1)

\* int rate = 1000 / msg->rate
Interval(m) == Second \div Rate[m]

PaceInit ==
    /\ now = 0 /\ elapsed_ms = 0 /\ i = 1 /\ pc = "sample"
    /\ frame_executed = FALSE
    /\ last_time = [m \in Msgs |-> 0]
    /\ sentCount = [m \in Msgs |-> 0]

\* clock_gettime at the head of the loop.
Sample ==
    /\ pc = "sample"
    /\ elapsed_ms' = now /\ i' = 1 /\ pc' = "pass"
    /\ UNCHANGED <<now, frame_executed, last_time, sentCount>>

\* Mutant of Due: the interval must be exceeded.
DueLater(m) == elapsed_ms - last_time[m] > Interval(m)

Due(m) == elapsed_ms - last_time[m] >= Interval(m)

Skip ==
    /\ pc = "pass" /\ i \in Msgs /\ ~Due(i)
    /\ i' = i + 1
    /\ UNCHANGED <<now, elapsed_ms, pc, frame_executed, last_time, sentCount>>

\* Mutant of Send: the stamp is a tick behind the time read.
SendStampsEarly(d) ==
    /\ pc = "pass" /\ i \in Msgs /\ Due(i) /\ now + d <= Horizon
    /\ now' = now + d
    /\ last_time' = [last_time EXCEPT ![i] = elapsed_ms - 1]
    /\ sentCount' = [sentCount EXCEPT ![i] = @ + 1]
    /\ frame_executed' = TRUE
    /\ i' = i + 1
    /\ UNCHANGED <<elapsed_ms, pc>>

\* The message is sent and stamped; sending takes d milliseconds.
Send(d) ==
    /\ pc = "pass" /\ i \in Msgs /\ Due(i) /\ now + d <= Horizon
    /\ now' = now + d
    /\ last_time' = [last_time EXCEPT ![i] = elapsed_ms]
    /\ sentCount' = [sentCount EXCEPT ![i] = @ + 1]
    /\ frame_executed' = TRUE
    /\ i' = i + 1
    /\ UNCHANGED <<elapsed_ms, pc>>

\* A pass in which something was sent is followed by the next one at once.
PassEnds ==
    /\ pc = "pass" /\ i = N + 1 /\ frame_executed
    /\ frame_executed' = FALSE /\ pc' = "sample"
    /\ UNCHANGED <<now, elapsed_ms, i, last_time, sentCount>>

\* usleep, then the next pass.
Sleep(d) ==
    /\ pc = "pass" /\ i = N + 1 /\ ~frame_executed /\ now + d <= Horizon
    /\ now' = now + d /\ pc' = "sample"
    /\ UNCHANGED <<elapsed_ms, i, frame_executed, last_time, sentCount>>

PaceNext ==
    \/ Sample \/ Skip \/ PassEnds
    \/ \E d \in 0..SendMax : Send(d)
    \/ \E d \in 1..SleepMax : Sleep(d)

PaceSpec == PaceInit /\ [][PaceNext]_paceVars

-----------------------------------------------------------------------------
PaceTypeOK ==
    /\ now \in 0..Horizon /\ elapsed_ms \in 0..Horizon
    /\ i \in 1..(N + 1) /\ pc \in {"sample", "pass"}
    /\ frame_executed \in BOOLEAN
    /\ last_time \in [Msgs -> 0..Horizon] /\ sentCount \in [Msgs -> Nat]

\* Since the start of the loop a message has been sent at most once per interval,
\* however passes, sends and sleeps fall: a late send is never made up for.
SpacingKept ==
    \A m \in Msgs : sentCount[m] * Interval(m) <= last_time[m]

\* The clock value a pass works with lies between every stamp and the present.
StampsInPast ==
    elapsed_ms <= now /\ \A m \in Msgs : last_time[m] <= elapsed_ms

\* How late a message can be.  At worst its interval has almost elapsed when one
\* pass reads the clock, that pass sends all others or sleeps, and the next one
\* sends the message last; or one pass of sends is itself longer than that.
Longest(a, b) == IF a >= b THEN a ELSE b
NeverLater ==
    \A m \in Msgs :
        now - last_time[m] <=
            Longest(Interval(m) - 1 + Longest((N - 1) * SendMax, SleepMax), N * SendMax)
            + (N - 1) * SendMax

\* README, send_command_N: Rate is the number of messages per second.
\* In the first k seconds at most k times that number are sent, if it divides the
\* second: 1000 / rate is truncated, and the code sends 1000 for a Rate of 600.
RateNotExceeded ==
    \A m \in Msgs, k \in 0..(Horizon + 1) :
        now < k * Second => sentCount[m] <= Rate[m] * k
=============================================================================

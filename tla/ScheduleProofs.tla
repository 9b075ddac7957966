--------------------------- MODULE ScheduleProofs ---------------------------
(***************************************************************************)
(* The transmit loop for any number of messages, any rates and any         *)
(* durations of sends and sleeps.                                          *)
(***************************************************************************)
EXTENDS Schedule, TLAPS

\* What the induction needs: the types, the order of stamps and clock, and one
\* interval of stamped time for every message sent.
PacingInv == PaceTypeOK /\ StampsInPast /\ SpacingKept

\* An interval is a natural number of milliseconds.
LEMMA IntervalNat == \A m \in Msgs : Interval(m) \in Nat
BY RateAssumption, CountAssumption DEF Interval, Msgs

\* No step of the loop leaves PacingInv.
LEMMA PacingInductive == PacingInv /\ [PaceNext]_paceVars => PacingInv'
<1> SUFFICES ASSUME PacingInv, [PaceNext]_paceVars PROVE PacingInv'
    OBVIOUS
<1> USE CountAssumption, TimesAssumption DEF PacingInv, PaceTypeOK, StampsInPast
<1>0. \A m \in Msgs : /\ last_time[m] \in 0..Horizon /\ sentCount[m] \in Nat
                      /\ sentCount[m] * Interval(m) <= last_time[m]
    BY DEF SpacingKept
<1>1. CASE Sample
  <2>1. SpacingKept' BY <1>1, <1>0 DEF Sample, SpacingKept, Interval
  <2>2. StampsInPast'
    <3>1. \A m \in Msgs : last_time[m] <= now BY <1>0
    <3> QED BY <3>1, <1>1 DEF Sample
  <2> QED BY <1>1, <2>1, <2>2 DEF Sample
<1>2. CASE Skip
  <2>1. SpacingKept' BY <1>2, <1>0 DEF Skip, SpacingKept, Interval
  <2> QED BY <1>2, <2>1 DEF Skip, Msgs
<1>3. CASE PassEnds
  <2>1. SpacingKept' BY <1>3, <1>0 DEF PassEnds, SpacingKept, Interval
  <2>2. frame_executed' \in BOOLEAN BY <1>3, Zenon DEF PassEnds
  <2> QED BY <1>3, <2>1, <2>2 DEF PassEnds
<1>4. ASSUME NEW d \in 0..SendMax, Send(d) PROVE PacingInv'
  <2> USE <1>4 DEF Send
  <2>1. i \in Msgs /\ elapsed_ms - last_time[i] >= Interval(i) BY DEF Due
  <2>2. SpacingKept'
    <3> SUFFICES ASSUME NEW m \in Msgs
                 PROVE sentCount'[m] * Interval(m) <= last_time'[m]
        BY DEF SpacingKept, Interval
    <3>1. CASE m = i
      <4>1. sentCount'[m] = sentCount[i] + 1 /\ last_time'[m] = elapsed_ms
          BY <3>1, <2>1
      <4>2. (sentCount[i] + 1) * Interval(i) = sentCount[i] * Interval(i) + Interval(i)
          BY <1>0, <2>1, IntervalNat
      <4>3. sentCount[i] * Interval(i) \in Int BY <1>0, <2>1, IntervalNat
      <4> QED BY <3>1, <4>1, <4>2, <4>3, <1>0, <2>1, IntervalNat
    <3>2. CASE m # i BY <3>2, <1>0, <2>1
    <3> QED BY <3>1, <3>2
  <2>3. StampsInPast'
    <3>1. \A m \in Msgs : last_time'[m] \in {last_time[m], elapsed_ms} BY <2>1
    <3> QED BY <3>1, <1>0
  <2>4. frame_executed' \in BOOLEAN BY Zenon
  <2>5. last_time' \in [Msgs -> 0..Horizon] /\ sentCount' \in [Msgs -> Nat]
      BY <2>1, <1>0
  <2>6. now' \in 0..Horizon /\ i' \in 1..(N + 1) BY <2>1 DEF Msgs
  <2> QED BY <2>2, <2>3, <2>4, <2>5, <2>6
<1>5. ASSUME NEW d \in 1..SleepMax, Sleep(d) PROVE PacingInv'
  <2> USE <1>5 DEF Sleep
  <2>1. SpacingKept' BY <1>0 DEF SpacingKept, Interval
  <2>2. now' \in 0..Horizon /\ now <= now' OBVIOUS
  <2>3. StampsInPast' BY <2>2
  <2> QED BY <2>1, <2>2, <2>3
<1>6. CASE UNCHANGED paceVars
    BY <1>6 DEF paceVars, SpacingKept, Interval
<1> QED BY <1>1, <1>2, <1>3, <1>4, <1>5, <1>6 DEF PaceNext

\* Whatever the durations, PacingInv holds in every state of the loop.
THEOREM PacingInvariant == PaceSpec => []PacingInv
<1>1. PaceInit => PacingInv
  <2> SUFFICES ASSUME PaceInit PROVE PacingInv
      OBVIOUS
  <2> USE CountAssumption, TimesAssumption DEF PaceInit
  <2>1. SpacingKept BY IntervalNat DEF SpacingKept
  <2>2. StampsInPast BY DEF StampsInPast
  <2>3. frame_executed \in BOOLEAN BY Zenon
  <2> QED BY <2>1, <2>2, <2>3 DEF PacingInv, PaceTypeOK
<1> QED BY <1>1, PacingInductive, PTL DEF PaceSpec

\* A message is sent at most once per interval since the start of the loop, and
\* a late send is never made up for (client.c and server.c transmit_data,
\* platform's bc_1553_thread).
THEOREM SpacingIsKept == PaceSpec => []SpacingKept
<1>1. PacingInv => SpacingKept BY DEF PacingInv
<1> QED BY <1>1, PacingInvariant, PTL

\* A stamp is never ahead of the clock value its pass works with, so the
\* difference the loop tests is never negative.
THEOREM StampsStayInPast == PaceSpec => []StampsInPast
<1>1. PacingInv => StampsInPast BY DEF PacingInv
<1> QED BY <1>1, PacingInvariant, PTL

\* A factor can be cancelled from an inequality.
LEMMA Cancel ==
    ASSUME NEW a \in Nat, NEW b \in Nat, NEW c \in Nat, a * c < b * c
    PROVE a < b
<1> SUFFICES ASSUME a >= b PROVE FALSE
    OBVIOUS
<1>1. PICK k \in Nat : a = b + k BY a - b \in Nat
<1>2. a * c = b * c + k * c BY <1>1
<1>3. k * c >= 0 /\ k * c \in Nat OBVIOUS
<1>4. b * c \in Nat /\ a * c \in Nat OBVIOUS
<1> QED BY <1>2, <1>3, <1>4

\* Multiplication is associative and commutative.
LEMMA Rearrange ==
    ASSUME NEW a \in Nat, NEW b \in Nat, NEW c \in Nat
    PROVE a * (b * c) = (b * a) * c
OBVIOUS

\* Where every configured Rate divides the second, as 1, 5, 10 and 40 do, no
\* message is sent more often than its Rate.
THEOREM RateIsNotExceeded ==
    ASSUME \A m \in Msgs : Rate[m] * Interval(m) = Second
    PROVE PaceSpec => []RateNotExceeded
<1>1. PacingInv => RateNotExceeded
  <2> SUFFICES ASSUME PacingInv, NEW m \in Msgs, NEW q \in 0..(Horizon + 1),
                      now < q * Second
               PROVE sentCount[m] <= Rate[m] * q
      BY DEF RateNotExceeded
  <2> DEFINE I == Interval(m)
  <2>1. Rate[m] \in Nat /\ Second \in Nat \ {0} /\ Rate[m] * I = Second
      BY RateAssumption DEF Msgs
  <2>2. now \in Nat /\ sentCount[m] \in Nat /\ I \in Nat
      BY IntervalNat, TimesAssumption DEF PacingInv, PaceTypeOK
  <2>3. sentCount[m] * I <= now
    <3>1. sentCount[m] * I <= last_time[m] BY DEF PacingInv, SpacingKept
    <3>2. last_time[m] <= elapsed_ms /\ elapsed_ms <= now
        BY DEF PacingInv, StampsInPast
    <3>3. last_time[m] \in Nat /\ elapsed_ms \in Nat /\ sentCount[m] * I \in Nat
        BY <2>2, TimesAssumption DEF PacingInv, PaceTypeOK
    <3> QED BY <3>1, <3>2, <3>3, <2>2
  <2>4. q \in Nat BY TimesAssumption
  <2>5. q * Second = (Rate[m] * q) * I
    <3> HIDE DEF I
    <3>1. q * (Rate[m] * I) = (Rate[m] * q) * I
        BY <2>1, <2>2, <2>4, Rearrange
    <3> QED BY <3>1, <2>1
  <2>6. Rate[m] * q \in Nat BY <2>1, <2>4
  <2>7. sentCount[m] * I < (Rate[m] * q) * I
    <3>1. sentCount[m] * I \in Nat /\ q * Second \in Nat BY <2>1, <2>2, <2>4
    <3> QED BY <3>1, <2>2, <2>3, <2>4, <2>5
  <2>8. sentCount[m] < Rate[m] * q
    <3> HIDE DEF I
    <3> QED BY <2>2, <2>6, <2>7, Cancel
  <2> QED BY <2>2, <2>6, <2>8
<1> QED BY <1>1, PacingInvariant, PTL
-----------------------------------------------------------------------------
(* How late a message can be. *)

\* The longest that a message can have waited when a pass reads the clock.
Waited(m) == Longest(Interval(m) - 1 + Longest((N - 1) * SendMax, SleepMax), N * SendMax)

\* In a pass each message before the i-th was sent with the pass's stamp, or its
\* interval had not elapsed and it took no time.
PassedOver(m) ==
    \/ frame_executed /\ last_time[m] = elapsed_ms
    \/ elapsed_ms - last_time[m] <= Interval(m) - 1 /\ now - elapsed_ms <= (i - 2) * SendMax

LateInv ==
    /\ pc = "sample" => ~frame_executed /\ \A m \in Msgs : now - last_time[m] <= Waited(m)
    /\ pc = "pass" =>
          /\ now - elapsed_ms <= (i - 1) * SendMax
          /\ ~frame_executed => now = elapsed_ms
          /\ \A m \in Msgs : IF m < i THEN PassedOver(m)
                             ELSE elapsed_ms - last_time[m] <= Waited(m)

\* An interval is at least a millisecond.
LEMMA IntervalPositive == \A m \in Msgs : Interval(m) >= 1
<1> SUFFICES ASSUME NEW m \in Msgs PROVE Interval(m) >= 1
    OBVIOUS
<1>1. PICK r \in 1..Second : r = Rate[m]
    BY RateAssumption DEF Msgs
<1>2. Second \div r >= 1
    BY RateAssumption
<1> QED BY <1>1, <1>2 DEF Interval

\* One more send, and no fewer sends.
LEMMA Sends ==
    /\ \A k \in Int : (k + 1) * SendMax = k * SendMax + SendMax /\ k * SendMax \in Int
    /\ \A j, k \in Int : j <= k => j * SendMax <= k * SendMax
<1>0. SendMax \in Nat
    BY TimesAssumption
<1>1. ASSUME NEW k \in Int
      PROVE (k + 1) * SendMax = k * SendMax + SendMax /\ k * SendMax \in Int
    BY <1>0
<1>2. ASSUME NEW j \in Int, NEW k \in Int, j <= k PROVE j * SendMax <= k * SendMax
  <2>1. PICK e \in Nat : k = j + e
      BY <1>2, k - j \in Nat
  <2>2. k * SendMax = j * SendMax + e * SendMax
      BY <1>0, <2>1
  <2>3. e * SendMax \in Nat /\ j * SendMax \in Int /\ k * SendMax \in Int
      BY <1>0
  <2> QED BY <2>2, <2>3
<1> QED BY <1>1, <1>2

\* What Waited allows for.
LEMMA WaitedBounds ==
    ASSUME NEW m \in Msgs
    PROVE  /\ Waited(m) \in Int /\ N * SendMax <= Waited(m)
           /\ Interval(m) - 1 + (N - 1) * SendMax <= Waited(m)
           /\ Interval(m) - 1 + SleepMax <= Waited(m)
<1>1. PICK a \in Int : a = N * SendMax
    BY CountAssumption, Sends
<1>2. PICK b \in Int : b = (N - 1) * SendMax
    BY CountAssumption, Sends
<1>3. Interval(m) \in Nat
    BY IntervalNat
<1> QED BY <1>1, <1>2, <1>3, TimesAssumption DEF Waited, Longest

\* No step of the loop leaves LateInv.
LEMMA LateInductive == PacingInv /\ LateInv /\ [PaceNext]_paceVars => LateInv'
<1> SUFFICES ASSUME PacingInv, LateInv, [PaceNext]_paceVars PROVE LateInv'
    OBVIOUS
<1> USE CountAssumption, TimesAssumption
<1>0. /\ now \in Int /\ elapsed_ms \in Int /\ i \in 1..(N + 1) /\ elapsed_ms <= now
      /\ \A m \in Msgs : last_time[m] \in Int /\ Interval(m) \in Nat /\ Waited(m) \in Int
    BY IntervalNat, WaitedBounds DEF PacingInv, PaceTypeOK, StampsInPast
<1>a. \A m \in Msgs : Interval(m)' = Interval(m) /\ Waited(m)' = Waited(m)
    BY DEF Interval, Waited
<1>b. (i - 1) * SendMax = (i - 2) * SendMax + SendMax /\ (i - 2) * SendMax \in Int
  <2>1. (i - 2) + 1 = i - 1 /\ i - 2 \in Int
      BY <1>0
  <2> QED BY <2>1, Sends
<1>c. i * SendMax = (i - 1) * SendMax + SendMax /\ (i - 1) * SendMax \in Int
  <2>1. (i - 1) + 1 = i /\ i - 1 \in Int
      BY <1>0
  <2> QED BY <2>1, Sends
<1>1. CASE Sample
  <2>1. i' = 1 /\ elapsed_ms' = now /\ now' = now /\ pc = "sample" /\ pc' = "pass"
        /\ frame_executed' = frame_executed /\ last_time' = last_time
      BY <1>1 DEF Sample
  <2>2. (i' - 1) * SendMax = 0
      BY <2>1
  <2>3. \A m \in Msgs : ~(m < i') /\ elapsed_ms' - last_time'[m] <= Waited(m)
      BY <2>1 DEF LateInv, Msgs
  <2> QED BY <1>0, <1>a, <2>1, <2>2, <2>3 DEF LateInv
<1>2. CASE Skip
  <2>1. /\ i \in Msgs /\ elapsed_ms - last_time[i] < Interval(i) /\ i' = i + 1
        /\ pc = "pass" /\ UNCHANGED <<now, elapsed_ms, pc, frame_executed, last_time>>
      BY <1>0, <1>2 DEF Skip, Due
  <2>2. i' - 1 = i /\ i' - 2 = i - 1
      BY <1>0, <2>1
  <2>3. ASSUME NEW m \in Msgs
        PROVE  IF m < i' THEN PassedOver(m)' ELSE elapsed_ms - last_time[m] <= Waited(m)
    <3>1. CASE m < i
      <4>1. PassedOver(m)
          BY <2>1, <3>1 DEF LateInv
      <4> QED BY <1>0, <1>a, <1>b, <2>1, <2>2, <3>1, <4>1 DEF PassedOver, Msgs
    <3>2. CASE m = i
      <4>1. now - elapsed_ms <= (i - 1) * SendMax
          BY <2>1 DEF LateInv
      <4> QED BY <1>0, <1>a, <2>1, <2>2, <3>2, <4>1 DEF PassedOver, Msgs
    <3>3. CASE m > i
      <4>1. elapsed_ms - last_time[m] <= Waited(m)
          BY <1>0, <2>1, <3>3 DEF LateInv, Msgs
      <4> QED BY <1>0, <2>1, <3>3, <4>1 DEF Msgs
    <3> QED BY <1>0, <3>1, <3>2, <3>3 DEF Msgs
  <2>4. now - elapsed_ms <= i * SendMax
      BY <1>0, <1>c, <2>1 DEF LateInv
  <2> QED BY <1>a, <2>1, <2>2, <2>3, <2>4 DEF LateInv
<1>3. CASE PassEnds
  <2>1. /\ i = N + 1 /\ pc = "pass" /\ pc' = "sample" /\ ~frame_executed'
        /\ UNCHANGED <<now, last_time>>
      BY <1>3 DEF PassEnds
  <2>2. ASSUME NEW m \in Msgs PROVE now - last_time[m] <= Waited(m)
    <3>1. PassedOver(m) /\ now - elapsed_ms <= N * SendMax
      <4>1. m < i /\ i - 1 = N
          BY <2>1 DEF Msgs
      <4> QED BY <2>1, <4>1 DEF LateInv
    <3>2. PICK a \in Int : a = N * SendMax
        BY Sends
    <3>3. PICK b \in Int : b = (N - 1) * SendMax
        BY Sends
    <3>4. i - 2 = N - 1
        BY <2>1
    <3> QED BY <1>0, <3>1, <3>2, <3>3, <3>4, WaitedBounds DEF PassedOver
  <2> QED BY <1>a, <2>1, <2>2 DEF LateInv
<1>4. ASSUME NEW d \in 0..SendMax, Send(d) PROVE LateInv'
  <2>1. /\ i \in Msgs /\ i' = i + 1 /\ now' = now + d /\ elapsed_ms' = elapsed_ms
        /\ pc = "pass" /\ pc' = "pass" /\ frame_executed'
        /\ last_time' = [last_time EXCEPT ![i] = elapsed_ms]
      BY <1>4 DEF Send
  <2>2. i' - 1 = i /\ i' - 2 = i - 1
      BY <1>0, <2>1
  <2>3. \A m \in Msgs : last_time'[m] = IF m = i THEN elapsed_ms ELSE last_time[m]
      BY <2>1 DEF PacingInv, PaceTypeOK
  <2>4. ASSUME NEW m \in Msgs
        PROVE  IF m < i' THEN PassedOver(m)' ELSE elapsed_ms - last_time'[m] <= Waited(m)
    <3>1. CASE m < i
      <4>1. PassedOver(m) /\ m # i
          BY <1>0, <2>1, <3>1 DEF LateInv, Msgs
      <4>2. last_time'[m] = last_time[m]
          BY <2>3, <4>1
      <4>3. ASSUME last_time[m] = elapsed_ms PROVE PassedOver(m)'
          BY <2>1, <4>2, <4>3 DEF PassedOver
      <4>4. ASSUME elapsed_ms - last_time[m] <= Interval(m) - 1,
                   now - elapsed_ms <= (i - 2) * SendMax
            PROVE  PassedOver(m)'
        <5>1. now' - elapsed_ms <= (i - 1) * SendMax
            BY <1>0, <1>b, <2>1, <4>4
        <5> QED BY <1>a, <2>1, <2>2, <4>2, <4>4, <5>1 DEF PassedOver
      <4>5. PassedOver(m)'
          BY <4>1, <4>3, <4>4 DEF PassedOver
      <4> QED BY <1>0, <2>1, <3>1, <4>5 DEF Msgs
    <3>2. CASE m = i
      <4>1. PassedOver(m)'
          BY <2>1, <2>3, <3>2 DEF PassedOver
      <4> QED BY <1>0, <2>1, <3>2, <4>1 DEF Msgs
    <3>3. CASE m > i
      <4>1. elapsed_ms - last_time[m] <= Waited(m) /\ last_time'[m] = last_time[m]
          BY <1>0, <2>1, <2>3, <3>3 DEF LateInv, Msgs
      <4> QED BY <1>0, <2>1, <3>3, <4>1 DEF Msgs
    <3> QED BY <1>0, <3>1, <3>2, <3>3 DEF Msgs
  <2>5. now' - elapsed_ms <= i * SendMax
    <3>1. now - elapsed_ms <= (i - 1) * SendMax
        BY <2>1 DEF LateInv
    <3> QED BY <1>0, <1>c, <2>1, <3>1
  <2> QED BY <1>a, <2>1, <2>2, <2>4, <2>5 DEF LateInv
<1>5. ASSUME NEW d \in 1..SleepMax, Sleep(d) PROVE LateInv'
  <2>1. /\ i = N + 1 /\ pc = "pass" /\ pc' = "sample" /\ ~frame_executed
        /\ now' = now + d /\ UNCHANGED <<last_time, frame_executed>>
      BY <1>5 DEF Sleep
  <2>2. ASSUME NEW m \in Msgs PROVE now' - last_time[m] <= Waited(m)
    <3>1. m < i /\ now = elapsed_ms
        BY <2>1 DEF LateInv, Msgs
    <3>2. elapsed_ms - last_time[m] <= Interval(m) - 1
        BY <2>1, <3>1 DEF LateInv, PassedOver
    <3> QED BY <1>0, <2>1, <3>1, <3>2, WaitedBounds
  <2> QED BY <1>a, <2>1, <2>2 DEF LateInv
<1>6. CASE UNCHANGED paceVars
    BY <1>6 DEF paceVars, LateInv, PassedOver, Waited, Interval
<1> QED BY <1>1, <1>2, <1>3, <1>4, <1>5, <1>6 DEF PaceNext

\* However many messages there are and however long sends and sleeps take, no
\* message waits longer than its interval, what the pass before it took and the
\* other sends of its own pass (transmit_data of client.c and server.c,
\* bc_1553_thread of platform).
THEOREM NoMessageIsLater == PaceSpec => []NeverLater
<1>1. PaceInit => LateInv
  <2> SUFFICES ASSUME PaceInit PROVE LateInv
      OBVIOUS
  <2>1. ASSUME NEW m \in Msgs PROVE 0 <= Waited(m)
    <3>1. 0 <= N * SendMax /\ N * SendMax \in Int
        BY CountAssumption, TimesAssumption, Sends, 0 * SendMax = 0
    <3> QED BY <3>1, WaitedBounds
  <2> QED BY <2>1 DEF PaceInit, LateInv
<1>2. PacingInv /\ LateInv => NeverLater
  <2> SUFFICES ASSUME PacingInv, LateInv, NEW m \in Msgs
               PROVE  now - last_time[m] <= Waited(m) + (N - 1) * SendMax
      BY DEF NeverLater, Waited
  <2> USE CountAssumption, TimesAssumption
  <2>0. /\ now \in Int /\ elapsed_ms \in Int /\ i \in 1..(N + 1)
        /\ last_time[m] \in Int /\ Interval(m) \in Nat
      BY IntervalNat DEF PacingInv, PaceTypeOK
  <2>1. PICK a \in Int : a = N * SendMax
      BY Sends
  <2>2. PICK b \in Int : b = (N - 1) * SendMax
      BY Sends
  <2>3. 0 <= b
    <3>1. 0 <= N - 1 /\ 0 * SendMax = 0
        OBVIOUS
    <3> QED BY <2>2, <3>1, Sends
  <2>4. CASE pc = "sample"
      BY <2>0, <2>2, <2>3, <2>4, WaitedBounds DEF LateInv
  <2>5. CASE pc = "pass" /\ m < i
    <3>1. PICK c \in Int : c = (i - 1) * SendMax /\ c <= a
        BY <2>0, <2>1, Sends
    <3>2. PICK e \in Int : e = (i - 2) * SendMax /\ e <= b
        BY <2>0, <2>2, Sends
    <3>3. PassedOver(m) /\ now - elapsed_ms <= c
        BY <2>5, <3>1 DEF LateInv
    <3>4. \/ last_time[m] = elapsed_ms
          \/ elapsed_ms - last_time[m] <= Interval(m) - 1 /\ now - elapsed_ms <= e
        BY <3>2, <3>3 DEF PassedOver
    <3>5. now - last_time[m] <= Waited(m)
        BY <2>0, <2>1, <2>2, <3>1, <3>2, <3>3, <3>4, WaitedBounds
    <3> QED BY <2>0, <2>2, <2>3, <3>5, WaitedBounds
  <2>6. CASE pc = "pass" /\ ~(m < i)
    <3>1. PICK c \in Int : c = (i - 1) * SendMax /\ c <= b
        BY <2>0, <2>2, <2>6, Sends DEF Msgs
    <3>2. elapsed_ms - last_time[m] <= Waited(m) /\ now - elapsed_ms <= c
        BY <2>6, <3>1 DEF LateInv
    <3> QED BY <2>0, <2>2, <3>1, <3>2, WaitedBounds
  <2> QED BY <2>4, <2>5, <2>6 DEF PacingInv, PaceTypeOK
<1> QED BY <1>1, <1>2, LateInductive, PacingInvariant, PTL DEF PaceSpec
=============================================================================

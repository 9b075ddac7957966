---------------------------- MODULE DriverProofs ----------------------------
(***************************************************************************)
(* Proofs about the kernel driver: no interrupt is slept through and the   *)
(* DMA queue neither stalls nor touches a freed packet, for every set of   *)
(* processes and modules and every bound on what they do.                  *)
(***************************************************************************)
EXTENDS DriverIrq, DriverDma, DriverLoad, TLAPS

-----------------------------------------------------------------------------
(* DriverIrq *)

\* Every action of the service routine and of the ioctls keeps the types.
LEMMA IrqTypeStep == IrqTypeOK /\ [IrqNext]_IrqVars => IrqTypeOK'
<1> SUFFICES ASSUME IrqTypeOK, [IrqNext]_IrqVars
             PROVE  IrqTypeOK'
    OBVIOUS
<1> USE DEF IrqTypeOK, Kept
<1>0. "head" \in Nodes /\ "card" \in Nodes /\ Procs \subseteq Nodes
    BY DEF Nodes
<1>a. ASSUME NEW e \in Nodes, list_add(e)
      PROVE  next' \in [Nodes -> Nodes] /\ prev' \in [Nodes -> Nodes]
    BY <1>0, <1>a DEF list_add
<1>b. ASSUME NEW e \in Nodes, list_del_init(e)
      PROVE  next' \in [Nodes -> Nodes] /\ prev' \in [Nodes -> Nodes]
    BY <1>b DEF list_del_init
<1>c. ASSUME NEW p \in Procs, init_wait(p)
      PROVE  /\ next' \in [Nodes -> Nodes] /\ prev' \in [Nodes -> Nodes]
             /\ cardProc' \in Procs /\ torn' \in BOOLEAN
    BY <1>0, <1>c DEF init_wait
<1>d. ASSUME NEW p \in Procs, NEW e \in Nodes, prepare_to_wait(e, p) \/ finish_wait(e, p)
      PROVE  /\ next' \in [Nodes -> Nodes] /\ prev' \in [Nodes -> Nodes]
             /\ cardProc' \in Procs /\ torn' \in BOOLEAN /\ sleeping' \subseteq Procs
  <2>1. CASE prepare_to_wait(e, p)
      BY <1>a, <2>1 DEF prepare_to_wait
  <2>2. CASE finish_wait(e, p)
      BY <1>b, <2>2 DEF finish_wait
  <2> QED BY <1>d, <2>1, <2>2
<1>1. ASSUME NEW m \in Mods, ModuleInterrupts(m)
      PROVE  IrqTypeOK'
    BY <1>1 DEF ModuleInterrupts, Queue
<1>2. CASE IsrStatus \/ IsrModules
    BY <1>2 DEF IsrStatus, IsrModules, Queue
<1>3. CASE IsrWake \/ IsrWalked \/ IsrMulti
    BY <1>0, <1>3 DEF IsrWake, IsrWalked, IsrMulti, IsrKeeps
<1>4. CASE IsrWalk
  <2>1. next' \in [Nodes -> Nodes] /\ prev' \in [Nodes -> Nodes]
      BY <1>4, <1>b DEF IsrWalk
  <2>2. /\ isr' \in [step : {"off", "record", "wake", "walk", "multi"},
                     took : SUBSET Mods, pos : Nodes]
        /\ sleeping' \subseteq Procs
      BY <1>4 DEF IsrWalk
  <2> QED BY <1>4, <2>1, <2>2 DEF IsrWalk, IsrKeeps
<1>5. ASSUME NEW p \in Procs, ExcOpen(p) \/ ExcRelease(p)
      PROVE  IrqTypeOK'
    BY <1>5 DEF ExcOpen, ExcRelease, Queue
<1>6. ASSUME NEW p \in Procs, WaitForIrq(p) \/ WaitForModIrq(p)
      PROVE  IrqTypeOK'
  <2>1. init_wait(p)
      BY <1>6 DEF WaitForIrq, WaitForModIrq
  <2>2. /\ next' \in [Nodes -> Nodes] /\ prev' \in [Nodes -> Nodes]
        /\ cardProc' \in Procs /\ torn' \in BOOLEAN
      BY <1>c, <2>1
  <2>3. CASE WaitForIrq(p)
      BY <2>2, <2>3 DEF WaitForIrq, Ioctl
  <2>4. CASE WaitForModIrq(p)
      BY <2>2, <2>4 DEF WaitForModIrq, Ioctl
  <2> QED BY <1>6, <2>3, <2>4
<1>7. ASSUME NEW p \in Procs, WaitForIrqQueue(p) \/ WaitForIrqDone(p)
      PROVE  IrqTypeOK'
  <2>1. prepare_to_wait("card", p) \/ finish_wait("card", p)
      BY <1>7 DEF WaitForIrqQueue, WaitForIrqDone
  <2>2. /\ next' \in [Nodes -> Nodes] /\ prev' \in [Nodes -> Nodes]
        /\ cardProc' \in Procs /\ torn' \in BOOLEAN /\ sleeping' \subseteq Procs
      BY <1>0, <1>d, <2>1
  <2> QED BY <1>7, <2>2 DEF WaitForIrqQueue, WaitForIrqDone
<1>8. ASSUME NEW p \in Procs, WaitModQueue(p) \/ WaitModWoken(p)
      PROVE  IrqTypeOK'
  <2>1. prepare_to_wait(p, p) \/ finish_wait(p, p)
      BY <1>8 DEF WaitModQueue, WaitModWoken
  <2>2. /\ next' \in [Nodes -> Nodes] /\ prev' \in [Nodes -> Nodes]
        /\ cardProc' \in Procs /\ torn' \in BOOLEAN /\ sleeping' \subseteq Procs
      BY <1>0, <1>d, <2>1
  <2> QED BY <1>8, <2>2 DEF WaitModQueue, WaitModWoken
<1>9. ASSUME NEW p \in Procs, WaitModTest(p)
      PROVE  IrqTypeOK'
  <2>1. finish_wait(p, p) \/ UNCHANGED <<sleeping, Queue>>
      BY <1>9 DEF WaitModTest
  <2>2. /\ next' \in [Nodes -> Nodes] /\ prev' \in [Nodes -> Nodes]
        /\ cardProc' \in Procs /\ torn' \in BOOLEAN /\ sleeping' \subseteq Procs
      BY <1>0, <1>d, <2>1 DEF Queue
  <2> QED BY <1>9, <2>2 DEF WaitModTest
<1>10. ASSUME NEW p \in Procs, WaitModEnter(p) \/ WaitModDone(p) \/ WaitMultWoken(p)
       PROVE  IrqTypeOK'
    BY <1>10 DEF WaitModEnter, WaitModDone, WaitMultWoken, Queue
<1>11. ASSUME NEW p \in Procs, WaitForMultIrq(p)
       PROVE  IrqTypeOK'
    BY <1>11 DEF WaitForMultIrq, Ioctl, Queue
<1>12. ASSUME NEW p \in Procs, WaitMultScan(p) \/ WaitMultQueue(p) \/ WaitMultRescan(p)
       PROVE  IrqTypeOK'
    BY <1>12 DEF WaitMultScan, WaitMultQueue, WaitMultRescan, Queue
<1>13. ASSUME NEW p \in Procs, GetMchShadow(p) \/ ClearShadowLoad(p) \/ ClearShadowStore(p)
       PROVE  IrqTypeOK'
    BY <1>13 DEF GetMchShadow, ClearShadowLoad, ClearShadowStore, Ioctl, Queue
<1>14. CASE UNCHANGED IrqVars
    BY <1>14 DEF IrqVars
<1> QED
    BY <1>1, <1>2, <1>3, <1>4, <1>5, <1>6, <1>7, <1>8, <1>9, <1>10, <1>11, <1>12,
       <1>13, <1>14 DEF IrqNext

\* x is met on the way from y along the links nx to the head of the list: it is
\* in every set that holds y and, but for the head, the next node of each of its
\* nodes.
Along(nx, y, x) ==
    \A S \in SUBSET Nodes :
       y \in S /\ (\A z \in S : z = "head" \/ nx[z] \in S) => x \in S

\* A sound list: the links of both directions agree, and every linked entry is
\* met on the way from the head.
Ring(nx, pv) ==
    /\ nx \in [Nodes -> Nodes] /\ pv \in [Nodes -> Nodes]
    /\ \A x \in Nodes : pv[nx[x]] = x /\ nx[pv[x]] = x
    /\ \A x \in Nodes : x # "head" /\ nx[x] # x => Along(nx, nx["head"], x)

\* Adding an unlinked entry at the front leaves a sound list, in which it is
\* linked and no entry has been unlinked.
AddNext(nx, e) == [nx EXCEPT ![e] = nx["head"], !["head"] = e]
AddPrev(nx, pv, e) == [pv EXCEPT ![nx["head"]] = e, ![e] = "head"]
LEMMA AddRing ==
    ASSUME NEW nx, NEW pv, Ring(nx, pv), NEW e \in Nodes, e # "head", nx[e] = e
    PROVE  /\ Ring(AddNext(nx, e), AddPrev(nx, pv, e))
           /\ \A x \in Nodes : x # "head" /\ (x = e \/ nx[x] # x) => AddNext(nx, e)[x] # x
<1> DEFINE nx2 == AddNext(nx, e)
           pv2 == AddPrev(nx, pv, e)
<1>d. /\ nx2 = [nx EXCEPT ![e] = nx["head"], !["head"] = e]
      /\ pv2 = [pv EXCEPT ![nx["head"]] = e, ![e] = "head"]
    BY DEF AddNext, AddPrev
<1> SUFFICES /\ Ring(nx2, pv2)
             /\ \A x \in Nodes : x # "head" /\ (x = e \/ nx[x] # x) => nx2[x] # x
    OBVIOUS
<1> HIDE DEF nx2, pv2
<1>0. "head" \in Nodes
    BY DEF Nodes
<1>1. nx \in [Nodes -> Nodes] /\ pv \in [Nodes -> Nodes]
    BY DEF Ring
<1>2. \A x \in Nodes : pv[nx[x]] = x /\ nx[pv[x]] = x
    BY DEF Ring
<1>3. nx2 \in [Nodes -> Nodes] /\ pv2 \in [Nodes -> Nodes]
    BY <1>0, <1>1, <1>d
<1>4. /\ nx2[e] = nx["head"] /\ nx2["head"] = e
      /\ \A x \in Nodes : x # e /\ x # "head" => nx2[x] = nx[x]
    BY <1>0, <1>1, <1>d
<1>5. pv[e] = e /\ nx["head"] # e /\ nx["head"] \in Nodes
    BY <1>0, <1>1, <1>2
<1>6. /\ pv2[nx["head"]] = e /\ pv2[e] = "head"
      /\ \A x \in Nodes : x # e /\ x # nx["head"] => pv2[x] = pv[x]
    BY <1>1, <1>5, <1>d
<1>7. \A x \in Nodes : pv2[nx2[x]] = x
  <2> TAKE x \in Nodes
  <2>1. CASE x = e \/ x = "head"
      BY <1>4, <1>6, <2>1
  <2>2. CASE x # e /\ x # "head"
    <3>1. nx2[x] = nx[x] /\ nx[x] \in Nodes
        BY <1>1, <1>4, <2>2
    <3>2. nx[x] # e /\ nx[x] # nx["head"]
        BY <1>0, <1>2, <1>5, <2>2
    <3> QED BY <1>2, <1>6, <3>1, <3>2
  <2> QED BY <2>1, <2>2
<1>8. \A x \in Nodes : nx2[pv2[x]] = x
  <2> TAKE x \in Nodes
  <2>1. CASE x = e \/ x = nx["head"]
      BY <1>4, <1>6, <2>1
  <2>2. CASE x # e /\ x # nx["head"]
    <3>1. pv2[x] = pv[x] /\ pv[x] \in Nodes
        BY <1>1, <1>6, <2>2
    <3>2. pv[x] # e /\ pv[x] # "head"
        BY <1>0, <1>2, <1>5, <2>2
    <3> QED BY <1>2, <1>4, <3>1, <3>2
  <2> QED BY <2>1, <2>2
<1>9. ASSUME NEW x \in Nodes, x # "head", x = e \/ nx[x] # x
      PROVE  nx2[x] # x
    BY <1>0, <1>2, <1>4, <1>5, <1>9
<1>10. ASSUME NEW x \in Nodes, x # "head", nx2[x] # x
       PROVE  Along(nx2, nx2["head"], x)
  <2> SUFFICES ASSUME NEW S \in SUBSET Nodes, e \in S,
                      \A z \in S : z = "head" \/ nx2[z] \in S
               PROVE  x \in S
      BY <1>4 DEF Along
  <2>1. nx["head"] \in S
      BY <1>4
  <2>2. \A z \in S : z = "head" \/ nx[z] \in S
      BY <1>4
  <2>3. x = e \/ nx[x] # x
      BY <1>4, <1>10
  <2>4. CASE x # e
    <3>1. Along(nx, nx["head"], x)
        BY <1>10, <2>3, <2>4 DEF Ring
    <3> QED BY <2>1, <2>2, <3>1 DEF Along
  <2> QED BY <2>4
<1> QED BY <1>3, <1>7, <1>8, <1>9, <1>10 DEF Ring

\* Unlinking an entry leaves a sound list in which every other linked entry is
\* linked still, and what lay behind the entry lies behind the one that followed.
DelNext(nx, pv, e) == [nx EXCEPT ![pv[e]] = nx[e], ![e] = e]
DelPrev(nx, pv, e) == [pv EXCEPT ![nx[e]] = pv[e], ![e] = e]
LEMMA DelRing ==
    ASSUME NEW nx, NEW pv, Ring(nx, pv), NEW e \in Nodes, e # "head"
    PROVE  /\ Ring(DelNext(nx, pv, e), DelPrev(nx, pv, e))
           /\ \A x \in Nodes : x # "head" /\ x # e /\ nx[x] # x => DelNext(nx, pv, e)[x] # x
           /\ \A x \in Nodes : x # e /\ Along(nx, e, x) => Along(DelNext(nx, pv, e), nx[e], x)
<1> DEFINE nx2 == DelNext(nx, pv, e)
           pv2 == DelPrev(nx, pv, e)
<1>d. /\ nx2 = [nx EXCEPT ![pv[e]] = nx[e], ![e] = e]
      /\ pv2 = [pv EXCEPT ![nx[e]] = pv[e], ![e] = e]
    BY DEF DelNext, DelPrev
<1> SUFFICES /\ Ring(nx2, pv2)
             /\ \A x \in Nodes : x # "head" /\ x # e /\ nx[x] # x => nx2[x] # x
             /\ \A x \in Nodes : x # e /\ Along(nx, e, x) => Along(nx2, nx[e], x)
    OBVIOUS
<1> HIDE DEF nx2, pv2
<1>0. "head" \in Nodes
    BY DEF Nodes
<1>1. nx \in [Nodes -> Nodes] /\ pv \in [Nodes -> Nodes]
    BY DEF Ring
<1>2. \A x \in Nodes : pv[nx[x]] = x /\ nx[pv[x]] = x
    BY DEF Ring
<1>3. nx2 \in [Nodes -> Nodes] /\ pv2 \in [Nodes -> Nodes]
    BY <1>1, <1>d
<1>4. CASE nx[e] = e
  <2>1. pv[e] = e
      BY <1>2, <1>4
  <2>2. nx2 = nx /\ pv2 = pv
      BY <1>1, <1>4, <1>d, <2>1
  <2> QED BY <1>4, <2>2
<1>5. CASE nx[e] # e
  <2> DEFINE P == pv[e]
             N == nx[e]
  <2>1. P \in Nodes /\ N \in Nodes /\ P # e /\ N # e /\ nx[P] = e /\ pv[N] = e
      BY <1>1, <1>2, <1>5
  <2>2. nx2[e] = e /\ nx2[P] = N /\ \A x \in Nodes : x # e /\ x # P => nx2[x] = nx[x]
      BY <1>1, <1>d, <2>1
  <2>3. pv2[e] = e /\ pv2[N] = P /\ \A x \in Nodes : x # e /\ x # N => pv2[x] = pv[x]
      BY <1>1, <1>d, <2>1
  <2> HIDE DEF P, N
  <2>4. \A x \in Nodes : pv2[nx2[x]] = x
    <3> TAKE x \in Nodes
    <3>1. CASE x = e \/ x = P
        BY <2>2, <2>3, <3>1
    <3>2. CASE x # e /\ x # P
      <4>1. nx2[x] = nx[x] /\ nx[x] \in Nodes
          BY <1>1, <2>2, <3>2
      <4>2. nx[x] # e /\ nx[x] # N
          BY <1>2, <2>1, <3>2 DEF N, P
      <4> QED BY <1>2, <2>3, <4>1, <4>2
    <3> QED BY <3>1, <3>2
  <2>5. \A x \in Nodes : nx2[pv2[x]] = x
    <3> TAKE x \in Nodes
    <3>1. CASE x = e \/ x = N
        BY <2>2, <2>3, <3>1
    <3>2. CASE x # e /\ x # N
      <4>1. pv2[x] = pv[x] /\ pv[x] \in Nodes
          BY <1>1, <2>3, <3>2
      <4>2. pv[x] # e /\ pv[x] # P
          BY <1>2, <2>1, <3>2 DEF N, P
      <4> QED BY <1>2, <2>2, <4>1, <4>2
    <3> QED BY <3>1, <3>2
  <2>6. ASSUME NEW x \in Nodes, x # "head", x # e, nx[x] # x
        PROVE  nx2[x] # x
    <3>1. CASE x # P
        BY <2>2, <2>6, <3>1
    <3>2. CASE x = P /\ N = P
      <4> DEFINE S == Nodes \ {P, e}
      <4>1. Along(nx, nx["head"], P)
          BY <2>6, <3>2 DEF Ring
      <4>2. nx["head"] \in S
          BY <1>0, <1>1, <1>2, <2>1, <2>6, <3>2
      <4>3. \A z \in S : nx[z] \in S
          BY <1>1, <1>2, <2>1, <3>2
      <4> QED BY <4>1, <4>2, <4>3 DEF Along
    <3> QED BY <2>2, <3>1, <3>2
  <2>7. ASSUME NEW x \in Nodes, x # "head", nx2[x] # x
        PROVE  Along(nx2, nx2["head"], x)
    <3> SUFFICES ASSUME NEW S \in SUBSET Nodes, nx2["head"] \in S,
                        \A z \in S : z = "head" \/ nx2[z] \in S
                 PROVE  x \in S
        BY DEF Along
    <3>1. x # e
        BY <2>2, <2>7
    <3>2. nx[x] # x
        BY <2>2, <2>7, <3>1, <2>1
    <3>3. Along(nx, nx["head"], x)
        BY <2>7, <3>2 DEF Ring
    <3>4. CASE P = "head" \/ P \in S
      <4> DEFINE T == S \cup {e}
      <4>1. nx["head"] \in T
          BY <1>0, <2>1, <2>2, <3>4
      <4>2. \A z \in T : z = "head" \/ nx[z] \in T
        <5> TAKE z \in T
        <5>1. CASE z = e
            BY <2>2, <3>4, <5>1 DEF N
        <5>2. CASE z # e
            BY <2>1, <2>2, <5>2
        <5> QED BY <5>1, <5>2
      <4> QED BY <3>1, <3>3, <4>1, <4>2 DEF Along
    <3>5. CASE P # "head" /\ P \notin S
      <4> DEFINE T == S \ {e}
      <4>1. nx["head"] \in T
          BY <1>0, <1>2, <2>1, <2>2, <3>5 DEF P
      <4>2. \A z \in T : z = "head" \/ nx[z] \in T
          BY <1>2, <2>1, <2>2, <3>5 DEF P
      <4> QED BY <3>3, <4>1, <4>2 DEF Along
    <3> QED BY <3>4, <3>5
  <2>8. ASSUME NEW x \in Nodes, x # e, Along(nx, e, x)
        PROVE  Along(nx2, N, x)
    <3> SUFFICES ASSUME NEW S \in SUBSET Nodes, N \in S,
                        \A z \in S : z = "head" \/ nx2[z] \in S
                 PROVE  x \in S
        BY DEF Along
    <3> DEFINE T == S \cup {e}
    <3>1. \A z \in T : z = "head" \/ nx[z] \in T
      <4> TAKE z \in T
      <4>1. CASE z = e
          BY <4>1 DEF N
      <4>2. CASE z # e
          BY <2>1, <2>2, <4>2
      <4> QED BY <4>1, <4>2
    <3> QED BY <2>8, <3>1 DEF Along
  <2> QED BY <1>3, <2>4, <2>5, <2>6, <2>7, <2>8 DEF Ring, N
<1> QED BY <1>4, <1>5

\* Until the card's entry is initialised while linked: the list of the card is
\* sound, a process asleep in WAIT_FOR_MOD_IRQ is linked in it, and wake_up has
\* such a process before it.
ModWaiters == {p \in sleeping : at[p] \in {"modqueued", "modasleep"}}
ListOK ==
    ~torn =>
    /\ Ring(next, prev)
    /\ \A p \in ModWaiters : Linked(p)
    /\ isr.step = "walk" => \A p \in ModWaiters : Along(next, isr.pos, p)

\* The list stays sound: entries are added and unlinked under the lock, which
\* wake_up holds until it is back at the head.
LEMMA ListStep == IrqTypeOK /\ ListOK /\ [IrqNext]_IrqVars => ListOK'
<1> SUFFICES ASSUME IrqTypeOK, ListOK, [IrqNext]_IrqVars, ~torn'
             PROVE  ListOK'
    BY DEF ListOK
<1>t. /\ at \in [Procs -> {"closed", "idle", "any", "anyasleep", "mod", "modenter", "modqueued",
                           "modasleep", "modend", "multi", "multienter", "multiqueued",
                           "multiasleep", "reporting", "clearing"}]
      /\ sleeping \subseteq Procs /\ isr.pos \in Nodes /\ torn \in BOOLEAN
    BY DEF IrqTypeOK
<1>p. /\ Procs \subseteq Nodes /\ "head" \in Nodes /\ "card" \in Nodes
      /\ "head" \notin Procs /\ "card" \notin Procs
    BY ProcsAssumption DEF Nodes
<1>q. ~torn => /\ Ring(next, prev) /\ \A p \in ModWaiters : next[p] # p
               /\ isr.step = "walk" => \A p \in ModWaiters : Along(next, isr.pos, p)
    BY DEF ListOK, Linked
<1>u. ASSUME UNCHANGED Queue, ModWaiters' \subseteq ModWaiters, isr'.step # "walk" \/ isr' = isr
      PROVE  ListOK'
    BY <1>u, <1>q DEF Queue, ListOK, Linked
<1>1. ASSUME NEW m \in Mods, ModuleInterrupts(m)
      PROVE  ListOK'
    BY <1>1, <1>u DEF ModuleInterrupts, ModWaiters
<1>2. CASE IsrStatus \/ IsrModules
  <2>1. isr'.step # "walk"
      BY <1>2 DEF IsrStatus, IsrModules, IrqTypeOK
  <2>2. UNCHANGED Queue /\ ModWaiters' = ModWaiters
      BY <1>2 DEF IsrStatus, IsrModules, ModWaiters, Queue
  <2> QED BY <1>u, <2>1, <2>2
<1>3. CASE IsrWalked \/ IsrMulti
  <2>1. isr'.step # "walk"
      BY <1>3 DEF IsrWalked, IsrMulti, IrqTypeOK
  <2>2. UNCHANGED Queue /\ ModWaiters' \subseteq ModWaiters
      BY <1>3 DEF IsrWalked, IsrMulti, IsrKeeps, ModWaiters, Queue
  <2> QED BY <1>u, <2>1, <2>2
<1>4. CASE IsrWake
  <2>1. /\ isr'.pos = next["head"] /\ next' = next /\ prev' = prev /\ torn' = torn
        /\ ModWaiters' = ModWaiters
      BY <1>4 DEF IsrWake, IsrKeeps, ModWaiters, IrqTypeOK
  <2>2. \A p \in ModWaiters : Along(next, next["head"], p)
      BY <1>p, <1>q, <1>t, <2>1 DEF Ring, ModWaiters
  <2> QED BY <1>q, <2>1, <2>2 DEF ListOK, Linked
<1>5. CASE IsrWalk
  <2> DEFINE e == isr.pos
  <2>1. e \in Nodes /\ e # "head" /\ ~torn /\ torn' = torn /\ isr'.pos = next[e]
      BY <1>5, <1>t DEF IsrWalk, IsrKeeps, IrqTypeOK
  <2>2. /\ \A p \in ModWaiters' : p \in ModWaiters /\ p # Waiter(e)
        /\ ModWaiters \subseteq Procs
      BY <1>5, <1>t DEF IsrWalk, IsrKeeps, ModWaiters
  <2>3. \A p \in ModWaiters' : p # e /\ p \in Nodes
      BY <1>p, <2>2 DEF Waiter
  <2>4. Ring(next, prev) /\ \A p \in ModWaiters : next[p] # p /\ Along(next, e, p)
      BY <1>5, <1>q, <2>1 DEF IsrWalk
  <2>5. CASE list_del_init(e)
    <3>0. next' = DelNext(next, prev, e) /\ prev' = DelPrev(next, prev, e)
        BY <2>5 DEF list_del_init, DelNext, DelPrev
    <3>1. /\ Ring(next', prev')
          /\ \A x \in Nodes : x # "head" /\ x # e /\ next[x] # x => next'[x] # x
          /\ \A x \in Nodes : x # e /\ Along(next, e, x) => Along(next', next[e], x)
        BY <2>1, <2>4, <3>0, DelRing
    <3> QED BY <1>p, <2>1, <2>2, <2>3, <2>4, <3>1 DEF ListOK, Linked
  <2>6. CASE next' = next /\ prev' = prev
    <3>1. ASSUME NEW p \in ModWaiters'
          PROVE  Along(next, next[e], p)
      <4> SUFFICES ASSUME NEW S \in SUBSET Nodes, next[e] \in S,
                          \A z \in S : z = "head" \/ next[z] \in S
                   PROVE  p \in S
          BY DEF Along
      <4> DEFINE T == S \cup {e}
      <4>1. e \in T /\ T \subseteq Nodes /\ \A z \in T : z = "head" \/ next[z] \in T
          BY <2>1
      <4>2. p \in T
          BY <2>2, <2>4, <4>1 DEF Along
      <4> QED BY <2>3, <4>2
    <3> QED BY <2>1, <2>2, <2>4, <2>6, <3>1 DEF ListOK, Linked
  <2> QED BY <1>5, <2>5, <2>6 DEF IsrWalk
<1>6. ASSUME NEW p \in Procs, ExcOpen(p) \/ ExcRelease(p)
      PROVE  ListOK'
    BY <1>6, <1>t, <1>u DEF ExcOpen, ExcRelease, ModWaiters
<1>7. ASSUME NEW p \in Procs, WaitForIrq(p) \/ WaitForModIrq(p)
      PROVE  ListOK'
  <2>1. init_wait(p)
      BY <1>7 DEF WaitForIrq, WaitForModIrq
  <2>2. ~torn /\ next["card"] = "card"
      BY <2>1, <1>t DEF init_wait, Linked
  <2>3. next \in [Nodes -> Nodes] /\ prev \in [Nodes -> Nodes] /\ prev["card"] = "card"
      BY <1>p, <1>q, <2>2 DEF Ring
  <2>4. next' = next /\ prev' = prev
      BY <1>p, <2>1, <2>2, <2>3 DEF init_wait
  <2>5. ModWaiters' \subseteq ModWaiters /\ isr' = isr
      BY <1>7, <1>t DEF WaitForIrq, WaitForModIrq, ModWaiters, Kept
  <2> QED BY <1>q, <2>2, <2>4, <2>5 DEF ListOK, Linked
<1>8. ASSUME NEW p \in Procs, NEW e \in Nodes, e # "head", prepare_to_wait(e, p), isr' = isr,
             \A q \in ModWaiters' : q \in ModWaiters \/ q = e
      PROVE  ListOK'
  <2>1. ~torn /\ torn' = torn /\ isr.step # "walk"
      BY <1>8 DEF prepare_to_wait, QueueFree
  <2>2. CASE next[e] # e
      BY <1>8, <1>q, <2>1, <2>2 DEF prepare_to_wait, Linked, ListOK
  <2>3. CASE next[e] = e
    <3>1. next' = AddNext(next, e) /\ prev' = AddPrev(next, prev, e)
        BY <1>8, <2>3 DEF prepare_to_wait, Linked, list_add, AddNext, AddPrev
    <3>2. /\ Ring(next', prev')
          /\ \A x \in Nodes : x # "head" /\ (x = e \/ next[x] # x) => next'[x] # x
        BY <1>8, <1>q, <2>1, <2>3, <3>1, AddRing
    <3>3. \A q \in ModWaiters' : q \in Nodes /\ q # "head"
        BY <1>8, <1>p, <1>t DEF ModWaiters
    <3> QED BY <1>8, <1>q, <2>1, <3>2, <3>3 DEF ListOK, Linked
  <2> QED BY <2>2, <2>3
<1>9. ASSUME NEW p \in Procs, NEW e \in Nodes, e # "head", finish_wait(e, p), isr' = isr,
             \A q \in ModWaiters' : q \in ModWaiters /\ q # e
      PROVE  ListOK'
  <2>1. ~torn /\ torn' = torn
      BY <1>9 DEF finish_wait
  <2>2. CASE next' = next /\ prev' = prev
      BY <1>9, <1>q, <2>1, <2>2 DEF ListOK, Linked
  <2>3. CASE list_del_init(e) /\ isr.step # "walk"
    <3>0. next' = DelNext(next, prev, e) /\ prev' = DelPrev(next, prev, e)
        BY <2>3 DEF list_del_init, DelNext, DelPrev
    <3>1. /\ Ring(next', prev')
          /\ \A x \in Nodes : x # "head" /\ x # e /\ next[x] # x => next'[x] # x
        BY <1>9, <1>q, <2>1, <3>0, DelRing
    <3>2. \A q \in ModWaiters' : q \in Nodes /\ q # "head"
        BY <1>9, <1>p, <1>t DEF ModWaiters
    <3> QED BY <1>9, <1>q, <2>1, <2>3, <3>1, <3>2 DEF ListOK, Linked
  <2> QED BY <1>9, <2>2, <2>3 DEF finish_wait, QueueFree
<1>10. ASSUME NEW p \in Procs, WaitForIrqQueue(p) \/ WaitForIrqDone(p)
       PROVE  ListOK'
  <2>1. CASE WaitForIrqQueue(p)
    <3>1. /\ prepare_to_wait("card", p) /\ isr' = isr
          /\ \A q \in ModWaiters' : q \in ModWaiters
        BY <2>1, <1>t DEF WaitForIrqQueue, Kept, ModWaiters, prepare_to_wait
    <3> QED BY <1>8, <1>p, <3>1
  <2>2. CASE WaitForIrqDone(p)
    <3>1. /\ finish_wait("card", p) /\ isr' = isr
          /\ \A q \in ModWaiters' : q \in ModWaiters /\ q # "card"
        BY <2>2, <1>p, <1>t DEF WaitForIrqDone, Kept, ModWaiters, finish_wait
    <3> QED BY <1>9, <1>p, <3>1
  <2> QED BY <1>10, <2>1, <2>2
<1>11. ASSUME NEW p \in Procs, WaitModQueue(p) \/ WaitModWoken(p) \/ WaitModTest(p)
       PROVE  ListOK'
  <2>0. p \in Nodes /\ p # "head"
      BY <1>p
  <2>1. CASE WaitModQueue(p)
    <3>1. /\ prepare_to_wait(p, p) /\ isr' = isr
          /\ \A q \in ModWaiters' : q \in ModWaiters \/ q = p
        BY <2>1, <1>t DEF WaitModQueue, Kept, ModWaiters, prepare_to_wait
    <3> QED BY <1>8, <2>0, <3>1
  <2>2. ASSUME finish_wait(p, p), WaitModWoken(p) \/ WaitModTest(p)
        PROVE  ListOK'
    <3>1. isr' = isr /\ \A q \in ModWaiters' : q \in ModWaiters /\ q # p
        BY <2>2, <1>t DEF WaitModWoken, WaitModTest, Kept, ModWaiters, finish_wait
    <3> QED BY <1>9, <2>0, <2>2, <3>1
  <2>3. CASE WaitModTest(p) /\ UNCHANGED <<sleeping, Queue>>
    <3>1. isr' = isr /\ ModWaiters' \subseteq ModWaiters
        BY <2>3, <1>t DEF WaitModTest, Kept, ModWaiters
    <3> QED BY <1>u, <2>3, <3>1
  <2> QED BY <1>11, <2>1, <2>2, <2>3 DEF WaitModWoken, WaitModTest
<1>12. ASSUME NEW p \in Procs, WaitModEnter(p) \/ WaitModDone(p) \/ WaitMultWoken(p)
       PROVE  ListOK'
  <2>1. isr' = isr /\ ModWaiters' \subseteq ModWaiters /\ UNCHANGED Queue
      BY <1>12, <1>t DEF WaitModEnter, WaitModDone, WaitMultWoken, Kept, ModWaiters, Queue
  <2> QED BY <1>u, <2>1
<1>13. ASSUME NEW p \in Procs,
              WaitForMultIrq(p) \/ WaitMultScan(p) \/ WaitMultQueue(p) \/ WaitMultRescan(p)
       PROVE  ListOK'
  <2>1. isr' = isr /\ UNCHANGED Queue
      BY <1>13 DEF WaitForMultIrq, WaitMultScan, WaitMultQueue, WaitMultRescan, Kept
  <2>2. ModWaiters' \subseteq ModWaiters
    <3>1. CASE WaitForMultIrq(p) \/ WaitMultScan(p)
        BY <3>1, <1>t DEF WaitForMultIrq, WaitMultScan, ModWaiters
    <3>2. CASE WaitMultQueue(p)
        BY <3>2, <1>t DEF WaitMultQueue, ModWaiters
    <3>3. CASE WaitMultRescan(p)
        BY <3>3, <1>t DEF WaitMultRescan, ModWaiters
    <3> QED BY <1>13, <3>1, <3>2, <3>3
  <2> QED BY <1>u, <2>1, <2>2
<1>14. ASSUME NEW p \in Procs, GetMchShadow(p) \/ ClearShadowLoad(p) \/ ClearShadowStore(p)
       PROVE  ListOK'
  <2>1. isr' = isr /\ ModWaiters' \subseteq ModWaiters /\ UNCHANGED Queue
      BY <1>14, <1>t DEF GetMchShadow, ClearShadowLoad, ClearShadowStore, ModWaiters
  <2> QED BY <1>u, <2>1
<1>15. CASE UNCHANGED IrqVars
  <2>1. UNCHANGED Queue /\ ModWaiters' = ModWaiters /\ isr' = isr
      BY <1>15 DEF IrqVars, Queue, ModWaiters
  <2> QED BY <1>u, <2>1
<1> QED
    BY <1>1, <1>2, <1>3, <1>4, <1>5, <1>6, <1>7, <1>10, <1>11, <1>12, <1>13, <1>14, <1>15
       DEF IrqNext

\* No action lets a process sleep through the interrupt it waits for: the flag
\* is tested after the process is queued, the service routine sets a flag only
\* before it wakes the queue, and it comes back to the head of a sound list only
\* when it has woken every process linked in it.
LEMMA WakeStep == IrqTypeOK /\ ListOK /\ WakeNotLost /\ [IrqNext]_IrqVars => WakeNotLost'
<1> SUFFICES ASSUME IrqTypeOK, ListOK, WakeNotLost, [IrqNext]_IrqVars
             PROVE  WakeNotLost'
    OBVIOUS
<1> USE DEF IrqTypeOK, WakeNotLost, Kept
<1>0. torn' = torn \/ torn' = TRUE
  <2>1. torn' = torn \/ \E p \in Procs : init_wait(p)
    <3>1. CASE IsrStatus \/ IsrModules \/ IsrWake \/ IsrWalk \/ IsrWalked \/ IsrMulti
        BY <3>1 DEF IsrStatus, IsrModules, IsrWake, IsrWalk, IsrWalked, IsrMulti, IsrKeeps, Queue
    <3>2. ASSUME NEW p \in Procs,
                 \/ ExcOpen(p) \/ ExcRelease(p)
                 \/ WaitForIrq(p) \/ WaitForIrqQueue(p) \/ WaitForIrqDone(p)
                 \/ WaitForModIrq(p) \/ WaitModEnter(p) \/ WaitModQueue(p) \/ WaitModTest(p)
                 \/ WaitModWoken(p) \/ WaitModDone(p)
          PROVE  torn' = torn \/ init_wait(p)
        BY <3>2 DEF ExcOpen, ExcRelease, WaitForIrq, WaitForIrqQueue, WaitForIrqDone,
           WaitForModIrq, WaitModEnter, WaitModQueue, WaitModTest, WaitModWoken, WaitModDone,
           prepare_to_wait, finish_wait, Queue
    <3>3. ASSUME NEW p \in Procs,
                 \/ WaitForMultIrq(p) \/ WaitMultScan(p) \/ WaitMultQueue(p)
                 \/ WaitMultRescan(p) \/ WaitMultWoken(p)
                 \/ GetMchShadow(p) \/ ClearShadowLoad(p) \/ ClearShadowStore(p)
          PROVE  torn' = torn
        BY <3>3 DEF WaitForMultIrq, WaitMultScan, WaitMultQueue, WaitMultRescan,
           WaitMultWoken, GetMchShadow, ClearShadowLoad, ClearShadowStore, Queue
    <3>4. ASSUME NEW m \in Mods, ModuleInterrupts(m)
          PROVE  torn' = torn
        BY <3>4 DEF ModuleInterrupts, Queue
    <3> QED BY <3>1, <3>2, <3>3, <3>4 DEF IrqNext, IrqVars
  <2> QED BY <2>1 DEF init_wait
<1>1. ASSUME NEW m \in Mods, ModuleInterrupts(m)
      PROVE  WakeNotLost'
    BY <1>1 DEF ModuleInterrupts, Queue
<1>2. CASE IsrStatus
    BY <1>2 DEF IsrStatus, Queue
<1>3. CASE IsrModules
    BY <1>3 DEF IsrModules, Queue
<1>4. CASE IsrWake \/ IsrWalk
    BY <1>4 DEF IsrWake, IsrWalk, IsrKeeps
<1>5. CASE IsrWalked
  <2>1. torn' = torn /\ isr'.step = "multi" /\ isr.step = "walk" /\ isr.pos = "head"
        /\ at' = at /\ sleeping' = sleeping /\ want' = want /\ fModWakeup' = fModWakeup
      BY <1>5 DEF IsrWalked, IsrKeeps
  <2>2. ASSUME ~torn, NEW p \in sleeping, at[p] = "modasleep"
        PROVE  FALSE
    <3>1. Along(next, "head", p)
        BY <2>1, <2>2 DEF ListOK, ModWaiters
    <3>2. p \in {"head"}
        BY <3>1 DEF Along, Nodes
    <3> QED BY <3>2, ProcsAssumption
  <2> QED BY <2>1, <2>2
<1>6. CASE IsrMulti
    BY <1>6 DEF IsrMulti, IsrKeeps
<1>7. ASSUME NEW p \in Procs, ExcOpen(p) \/ ExcRelease(p)
      PROVE  WakeNotLost'
    BY <1>7 DEF ExcOpen, ExcRelease, Queue
<1>8. ASSUME NEW p \in Procs, WaitForIrq(p)
      PROVE  WakeNotLost'
    BY <1>0, <1>8 DEF WaitForIrq, Ioctl
<1>9. ASSUME NEW p \in Procs, WaitForIrqQueue(p) \/ WaitForIrqDone(p)
      PROVE  WakeNotLost'
    BY <1>9 DEF WaitForIrqQueue, WaitForIrqDone, prepare_to_wait, finish_wait
<1>10. ASSUME NEW p \in Procs, WaitForModIrq(p)
       PROVE  WakeNotLost'
    BY <1>0, <1>10 DEF WaitForModIrq, Ioctl
<1>11. ASSUME NEW p \in Procs, WaitModEnter(p) \/ WaitModQueue(p)
       PROVE  WakeNotLost'
    BY <1>11 DEF WaitModEnter, WaitModQueue, prepare_to_wait, Queue
<1>12. ASSUME NEW p \in Procs, WaitModTest(p)
       PROVE  WakeNotLost'
    BY <1>12 DEF WaitModTest, finish_wait, Queue
<1>13. ASSUME NEW p \in Procs, WaitModWoken(p) \/ WaitMultWoken(p)
       PROVE  WakeNotLost'
    BY <1>13 DEF WaitModWoken, WaitMultWoken, finish_wait, Queue
<1>14. ASSUME NEW p \in Procs, WaitModDone(p)
       PROVE  WakeNotLost'
    BY <1>14 DEF WaitModDone, Queue
<1>15. ASSUME NEW p \in Procs, WaitForMultIrq(p)
       PROVE  WakeNotLost'
    BY <1>15 DEF WaitForMultIrq, Ioctl, Queue
<1>16. ASSUME NEW p \in Procs, WaitMultScan(p) \/ WaitMultQueue(p)
       PROVE  WakeNotLost'
    BY <1>16 DEF WaitMultScan, WaitMultQueue, Queue
<1>17. ASSUME NEW p \in Procs, WaitMultRescan(p)
       PROVE  WakeNotLost'
    BY <1>17 DEF WaitMultRescan, Queue
<1>18. ASSUME NEW p \in Procs, GetMchShadow(p) \/ ClearShadowLoad(p) \/ ClearShadowStore(p)
       PROVE  WakeNotLost'
    BY <1>18 DEF GetMchShadow, ClearShadowLoad, ClearShadowStore, Ioctl, Queue
<1>19. CASE UNCHANGED IrqVars
    BY <1>19 DEF IrqVars
<1> QED
    BY <1>1, <1>2, <1>3, <1>4, <1>5, <1>6, <1>7, <1>8, <1>9, <1>10, <1>11, <1>12, <1>13,
       <1>14, <1>15, <1>16, <1>17, <1>18, <1>19 DEF IrqNext

\* WAIT_FOR_MOD_IRQ and WAIT_FOR_MULT_IRQ_MULT_DEV never sleep through the
\* interrupt they wait for, however many processes wait and whatever other
\* ioctls run beside the service routine, as long as no call initialises the
\* card's wait entry while it is linked.
THEOREM WakeUpReaches == IrqSpec => []WakeNotLost
<1>1. IrqInit => IrqTypeOK /\ ListOK /\ WakeNotLost
  <2> SUFFICES ASSUME IrqInit
               PROVE  IrqTypeOK /\ ListOK /\ WakeNotLost
      OBVIOUS
  <2>1. next = [e \in Nodes |-> e] /\ prev = [e \in Nodes |-> e] /\ sleeping = {}
      BY DEF IrqInit
  <2>2. "head" \in Nodes /\ next \in [Nodes -> Nodes] /\ prev \in [Nodes -> Nodes]
      BY <2>1 DEF Nodes
  <2>3. isr \in [step : {"off", "record", "wake", "walk", "multi"},
                 took : SUBSET Mods, pos : Nodes]
      BY <2>2 DEF IrqInit
  <2>4. torn \in BOOLEAN /\ cardProc \in Procs /\ at \in [Procs -> {"closed"}]
      BY DEF IrqInit
  <2>5. IrqTypeOK
      BY <2>1, <2>2, <2>3, <2>4 DEF IrqInit, IrqTypeOK
  <2>6. ListOK
      BY <2>1, <2>2 DEF ListOK, Ring, ModWaiters
  <2> QED BY <2>1, <2>5, <2>6 DEF WakeNotLost
<1>2. IrqTypeOK /\ ListOK /\ WakeNotLost /\ [IrqNext]_IrqVars
      => (IrqTypeOK /\ ListOK /\ WakeNotLost)'
    BY IrqTypeStep, ListStep, WakeStep
<1> QED
    BY <1>1, <1>2, PTL DEF IrqSpec

-----------------------------------------------------------------------------
(* DriverDma *)

USE BoundsAssumption, WorkerAssumption

\* A process has a packet exactly while its request is under way.
PacketOfRequest == alive = {u \in Users : user[u] # "idle"}

\* A packet is queued once, and while it is queued its request is under way and
\* not completed.
QueueSound ==
    /\ \A i, j \in 1..Len(dma_queue) : dma_queue[i] = dma_queue[j] => i = j
    /\ \A i \in 1..Len(dma_queue) :
          dma_queue[i] \notin completed /\ user[dma_queue[i]] # "idle"

\* Outside EndIo, and between its uses of a packet, an executor has none.
StepHasPacket ==
    \A e \in Executors :
       IF endio[e].step \in {"delete", "start"}
       THEN \E p \in Users : endio[e].pkt = {p}
       ELSE endio[e].pkt = {}

\* A process that executes EndIo has called it from its own request.
CallerInEndIo == \A u \in Users : endio[u].step # "none" => user[u] = "inEndIo"

\* With a completion interrupt only the scheduled work runs EndIo, and the
\* packet it has taken stays at the head of the queue.
WorkerAlone ==
    subtype # "807" =>
       /\ \A u \in Users : endio[u].step = "none" /\ user[u] # "inEndIo"
       /\ endio[Worker].step \in {"delete", "start"} =>
             dma_queue # <<>> /\ endio[Worker].pkt = {Head(dma_queue)}

\* Progress without the processes that only think that they start the engine:
\* of those the one at the head of the queue counts.
HeadMoves ==
    \/ flight > 0 \/ irq \/ work
    \/ \E e \in Executors : endio[e].step \in {"take", "delete", "next", "start"}
    \/ user[Head(dma_queue)] = "start"
QueueMoves == dma_queue # <<>> /\ Head(dma_queue) \notin edge => HeadMoves

DmaInv ==
    /\ DmaTypeOK /\ PacketOfRequest /\ QueueSound /\ StepHasPacket
    /\ CallerInEndIo /\ WorkerAlone
    /\ PacketAlive /\ QueueMoves

\* What list_del leaves of a list that holds no packet twice: every other
\* packet, in the same order.
LEMMA ListDelFacts ==
    ASSUME NEW S, NEW q \in Seq(S), NEW p \in S,
           \A i, j \in 1..Len(q) : q[i] = q[j] => i = j
    PROVE  /\ list_del(q, p) \in Seq(S)
           /\ \A i \in 1..Len(list_del(q, p)) :
                 /\ list_del(q, p)[i] # p
                 /\ \E j \in 1..Len(q) : list_del(q, p)[i] = q[j]
           /\ \A i, j \in 1..Len(list_del(q, p)) :
                 list_del(q, p)[i] = list_del(q, p)[j] => i = j
<1>1. CASE \E i \in 1..Len(q) : q[i] = p
  <2> DEFINE k == CHOOSE i \in 1..Len(q) : q[i] = p
             a == SubSeq(q, 1, k - 1)
             b == SubSeq(q, k + 1, Len(q))
             r == list_del(q, p)
  <2>1. k \in 1..Len(q) /\ q[k] = p
      BY <1>1
  <2>2. r = a \o b
      BY <1>1 DEF list_del, RemoveAt
  <2> HIDE DEF k
  <2>3. a \in Seq(S) /\ Len(a) = k - 1 /\ \A i \in 1..Len(a) : a[i] = q[i]
      BY <2>1
  <2>4. b \in Seq(S) /\ Len(b) = Len(q) - k /\ \A i \in 1..Len(b) : b[i] = q[k + i]
      BY <2>1
  <2> HIDE DEF a, b, r
  <2>5. r \in Seq(S) /\ Len(r) = Len(q) - 1
    <3>1. r \in Seq(S)
        BY <2>2, <2>3, <2>4
    <3>2. a \in Seq(S) /\ b \in Seq(S)
        BY <2>3, <2>4
    <3>3. Len(a \o b) = Len(a) + Len(b)
        BY <3>2
    <3> QED BY <2>1, <2>2, <2>3, <2>4, <3>1, <3>3
  <2>6. \A i \in 1..Len(r) : r[i] = IF i < k THEN q[i] ELSE q[i + 1]
    <3> SUFFICES ASSUME NEW i \in 1..Len(r)
                 PROVE  r[i] = IF i < k THEN q[i] ELSE q[i + 1]
        OBVIOUS
    <3>1. CASE i < k
        BY <2>1, <2>2, <2>3, <2>4, <2>5, <3>1
    <3>2. CASE ~(i < k)
      <4>1. i - (k - 1) \in 1..Len(b) /\ r[i] = b[i - (k - 1)]
          BY <2>1, <2>2, <2>3, <2>4, <2>5, <3>2
      <4>2. b[i - (k - 1)] = q[k + (i - (k - 1))] /\ k + (i - (k - 1)) = i + 1
          BY <2>1, <2>4, <2>5, <4>1
      <4> QED BY <3>2, <4>1, <4>2
    <3> QED BY <3>1, <3>2
  <2> DEFINE from(i) == IF i < k THEN i ELSE i + 1
  <2>7. \A i \in 1..Len(r) :
           from(i) \in 1..Len(q) /\ from(i) # k /\ r[i] = q[from(i)]
      BY <2>1, <2>5, <2>6
  <2>8. \A i, j \in 1..Len(r) : from(i) = from(j) => i = j
      BY <2>1, <2>5
  <2> HIDE DEF from
  <2>9. /\ \A i \in 1..Len(r) : r[i] # p /\ \E j \in 1..Len(q) : r[i] = q[j]
        /\ \A i, j \in 1..Len(r) : r[i] = r[j] => i = j
      BY <2>1, <2>7, <2>8
  <2> QED BY <2>5, <2>9 DEF r
<1>2. CASE ~ \E i \in 1..Len(q) : q[i] = p
    BY <1>2 DEF list_del
<1> QED BY <1>1, <1>2

\* The head of a queue that is not empty.
LEMMA HeadFacts ==
    ASSUME NEW S, NEW q \in Seq(S), q # <<>>
    PROVE  /\ 1 \in 1..Len(q) /\ Head(q) = q[1] /\ Head(q) \in S
           /\ \A x \in S : /\ Append(q, x) # <<>> /\ Head(Append(q, x)) = Head(q)
OBVIOUS

\* Every action of QueueRequest, the interrupt and EndIo keeps the types.
LEMMA DmaTypeStep == DmaInv /\ [DmaNext]_DmaVars => DmaTypeOK'
<1> SUFFICES ASSUME DmaInv, [DmaNext]_DmaVars
             PROVE  DmaTypeOK'
    OBVIOUS
<1> USE DEF DmaInv, DmaTypeOK, Executors, Uses, Quiet
<1>1. ASSUME NEW u \in Users, ExcRead(u)
      PROVE  DmaTypeOK'
    BY <1>1 DEF ExcRead, QueueRequest
<1>2. ASSUME NEW u \in Users, QueueStart(u)
      PROVE  DmaTypeOK'
    BY <1>2 DEF QueueStart, StartIo
<1>3. ASSUME NEW u \in Users, QueueSleep(u) \/ QueueAsleep(u) \/ QueueWoken(u) \/ QueueDone(u)
      PROVE  DmaTypeOK'
    BY <1>3 DEF QueueSleep, QueueAsleep, QueueWoken, QueueDone
<1>4. CASE TransferEnds \/ IsrDma \/ RunWork
  <2>1. CASE TransferEnds
      BY <2>1 DEF TransferEnds
  <2>2. CASE IsrDma
      BY <2>2 DEF IsrDma
  <2>3. CASE RunWork
      BY <2>3 DEF RunWork
  <2> QED BY <1>4, <2>1, <2>2, <2>3
<1>5. ASSUME NEW e \in Executors, EndIoTake(e)
      PROVE  DmaTypeOK'
  <2>1. CASE dma_queue = <<>>
      BY <1>5, <2>1 DEF EndIoTake, Leave
  <2>2. CASE dma_queue # <<>>
    <3>1. Head(dma_queue) \in Users
        BY <2>2, HeadFacts
    <3>2. endio' \in [Executors -> [step : {"none", "take", "delete", "next", "start", "wake"},
                                    pkt : SUBSET Users]]
        BY <1>5, <2>2, <3>1 DEF EndIoTake
    <3>3. misuse' \in BOOLEAN
        BY <1>5, <2>2 DEF EndIoTake
    <3> QED BY <1>5, <2>2, <3>2, <3>3 DEF EndIoTake
  <2> QED BY <2>1, <2>2
<1>6. ASSUME NEW e \in Executors, EndIoDelete(e)
      PROVE  DmaTypeOK'
  <2>1. PICK p \in endio[e].pkt :
             dma_queue' = list_del(dma_queue, p) /\ completed' = completed \cup {p} /\ Uses(p)
      BY <1>6 DEF EndIoDelete
  <2>2. p \in Users
      BY <2>1
  <2>3. dma_queue' \in Seq(Users)
      BY <2>1, <2>2, ListDelFacts DEF QueueSound
  <2> QED BY <1>6, <2>1, <2>2, <2>3 DEF EndIoDelete
<1>7. ASSUME NEW e \in Executors, EndIoNext(e) \/ EndIoStart(e)
      PROVE  DmaTypeOK'
  <2>1. dma_queue # <<>> => Head(dma_queue) \in Users
      BY HeadFacts
  <2>2. CASE EndIoNext(e)
      BY <2>1, <2>2 DEF EndIoNext
  <2>3. CASE EndIoStart(e)
      BY <2>3 DEF EndIoStart, StartIo
  <2> QED BY <1>7, <2>2, <2>3
<1>8. ASSUME NEW e \in Executors, EndIoWake(e)
      PROVE  DmaTypeOK'
    BY <1>8 DEF EndIoWake, Leave
<1>9. CASE UNCHANGED DmaVars
    BY <1>9 DEF DmaVars
<1> QED
    BY <1>1, <1>2, <1>3, <1>4, <1>5, <1>6, <1>7, <1>8, <1>9 DEF DmaNext

\* A packet is made with the request and freed with it, and EndIo, which may
\* run in the process of a request, ends inside that request.
LEMMA RequestStep ==
    DmaInv /\ [DmaNext]_DmaVars => (PacketOfRequest /\ StepHasPacket /\ CallerInEndIo)'
<1> SUFFICES ASSUME DmaInv, [DmaNext]_DmaVars
             PROVE  (PacketOfRequest /\ StepHasPacket /\ CallerInEndIo)'
    OBVIOUS
<1> DEFINE Goal == (PacketOfRequest /\ StepHasPacket /\ CallerInEndIo)'
<1> USE DEF DmaInv, DmaTypeOK, PacketOfRequest, StepHasPacket, CallerInEndIo, Executors,
            Quiet
<1>1. ASSUME NEW u \in Users, ExcRead(u)
      PROVE  Goal
    BY <1>1 DEF ExcRead, QueueRequest
<1>2. ASSUME NEW u \in Users, QueueStart(u)
      PROVE  Goal
    BY <1>2 DEF QueueStart, StartIo
<1>3. ASSUME NEW u \in Users, QueueSleep(u) \/ QueueAsleep(u) \/ QueueWoken(u) \/ QueueDone(u)
      PROVE  Goal
    BY <1>3 DEF QueueSleep, QueueAsleep, QueueWoken, QueueDone
<1>4. CASE TransferEnds \/ IsrDma \/ RunWork
    BY <1>4 DEF TransferEnds, IsrDma, RunWork
<1>5. ASSUME NEW e \in Executors, EndIoTake(e)
      PROVE  Goal
  <2>1. CASE dma_queue = <<>>
      BY <1>5, <2>1 DEF EndIoTake, Leave
  <2>2. CASE dma_queue # <<>>
    <3>1. Head(dma_queue) \in Users
        BY <2>2, HeadFacts
    <3>2. /\ endio' = [endio EXCEPT ![e] = [step |-> "delete", pkt |-> {Head(dma_queue)}]]
          /\ endio[e].step = "take" /\ user' = user /\ alive' = alive
        BY <1>5, <2>2 DEF EndIoTake
    <3>3. StepHasPacket'
        BY <3>1, <3>2
    <3>4. CallerInEndIo' /\ PacketOfRequest'
        BY <3>2
    <3> QED BY <3>3, <3>4
  <2> QED BY <2>1, <2>2
<1>6. ASSUME NEW e \in Executors, EndIoDelete(e) \/ EndIoStart(e)
      PROVE  Goal
  <2>1. CASE EndIoDelete(e)
      BY <2>1 DEF EndIoDelete
  <2>2. CASE EndIoStart(e)
      BY <2>2 DEF EndIoStart
  <2> QED BY <1>6, <2>1, <2>2
<1>7. ASSUME NEW e \in Executors, EndIoNext(e)
      PROVE  Goal
  <2>1. dma_queue # <<>> => Head(dma_queue) \in Users
      BY HeadFacts
  <2> QED BY <1>7, <2>1 DEF EndIoNext
<1>8. ASSUME NEW e \in Executors, EndIoWake(e)
      PROVE  Goal
    BY <1>8 DEF EndIoWake, Leave
<1>9. CASE UNCHANGED DmaVars
    BY <1>9 DEF DmaVars
<1> QED
    BY <1>1, <1>2, <1>3, <1>4, <1>5, <1>6, <1>7, <1>8, <1>9 DEF DmaNext
\* The queue holds each packet once, and only packets whose process waits: a
\* request queues its packet when it has none queued, and EndIo unlinks a packet
\* in the step that completes it.
LEMMA QueueSoundStep == DmaInv /\ [DmaNext]_DmaVars => QueueSound'
<1> SUFFICES ASSUME DmaInv, [DmaNext]_DmaVars
             PROVE  QueueSound'
    OBVIOUS
<1> USE DEF DmaInv, DmaTypeOK, QueueSound
<1>1. ASSUME NEW u \in Users, ExcRead(u)
      PROVE  QueueSound'
  <2>1. /\ dma_queue' = Append(dma_queue, u) /\ user[u] = "idle"
        /\ completed' = completed \ {u}
        /\ user'[u] # "idle" /\ \A v \in Users : v # u => user'[v] = user[v]
      BY <1>1 DEF ExcRead, QueueRequest
  <2>2. \A i \in 1..Len(dma_queue) : dma_queue[i] # u
      BY <2>1
  <2>3. /\ Len(dma_queue') = Len(dma_queue) + 1 /\ dma_queue'[Len(dma_queue) + 1] = u
        /\ \A i \in 1..Len(dma_queue) : dma_queue'[i] = dma_queue[i]
      BY <2>1
  <2> QED BY <2>1, <2>2, <2>3
<1>2. ASSUME NEW u \in Users, QueueStart(u)
      PROVE  QueueSound'
    BY <1>2 DEF QueueStart
<1>3. ASSUME NEW u \in Users, QueueSleep(u) \/ QueueAsleep(u) \/ QueueWoken(u) \/ QueueDone(u)
      PROVE  QueueSound'
    BY <1>3 DEF QueueSleep, QueueAsleep, QueueWoken, QueueDone
<1>4. CASE TransferEnds \/ IsrDma \/ RunWork
    BY <1>4 DEF TransferEnds, IsrDma, RunWork
<1>5. ASSUME NEW e \in Executors, EndIoTake(e)
      PROVE  QueueSound'
    BY <1>5 DEF EndIoTake, Leave
<1>6. ASSUME NEW e \in Executors, EndIoDelete(e)
      PROVE  QueueSound'
  <2>1. PICK p \in endio[e].pkt :
             dma_queue' = list_del(dma_queue, p) /\ completed' = completed \cup {p}
      BY <1>6 DEF EndIoDelete
  <2>2. p \in Users
      BY <2>1
  <2>3. /\ \A i \in 1..Len(dma_queue') :
              /\ dma_queue'[i] # p
              /\ \E j \in 1..Len(dma_queue) : dma_queue'[i] = dma_queue[j]
        /\ \A i, j \in 1..Len(dma_queue') : dma_queue'[i] = dma_queue'[j] => i = j
      BY <2>1, <2>2, ListDelFacts
  <2> QED BY <1>6, <2>1, <2>3 DEF EndIoDelete
<1>7. ASSUME NEW e \in Executors, EndIoNext(e) \/ EndIoStart(e)
      PROVE  QueueSound'
    BY <1>7 DEF EndIoNext, EndIoStart
<1>8. ASSUME NEW e \in Executors, EndIoWake(e)
      PROVE  QueueSound'
    BY <1>8 DEF EndIoWake, Leave
<1>9. CASE UNCHANGED DmaVars
    BY <1>9 DEF DmaVars
<1> QED
    BY <1>1, <1>2, <1>3, <1>4, <1>5, <1>6, <1>7, <1>8, <1>9 DEF DmaNext

\* The board keeps its type.
LEMMA BoardFixed == [DmaNext]_DmaVars => subtype' = subtype
<1>1. ASSUME NEW u \in Users, ExcRead(u) \/ QueueStart(u) \/ QueueSleep(u)
      PROVE  subtype' = subtype
    BY <1>1 DEF ExcRead, QueueRequest, QueueStart, QueueSleep
<1>2. ASSUME NEW u \in Users, QueueAsleep(u) \/ QueueWoken(u) \/ QueueDone(u)
      PROVE  subtype' = subtype
    BY <1>2 DEF QueueAsleep, QueueWoken, QueueDone
<1>3. TransferEnds \/ IsrDma \/ RunWork => subtype' = subtype
    BY DEF TransferEnds, IsrDma, RunWork
<1>4. ASSUME NEW e \in Executors, EndIoTake(e) \/ EndIoDelete(e) \/ EndIoNext(e)
      PROVE  subtype' = subtype
    BY <1>4 DEF EndIoTake, EndIoDelete, EndIoNext
<1>5. ASSUME NEW e \in Executors, EndIoStart(e) \/ EndIoWake(e)
      PROVE  subtype' = subtype
    BY <1>5 DEF EndIoStart, EndIoWake
<1>6. UNCHANGED DmaVars => subtype' = subtype
    BY DEF DmaVars
<1> QED
    BY <1>1, <1>2, <1>3, <1>4, <1>5, <1>6 DEF DmaNext

\* With a completion interrupt the packet that the scheduled work has taken
\* stays at the head until the work itself unlinks it: new packets go to the
\* tail and nobody else shortens the list.
LEMMA WorkerAloneStep == DmaInv /\ [DmaNext]_DmaVars => WorkerAlone'
<1> SUFFICES ASSUME DmaInv, [DmaNext]_DmaVars, subtype # "807"
             PROVE  WorkerAlone'
    BY BoardFixed DEF WorkerAlone
<1> USE DEF DmaInv, DmaTypeOK, WorkerAlone, Executors, Quiet
<1>1. ASSUME NEW u \in Users, ExcRead(u)
      PROVE  WorkerAlone'
  <2>1. dma_queue # <<>> => Append(dma_queue, u) # <<>> /\ Head(Append(dma_queue, u)) = Head(dma_queue)
      BY HeadFacts
  <2> QED BY <1>1, <2>1 DEF ExcRead, QueueRequest
<1>2. ASSUME NEW u \in Users, QueueStart(u)
      PROVE  WorkerAlone'
    BY <1>2 DEF QueueStart
<1>3. ASSUME NEW u \in Users, QueueSleep(u) \/ QueueAsleep(u) \/ QueueWoken(u) \/ QueueDone(u)
      PROVE  WorkerAlone'
    BY <1>3 DEF QueueSleep, QueueAsleep, QueueWoken, QueueDone
<1>4. CASE TransferEnds \/ IsrDma \/ RunWork
    BY <1>4 DEF TransferEnds, IsrDma, RunWork
<1>5. ASSUME NEW e \in Executors, EndIoTake(e)
      PROVE  WorkerAlone'
  <2>1. e = Worker
      BY <1>5 DEF EndIoTake
  <2>2. CASE dma_queue = <<>>
      BY <1>5, <2>1, <2>2 DEF EndIoTake, Leave
  <2>3. CASE dma_queue # <<>>
      BY <1>5, <2>1, <2>3 DEF EndIoTake
  <2> QED BY <2>2, <2>3
<1>6. ASSUME NEW e \in Executors, EndIoDelete(e) \/ EndIoNext(e) \/ EndIoStart(e)
      PROVE  WorkerAlone'
  <2>1. e = Worker
      BY <1>6 DEF EndIoDelete, EndIoNext, EndIoStart
  <2>2. CASE EndIoDelete(e)
      BY <2>1, <2>2 DEF EndIoDelete
  <2>3. CASE EndIoNext(e)
      BY <2>1, <2>3 DEF EndIoNext
  <2>4. CASE EndIoStart(e)
      BY <2>1, <2>4 DEF EndIoStart
  <2> QED BY <1>6, <2>2, <2>3, <2>4
<1>7. ASSUME NEW e \in Executors, EndIoWake(e)
      PROVE  WorkerAlone'
  <2>1. e = Worker
      BY <1>7 DEF EndIoWake
  <2> QED BY <1>7, <2>1 DEF EndIoWake, Leave
<1>8. CASE UNCHANGED DmaVars
    BY <1>8 DEF DmaVars
<1> QED
    BY <1>1, <1>2, <1>3, <1>4, <1>5, <1>6, <1>7, <1>8 DEF DmaNext
\* Whoever uses a packet on a board with a completion interrupt finds it
\* allocated: it is the packet of the caller's own request or it is queued.
LEMMA PacketAliveStep == DmaInv /\ [DmaNext]_DmaVars => PacketAlive'
<1> SUFFICES ASSUME DmaInv, [DmaNext]_DmaVars, subtype # "807"
             PROVE  misuse' = FALSE
    BY BoardFixed DEF PacketAlive
<1> USE DEF DmaInv, DmaTypeOK, PacketAlive
<1>0. misuse = FALSE
    OBVIOUS
<1>1. dma_queue # <<>> => Head(dma_queue) \in alive
    BY HeadFacts DEF QueueSound, PacketOfRequest
<1>2. ASSUME NEW u \in Users, ExcRead(u) \/ QueueSleep(u) \/ QueueAsleep(u) \/ QueueWoken(u)
      PROVE  misuse' = FALSE
    BY <1>0, <1>2 DEF ExcRead, QueueRequest, QueueSleep, QueueAsleep, QueueWoken
<1>3. ASSUME NEW u \in Users, QueueStart(u) \/ QueueDone(u)
      PROVE  misuse' = FALSE
  <2>1. u \in alive
      BY <1>3 DEF QueueStart, QueueDone, PacketOfRequest
  <2> QED BY <1>0, <1>3, <2>1 DEF QueueStart, QueueDone, StartIo, Uses
<1>4. CASE TransferEnds \/ IsrDma \/ RunWork
    BY <1>0, <1>4 DEF TransferEnds, IsrDma, RunWork
<1>5. ASSUME NEW e \in Executors, EndIoTake(e)
      PROVE  misuse' = FALSE
    BY <1>0, <1>1, <1>5 DEF EndIoTake, Uses
<1>6. ASSUME NEW e \in Executors, EndIoDelete(e) \/ EndIoStart(e)
      PROVE  misuse' = FALSE
  <2>1. e = Worker
      BY <1>6 DEF EndIoDelete, EndIoStart, WorkerAlone, Executors
  <2>2. \A p \in endio[e].pkt : p \in alive
      BY <1>1, <1>6, <2>1 DEF EndIoDelete, EndIoStart, WorkerAlone
  <2>3. CASE EndIoDelete(e)
      BY <1>0, <2>2, <2>3 DEF EndIoDelete, Uses
  <2>4. CASE EndIoStart(e)
      BY <1>0, <2>2, <2>4 DEF EndIoStart, StartIo, Uses
  <2> QED BY <1>6, <2>3, <2>4
<1>7. ASSUME NEW e \in Executors, EndIoNext(e) \/ EndIoWake(e)
      PROVE  misuse' = FALSE
    BY <1>0, <1>7 DEF EndIoNext, EndIoWake
<1>8. CASE UNCHANGED DmaVars
    BY <1>0, <1>8 DEF DmaVars
<1> QED
    BY <1>2, <1>3, <1>4, <1>5, <1>6, <1>7, <1>8 DEF DmaNext

\* The engine moves on: the process that queues the first packet starts it, the
\* end of a transfer reaches EndIo, and EndIo looks at the queue after it has
\* unlinked its packet.
LEMMA QueueMovesStep == DmaInv /\ [DmaNext]_DmaVars => QueueMoves'
<1> SUFFICES ASSUME DmaInv, [DmaNext]_DmaVars
             PROVE  QueueMoves'
    OBVIOUS
<1> USE DEF DmaInv, DmaTypeOK, QueueMoves, HeadMoves, Executors
<1>1. ASSUME NEW u \in Users, ExcRead(u)
      PROVE  QueueMoves'
  <2>1. CASE dma_queue = <<>>
    <3>1. dma_queue' = Append(<<>>, u) /\ user'[u] = "start"
        BY <1>1, <2>1 DEF ExcRead, QueueRequest
    <3>2. Head(dma_queue') = u
        BY <3>1
    <3> QED BY <3>1, <3>2
  <2>2. CASE dma_queue # <<>>
    <3>1. /\ Head(dma_queue) \in Users /\ user[Head(dma_queue)] # "idle"
          /\ Head(Append(dma_queue, u)) = Head(dma_queue)
        BY <2>2, HeadFacts DEF QueueSound
    <3>2. /\ dma_queue' = Append(dma_queue, u) /\ user[u] = "idle"
          /\ \A v \in Users : v # u => user'[v] = user[v] /\ (v \in edge' <=> v \in edge)
          /\ flight' = flight /\ irq' = irq /\ work' = work /\ endio' = endio
        BY <1>1 DEF ExcRead, QueueRequest
    <3> QED BY <2>2, <3>1, <3>2
  <2> QED BY <2>1, <2>2
<1>2. ASSUME NEW u \in Users, QueueStart(u)
      PROVE  QueueMoves'
  <2>1. dma_queue # <<>> => Head(dma_queue) \in Users
      BY HeadFacts
  <2>2. CASE subtype = "807"
      BY <1>2, <2>2 DEF QueueStart, StartIo
  <2>3. CASE subtype # "807"
      BY <1>2, <2>1, <2>3 DEF QueueStart, StartIo
  <2> QED BY <2>2, <2>3
<1>3. ASSUME NEW u \in Users, QueueSleep(u) \/ QueueAsleep(u) \/ QueueWoken(u) \/ QueueDone(u)
      PROVE  QueueMoves'
  <2>1. dma_queue # <<>> => Head(dma_queue) \in Users
      BY HeadFacts
  <2> QED BY <1>3, <2>1 DEF QueueSleep, QueueAsleep, QueueWoken, QueueDone
<1>4. CASE TransferEnds \/ IsrDma \/ RunWork
    BY <1>4 DEF TransferEnds, IsrDma, RunWork
<1>5. ASSUME NEW e \in Executors, EndIoTake(e)
      PROVE  QueueMoves'
    BY <1>5 DEF EndIoTake
<1>6. ASSUME NEW e \in Executors, EndIoDelete(e) \/ EndIoNext(e)
      PROVE  QueueMoves'
    BY <1>6 DEF EndIoDelete, EndIoNext
<1>7. ASSUME NEW e \in Executors, EndIoStart(e)
      PROVE  QueueMoves'
  <2>1. CASE subtype = "807"
      BY <1>7, <2>1 DEF EndIoStart
  <2>2. CASE subtype # "807"
    <3>1. endio[e].pkt = {Head(dma_queue)}
        BY <1>7, <2>2 DEF EndIoStart, WorkerAlone
    <3> QED BY <1>7, <2>2, <3>1 DEF EndIoStart, StartIo
  <2> QED BY <2>1, <2>2
<1>8. ASSUME NEW e \in Executors, EndIoWake(e)
      PROVE  QueueMoves'
  <2>1. dma_queue # <<>> => Head(dma_queue) \in Users
      BY HeadFacts
  <2>2. e \in Users => user[e] = "inEndIo"
      BY <1>8 DEF EndIoWake, CallerInEndIo
  <2> QED BY <1>8, <2>1, <2>2 DEF EndIoWake, Leave, Quiet
<1>9. CASE UNCHANGED DmaVars
    BY <1>9 DEF DmaVars
<1> QED
    BY <1>1, <1>2, <1>3, <1>4, <1>5, <1>6, <1>7, <1>8, <1>9 DEF DmaNext

\* The invariant holds in every state of the queue.
LEMMA DmaInvariant == DmaSpec => []DmaInv
<1>1. ASSUME DmaInit
      PROVE  DmaInv
  <2> USE <1>1 DEF DmaInit, Executors, Quiet
  <2>0. Quiet \in [step : {"none", "take", "delete", "next", "start", "wake"},
                   pkt : SUBSET Users]
      OBVIOUS
  <2>1. DmaTypeOK
    <3> HIDE DEF Quiet
    <3>1. dma_queue \in Seq(Users) /\ flight \in Nat /\ requests \in Nat
        OBVIOUS
    <3>2. irq \in BOOLEAN /\ work \in BOOLEAN /\ misuse \in BOOLEAN
        BY Zenon
    <3> QED BY <2>0, <3>1, <3>2 DEF DmaTypeOK
  <2>2. PacketOfRequest /\ QueueSound /\ QueueMoves
      BY DEF PacketOfRequest, QueueSound, QueueMoves
  <2>3. StepHasPacket /\ CallerInEndIo /\ WorkerAlone /\ PacketAlive
      BY DEF StepHasPacket, CallerInEndIo, WorkerAlone, PacketAlive
  <2> QED BY <2>1, <2>2, <2>3 DEF DmaInv
<1>2. DmaInv /\ [DmaNext]_DmaVars => DmaInv'
    BY DmaTypeStep, RequestStep, QueueSoundStep, WorkerAloneStep, PacketAliveStep,
       QueueMovesStep DEF DmaInv
<1> QED
    BY <1>1, <1>2, PTL DEF DmaSpec

\* On a board with a completion interrupt neither QueueRequest nor EndIo uses a
\* packet its process has freed, for any number of processes.
THEOREM PacketsOutliveUse == DmaSpec => []PacketAlive
<1>1. DmaInv => PacketAlive
    BY DEF DmaInv
<1> QED
    BY <1>1, DmaInvariant, PTL

\* QueueRequest and EndIo, whose tests of the queue are outside the lock, never
\* leave the engine idle with a packet queued that StartIo would start.
THEOREM EngineNeverIdle == DmaSpec => []NeverIdle
<1>1. DmaInv => NeverIdle
  <2> SUFFICES ASSUME DmaInv, dma_queue # <<>>, Head(dma_queue) \notin edge
               PROVE  Progress
      BY DEF NeverIdle
  <2>1. Head(dma_queue) \in Users
      BY HeadFacts DEF DmaInv, DmaTypeOK
  <2> QED BY <2>1 DEF DmaInv, QueueMoves, HeadMoves, Progress
<1> QED
    BY <1>1, DmaInvariant, PTL
-----------------------------------------------------------------------------
(* DriverLoad *)

\* The cards that loading has not reached hold nothing.
Untouched(c) ==
    \/ phase = "unloaded"
    \/ phase = "find" /\ c >= cur
    \/ phase \in {"map", "hook", "buffer"} /\ c > cur

\* What a card holds is what exc_cleanup_module looks for: a mapped bank is in
\* the table of banks, and a hooked interrupt is in use.
TableSound ==
    \A c \in FoundCards :
       /\ Untouched(c) => dev[c] = Nothing
       /\ phase = "map" /\ c = cur => dev[c].mapped = {}
       /\ phase \in {"map", "hook"} /\ c = cur => ~dev[c].irq
       /\ dev[c].mapped \subseteq DOMAIN dev[c].banks
       /\ dev[c].irq => dev[c].usingIRQ
LoadInv == LoadTypeOK /\ TableSound /\ NothingLeft

\* The bus does not change while the driver is loaded.
LEMMA BusFixed ==
    [LoadNext]_LoadVars => /\ found' = found /\ bars' = bars /\ ids' = ids
                           /\ FoundCards' = FoundCards /\ Card' = Card
<1> SUFFICES ASSUME [LoadNext]_LoadVars
             PROVE  found' = found /\ bars' = bars /\ ids' = ids
    BY DEF FoundCards, Card, BankTables
<1>1. exc_init_module \/ ExcFindResources \/ MapBanks => found' = found /\ bars' = bars /\ ids' = ids
    BY DEF exc_init_module, ExcFindResources, MapBanks
<1>2. HookIrq \/ AllocBuffer \/ ExcAllocateMajorNumber => found' = found /\ bars' = bars /\ ids' = ids
    BY DEF HookIrq, AllocBuffer, ExcAllocateMajorNumber
<1>3. exc_cleanup_module \/ ExcMmap => found' = found /\ bars' = bars /\ ids' = ids
    BY DEF exc_cleanup_module, ExcMmap
<1> QED BY <1>1, <1>2, <1>3 DEF LoadNext, LoadVars

\* Loading, unloading and mmap keep the types and the table sound.
LEMMA LoadStep == LoadInv /\ [LoadNext]_LoadVars => LoadInv'
<1> SUFFICES ASSUME LoadInv, [LoadNext]_LoadVars
             PROVE  LoadInv'
    OBVIOUS
<1>0. /\ found' = found /\ ids' = ids /\ FoundCards' = FoundCards /\ Card' = Card
      /\ FoundCards = 1..Len(found) /\ Len(found) \in Nat
    BY BusFixed DEF FoundCards, LoadInv, LoadTypeOK
<1>a. /\ dev \in [FoundCards -> Card] /\ ids \in [FoundCards -> Nat]
      /\ phase \in {"find", "map", "hook", "buffer"} => cur \in FoundCards
    BY DEF LoadInv, LoadTypeOK
<1> USE <1>0
<1>1. CASE exc_init_module
    BY <1>1 DEF exc_init_module, LoadInv, LoadTypeOK, TableSound,
         Untouched, NothingLeft
<1>2. CASE ExcFindResources
  <2> DEFINE t == Layout(found[cur], bars[cur])
  <2>0. phase = "find" /\ UNCHANGED <<cur, chrdev, proc>>
      BY <1>2 DEF ExcFindResources
  <2>1. cur \in FoundCards /\ dev[cur] = Nothing /\ dev[cur] \in Card
      BY <1>a, <2>0 DEF LoadInv, TableSound, Untouched
  <2>2. t \in BankTables
      BY <2>1 DEF BankTables
  <2>3. CASE Refused(found[cur], t)
      BY <1>2, <2>3 DEF ExcFindResources, LoadInv, LoadTypeOK, TableSound,
         Untouched, NothingLeft
  <2>4. CASE ~Refused(found[cur], t)
    <3>1. PICK x \in BOOLEAN :
               dev' = [dev EXCEPT ![cur] = [@ EXCEPT !.banks = t, !.usingIRQ = x]]
        BY <1>2, <2>4 DEF ExcFindResources
    <3> DEFINE r == [dev[cur] EXCEPT !.banks = t, !.usingIRQ = x]
    <3>2. /\ r \in Card /\ r.banks = t /\ r.usingIRQ = x
          /\ r.mapped = dev[cur].mapped /\ r.irq = dev[cur].irq
        BY <2>1, <2>2 DEF Card
    <3>3. r.mapped = {} /\ r.irq = FALSE
        BY <2>1, <3>2 DEF Nothing
    <3>4. phase' = "map" /\ dev' = [dev EXCEPT ![cur] = r]
        BY <1>2, <2>4, <3>1 DEF ExcFindResources
    <3> HIDE DEF r, t
    <3> QED BY <2>0, <2>1, <3>2, <3>3, <3>4 DEF LoadInv, LoadTypeOK, TableSound,
         Untouched, NothingLeft
  <2> QED BY <2>3, <2>4
<1>3. CASE MapBanks
  <2> DEFINE all == DOMAIN dev[cur].banks
  <2>1. phase = "map" /\ cur \in FoundCards /\ UNCHANGED <<cur, chrdev, proc>>
      BY <1>3, <1>a DEF MapBanks
  <2>2. \E r \in Card :
           /\ dev' = [dev EXCEPT ![cur] = r] /\ phase' \in {"hook", "failed"}
           /\ r.mapped \subseteq DOMAIN r.banks
           /\ r.irq = dev[cur].irq /\ r.usingIRQ = dev[cur].usingIRQ
    <3>1. CASE \E bad \in all :
                  /\ dev' = [dev EXCEPT ![cur] = [@ EXCEPT !.mapped = {i \in all : i < bad}]]
                  /\ phase' = "failed"
      <4>1. PICK bad \in all :
                  /\ dev' = [dev EXCEPT ![cur] = [@ EXCEPT !.mapped = {i \in all : i < bad}]]
                  /\ phase' = "failed"
          BY <3>1
      <4>2. {i \in all : i < bad} \in SUBSET all
          OBVIOUS
      <4>3. LET r == [dev[cur] EXCEPT !.mapped = {i \in all : i < bad}]
            IN  /\ r \in Card /\ r.mapped \subseteq DOMAIN r.banks
                /\ r.irq = dev[cur].irq /\ r.usingIRQ = dev[cur].usingIRQ
          BY <1>a, <2>1, <4>2 DEF Card
      <4> QED BY <4>1, <4>3
    <3>2. CASE /\ dev' = [dev EXCEPT ![cur] =
                            [@ EXCEPT !.mapped = all,
                                      !.socket = IF Is4000(found[cur]) THEN ids[cur] ELSE 0]]
               /\ phase' = "hook"
      <4> DEFINE n == IF Is4000(found[cur]) THEN ids[cur] ELSE 0
      <4>1. n \in Nat
          BY <1>a, <2>1
      <4> HIDE DEF n
      <4>2. LET r == [dev[cur] EXCEPT !.mapped = all, !.socket = n]
            IN  /\ r \in Card /\ r.mapped \subseteq DOMAIN r.banks
                /\ r.irq = dev[cur].irq /\ r.usingIRQ = dev[cur].usingIRQ
          BY <1>a, <2>1, <4>1 DEF Card
      <4> QED BY <3>2, <4>2 DEF n
    <3> QED BY <1>3, <3>1, <3>2 DEF MapBanks
  <2> QED BY <2>1, <2>2 DEF LoadInv, LoadTypeOK, TableSound,
         Untouched, NothingLeft
<1>4. CASE HookIrq
  <2>1. phase = "hook" /\ phase' = "buffer" /\ cur \in FoundCards /\ UNCHANGED <<cur, chrdev, proc>>
      BY <1>4, <1>a DEF HookIrq
  <2>2. CASE dev' = dev
      BY <2>1, <2>2 DEF LoadInv, LoadTypeOK, TableSound,
         Untouched, NothingLeft
  <2>3. CASE \E x \in BOOLEAN :
                dev' = [dev EXCEPT ![cur] = [@ EXCEPT !.irq = x, !.usingIRQ = x]]
    <3>1. \E r \in Card : /\ dev' = [dev EXCEPT ![cur] = r]
                          /\ r.irq = r.usingIRQ
                          /\ r.banks = dev[cur].banks /\ r.mapped = dev[cur].mapped
      <4>1. PICK x \in BOOLEAN :
                 dev' = [dev EXCEPT ![cur] = [@ EXCEPT !.irq = x, !.usingIRQ = x]]
          BY <2>3
      <4>2. LET r == [dev[cur] EXCEPT !.irq = x, !.usingIRQ = x]
            IN  /\ r \in Card /\ r.irq = r.usingIRQ
                /\ r.banks = dev[cur].banks /\ r.mapped = dev[cur].mapped
          BY <1>a, <2>1 DEF Card
      <4> QED BY <4>1, <4>2
    <3> QED BY <2>1, <3>1 DEF LoadInv, LoadTypeOK, TableSound,
         Untouched, NothingLeft
  <2> QED BY <1>4, <2>2, <2>3 DEF HookIrq
<1>5. CASE AllocBuffer
  <2>1. /\ phase = "buffer" /\ cur \in FoundCards /\ UNCHANGED <<chrdev, proc>>
        /\ \/ cur < Len(found) /\ cur' = cur + 1 /\ phase' = "find"
           \/ cur' = cur /\ phase' = "register"
      BY <1>5, <1>a DEF AllocBuffer
  <2>2. PICK ok \in BOOLEAN :
             dev' = [dev EXCEPT ![cur] = [@ EXCEPT !.buffer = HasDma(found[cur]) /\ ok]]
      BY <1>5 DEF AllocBuffer
  <2>3. (HasDma(found[cur]) /\ ok) \in BOOLEAN
      BY Zenon
  <2>4. \E r \in Card : /\ dev' = [dev EXCEPT ![cur] = r]
                        /\ r.irq = dev[cur].irq /\ r.usingIRQ = dev[cur].usingIRQ
                        /\ r.banks = dev[cur].banks /\ r.mapped = dev[cur].mapped
    <3> DEFINE x == HasDma(found[cur]) /\ ok
    <3> HIDE DEF x
    <3>1. LET r == [dev[cur] EXCEPT !.buffer = x]
          IN  /\ r \in Card
              /\ r.irq = dev[cur].irq /\ r.usingIRQ = dev[cur].usingIRQ
              /\ r.banks = dev[cur].banks /\ r.mapped = dev[cur].mapped
        BY <1>a, <2>1, <2>3 DEF Card, x
    <3> QED BY <2>2, <3>1 DEF x
  <2> QED BY <2>1, <2>4 DEF LoadInv, LoadTypeOK, TableSound,
         Untouched, NothingLeft
<1>6. CASE ExcAllocateMajorNumber
    BY <1>6 DEF ExcAllocateMajorNumber, LoadInv, LoadTypeOK, TableSound,
         Untouched, NothingLeft
<1>7. CASE exc_cleanup_module
  <2>1. /\ phase' = "removed" /\ chrdev' = FALSE /\ proc' = FALSE /\ cur' = cur
        /\ dev' = [c \in FoundCards |->
                     [dev[c] EXCEPT !.irq = @ /\ ~dev[c].usingIRQ,
                                    !.mapped = @ \ DOMAIN dev[c].banks,
                                    !.buffer = FALSE]]
      BY <1>7 DEF exc_cleanup_module
  <2>2. ASSUME NEW c \in FoundCards
        PROVE  /\ dev'[c] \in Card /\ dev'[c].mapped = {}
               /\ dev'[c].irq = FALSE /\ dev'[c].buffer = FALSE
      BY <1>a, <2>1 DEF Card, LoadInv, TableSound
  <2>3. dev' \in [FoundCards -> Card]
      BY <2>1, <2>2
  <2>4. LoadTypeOK'
      BY <2>1, <2>3 DEF LoadInv, LoadTypeOK
  <2>5. TableSound'
      BY <2>1, <2>2 DEF TableSound, Untouched
  <2>6. NothingLeft'
      BY <2>1, <2>2 DEF NothingLeft
  <2> QED BY <2>4, <2>5, <2>6 DEF LoadInv
<1>8. CASE ExcMmap
    BY <1>8 DEF ExcMmap, LoadInv, LoadTypeOK, TableSound,
         Untouched, NothingLeft
<1>9. CASE UNCHANGED LoadVars
    BY <1>9 DEF LoadVars, LoadInv, LoadTypeOK, TableSound,
         Untouched, NothingLeft
<1> QED
    BY <1>1, <1>2, <1>3, <1>4, <1>5, <1>6, <1>7, <1>8, <1>9 DEF LoadNext

\* The invariant holds from loading to unloading.
LEMMA LoadInvariant == LoadSpec => []LoadInv
<1>1. ASSUME LoadInit
      PROVE  LoadInv
  <2>1. Nothing \in Card
      BY DEF Nothing, Card, BankTables
  <2>2. found \in Seq(Kinds) /\ ids \in [FoundCards -> Nat]
      BY <1>1 DEF LoadInit, FoundCards
  <2>3. chrdev \in BOOLEAN /\ proc \in BOOLEAN
      BY <1>1, Zenon DEF LoadInit
  <2>4. LoadTypeOK
      BY <1>1, <2>1, <2>2, <2>3 DEF LoadInit, LoadTypeOK
  <2> QED BY <1>1, <2>4 DEF LoadInit, LoadInv, TableSound, Untouched, NothingLeft, Nothing
<1>2. LoadInv /\ [LoadNext]_LoadVars => LoadInv'
    BY LoadStep
<1> QED
    BY <1>1, <1>2, PTL DEF LoadSpec

\* Unloading returns to the kernel all that loading took, for any number of
\* cards of any kind and whatever of the calls of the kernel failed.
THEOREM UnloadLeavesNothing == LoadSpec => []NothingLeft
<1>1. LoadInv => NothingLeft
    BY DEF LoadInv
<1> QED
    BY <1>1, LoadInvariant, PTL

\* The banks laid out over a memory lie inside its base address registers and
\* do not overlap.
Fits(banks, sizes) ==
    /\ \A i \in DOMAIN banks : /\ banks[i].bar \in DOMAIN sizes /\ sizes[banks[i].bar] \in Nat
                               /\ banks[i].off \in Nat /\ banks[i].len \in Nat \ {0}
                               /\ banks[i].off + banks[i].len <= sizes[banks[i].bar]
    /\ \A i, j \in DOMAIN banks : \/ i = j \/ banks[i].bar # banks[j].bar
                                  \/ banks[i].off + banks[i].len <= banks[j].off
                                  \/ banks[j].off + banks[j].len <= banks[i].off

\* The layouts of ExcFindResources, bank by bank.
LEMMA FourModules ==
    /\ DOMAIN Modules128K(4) = 0..3
    /\ \A i \in 0..3 : Modules128K(4)[i] = Bank(0, 32 * i, 32)
BY DEF Modules128K

LEMMA EightModules ==
    LET f == Skip4(Modules128K(8))
    IN  /\ DOMAIN f = (0..8) \ {4}
        /\ \A i \in DOMAIN f :
              /\ f[i].bar = 0 /\ f[i].len = 32 /\ f[i].off \in 0..224
              /\ \A j \in DOMAIN f : i < j => f[i].off + 32 <= f[j].off
<1> DEFINE f == Skip4(Modules128K(8))
<1>1. DOMAIN Modules128K(8) = 0..7 /\ \A i \in 0..7 : Modules128K(8)[i] = Bank(0, 32 * i, 32)
    BY DEF Modules128K
<1>2. {IF j < 4 THEN j ELSE j + 1 : j \in 0..7} = (0..8) \ {4}
  <2>1. \A i \in (0..8) \ {4} : \E j \in 0..7 : i = IF j < 4 THEN j ELSE j + 1
    <3> TAKE i \in (0..8) \ {4}
    <3> WITNESS (IF i < 4 THEN i ELSE i - 1) \in 0..7
    <3> QED OBVIOUS
  <2> QED BY <2>1
<1>3. DOMAIN f = (0..8) \ {4}
    BY <1>1, <1>2 DEF Skip4
<1>4. \A i \in (0..8) \ {4} : f[i] = Modules128K(8)[IF i < 4 THEN i ELSE i - 1]
    BY <1>1, <1>2 DEF Skip4
<1>5. \A i \in (0..8) \ {4} : (IF i < 4 THEN i ELSE i - 1) \in 0..7
    OBVIOUS
<1>6. \A i \in DOMAIN f : f[i] = Bank(0, 32 * (IF i < 4 THEN i ELSE i - 1), 32)
    BY <1>1, <1>3, <1>4, <1>5
<1> HIDE DEF f
<1>7. \A i \in DOMAIN f : f[i].bar = 0 /\ f[i].len = 32 /\ f[i].off = 32 * (IF i < 4 THEN i ELSE i - 1)
    BY <1>6 DEF Bank
<1>8. \A i \in DOMAIN f : f[i].off \in 0..224 /\ \A j \in DOMAIN f : i < j => f[i].off + 32 <= f[j].off
    BY <1>3, <1>7
<1> QED BY <1>3, <1>7, <1>8 DEF f

\* Every layout, for each kind of card and length of its memory, fits the card.
LEMMA LayoutFits ==
    ASSUME NEW k \in DOMAIN Lengths, NEW j \in DOMAIN Lengths[k]
    PROVE  Fits(Layout(k, Lengths[k][j]), Bars(k, Lengths[k][j]))
<1> DEFINE len == Lengths[k][j]
           f == Layout(k, len)
           sizes == Bars(k, len)
<1> SUFFICES Fits(f, sizes)
    OBVIOUS
<1> USE DEF Bank, GLOBAL, DMA
<1>1. CASE f = <<>>
    BY <1>1 DEF Fits
<1>2. CASE k \in {"c4000", "pcie"} /\ f # <<>>
  <2>1. len \in {128, 256, 64}
      BY <1>2 DEF Lengths
  <2> DEFINE g == Layout4000(len)
  <2>2. f = IF k = "c4000" THEN With(g, GLOBAL, Bank(1, 0, 1)) ELSE WithRegisters(g, 2, 4)
      BY <1>2 DEF Layout
  <2>3. sizes = IF k = "c4000" THEN [b \in 0..1 |-> IF b = 0 THEN len ELSE 1]
                ELSE [b \in {0, 2, 4} |-> IF b = 0 THEN len ELSE 1]
      BY <1>2 DEF Bars
  <2>4. len # 64
      BY <1>2 DEF Layout, Layout4000
  <2>5. CASE len = 128
    <3>1. DOMAIN g = 0..3 /\ \A i \in 0..3 : g[i] = Bank(0, 32 * i, 32)
        BY <2>5, FourModules DEF Layout4000
    <3> HIDE DEF len, f, g, sizes
    <3>2. CASE k = "c4000"
      <4>1. f = With(g, GLOBAL, Bank(1, 0, 1)) /\ sizes = [b \in 0..1 |-> IF b = 0 THEN 128 ELSE 1]
          BY <2>2, <2>3, <2>5, <3>2
      <4>2. DOMAIN f = DOMAIN g \cup {4} /\ f[4] = Bank(1, 0, 1) /\ \A i \in DOMAIN g : f[i] = g[i]
          BY <3>1, <4>1 DEF With
      <4> QED BY <3>1, <4>1, <4>2 DEF Fits
    <3>3. CASE k = "pcie"
      <4>1. f = WithRegisters(g, 2, 4) /\ sizes = [b \in {0, 2, 4} |-> IF b = 0 THEN 128 ELSE 1]
          BY <2>2, <2>3, <2>5, <3>3
      <4>2. /\ DOMAIN f = DOMAIN g \cup {4, 9} /\ f[4] = Bank(2, 0, 1) /\ f[9] = Bank(4, 0, 1)
            /\ \A i \in DOMAIN g : f[i] = g[i]
          BY <3>1, <4>1 DEF With, WithRegisters
      <4> QED BY <3>1, <4>1, <4>2 DEF Fits
    <3> QED BY <1>2, <3>2, <3>3
  <2>6. CASE len = 256
    <3>1. /\ DOMAIN g = (0..8) \ {4}
          /\ \A i \in DOMAIN g :
                /\ g[i].bar = 0 /\ g[i].len = 32 /\ g[i].off \in 0..224
                /\ \A m \in DOMAIN g : i < m => g[i].off + 32 <= g[m].off
        BY <2>6, EightModules DEF Layout4000
    <3> HIDE DEF len, f, g, sizes
    <3>2. CASE k = "c4000"
      <4>1. f = With(g, GLOBAL, Bank(1, 0, 1)) /\ sizes = [b \in 0..1 |-> IF b = 0 THEN 256 ELSE 1]
          BY <2>2, <2>3, <2>6, <3>2
      <4>2. DOMAIN f = DOMAIN g \cup {4} /\ f[4] = Bank(1, 0, 1) /\ \A i \in DOMAIN g : f[i] = g[i]
          BY <3>1, <4>1 DEF With
      <4> QED BY <3>1, <4>1, <4>2 DEF Fits
    <3>3. CASE k = "pcie"
      <4>1. f = WithRegisters(g, 2, 4) /\ sizes = [b \in {0, 2, 4} |-> IF b = 0 THEN 256 ELSE 1]
          BY <2>2, <2>3, <2>6, <3>3
      <4>2. /\ DOMAIN f = DOMAIN g \cup {4, 9} /\ f[4] = Bank(2, 0, 1) /\ f[9] = Bank(4, 0, 1)
            /\ \A i \in DOMAIN g : f[i] = g[i]
          BY <3>1, <4>1 DEF With, WithRegisters
      <4> QED BY <3>1, <4>1, <4>2 DEF Fits
    <3> QED BY <1>2, <3>2, <3>3
  <2> HIDE DEF len
  <2> QED BY <2>1, <2>4, <2>5, <2>6
<1>3. CASE k = "c807" /\ f # <<>>
  <2>1. len = 16384 /\ f = WithRegisters(Skip4(Modules128K(8)), 4, 2)
      BY <1>3 DEF Layout, Layout807
  <2>2. sizes = [b \in {0, 2, 4} |-> IF b = 0 THEN len ELSE 1]
      BY <1>3 DEF Bars
  <2> DEFINE g == Skip4(Modules128K(8))
  <2>3. /\ DOMAIN g = (0..8) \ {4}
        /\ \A i \in DOMAIN g :
                /\ g[i].bar = 0 /\ g[i].len = 32 /\ g[i].off \in 0..224
                /\ \A m \in DOMAIN g : i < m => g[i].off + 32 <= g[m].off
      BY EightModules
  <2> HIDE DEF len, f, g, sizes
  <2> QED BY <2>1, <2>2, <2>3 DEF Fits, WithRegisters, With, g
<1>4. CASE k \in {"c1394", "e1394"} /\ f # <<>>
  <2> DEFINE g == Layout1394(len)
  <2>1. f = IF k = "c1394" THEN With(g, GLOBAL, Bank(2, 0, 1)) ELSE WithRegisters(g, 2, 4)
      BY <1>4 DEF Layout
  <2>2. len = 2048 /\ g = [i \in 0..2 |-> Bank(0, 512 * i, 512)]
      BY <1>4 DEF Layout, Layout1394
  <2>3. sizes = [b \in {0, 2, 4} |-> IF b = 0 THEN len ELSE 1]
      BY <1>4 DEF Bars
  <2>4. DOMAIN g = 0..2 /\ \A i \in 0..2 : g[i] = Bank(0, 512 * i, 512)
      BY <2>2
  <2> HIDE DEF len, f, g, sizes
  <2>5. CASE k = "c1394"
    <3>1. f = With(g, GLOBAL, Bank(2, 0, 1)) /\ sizes = [b \in {0, 2, 4} |-> IF b = 0 THEN 2048 ELSE 1]
        BY <2>1, <2>2, <2>3, <2>5
    <3>2. DOMAIN f = DOMAIN g \cup {4} /\ f[4] = Bank(2, 0, 1) /\ \A i \in DOMAIN g : f[i] = g[i]
        BY <2>4, <3>1 DEF With
    <3> QED BY <2>4, <3>1, <3>2 DEF Fits
  <2>6. CASE k = "e1394"
    <3>1. f = WithRegisters(g, 2, 4) /\ sizes = [b \in {0, 2, 4} |-> IF b = 0 THEN 2048 ELSE 1]
        BY <2>1, <2>2, <2>3, <2>6
    <3>2. /\ DOMAIN f = DOMAIN g \cup {4, 9} /\ f[4] = Bank(2, 0, 1) /\ f[9] = Bank(4, 0, 1)
          /\ \A i \in DOMAIN g : f[i] = g[i]
        BY <2>4, <3>1 DEF With, WithRegisters
    <3> QED BY <2>4, <3>1, <3>2 DEF Fits
  <2> QED BY <1>4, <2>5, <2>6
<1>5. CASE k = "eth"
  <2>1. len = 65536 /\ f = LayoutETH
      BY <1>5 DEF Layout, Lengths
  <2>2. sizes = [b \in {0, 2, 4} |-> IF b = 0 THEN len ELSE 1]
      BY <1>5 DEF Bars
  <2> DEFINE g == Banks(<<Bank(0, 0, 32704), Bank(0, 32704, 32), Bank(0, 32736, 32),
                          Bank(0, 32768, 32704)>>)
  <2>3. /\ DOMAIN g = 0..3
        /\ g[0] = Bank(0, 0, 32704) /\ g[1] = Bank(0, 32704, 32)
        /\ g[2] = Bank(0, 32736, 32) /\ g[3] = Bank(0, 32768, 32704)
      BY DEF Banks
  <2>4. f = WithRegisters(g, 2, 4)
      BY <2>1 DEF LayoutETH
  <2> HIDE DEF len, f, g, sizes
  <2>5. /\ DOMAIN f = (0..3) \cup {4, 9} /\ f[4] = Bank(2, 0, 1) /\ f[9] = Bank(4, 0, 1)
        /\ \A i \in 0..3 : f[i] = g[i]
      BY <2>3, <2>4 DEF With, WithRegisters
  <2>6. sizes[0] = 65536 /\ sizes[2] = 1 /\ sizes[4] = 1 /\ DOMAIN sizes = {0, 2, 4}
      BY <2>1, <2>2
  <2> QED BY <2>3, <2>5, <2>6 DEF Fits
<1>6. CASE k = "afdx"
  <2>1. len = 65536 /\ f = LayoutAFDX
      BY <1>6 DEF Layout, Lengths
  <2>2. sizes = [b \in {0, 2, 4} |-> CASE b = 0 -> 256 [] b = 2 -> 2 [] OTHER -> len]
      BY <1>6 DEF Bars
  <2> DEFINE g == Banks(<<Bank(4, 0, 4096), Bank(4, 4096, 28672),
                          Bank(4, 32768, 4096), Bank(4, 36864, 28672)>>)
             h == With(With(g, 5, Bank(0, 128, 32)), 6, Bank(0, 160, 32))
  <2>3. /\ DOMAIN g = 0..3
        /\ g[0] = Bank(4, 0, 4096) /\ g[1] = Bank(4, 4096, 28672)
        /\ g[2] = Bank(4, 32768, 4096) /\ g[3] = Bank(4, 36864, 28672)
      BY DEF Banks
  <2>4. f = With(With(h, GLOBAL, Bank(2, 0, 1)), DMA, Bank(2, 1, 1))
      BY <2>1 DEF LayoutAFDX
  <2> HIDE DEF g
  <2>5. /\ DOMAIN h = (0..3) \cup {5, 6}
        /\ h[5] = Bank(0, 128, 32) /\ h[6] = Bank(0, 160, 32)
        /\ \A i \in 0..3 : h[i] = g[i]
      BY <2>3 DEF With
  <2> HIDE DEF len, f, h, sizes
  <2>6. /\ DOMAIN f = (0..3) \cup {5, 6, 4, 9} /\ f[4] = Bank(2, 0, 1) /\ f[9] = Bank(2, 1, 1)
        /\ f[5] = Bank(0, 128, 32) /\ f[6] = Bank(0, 160, 32)
        /\ \A i \in 0..3 : f[i] = g[i]
      BY <2>4, <2>5 DEF With
  <2>7. sizes[0] = 256 /\ sizes[2] = 2 /\ sizes[4] = 65536 /\ DOMAIN sizes = {0, 2, 4}
      BY <2>1, <2>2
  <2> QED BY <2>3, <2>6, <2>7 DEF Fits
<1>7. CASE k \in {"pcipx", "amcc"}
  <2>1. len = 8
      BY <1>7 DEF Lengths
  <2>2. k = "pcipx" => /\ f = LayoutPCIPX
                       /\ sizes = [b \in 0..4 |-> IF b = 0 THEN 1 ELSE len]
      BY DEF Layout, Bars
  <2>3. k = "amcc" => /\ f = [i \in 0..3 |-> Bank(i + 1, 0, 8)]
                      /\ sizes = [b \in 1..4 |-> len]
      BY DEF Layout, Bars
  <2> HIDE DEF len, f, sizes
  <2> QED BY <1>7, <2>1, <2>2, <2>3 DEF Fits, LayoutPCIPX
<1>8. k \in {"c4000", "pcie", "c807", "eth", "afdx", "c1394", "e1394", "pcipx", "amcc"}
    BY DEF Lengths
<1> HIDE DEF f, len, sizes
<1> QED BY <1>1, <1>2, <1>3, <1>4, <1>5, <1>6, <1>7, <1>8

\* Every card's memory has one of the lengths of its kind, its banks are the
\* ones laid out over that memory, and a page a process has mapped is in one
\* of the banks of the card, or is the page of an unused slot.
BanksSound ==
    /\ \A c \in FoundCards :
          /\ dev[c].banks \in {<<>>, Layout(found[c], bars[c])}
          /\ \E j \in DOMAIN Lengths[found[c]] : bars[c] = Lengths[found[c]][j]
    /\ maps # {} => phase = "loaded"
    /\ \A m \in maps :
          \/ m.bar = PHYSICAL /\ m.page = 0
          \/ \E i \in DOMAIN dev[m.card].banks :
                LET b == dev[m.card].banks[i]
                IN  /\ m.page \in Int /\ m.bar = b.bar
                    /\ m.page >= b.off /\ m.page + 1 <= b.off + b.len

\* Only ExcFindResources changes the banks of a card, and only mmap, which looks
\* at every page of the range, adds a mapping.
LEMMA BanksStep == LoadInv /\ BanksSound /\ [LoadNext]_LoadVars => BanksSound'
<1> SUFFICES ASSUME LoadInv, BanksSound, [LoadNext]_LoadVars
             PROVE  BanksSound'
    OBVIOUS
<1>0. found' = found /\ bars' = bars /\ FoundCards' = FoundCards
    BY BusFixed
<1>a. dev \in [FoundCards -> Card]
    BY DEF LoadInv, LoadTypeOK
<1>s. \A c \in FoundCards : \A i \in 0..(MAX_BANKS - 1) :
         /\ Slot(c, i).off \in Nat /\ Slot(c, i).len \in Nat
         /\ i \in DOMAIN dev[c].banks => Slot(c, i).len > 0
  <2> SUFFICES ASSUME NEW c \in FoundCards, NEW i \in 0..(MAX_BANKS - 1)
               PROVE  /\ Slot(c, i).off \in Nat /\ Slot(c, i).len \in Nat
                      /\ i \in DOMAIN dev[c].banks => Slot(c, i).len > 0
      OBVIOUS
  <2>1. found[c] \in DOMAIN Lengths
      BY KindsAssumption DEF LoadInv, LoadTypeOK, FoundCards
  <2>2. Fits(Layout(found[c], bars[c]), Bars(found[c], bars[c]))
      BY <2>1, LayoutFits DEF BanksSound
  <2>3. CASE i \in DOMAIN dev[c].banks
    <3>1. dev[c].banks = Layout(found[c], bars[c])
        BY <2>3 DEF BanksSound
    <3>2. Slot(c, i) = dev[c].banks[i]
        BY <2>3 DEF Slot
    <3> QED BY <2>2, <2>3, <3>1, <3>2 DEF Fits
  <2>4. CASE i \notin DOMAIN dev[c].banks
      BY <2>4 DEF Slot, Unused, Bank
  <2> QED BY <2>3, <2>4
<1>b. ASSUME NEW r, dev' = [dev EXCEPT ![cur] = r], r.banks = dev[cur].banks, maps' = maps,
             maps = {}
      PROVE  BanksSound'
    BY <1>0, <1>a, <1>b DEF BanksSound
<1>1. CASE exc_init_module \/ ExcAllocateMajorNumber
    BY <1>0, <1>1 DEF exc_init_module, ExcAllocateMajorNumber, BanksSound
<1>2. CASE ExcFindResources
  <2>1. maps' = maps /\ maps = {}
      BY <1>2 DEF ExcFindResources, BanksSound
  <2>2. \/ dev' = dev
        \/ \E x \in BOOLEAN :
              dev' = [dev EXCEPT ![cur] = [@ EXCEPT !.banks = Layout(found[cur], bars[cur]),
                                                    !.usingIRQ = x]]
      BY <1>2 DEF ExcFindResources
  <2>3. \A c \in FoundCards : dev'[c].banks \in {<<>>, Layout(found[c], bars[c])}
    <3>1. CASE dev' = dev
        BY <3>1 DEF BanksSound
    <3>2. CASE dev' # dev
      <4> DEFINE t == Layout(found[cur], bars[cur])
      <4>1. PICK x \in BOOLEAN :
                 dev' = [dev EXCEPT ![cur] = [@ EXCEPT !.banks = t, !.usingIRQ = x]]
          BY <2>2, <3>2
      <4>2. \A c \in FoundCards : c # cur => dev'[c] = dev[c]
          BY <1>a, <4>1
      <4>3. cur \in FoundCards => dev'[cur].banks = t
          BY <1>a, <4>1 DEF Card
      <4> QED BY <4>2, <4>3 DEF BanksSound
    <3> QED BY <3>1, <3>2
  <2> QED BY <1>0, <2>1, <2>3 DEF BanksSound
<1>3. CASE MapBanks \/ HookIrq \/ AllocBuffer
  <2>1. maps' = maps /\ maps = {} /\ cur \in FoundCards
      BY <1>3 DEF MapBanks, HookIrq, AllocBuffer, BanksSound, LoadInv, LoadTypeOK
  <2>2. CASE MapBanks
    <3>1. PICK m, n : \/ dev' = [dev EXCEPT ![cur] = [@ EXCEPT !.mapped = m, !.socket = n]]
                      \/ dev' = [dev EXCEPT ![cur] = [@ EXCEPT !.mapped = m]]
        BY <2>2 DEF MapBanks
    <3> QED BY <1>a, <1>b, <2>1, <3>1 DEF Card
  <2>3. CASE HookIrq
    <3>1. CASE dev' = dev
        BY <1>0, <2>1, <3>1 DEF BanksSound
    <3>2. CASE dev' # dev
      <4>1. PICK x \in BOOLEAN : dev' = [dev EXCEPT ![cur] = [@ EXCEPT !.irq = x, !.usingIRQ = x]]
          BY <2>3, <3>2 DEF HookIrq
      <4> QED BY <1>a, <1>b, <2>1, <4>1 DEF Card
    <3> QED BY <3>1, <3>2
  <2>4. CASE AllocBuffer
    <3>1. PICK x : dev' = [dev EXCEPT ![cur] = [@ EXCEPT !.buffer = x]]
        BY <2>4 DEF AllocBuffer
    <3> QED BY <1>a, <1>b, <2>1, <3>1 DEF Card
  <2> QED BY <1>3, <2>2, <2>3, <2>4
<1>4. CASE exc_cleanup_module
  <2>1. maps' = {} /\ \A c \in FoundCards : dev'[c].banks = dev[c].banks
      BY <1>4, <1>a DEF exc_cleanup_module, Card
  <2> QED BY <1>0, <2>1 DEF BanksSound
<1>5. CASE ExcMmap
  <2>1. phase = "loaded" /\ phase' = phase /\ dev' = dev
      BY <1>5 DEF ExcMmap
  <2>2. PICK c, bar, first, n :
             /\ c \in FoundCards
             /\ exc_range_is_allowed(c, bar, first, n)
             /\ first \in Int
             /\ maps' = {[card |-> c, bar |-> bar, page |-> p] : p \in first..(first + n - 1)}
    <3>1. PICK minor : \E c \in mGetCardFromMinorNumberInt(minor) :
             \E i \in 0..(MAX_BANKS - 1), n \in 1..2 :
                \E first \in {Slot(c, i).off, Slot(c, i).off + Pages(Slot(c, i)) - 1,
                              Slot(c, i).off + Pages(Slot(c, i))} :
                   /\ exc_range_is_allowed(c, Slot(c, i).bar, first, n)
                   /\ maps' = {[card |-> c, bar |-> Slot(c, i).bar, page |-> p]
                                  : p \in first..(first + n - 1)}
        BY <1>5 DEF ExcMmap
    <3>2. PICK c \in mGetCardFromMinorNumberInt(minor), i \in 0..(MAX_BANKS - 1), n \in 1..2 :
                \E first \in {Slot(c, i).off, Slot(c, i).off + Pages(Slot(c, i)) - 1,
                              Slot(c, i).off + Pages(Slot(c, i))} :
                   /\ exc_range_is_allowed(c, Slot(c, i).bar, first, n)
                   /\ maps' = {[card |-> c, bar |-> Slot(c, i).bar, page |-> p]
                                  : p \in first..(first + n - 1)}
        BY <3>1
    <3>3. c \in FoundCards
        BY DEF mGetCardFromMinorNumberInt
    <3>4. Slot(c, i).off \in Int /\ Slot(c, i).len \in Int
        BY <3>3, <1>s
    <3> QED BY <3>2, <3>3, <3>4 DEF Pages
  <2>3. ASSUME NEW m \in maps'
        PROVE  \/ m.bar = PHYSICAL /\ m.page = 0
               \/ \E i \in DOMAIN dev[m.card].banks :
                     LET b == dev[m.card].banks[i]
                     IN  /\ m.page \in Int /\ m.bar = b.bar
                         /\ m.page >= b.off /\ m.page + 1 <= b.off + b.len
    <3>1. PICK p \in first..(first + n - 1) : m = [card |-> c, bar |-> bar, page |-> p]
        BY <2>2
    <3>2. PICK i \in 0..(MAX_BANKS - 1) :
             /\ Slot(c, i).bar = bar /\ p >= Slot(c, i).off
             /\ p + 1 <= Slot(c, i).off + Pages(Slot(c, i))
        BY <2>2 DEF exc_range_is_allowed
    <3>3. CASE i \in DOMAIN dev[c].banks
      <4>1. Slot(c, i) = dev[c].banks[i]
          BY <3>3 DEF Slot
      <4>2. Slot(c, i).len \in Int /\ Slot(c, i).len > 0
          BY <2>2, <3>3, <4>1, <1>s
      <4> QED BY <2>2, <3>1, <3>2, <3>3, <4>1, <4>2 DEF Pages
    <3>4. CASE i \notin DOMAIN dev[c].banks
      <4>1. Slot(c, i) = Unused
          BY <3>4 DEF Slot
      <4> QED BY <2>2, <3>1, <3>2, <4>1 DEF Unused, Bank, Pages
    <3> QED BY <3>3, <3>4
  <2> QED BY <1>0, <2>1, <2>3 DEF BanksSound
<1>6. CASE UNCHANGED LoadVars
    BY <1>0, <1>6 DEF LoadVars, BanksSound
<1> QED
    BY <1>1, <1>2, <1>3, <1>4, <1>5, <1>6 DEF LoadNext

\* The banks that ExcFindResources lays out lie inside the memory of the card and
\* do not overlap, and what mmap admits is memory of the card that was opened,
\* for any number of cards.
THEOREM MappedMemoryIsCards == LoadSpec => []BanksFit
<1>1. LoadInit => BanksSound
  <2> SUFFICES ASSUME LoadInit
               PROVE  BanksSound
      OBVIOUS
  <2>1. \A c \in FoundCards : dev[c].banks = <<>>
      BY DEF LoadInit, Nothing
  <2> QED BY <2>1 DEF LoadInit, BanksSound
<1>2. LoadInv /\ BanksSound /\ [LoadNext]_LoadVars => BanksSound'
    BY BanksStep
<1>3. LoadInv /\ BanksSound => BanksFit
  <2> SUFFICES ASSUME LoadInv, BanksSound, NEW c \in FoundCards
               PROVE  /\ Fits(dev[c].banks, Bars(found[c], bars[c]))
                      /\ \A m \in maps : m.card = c =>
                            \/ m.bar = PHYSICAL /\ m.page = 0
                            \/ /\ m.bar \in DOMAIN Bars(found[c], bars[c])
                               /\ m.page \in 0..(Bars(found[c], bars[c])[m.bar] - 1)
      BY DEF BanksFit, Fits
  <2>1. found[c] \in DOMAIN Lengths
      BY KindsAssumption DEF LoadInv, LoadTypeOK, FoundCards
  <2>2. Fits(Layout(found[c], bars[c]), Bars(found[c], bars[c]))
      BY <2>1, LayoutFits DEF BanksSound
  <2>3. Fits(dev[c].banks, Bars(found[c], bars[c]))
      BY <2>2 DEF BanksSound, Fits
  <2>4. ASSUME NEW m \in maps, m.card = c, ~(m.bar = PHYSICAL /\ m.page = 0)
        PROVE  /\ m.bar \in DOMAIN Bars(found[c], bars[c])
               /\ m.page \in 0..(Bars(found[c], bars[c])[m.bar] - 1)
    <3>1. PICK i \in DOMAIN dev[c].banks :
               /\ m.page \in Int /\ m.bar = dev[c].banks[i].bar
               /\ m.page >= dev[c].banks[i].off
               /\ m.page + 1 <= dev[c].banks[i].off + dev[c].banks[i].len
        BY <2>4 DEF BanksSound
    <3>2. /\ dev[c].banks[i].bar \in DOMAIN Bars(found[c], bars[c])
          /\ dev[c].banks[i].off \in Nat /\ dev[c].banks[i].len \in Nat
          /\ Bars(found[c], bars[c])[dev[c].banks[i].bar] \in Nat
          /\ dev[c].banks[i].off + dev[c].banks[i].len
                <= Bars(found[c], bars[c])[dev[c].banks[i].bar]
        BY <2>3 DEF Fits
    <3> QED BY <3>1, <3>2
  <2> QED BY <2>3, <2>4
<1> QED
    BY <1>1, <1>2, <1>3, LoadInvariant, PTL DEF LoadSpec
=============================================================================
